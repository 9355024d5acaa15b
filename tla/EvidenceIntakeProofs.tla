------------------------- MODULE EvidenceIntakeProofs -------------------------
(***************************************************************************)
(* Proofs about EvidenceIntake: the order in which the ledger takes the    *)
(* bundles of a publisher, for any number of publishers, incarnations and  *)
(* topologies, and what honest evidence says about the fabric, for rosters *)
(* of any size.                                                            *)
(***************************************************************************)
EXTENDS EvidenceIntake, AssessmentProofs, SequenceFacts

-----------------------------------------------------------------------------
(* The ledger.                                                             *)

Typed ==
  /\ topology \in Int
  /\ accepted \in Seq(Bundles)
  /\ \A i \in 1..Len(accepted) : accepted[i].topology <= topology
  /\ \A p \in DOMAIN ledger.cursors : ledger.cursors[p].last \in Int

\* accepted[i] was taken under the topology that is adopted now.
Present(i) == accepted[i].topology = topology

\* What the cursor and the retired boots remember of a bundle taken under the
\* topology of now: its incarnation is the cursor's, which has not gone back,
\* or it is retired.
Remembered(i) ==
  LET b == accepted[i]
  IN  /\ b.publisher \in DOMAIN ledger.cursors
      /\ \/ /\ b.boot = ledger.cursors[b.publisher].boot
            /\ b.sequence <= ledger.cursors[b.publisher].last
         \/ b.boot \in ledger.retired

CursorOrder == \A i \in 1..Len(accepted) : Present(i) => Remembered(i)

\* An incarnation that another one of its publisher has followed is retired.
Followed ==
  \A i, j \in 1..Len(accepted) :
    /\ i < j /\ Present(i) /\ Present(j)
    /\ accepted[i].publisher = accepted[j].publisher
    /\ accepted[i].boot # accepted[j].boot
    => accepted[i].boot \in ledger.retired

IInv == Typed /\ CursorOrder /\ Followed /\ PublisherOrder

\* What a publisher may send is a bundle.
LEMMA BundleTyped ==
  ASSUME NEW p \in Publishers, NEW i \in Incarnations, NEW n \in 1..MaxSequence,
         NEW g \in 1..Len(Topologies), NEW at \in 0..MaxTick, NEW claim \in Claims
  PROVE  Bundle(p, i, n, g, at, claim) \in Bundles
  BY DEF Bundle, Bundles

LEMMA InitIInv == Init => IInv
<1> SUFFICES ASSUME Init PROVE IInv
  OBVIOUS
<1>1. /\ accepted \in Seq(Bundles) /\ Len(accepted) = 0 /\ topology \in Int
      /\ DOMAIN ledger.cursors = {}
  BY Short DEF Init, EmptyLedger
<1> QED
  BY <1>1 DEF IInv, Typed, CursorOrder, Followed, PublisherOrder

\* accept, the whole of it.
LEMMA IngestKeeps ==
  ASSUME IInv, NEW b \in Bundles, IngestEvidence(b)
  PROVE  IInv'
<1> DEFINE n == Len(accepted) + 1
<1>1. /\ accepted \in Seq(Bundles) /\ accepted' = Append(accepted, b) /\ topology' = topology
      /\ topology \in Int /\ b.topology = topology /\ b.sequence \in Int
      /\ b.boot \notin ledger.retired /\ InOrder(ledger, b)
      /\ ledger' = Accept(ledger, b)
  BY DEF IInv, Typed, IngestEvidence, Acceptable, Bundles
<1>2. /\ accepted' \in Seq(Bundles) /\ Len(accepted') = n /\ Len(accepted) \in Nat
      /\ \A i \in 1..Len(accepted) : accepted'[i] = accepted[i]
      /\ accepted'[n] = b
  BY <1>1, Written
<1>3. \A i \in 1..Len(accepted') : i \in 1..Len(accepted) \/ i = n
  BY <1>2
<1>4. \A i \in 1..Len(accepted) : accepted[i] \in Bundles
  BY <1>1, Element
<1>5. \A i \in 1..Len(accepted) : accepted[i].sequence \in Int /\ accepted[i].topology \in Int
  BY <1>4 DEF Bundles
<1> DEFINE replaced == /\ b.publisher \in DOMAIN ledger.cursors
                       /\ ledger.cursors[b.publisher].boot # b.boot
<1>7. /\ DOMAIN ledger'.cursors = DOMAIN ledger.cursors \cup {b.publisher}
      /\ ledger'.cursors[b.publisher].boot = b.boot
      /\ ledger'.cursors[b.publisher].last = b.sequence
      /\ \A p \in DOMAIN ledger.cursors : p # b.publisher => ledger'.cursors[p] = ledger.cursors[p]
      /\ ledger.retired \subseteq ledger'.retired
      /\ replaced => ledger.cursors[b.publisher].boot \in ledger'.retired
  BY <1>1 DEF Accept, Replaces
<1>6. Typed'
  BY <1>1, <1>2, <1>3, <1>5, <1>7 DEF IInv, Typed
<1>8. /\ b.publisher \in DOMAIN ledger.cursors /\ ledger.cursors[b.publisher].boot = b.boot
      => b.sequence > ledger.cursors[b.publisher].last
  BY <1>1 DEF InOrder
\* What was remembered of the publisher of b before.
<1>9. ASSUME NEW i \in 1..Len(accepted), Present(i), accepted[i].publisher = b.publisher
      PROVE  /\ accepted[i].boot = b.boot => accepted[i].sequence < b.sequence
             /\ accepted[i].boot # b.boot => accepted[i].boot \in ledger'.retired
  <2>1. Remembered(i)
    BY <1>9 DEF IInv, CursorOrder
  <2>2. CASE accepted[i].boot \in ledger.retired
    BY <1>1, <1>7, <2>2
  <2>3. CASE /\ accepted[i].boot = ledger.cursors[b.publisher].boot
             /\ accepted[i].sequence <= ledger.cursors[b.publisher].last
             /\ b.publisher \in DOMAIN ledger.cursors
    <3>1. CASE ledger.cursors[b.publisher].boot = b.boot
      <4>1. ledger.cursors[b.publisher].last \in Int
        BY <2>3 DEF IInv, Typed
      <4> QED
        BY <1>1, <1>5, <1>8, <2>3, <3>1, <4>1
    <3>2. CASE ledger.cursors[b.publisher].boot # b.boot
      BY <1>7, <2>3, <3>2
    <3> QED
      BY <3>1, <3>2
  <2> QED
    BY <1>9, <2>1, <2>2, <2>3 DEF Remembered
<1>10. CursorOrder'
  <2> SUFFICES ASSUME NEW i \in 1..Len(accepted'), Present(i)' PROVE Remembered(i)'
    BY DEF CursorOrder
  <2>1. CASE i = n
    BY <1>1, <1>2, <1>7, <2>1 DEF Remembered
  <2>2. CASE i \in 1..Len(accepted)
    <3>1. Present(i) /\ Remembered(i) /\ accepted'[i] = accepted[i]
      BY <1>1, <1>2, <2>2 DEF Present, IInv, CursorOrder
    <3>2. CASE accepted[i].publisher = b.publisher
      BY <1>1, <1>5, <1>7, <1>9, <2>2, <3>1, <3>2 DEF Remembered
    <3>3. CASE accepted[i].publisher # b.publisher
      BY <1>7, <3>1, <3>3 DEF Remembered
    <3> QED
      BY <3>2, <3>3
  <2> QED
    BY <1>3, <2>1, <2>2
<1>11. Followed'
  <2> SUFFICES ASSUME NEW i \in 1..Len(accepted'), NEW j \in 1..Len(accepted'), i < j,
                      Present(i)', Present(j)',
                      accepted'[i].publisher = accepted'[j].publisher,
                      accepted'[i].boot # accepted'[j].boot
               PROVE  accepted'[i].boot \in ledger'.retired
    BY DEF Followed
  <2>1. i \in 1..Len(accepted) /\ accepted'[i] = accepted[i] /\ Present(i)
    BY <1>1, <1>2 DEF Present
  <2>2. CASE j = n
    BY <1>2, <1>9, <2>1, <2>2
  <2>3. CASE j \in 1..Len(accepted)
    <3>1. Present(j) /\ accepted'[j] = accepted[j]
      BY <1>1, <1>2, <2>3 DEF Present
    <3> QED
      BY <1>7, <2>1, <2>3, <3>1 DEF IInv, Followed
  <2> QED
    BY <1>3, <2>2, <2>3
<1>12. PublisherOrder'
  <2> SUFFICES ASSUME NEW i \in 1..Len(accepted'), NEW j \in 1..Len(accepted'), i < j,
                      accepted'[i].publisher = accepted'[j].publisher,
                      accepted'[i].topology = accepted'[j].topology
               PROVE  /\ accepted'[i].boot = accepted'[j].boot
                           => accepted'[i].sequence < accepted'[j].sequence
                      /\ accepted'[i].boot # accepted'[j].boot =>
                           \A k \in j..Len(accepted') :
                             accepted'[k].topology = accepted'[j].topology
                               => accepted'[k].boot # accepted'[i].boot
    BY DEF PublisherOrder
  <2>1. i \in 1..Len(accepted) /\ accepted'[i] = accepted[i]
    BY <1>2
  <2>2. CASE j = n
    <3>1. Present(i) /\ accepted[i].publisher = b.publisher
      BY <1>1, <1>2, <2>1, <2>2 DEF Present
    <3>2. \A k \in j..Len(accepted') : k = n
      BY <1>2, <2>2
    <3> QED
      BY <1>2, <1>9, <2>1, <2>2, <3>1, <3>2
  <2>3. CASE j \in 1..Len(accepted)
    <3>1. accepted'[j] = accepted[j]
      BY <1>2, <2>3
    <3>2. accepted[i].boot = accepted[j].boot => accepted[i].sequence < accepted[j].sequence
      BY <2>1, <2>3, <3>1 DEF IInv, PublisherOrder
    <3>3. ASSUME accepted[i].boot # accepted[j].boot, NEW k \in j..Len(accepted'),
                 accepted'[k].topology = accepted[j].topology
          PROVE  accepted'[k].boot # accepted[i].boot
      <4>1. k \in j..Len(accepted) \/ k = n
        BY <1>2, <2>3
      <4>2. CASE k \in j..Len(accepted)
        <5>1. k \in 1..Len(accepted) /\ accepted'[k] = accepted[k]
          BY <1>2, <2>3, <4>2
        <5> QED
          BY <2>1, <2>3, <3>1, <3>3, <4>2, <5>1 DEF IInv, PublisherOrder
      <4>3. CASE k = n
        <5>1. Present(i) /\ Present(j)
          BY <1>1, <1>2, <2>1, <3>1, <3>3, <4>3 DEF Present
        <5>2. accepted[i].boot \in ledger.retired
          BY <2>1, <2>3, <3>1, <3>3, <5>1 DEF IInv, Followed
        <5> QED
          BY <1>1, <1>2, <4>3, <5>2
      <4> QED
        BY <4>1, <4>2, <4>3
    <3> QED
      BY <2>1, <3>1, <3>2, <3>3
  <2> QED
    BY <1>3, <2>2, <2>3
<1> QED
  BY <1>6, <1>10, <1>11, <1>12 DEF IInv

\* A new topology forgets the cursors, and nothing taken before it is current.
LEMMA AdoptKeeps ==
  ASSUME IInv, NEW g \in 1..Len(Topologies), AdoptTopology(g)
  PROVE  IInv'
<1>1. /\ accepted' = accepted /\ accepted \in Seq(Bundles)
      /\ topology' = g /\ g > topology /\ g \in Int
      /\ topology \in Int
  BY DEF AdoptTopology, IInv, Typed
<1>2. \A i \in 1..Len(accepted) : accepted[i] \in Bundles
  BY <1>1, Element
<1>3. \A i \in 1..Len(accepted) : accepted[i].topology \in Int /\ accepted[i].topology <= topology
  BY <1>2 DEF Bundles, IInv, Typed
<1>4. \A i \in 1..Len(accepted) : accepted[i].topology <= g /\ accepted[i].topology # g
  BY <1>1, <1>3
<1>5. \A i \in 1..Len(accepted') : ~Present(i)'
  BY <1>1, <1>4 DEF Present
<1>6. DOMAIN ledger'.cursors = {}
  BY DEF AdoptTopology, EmptyLedger
<1>7. Typed'
  BY <1>1, <1>4, <1>6 DEF Typed
<1>8. CursorOrder' /\ Followed'
  BY <1>5 DEF CursorOrder, Followed
<1>9. PublisherOrder'
  BY <1>1 DEF IInv, PublisherOrder
<1> QED
  BY <1>7, <1>8, <1>9 DEF IInv

LEMMA StepIInv == IInv /\ [Next]_vars => IInv'
<1> SUFFICES ASSUME IInv, [Next]_vars PROVE IInv'
  OBVIOUS
<1>1. ASSUME NEW p \in Publishers, NEW i \in Incarnations, NEW n \in 1..MaxSequence,
             NEW g \in 1..Len(Topologies), NEW at \in 0..MaxTick, NEW claim \in Claims,
             IngestEvidence(Bundle(p, i, n, g, at, claim))
      PROVE  IInv'
  BY <1>1, BundleTyped, IngestKeeps
<1>2. CASE AdvanceTicks \/ UNCHANGED vars
  BY SMTT(30), <1>2 DEF AdvanceTicks, vars, IInv, Typed, CursorOrder, Followed, PublisherOrder,
     Present, Remembered
<1> QED
  BY <1>1, <1>2, AdoptKeeps DEF Next

LEMMA Invariance == Spec => []IInv
  BY InitIInv, StepIInv, PTL DEF Spec

\* Late, duplicated and reordered deliveries, restarts of publishers and new
\* topologies never make the ledger take a publisher's bundles in another order
\* than the publisher's.
THEOREM OrderKept == Spec => []PublisherOrder
  BY Invariance, PTL DEF IInv

\* And no bundle is taken twice, although a new topology forgets every cursor.
THEOREM NoDuplicates == Spec => []NeverAcceptedTwice
<1>1. ASSUME IInv PROVE NeverAcceptedTwice
  <2> SUFFICES ASSUME NEW i \in 1..Len(accepted), NEW j \in 1..Len(accepted),
                      accepted[i] = accepted[j], i # j
               PROVE  FALSE
    BY DEF NeverAcceptedTwice
  <2>1. i < j \/ j < i
    OBVIOUS
  <2>2. accepted \in Seq(Bundles)
    BY <1>1 DEF IInv, Typed
  <2>3. accepted[i] \in Bundles
    BY <2>2, Element
  <2>4. accepted[i].sequence \in Int
    BY <2>3 DEF Bundles
  <2>5. accepted[i].sequence < accepted[j].sequence \/ accepted[j].sequence < accepted[i].sequence
    BY <1>1, <2>1 DEF IInv, PublisherOrder
  <2> QED
    BY <2>4, <2>5
<1> QED
  BY <1>1, Invariance, PTL

-----------------------------------------------------------------------------
(* What honest evidence says of the fabric.                                *)

\* The links of a fabric that work both ways.
TwoWay(truth) == {{p[1], p[2]} : p \in {q \in truth : <<q[2], q[1]>> \in truth}}

\* An edge of the snapshot needs two observations, and honest ones are true.
LEMMA HonestEdges ==
  ASSUME NEW ev, NEW truth \in SUBSET OrderedPairs(ev.roster),
         \A b \in ev.fresh : Honest(b, truth)
  PROVE  Edges(ev) \subseteq TwoWay(truth)
<1>1. ASSUME NEW s, NEW t, ResolveOrdered(ev, s, t) = Reachable
      PROVE  <<s, t>> \in truth
  <2>1. Reachable \in Observed(ev, s, t)
    BY <1>1 DEF ResolveOrdered, Reachable, Unreachable, Conflicting, Stale, Unknown
  <2>2. PICK b \in ev.fresh : <<s, t, Reachable>> \in b.links
    BY <2>1 DEF Observed
  <2>3. Honest(b, truth)
    BY <2>2
  <2> QED
    BY <2>2, <2>3 DEF Honest
<1> SUFFICES ASSUME NEW p \in ev.roster \X ev.roster, p[1] # p[2], Edge(ev, p[1], p[2])
             PROVE  {p[1], p[2]} \in TwoWay(truth)
  BY DEF Edges
<1>2. <<p[1], p[2]>> \in truth /\ <<p[2], p[1]>> \in truth
  BY <1>1 DEF Edge
<1> DEFINE q == <<p[1], p[2]>>
<1>3. q \in truth /\ <<q[2], q[1]>> \in truth /\ {q[1], q[2]} = {p[1], p[2]}
  BY <1>2
<1> QED
  BY <1>3 DEF TwoWay

\* A pair that is proven unreachable by honest evidence is not linked.
LEMMA HonestUnreachable ==
  ASSUME NEW ev, NEW truth, NEW s, NEW t, \A b \in ev.fresh : Honest(b, truth),
         ResolveByTable(ev, s, t) = Unreachable
  PROVE  <<s, t>> \notin truth
<1> SUFFICES ASSUME <<s, t>> \in truth PROVE FALSE
  OBVIOUS
<1>1. \/ \E b \in ev.fresh : <<s, t, Unreachable>> \in b.links
      \/ \E b \in ev.fresh : s \in b.covered /\ <<s, t, Reachable>> \notin b.links
  BY DEF ResolveByTable, Reachable, Unreachable, Conflicting, Stale, Unknown
<1>2. CASE \E b \in ev.fresh : <<s, t, Unreachable>> \in b.links
  BY <1>2 DEF Honest, Reachable, Unreachable
<1>3. CASE \E b \in ev.fresh : s \in b.covered /\ <<s, t, Reachable>> \notin b.links
  BY <1>3 DEF Honest
<1> QED
  BY <1>1, <1>2, <1>3

\* A decomposition from honest evidence refines the fabric's, and is the
\* fabric's when every pair that crosses it is proven unreachable.
LEMMA HonestDecomposition ==
  ASSUME NEW ev, NEW truth \in SUBSET OrderedPairs(ev.roster),
         \A b \in ev.fresh : Honest(b, truth)
  PROVE  LET groups == Components(ev.roster, Edges(ev))
             fabric == Components(ev.roster, TwoWay(truth))
         IN  /\ \A c \in groups : \E d \in fabric : c \subseteq d
             /\ (\A p \in OrderedPairs(ev.roster) :
                   p[2] \notin Home(groups, p[1])
                     => ResolveByTable(ev, p[1], p[2]) = Unreachable)
                => groups = fabric
<1> DEFINE groups == Components(ev.roster, Edges(ev))
           fabric == Components(ev.roster, TwoWay(truth))
<1>1. Edges(ev) \subseteq TwoWay(truth)
  BY HonestEdges
<1>2. \A e \in TwoWay(truth) : e \subseteq ev.roster
  BY DEF TwoWay, OrderedPairs
<1>3. ASSUME NEW s \in ev.roster
      PROVE  (\E c \in groups : s \in c) /\ (\E d \in fabric : s \in d)
  BY <1>1, <1>2, ComponentExists
<1>4. \A c \in groups \cup fabric : c \subseteq ev.roster /\ c # {}
  BY DEF Components
<1>5. ASSUME NEW c \in groups PROVE \E d \in fabric : c \subseteq d
  <2>1. PICK s \in c : s \in ev.roster
    BY <1>4
  <2>2. PICK d \in fabric : s \in d
    BY <1>3, <2>1
  <2> QED
    BY <1>1, <2>1, <2>2, CoarserWithMoreEdges
<1>6. ASSUME \A p \in OrderedPairs(ev.roster) :
               p[2] \notin Home(groups, p[1]) => ResolveByTable(ev, p[1], p[2]) = Unreachable
      PROVE  groups = fabric
  <2>1. ASSUME NEW c \in groups, NEW s \in c PROVE Home(groups, s) = c
    <3>1. Home(groups, s) \in groups /\ s \in Home(groups, s)
      BY <2>1 DEF Home
    <3> QED
      BY <2>1, <3>1, ComponentsDisjoint
  <2>2. ASSUME NEW c \in groups, NEW s \in c, NEW t, <<s, t>> \in truth PROVE t \in c
    <3>1. <<s, t>> \in OrderedPairs(ev.roster) /\ <<s, t>>[1] = s /\ <<s, t>>[2] = t
      BY <2>2
    <3>2. ResolveByTable(ev, s, t) # Unreachable
      BY <2>2, HonestUnreachable
    <3> QED
      BY <1>6, <2>1, <2>2, <3>1, <3>2
  <2>3. ASSUME NEW c \in groups PROVE c \in fabric
    <3>1. Closed(TwoWay(truth), c)
      <4> SUFFICES ASSUME NEW p \in truth, <<p[2], p[1]>> \in truth
                   PROVE  {p[1], p[2]} \subseteq c \/ {p[1], p[2]} \cap c = {}
        BY DEF Closed, TwoWay
      <4>1. p = <<p[1], p[2]>>
        BY DEF OrderedPairs
      <4> QED
        BY <2>2, <4>1
    <3> QED
      BY <1>1, <3>1 DEF Components, Closed
  <2>4. ASSUME NEW d \in fabric PROVE d \in groups
    <3>1. PICK s \in d : s \in ev.roster
      BY <1>4
    <3>2. PICK c \in groups : s \in c
      BY <1>3, <3>1
    <3>3. c = d
      BY <2>3, <3>1, <3>2, ComponentsDisjoint
    <3> QED
      BY <3>2, <3>3
  <2> QED
    BY <2>3, <2>4
<1> QED
  BY <1>5, <1>6

-----------------------------------------------------------------------------
(* The evidence the ledger resolves to is finite and well formed.          *)

LedgerInv ==
  /\ topology \in 1..Len(Topologies)
  /\ tick \in 0..MaxTick
  /\ IsFiniteSet(ledger.retained) /\ Cardinality(ledger.retained) <= MaxRetained
  /\ ledger.retained \subseteq Bundles
  /\ \A b \in ledger.retained : WellFormed(b, Roster)
  /\ DOMAIN ledger.cursors \subseteq Publishers
  /\ \A p \in DOMAIN ledger.cursors : ledger.cursors[p].boot \in Publishers \X Incarnations
  /\ ledger.retired \subseteq Publishers \X Incarnations

LEMMA EmptyLedgerFacts ==
  /\ EmptyLedger.retained = {} /\ DOMAIN EmptyLedger.cursors = {} /\ EmptyLedger.retired = {}
  /\ IsFiniteSet({}) /\ Cardinality({}) = 0
  BY FS_EmptySet DEF EmptyLedger

LEMMA InitLedger == Init => LedgerInv
<1> SUFFICES ASSUME Init PROVE LedgerInv
  OBVIOUS
<1>1. topology \in 1..Len(Topologies) /\ tick \in 0..MaxTick /\ ledger = EmptyLedger
  BY IntakeAssumption DEF Init
<1> QED
  BY <1>1, EmptyLedgerFacts, MaxRetainedAssumption DEF LedgerInv

LEMMA StepLedger == LedgerInv /\ [Next]_vars => LedgerInv'
<1> SUFFICES ASSUME LedgerInv, [Next]_vars PROVE LedgerInv'
  OBVIOUS
<1>1. ASSUME NEW b \in Bundles, IngestEvidence(b) PROVE LedgerInv'
  <2>1. /\ topology' = topology /\ tick' = tick /\ ledger' = Accept(ledger, b)
        /\ WellFormed(b, Roster) /\ Cardinality(ledger.retained) < MaxRetained
    BY <1>1 DEF IngestEvidence, Acceptable, HasRoom
  <2>2. ledger'.retained = ledger.retained \cup {b}
    BY <2>1 DEF Accept
  <2>3. IsFiniteSet(ledger'.retained) /\ Cardinality(ledger'.retained) <= MaxRetained
    <3>1. IsFiniteSet(ledger.retained) /\ Cardinality(ledger.retained) \in Nat
      BY FS_CardinalityType DEF LedgerInv
    <3>2. CASE b \in ledger.retained
      <4>1. ledger'.retained = ledger.retained
        BY <2>2, <3>2
      <4> QED
        BY <4>1 DEF LedgerInv
    <3>3. CASE b \notin ledger.retained
      <4>1. /\ IsFiniteSet(ledger.retained \cup {b})
            /\ Cardinality(ledger.retained \cup {b}) = Cardinality(ledger.retained) + 1
        BY <3>1, <3>3, FS_AddElement
      <4> QED
        BY <2>1, <2>2, <3>1, <4>1, MaxRetainedAssumption
    <3> QED
      BY <3>2, <3>3
  <2>4. b.publisher \in Publishers /\ b.boot \in Publishers \X Incarnations
    BY DEF Bundles
  <2>5. /\ DOMAIN ledger'.cursors = DOMAIN ledger.cursors \cup {b.publisher}
        /\ ledger'.cursors[b.publisher].boot = b.boot
        /\ \A p \in DOMAIN ledger.cursors :
             p # b.publisher => ledger'.cursors[p] = ledger.cursors[p]
        /\ \/ ledger'.retired = ledger.retired
           \/ /\ b.publisher \in DOMAIN ledger.cursors
              /\ ledger'.retired = ledger.retired \cup {ledger.cursors[b.publisher].boot}
    BY <2>1 DEF Accept, Replaces
  <2>6. Roster' = Roster
    BY <2>1 DEF Roster
  <2> QED
    BY <2>1, <2>2, <2>3, <2>4, <2>5, <2>6 DEF LedgerInv
<1>2. CASE AdvanceTicks
  <2>1. /\ topology' = topology /\ ledger' = ledger /\ Roster' = Roster
        /\ tick' \in 0..MaxTick
    BY <1>2, IntakeAssumption DEF AdvanceTicks, Roster, LedgerInv
  <2> QED
    BY <2>1 DEF LedgerInv
<1>3. ASSUME NEW g \in 1..Len(Topologies), AdoptTopology(g) PROVE LedgerInv'
  <2>1. topology' = g /\ ledger' = EmptyLedger /\ tick' = tick
    BY <1>3 DEF AdoptTopology
  <2> QED
    BY <2>1, EmptyLedgerFacts, MaxRetainedAssumption DEF LedgerInv
<1>4. CASE UNCHANGED vars
  BY <1>4 DEF vars, LedgerInv, Roster
<1> QED
  BY <1>1, <1>2, <1>3, <1>4, BundleTyped DEF Next

LEMMA LedgerInvariance == Spec => []LedgerInv
  BY InitLedger, StepLedger, PTL DEF Spec

\* The ledger never outgrows max_retained_evidence, whatever is delivered.
THEOREM LedgerTypeCorrect == Spec => []TypeOK
<1>1. IInv /\ LedgerInv => TypeOK
  BY DEF IInv, Typed, LedgerInv, TypeOK
<1> QED
  BY <1>1, Invariance, LedgerInvariance, PTL

LEMMA NowFacts ==
  ASSUME LedgerInv
  PROVE  Now.roster = Roster /\ SoundEvidence(Now)
<1>1. /\ Now.roster = Roster
      /\ Now.fresh \subseteq ledger.retained /\ Now.stale \subseteq ledger.retained
  BY DEF Now, Evidence
<1>2. IsFiniteSet(Roster)
  BY IntakeAssumption DEF LedgerInv, Roster
<1>3. IsFiniteSet(Now.fresh)
  BY <1>1, FS_Subset DEF LedgerInv
<1>4. \A b \in Now.fresh \cup Now.stale, s \in Now.roster, v \in {Reachable, Unreachable} :
        <<s, s, v>> \notin b.links
  <2> SUFFICES ASSUME NEW b \in ledger.retained, NEW s, NEW v, <<s, s, v>> \in b.links PROVE FALSE
    BY <1>1
  <2>1. WellFormed(b, Roster)
    BY DEF LedgerInv
  <2>2. \A l \in b.links : l[1] # l[2]
    BY <2>1 DEF WellFormed
  <2> DEFINE l == <<s, s, v>>
  <2>3. l \in b.links /\ l[1] = l[2]
    OBVIOUS
  <2> QED
    BY <2>2, <2>3
<1> QED
  BY <1>1, <1>2, <1>3, <1>4 DEF SoundEvidence, FiniteEvidence

-----------------------------------------------------------------------------
(* What a snapshot reports, on rosters of any size.                        *)

\* Every counter of a snapshot is the number of pairs it names, and the five
\* ordered categories add up to N * (N - 1): the closed forms never drift from
\* the pairwise reading, whatever was delivered in whatever order.
THEOREM CountersAreExact == Spec => []CountersExact
<1>1. ASSUME LedgerInv PROVE CountersExact
  <2> DEFINE ev == Now
             counters == OrderedCounters(ev)
             P == OrderedPairs(Roster)
             resolved == [p \in P |-> ResolveByTable(ev, p[1], p[2])]
             n == Cardinality(Roster)
  <2>1. ev.roster = Roster /\ SoundEvidence(ev)
    BY <1>1, NowFacts
  <2> HIDE DEF ev
  <2>2. \A p \in P : /\ <<p[2], p[1]>> \in P
                     /\ resolved[p] = ResolveOrdered(ev, p[1], p[2])
                     /\ resolved[<<p[2], p[1]>>] = ResolveOrdered(ev, p[2], p[1])
    BY <2>1, ResolveAgrees DEF OrderedPairs, SoundEvidence
  <2>3. DOMAIN resolved = P
    OBVIOUS
  <2> HIDE DEF resolved, P
  <2>4. DOMAIN counters = Categories
        /\ \A value \in Categories :
             counters[value] = Cardinality({p \in P : ResolveOrdered(ev, p[1], p[2]) = value})
    <3>1. Reachable \in Categories
      BY DEF Categories
    <3> QED
      BY <2>1, <3>1, CounterTotals DEF P
  <2>5. \A value \in Categories : {p \in DOMAIN resolved : resolved[p] = value}
                                    = {p \in P : ResolveOrdered(ev, p[1], p[2]) = value}
    BY <2>2, <2>3
  <2>6. \A value \in DOMAIN counters :
          counters[value] = Cardinality({p \in DOMAIN resolved : resolved[p] = value})
    <3> HIDE DEF counters
    <3> QED
      BY <2>4, <2>5
  <2>7. MapThenSumSet(LAMBDA v : counters[v], DOMAIN counters) = n * (n - 1)
    BY <2>1, CategoriesAddUp
  <2>8. OrderedAsymmetric(ev) =
          Cardinality({p \in DOMAIN resolved : /\ resolved[p] \in {Reachable, Unreachable}
                                               /\ resolved[<<p[2], p[1]>>] = Unknown})
    <3>1. {p \in DOMAIN resolved : /\ resolved[p] \in {Reachable, Unreachable}
                                   /\ resolved[<<p[2], p[1]>>] = Unknown}
            = {p \in P : /\ ResolveOrdered(ev, p[1], p[2]) \in {Reachable, Unreachable}
                         /\ ResolveOrdered(ev, p[2], p[1]) = Unknown}
      BY <2>2, <2>3
    <3> QED
      BY <2>1, <3>1, AsymmetricCounts DEF P
  <2>9. OrderedContradictory(ev) =
          Cardinality({p \in DOMAIN resolved : /\ resolved[p] = Reachable
                                               /\ resolved[<<p[2], p[1]>>] = Unreachable})
    <3>1. {p \in DOMAIN resolved : /\ resolved[p] = Reachable
                                   /\ resolved[<<p[2], p[1]>>] = Unreachable}
            = {p \in P : /\ ResolveOrdered(ev, p[1], p[2]) = Reachable
                         /\ ResolveOrdered(ev, p[2], p[1]) = Unreachable}
      BY <2>2, <2>3
    <3> QED
      BY <2>1, <3>1, ContradictoryCounts DEF P
  <2> QED
    BY <2>6, <2>7, <2>8, <2>9 DEF CountersExact, ev, resolved, P
<1> QED
  BY <1>1, LedgerInvariance, PTL

\* A snapshot is CONFIRMED exactly when every pair that crosses a boundary is
\* proven unreachable, whatever the components, the claims and the exceptions.
THEOREM ConfirmedIsProven == Spec => []ConfirmedExact
<1>1. ASSUME LedgerInv PROVE ConfirmedExact
  <2> DEFINE ev == Now
  <2>1. ev.roster = Roster /\ FiniteEvidence(ev)
    BY <1>1, NowFacts DEF SoundEvidence
  <2> HIDE DEF ev
  <2>2. LET groups == Components(Roster, Edges(ev))
        IN  Confirmed(ev, groups) <=>
              \A p \in OrderedPairs(Roster) :
                p[2] \notin Home(groups, p[1]) => ResolveByTable(ev, p[1], p[2]) = Unreachable
    BY <2>1, ConfirmedByTable
  <2> QED
    BY <2>2 DEF ConfirmedExact, ev
<1> QED
  BY <1>1, LedgerInvariance, PTL

\* Evidence that is honest, however incomplete, never joins what is apart, and
\* a CONFIRMED decomposition is the fabric's own.
THEOREM HonestIsSound == Spec => []HonestEvidenceIsSound
<1>1. ConfirmedExact => HonestEvidenceIsSound
  <2> DEFINE ev == Now
             groups == Components(Roster, Edges(ev))
  <2>1. ev.roster = Roster
    BY DEF Now, Evidence
  <2> HIDE DEF ev
  <2> SUFFICES ASSUME ConfirmedExact, NEW truth \in SUBSET OrderedPairs(Roster),
                      \A b \in ev.fresh : Honest(b, truth)
               PROVE  /\ \A c \in groups :
                           \E d \in Components(Roster, TwoWay(truth)) : c \subseteq d
                      /\ Confirmed(ev, groups) => groups = Components(Roster, TwoWay(truth))
    BY DEF HonestEvidenceIsSound, TwoWay, ev
  <2>2. Confirmed(ev, groups) =>
          \A p \in OrderedPairs(Roster) :
            p[2] \notin Home(groups, p[1]) => ResolveByTable(ev, p[1], p[2]) = Unreachable
    BY DEF ConfirmedExact, ev
  <2> QED
    BY <2>1, <2>2, HonestDecomposition
<1> QED
  BY <1>1, ConfirmedIsProven, PTL
=============================================================================
