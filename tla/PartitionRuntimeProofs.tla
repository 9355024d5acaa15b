------------------------- MODULE PartitionRuntimeProofs -------------------------
(***************************************************************************)
(* Theorems of PartitionRuntime, for every roster, policy, request mix,    *)
(* bound and limit; and, at the end, of ApplicationState, whose tables are *)
(* superposed on the runtime.                                              *)
(***************************************************************************)
EXTENDS ApplicationState, AssessmentProofs, SequenceFacts, FiniteSetTheorems

-----------------------------------------------------------------------------
(* Helpers.                                                                *)

\* The elements at some places of a sequence.
LEMMA AtIsSeq ==
  ASSUME NEW s, IsSeq(s), NEW places, places \subseteq DOMAIN s
  PROVE  IsSeq(At(s, places))
<1>1. IsFiniteSet(places)
  <2>1. Len(s) \in Nat /\ DOMAIN s = 1..Len(s)  BY SeqElim
  <2>2. IsFiniteSet(1..Len(s))  BY <2>1, FS_Interval
  <2> QED  BY <2>1, <2>2, FS_Subset
<1>2. Cardinality(places) \in Nat
  BY <1>1, FS_CardinalityType
<1>3. At(s, places) = [k \in 1..Cardinality(places) |-> At(s, places)[k]]
  BY DEF At
<1> QED
  BY <1>2, <1>3, SeqIntro

LEMMA FencesAreSeq ==
  ASSUME NEW s, NEW targets, IsSeq(targets)
  PROVE  IsSeq(MakeFences(s, targets)) /\ Len(MakeFences(s, targets)) = Len(targets)
<1>1. Len(targets) \in Nat /\ DOMAIN targets = 1..Len(targets)  BY SeqElim
<1>2. MakeFences(s, targets) = [i \in 1..Len(targets) |-> MakeFences(s, targets)[i]]
  BY <1>1 DEF MakeFences
<1> QED  BY <1>1, <1>2, SeqIntro

LEMMA TargetsAreSeq ==
  ASSUME NEW ps, NEW epoch, IsSeq(ps)
  PROVE  IsSeq(FenceTargets(ps, epoch)) /\ Len(FenceTargets(ps, epoch)) = Len(ps)
<1>1. Len(ps) \in Nat /\ DOMAIN ps = 1..Len(ps)  BY SeqElim
<1>2. FenceTargets(ps, epoch) = [i \in 1..Len(ps) |-> FenceTargets(ps, epoch)[i]]
  BY <1>1 DEF FenceTargets
<1> QED  BY <1>1, <1>2, SeqIntro

LEMMA FittingIsSeq ==
  ASSUME NEW present, NEW new, IsSeq(present), IsSeq(new)
  PROVE  IsSeq(Fitting(present, new))
<1>1. Len(present) \in Nat /\ Len(new) \in Nat /\ MaxFences \in Nat
  BY SeqElim, RuntimeAssumption
<1> DEFINE room == Max({MaxFences - Len(present), 0})
           n    == Min({Len(new), room})
<1>2. room \in Nat
  <2>1. MaxFences - Len(present) \in Int /\ 0 \in Int  BY <1>1
  <2>2. room \in {MaxFences - Len(present), 0} /\ room >= 0  BY <2>1, MaxOfTwo, Zenon
  <2> QED  BY <2>1, <2>2
<1> HIDE DEF room
<1>3. n \in Nat
  <2>1. Len(new) \in Int /\ room \in Int  BY <1>1, <1>2
  <2>2. n \in {Len(new), room}  BY <2>1, MinOfTwo, Zenon
  <2> QED  BY <1>1, <1>2, <2>2
<1>4. Fitting(present, new) = SubSeq(new, 1, n)
  BY DEF Fitting, room
<1> HIDE DEF n
<1>5. SubSeq(new, 1, n) = [i \in 1..n |-> SubSeq(new, 1, n)[i]]
  BY <1>3
<1> QED  BY <1>3, <1>4, <1>5, SeqIntro

LEMMA RecordsAreSeq ==
  ASSUME NEW type, NEW bodies, IsSeq(bodies)
  PROVE  /\ IsSeq(RecordsOf(type, bodies))
         /\ \A r \in Range(RecordsOf(type, bodies)) : r.type = type
<1>1. Len(bodies) \in Nat /\ DOMAIN bodies = 1..Len(bodies)  BY SeqElim
<1>2. RecordsOf(type, bodies) = [i \in 1..Len(bodies) |-> RecordsOf(type, bodies)[i]]
  BY <1>1 DEF RecordsOf
<1>3. \A r \in Range(RecordsOf(type, bodies)) : r.type = type
  BY DEF RecordsOf, Record, Range
<1> QED  BY <1>1, <1>2, <1>3, SeqIntro

LEMMA GrantedIsSeq ==
  ASSUME NEW ps, IsSeq(ps)
  PROVE  IsSeq(Granted(ps)) /\ IsSeq(Marks(ps))
<1>1. IsSeq(Granted(ps))
  BY AtIsSeq DEF Granted, Grants
<1>2. Len(Granted(ps)) \in Nat /\ DOMAIN Granted(ps) = 1..Len(Granted(ps))
  BY <1>1, SeqElim
<1>3. Marks(ps) = [i \in 1..Len(Granted(ps)) |-> Marks(ps)[i]]
  BY <1>2 DEF Marks
<1> QED  BY <1>1, <1>2, <1>3, SeqIntro

-----------------------------------------------------------------------------
(* The lineage step: one commit per partition, by recursion on its place.  *)

CommitTyped(acc) == acc.last \in Nat /\ IsSeq(acc.written)

LEMMA CommitPartitionTyped ==
  ASSUME NEW acc, CommitTyped(acc), NEW p, NEW fresh, NEW io
  PROVE  CommitTyped(CommitPartition(acc, p, fresh, io))
<1> DEFINE event == IF p.parents = {} THEN "GENESIS" ELSE "SPLIT"
           r == LineageRecord(acc.last + 1, p, event, p.parents)
<1>1. r.sequence \in Nat
  BY DEF LineageRecord, CommitTyped
<1>2. IsSeq(Append(acc.written, r))
  <2>1. acc.written \in Seq(Range(acc.written))  BY DEF CommitTyped, IsSeq
  <2>2. Append(acc.written, r) \in Seq(Range(acc.written) \cup {r})
    <3> DEFINE T == Range(acc.written) \cup {r}
    <3>1. acc.written \in Seq(T)  BY <2>1, SeqMonotonic
    <3> HIDE DEF r
    <3> QED  BY <3>1
  <2> QED  BY <2>2, SeqIsSeq
<1>3. CommitTyped(Commit(acc, r, io))
  <2> HIDE DEF r
  <2> QED  BY <1>1, <1>2 DEF CommitTyped, Commit
<1> QED
  BY <1>3 DEF CommitPartition

\* The lineage step, place by place.
LEMMA CommitLineageSteps ==
  ASSUME NEW lineages, NEW last, NEW ps, IsSeq(ps), NEW fresh, NEW io
  PROVE  \E after :
           /\ CommitLineage(lineages, last, ps, fresh, io) = after[Len(ps)]
           /\ after[0] = [store |-> lineages, last |-> last, written |-> <<>>]
           /\ \A i \in 1..Len(ps) :
                after[i] = CommitPartition(after[i - 1], ps[i], fresh, io)
<1> DEFINE k == Len(ps)
           start == [store |-> lineages, last |-> last, written |-> <<>>]
           step(x, i) == CommitPartition(x, ps[i], fresh, io)
           Runs(g, m) == g = [i \in 0..m |-> IF i = 0 THEN start ELSE step(g[i - 1], i)]
           after == CHOOSE g : Runs(g, k)
<1>1. k \in Nat
  BY SeqElim
<1>2. CommitLineage(lineages, last, ps, fresh, io) = after[k]
  BY DEF CommitLineage
<1> HIDE DEF start, step, k
<1>3. \E g : Runs(g, k)
  <2> DEFINE Missing == {m \in Nat : ~\E g : Runs(g, m)}
  <2>1. SUFFICES ASSUME Missing # {} PROVE FALSE
    BY <1>1
  <2>2. PICK m \in Missing : \A l \in Missing : m <= l
    <3>1. Missing \subseteq Nat  OBVIOUS
    <3> HIDE DEF Missing
    <3> QED  BY <2>1, <3>1, LeastNatural
  <2>3. CASE m = 0
    <3>1. Runs([i \in 0..0 |-> start], 0)  OBVIOUS
    <3> QED  BY <2>3, <3>1
  <2>4. CASE m # 0
    <3>1. m - 1 \in Nat /\ m - 1 \notin Missing
      <4>1. m \in Nat  OBVIOUS
      <4>2. m - 1 \in Nat /\ ~(m <= m - 1)  BY <2>4, <4>1
      <4> HIDE DEF Missing
      <4> QED  BY <2>2, <4>2
    <3>2. PICK g : Runs(g, m - 1)  BY <3>1
    <3> DEFINE h == [i \in 0..m |-> IF i = m THEN step(g[m - 1], m) ELSE g[i]]
    <3>3. ASSUME NEW i \in 0..m
          PROVE  h[i] = IF i = 0 THEN start ELSE step(h[i - 1], i)
      <4>1. CASE i = m
        <5>1. i - 1 \in 0..m /\ i - 1 # m /\ i # 0  BY <4>1, <2>4, <3>1
        <5>2. h[i - 1] = g[m - 1]  BY <4>1, <5>1
        <5>3. h[i] = step(g[m - 1], m)  BY <4>1
        <5> QED  BY <4>1, <5>1, <5>2, <5>3
      <4>2. CASE i # m
        <5>1. i \in 0..(m - 1)  BY <4>2, <3>1
        <5>2. g[i] = IF i = 0 THEN start ELSE step(g[i - 1], i)  BY <3>2, <5>1
        <5>3. h[i] = g[i]  BY <4>2
        <5>4. i # 0 => h[i - 1] = g[i - 1]  BY <5>1, <3>1
        <5> QED  BY <5>2, <5>3, <5>4
      <4> QED  BY <4>1, <4>2
    <3>4. Runs(h, m)
      <4>1. h = [i \in 0..m |-> h[i]]  OBVIOUS
      <4> HIDE DEF h
      <4> QED  BY <3>3, <4>1
    <3> QED  BY <3>4
  <2> QED  BY <2>3, <2>4
<1>4. Runs(after, k)
  <2> HIDE DEF Runs
  <2> QED  BY <1>3
<1>5. after = [i \in 0..k |-> IF i = 0 THEN start ELSE step(after[i - 1], i)]
  BY <1>4
<1> HIDE DEF after
<1>6. after[0] = start /\ \A i \in 1..k : after[i] = step(after[i - 1], i)
  <2>1. 0 \in 0..k /\ \A i \in 1..k : i \in 0..k /\ i # 0  BY <1>1
  <2> QED  BY <1>5, <2>1
<1> QED
  BY <1>2, <1>6 DEF start, step, k

LEMMA CommitLineageTyped ==
  ASSUME NEW lineages, NEW last \in Nat, NEW ps, IsSeq(ps), NEW fresh, NEW io
  PROVE  CommitTyped(CommitLineage(lineages, last, ps, fresh, io))
<1>1. PICK after :
        /\ CommitLineage(lineages, last, ps, fresh, io) = after[Len(ps)]
        /\ after[0] = [store |-> lineages, last |-> last, written |-> <<>>]
        /\ \A i \in 1..Len(ps) : after[i] = CommitPartition(after[i - 1], ps[i], fresh, io)
  BY CommitLineageSteps
<1>2. Len(ps) \in Nat
  BY SeqElim
<1>3. CommitTyped(after[0])
  BY <1>1, EmptyIsSeq DEF CommitTyped
<1>4. CommitTyped(after[Len(ps)])
  <2> DEFINE Wrong == {i \in 0..Len(ps) : ~CommitTyped(after[i])}
  <2>1. SUFFICES ASSUME Wrong # {} PROVE FALSE
    BY <1>2
  <2>2. PICK i \in Wrong : \A j \in Wrong : i <= j
    <3>1. Wrong \subseteq Nat  BY <1>2
    <3> HIDE DEF Wrong
    <3> QED  BY <2>1, <3>1, LeastNatural
  <2>3. i \in 1..Len(ps) /\ ~CommitTyped(after[i])  BY <1>2, <1>3
  <2>4. i - 1 \in 0..Len(ps) /\ i - 1 \notin Wrong
    <3>1. i - 1 \in 0..Len(ps) /\ ~(i <= i - 1)  BY <2>3, <1>2
    <3> HIDE DEF Wrong
    <3> QED  BY <2>2, <3>1
  <2>5. CommitTyped(after[i - 1])  BY <2>4
  <2> QED  BY <1>1, <2>3, <2>5, CommitPartitionTyped
<1> QED
  BY <1>1, <1>4

-----------------------------------------------------------------------------
(* The partitions of an assessment.                                        *)

LEMMA BuiltIsSeq ==
  ASSUME NEW roster \in Range(Topologies), NEW g, NEW bundles, NEW age, NEW now,
         NEW lineages, NEW generation
  PROVE  IsSeq(BuildPartitions(lineages, Snapshot(roster, g, bundles, age, now).groups,
                               generation))
<1> DEFINE groups == Snapshot(roster, g, bundles, age, now).groups
           order == CanonicalOrder(groups)
           built == BuildPartitions(lineages, groups, generation)
<1>1. IsFiniteSet(groups)
  <2>1. IsFiniteSet(roster)  BY RuntimeAssumption
  <2>2. IsFiniteSet(SUBSET roster)  BY <2>1, FS_SUBSET
  <2>3. groups \subseteq SUBSET roster  BY DEF Snapshot, Components
  <2> QED  BY <2>2, <2>3, FS_Subset
<1>2. Cardinality(groups) \in Nat
  BY <1>1, FS_CardinalityType
<1> HIDE DEF groups
<1>3. IsSeq(order)
  <2>1. CASE Cardinality(groups) > MaxPartitions
    BY <2>1, EmptyIsSeq DEF CanonicalOrder
  <2>2. CASE ~(Cardinality(groups) > MaxPartitions)
    <3>1. order = [i \in 1..Cardinality(groups) |-> order[i]]
      BY SMTT(30), <2>2 DEF CanonicalOrder
    <3> HIDE DEF order
    <3> QED  BY <3>1, <1>2, SeqIntro
  <2> QED  BY <2>1, <2>2
<1>4. Len(order) \in Nat /\ DOMAIN order = 1..Len(order)
  <2> HIDE DEF order
  <2> QED  BY <1>3, SeqElim
<1>5. built = [i \in 1..Len(order) |-> built[i]]
  BY <1>4 DEF BuildPartitions
<1> HIDE DEF built, order
<1>6. IsSeq(built)
  BY <1>4, <1>5, SeqIntro
<1> QED  BY <1>6 DEF built, groups

\* What evaluate_authority gives: a class of the five for every partition, at
\* most one PRIMARY, and to the partitions with any capability the authority
\* sequences that follow the counter, one each.
Issued(ps, floor) ==
  /\ IsSeq(ps)
  /\ Cardinality(Grants(ps)) \in Nat
  /\ \A i \in DOMAIN ps :
       /\ ps[i].class \in Primary..Isolated
       /\ ps[i].authority \in Nat
       /\ ps[i].authority <= floor + Cardinality(Grants(ps))
       /\ ps[i].authorized # {} => ps[i].authority > floor
  /\ \A i, j \in Grants(ps) : ps[i].authority = ps[j].authority => i = j

LEMMA EvaluateAuthorityFacts ==
  ASSUME NEW s, s.authority \in Nat, NEW rules, NEW snap, NEW built, IsSeq(built),
         NEW directives, NEW entries, NEW restore
  PROVE  LET ps == EvaluateAuthority(s, rules, snap, built, directives, entries, restore)
         IN  /\ Issued(ps, s.authority)
             /\ ~rules.multiple =>
                  \A i, j \in DOMAIN ps :
                    ps[i].class = Primary /\ ps[j].class = Primary => i = j
<1> DEFINE capped == [i \in DOMAIN built |->
                        Capped(rules, snap, built[i],
                               IsIsolated(directives, s.tick, built[i].lineage),
                               ~restore /\ IsInterrupted(entries, built[i].lineage))]
           class == Classes(s, rules, snap, built, directives, entries, restore)
           authorized(i) == CapabilitiesForClass(rules, class[i])
           granted == {j \in DOMAIN built : authorized(j) # {}}
           below(i) == {j \in DOMAIN built : j <= i /\ authorized(j) # {}}
           ps == EvaluateAuthority(s, rules, snap, built, directives, entries, restore)
<1>1. class = FinalClasses(rules, capped)
  BY DEF Classes
<1>2. \A i \in DOMAIN capped : capped[i] \in Primary..Isolated
  BY CappedType
<1>3. DOMAIN capped = DOMAIN built  OBVIOUS
<1> HIDE DEF capped, class
<1>4. \A i \in DOMAIN built : class[i] \in Primary..Isolated
  BY <1>1, <1>2, <1>3, FinalClassesType
<1>5. ASSUME ~rules.multiple, NEW i \in DOMAIN built, NEW j \in DOMAIN built,
             class[i] = Primary, class[j] = Primary
      PROVE  i = j
  BY <1>1, <1>3, <1>5, OnePrimary
<1>6. IsFiniteSet(DOMAIN built)
  <2>1. Len(built) \in Nat /\ DOMAIN built = 1..Len(built)  BY SeqElim
  <2> QED  BY <2>1, FS_Interval
<1> HIDE DEF authorized
<1>7. IsFiniteSet(granted) /\ Cardinality(granted) \in Nat
  <2>1. granted \subseteq DOMAIN built  OBVIOUS
  <2>2. IsFiniteSet(granted)  BY <2>1, <1>6, FS_Subset
  <2> QED  BY <2>2, FS_CardinalityType
<1>8. ASSUME NEW i \in DOMAIN built
      PROVE  /\ Cardinality(below(i)) \in Nat
             /\ Cardinality(below(i)) <= Cardinality(granted)
             /\ authorized(i) # {} => Cardinality(below(i)) > 0
  <2>1. below(i) \subseteq granted  OBVIOUS
  <2>2. IsFiniteSet(below(i))  BY <2>1, <1>7, FS_Subset
  <2>3. Cardinality(below(i)) \in Nat /\ Cardinality(below(i)) <= Cardinality(granted)
    <3> HIDE DEF granted, below
    <3> QED  BY <2>1, <2>2, <1>7, FS_CardinalityType, FS_Subset
  <2>4. authorized(i) # {} => below(i) # {}
    <3>1. DOMAIN built \subseteq Nat  BY SeqElim
    <3> QED  BY <3>1
  <2>5. below(i) # {} => Cardinality(below(i)) # 0
    <3> HIDE DEF below
    <3> QED  BY <2>2, FS_EmptySet
  <2> QED  BY <2>3, <2>4, <2>5
<1>8a. ASSUME NEW i \in granted, NEW j \in granted, i < j
       PROVE  Cardinality(below(i)) < Cardinality(below(j))
  <2>1. i \in Nat /\ j \in Nat /\ DOMAIN built \subseteq Nat  BY SeqElim
  <2>2. below(i) \subseteq below(j) /\ j \in below(j) /\ j \notin below(i)
    BY <1>8a, <2>1
  <2>3. IsFiniteSet(below(j))
    <3>1. below(j) \subseteq granted  OBVIOUS
    <3> QED  BY <1>7, <3>1, FS_Subset
  <2>4. Cardinality(below(i)) \in Nat /\ Cardinality(below(j)) \in Nat
    BY <1>8
  <2> HIDE DEF below, granted
  <2> QED  BY <2>2, <2>3, <2>4, FS_Subset
<1>9. ps = [i \in DOMAIN built |->
              [lineage |-> built[i].lineage, parents |-> built[i].parents,
               pending |-> built[i].pending, members |-> built[i].members,
               generation |-> built[i].generation, class |-> class[i],
               authorized |-> authorized(i),
               authority |-> IF authorized(i) = {} THEN 0
                             ELSE s.authority + Cardinality(below(i))]]
  BY DEF EvaluateAuthority, class, authorized
<1> HIDE DEF ps, below
<1>10. /\ DOMAIN ps = DOMAIN built
       /\ \A i \in DOMAIN built :
            /\ ps[i].class = class[i] /\ ps[i].authorized = authorized(i)
            /\ ps[i].authority = IF authorized(i) = {} THEN 0
                                 ELSE s.authority + Cardinality(below(i))
  BY <1>9
<1>11. Grants(ps) = granted
  BY <1>10 DEF Grants
<1>12. IsSeq(ps)
  <2>1. Len(built) \in Nat /\ DOMAIN built = 1..Len(built)  BY SeqElim
  <2>2. ps = [i \in 1..Len(built) |-> ps[i]]  BY <1>9, <2>1
  <2> QED  BY <2>1, <2>2, SeqIntro
<1> HIDE DEF granted
<1>12a. ASSUME NEW i \in Grants(ps), NEW j \in Grants(ps), ps[i].authority = ps[j].authority
       PROVE  i = j
  <2>1. i \in granted /\ j \in granted  BY <1>11
  <2>2. i \in Nat /\ j \in Nat /\ i \in DOMAIN built /\ j \in DOMAIN built
    BY <2>1, SeqElim DEF granted
  <2>3. authorized(i) # {} /\ authorized(j) # {}
    BY <2>1 DEF granted
  <2>4. s.authority + Cardinality(below(i)) = s.authority + Cardinality(below(j))
    BY <1>10, <1>12a, <2>2, <2>3
  <2>5. Cardinality(below(i)) \in Nat /\ Cardinality(below(j)) \in Nat
    BY <1>8, <2>2
  <2>6. Cardinality(below(i)) = Cardinality(below(j))
    BY <2>4, <2>5
  <2>7. ~(i < j) /\ ~(j < i)
    BY <1>8a, <2>1, <2>5, <2>6
  <2> QED  BY <2>2, <2>7
<1>13. Issued(ps, s.authority)
  BY <1>4, <1>7, <1>8, <1>10, <1>11, <1>12, <1>12a DEF Issued
<1>14. ~rules.multiple =>
         \A i, j \in DOMAIN ps : ps[i].class = Primary /\ ps[j].class = Primary => i = j
  BY <1>5, <1>10
<1> QED
  BY <1>13, <1>14 DEF ps

-----------------------------------------------------------------------------
(* The inductive invariant.                                                *)

\* A record on its way to the disk: an epoch state carries the epoch, the
\* assessment generation, the authority sequence, the clock and the floor of the
\* attempts the memory already has.
Proper(r, s) ==
  /\ r.type \in {"EpochState", "Policy", "Topology", "Lineage", "Fence"}
  /\ r.type = "EpochState" =>
       /\ r.body.state \in Counters /\ IsSeq(r.body.live)
       /\ r.body.state.epoch = s.epoch /\ r.body.state.authority = s.authority
       /\ r.body.state.generation = s.generation
       /\ r.body.state.tick = s.tick /\ r.body.state.attempt = s.attempt
  /\ r.type = "Policy" => r.body \in 1..Len(Policies)
  /\ r.type = "Topology" => r.body \in 1..Len(Topologies)

Queued(records, s) == IsSeq(records) /\ \A r \in Range(records) : Proper(r, s)

HasEpoch(records) == \E r \in Range(records) : r.type = "EpochState"

\* Partitions whose classes are classes and whose authority sequences were
\* issued by a counter that has reached `top'.
Held(ps, top) ==
  /\ IsSeq(ps)
  /\ \A i \in DOMAIN ps : /\ ps[i].class \in Primary..Isolated
                           /\ ps[i].authority \in Nat /\ ps[i].authority <= top

Within(ps, top) == \A i \in DOMAIN ps : ps[i].authority <= top

DiskFields == {"state", "live", "policy", "topology", "lineage", "fences"}

Shapes ==
  /\ IsSeq(fences) /\ IsSeq(disk.fences) /\ IsSeq(disk.live) /\ DOMAIN disk = DiskFields
  /\ Queued(wal, st)
  /\ phase # "up" => wal = <<>>
  /\ Held(partitions, st.authority)
  /\ seen.epoch \in Nat /\ seen.authority \in Nat

\* What a caller was shown of the epoch is on disk, and so is the epoch of the
\* memory unless its record is still queued.
EpochOnDisk ==
  /\ seen.epoch <= disk.state.epoch
  /\ phase = "up" => /\ disk.state.epoch <= st.epoch
                     /\ HasEpoch(wal) \/ st.epoch = disk.state.epoch

\* The same for the authority sequence.
AuthorityOnDisk ==
  /\ seen.authority <= disk.state.authority
  /\ phase = "up" => /\ disk.state.authority <= st.authority
                     /\ HasEpoch(wal) \/ Within(partitions, disk.state.authority)

\* Every append succeeds.
Reliable == IoOutcomes \subseteq {TRUE}

\* TypeOK with the shape of the queues, and the two orders; the second needs
\* every append to succeed.
IInv ==
  /\ TypeOK
  /\ Shapes
  /\ EpochOnDisk
  /\ Reliable => AuthorityOnDisk

-----------------------------------------------------------------------------
(* Records.                                                                *)

LEMMA EmptyQueued ==
  ASSUME NEW s
  PROVE  Queued(<<>>, s) /\ ~HasEpoch(<<>>)
  BY EmptyIsSeq DEF Queued, HasEpoch

LEMMA SingleQueued ==
  ASSUME NEW r, NEW s, Proper(r, s)
  PROVE  Queued(<<r>>, s) /\ (r.type = "EpochState" => HasEpoch(<<r>>))
  BY SingleIsSeq DEF Queued, HasEpoch

LEMMA ConcatQueued ==
  ASSUME NEW a, NEW b, NEW s, Queued(a, s), Queued(b, s)
  PROVE  Queued(a \o b, s) /\ (HasEpoch(a) \/ HasEpoch(b) => HasEpoch(a \o b))
<1>1. IsSeq(a \o b) /\ Range(a \o b) = Range(a) \cup Range(b)
  BY ConcatIsSeq DEF Queued
<1>2. Queued(a \o b, s)  BY <1>1 DEF Queued
<1>3. HasEpoch(a) \/ HasEpoch(b) => HasEpoch(a \o b)  BY <1>1 DEF HasEpoch
<1> QED  BY <1>2, <1>3

LEMMA BodiesQueued ==
  ASSUME NEW type \in {"Lineage", "Fence"}, NEW bodies, IsSeq(bodies), NEW s
  PROVE  Queued(RecordsOf(type, bodies), s)
  BY RecordsAreSeq DEF Queued, Proper

\* An assessment: new sequences above the counter, at most one PRIMARY, and an
\* epoch state among its records when the append succeeds.
LEMMA AssessmentFacts ==
  ASSUME NEW s \in Counters, topology \in 1..Len(Topologies),
         NEW lineages, NEW directives, NEW entries, NEW restore, NEW io \in BOOLEAN,
         NEW a \in Assessments(s, lineages, directives, entries, restore, io)
  PROVE  /\ a.state \in Counters
         /\ a.state.epoch = s.epoch /\ s.authority <= a.state.authority
         /\ a.state.generation = s.generation + 1
         /\ a.state.tick = s.tick /\ a.state.attempt = s.attempt
         /\ Held(a.partitions, a.state.authority)
         /\ \A i \in DOMAIN a.partitions :
              a.partitions[i].authorized # {} => a.partitions[i].authority > s.authority
         /\ \A i, j \in Grants(a.partitions) :
              a.partitions[i].authority = a.partitions[j].authority => i = j
         /\ ~Policies[policy].multiple =>
              \A i, j \in DOMAIN a.partitions :
                a.partitions[i].class = Primary /\ a.partitions[j].class = Primary => i = j
         /\ Queued(AssessmentRecords(a, io), a.state)
         /\ io => HasEpoch(AssessmentRecords(a, io))
<1> DEFINE snap == Snapshot(Topologies[topology], topology, ledger.retained,
                            Policies[policy].maxAge, s.tick)
           built == BuildPartitions(lineages, snap.groups, s.generation + 1)
           ps == EvaluateAuthority(s, Policies[policy], snap, built, directives, entries, restore)
           done == CommitLineage(lineages, s.lineage, ps, snap.fresh, io)
<1>1. a = Outcome(s, snap, ps, done)
  BY DEF Assessments
<1>2. Topologies[topology] \in Range(Topologies)
  BY RuntimeAssumption DEF Range
<1>3. IsSeq(built)
  BY <1>2, BuiltIsSeq
<1>4. s.authority \in Nat /\ s.lineage \in Nat
  BY DEF Counters
<1> HIDE DEF built, snap
<1>5. /\ Issued(ps, s.authority)
      /\ ~Policies[policy].multiple =>
           \A i, j \in DOMAIN ps : ps[i].class = Primary /\ ps[j].class = Primary => i = j
  BY <1>3, <1>4, EvaluateAuthorityFacts
<1> HIDE DEF ps
<1>6. done.last \in Nat /\ IsSeq(done.written)
  <2>1. IsSeq(ps)  BY <1>5 DEF Issued
  <2> QED  BY <2>1, <1>4, CommitLineageTyped DEF CommitTyped
<1> HIDE DEF done
<1>7. Cardinality(Grants(ps)) \in Nat
  BY <1>5 DEF Issued
<1>8. /\ a.partitions = ps /\ a.written = done.written
      /\ a.state \in Counters /\ a.state.epoch = s.epoch
      /\ a.state.authority = s.authority + Cardinality(Grants(ps))
      /\ a.state.generation = s.generation + 1
      /\ a.state.tick = s.tick /\ a.state.attempt = s.attempt
  <2>1. a.partitions = ps /\ a.written = done.written
    BY <1>1 DEF Outcome
  <2>2. a.state = [s EXCEPT !.generation = @ + 1, !.lineage = done.last,
                            !.authority = @ + Cardinality(Grants(ps))]
    BY <1>1 DEF Outcome
  <2>3. a.state = [epoch |-> s.epoch, generation |-> s.generation + 1,
                   authority |-> s.authority + Cardinality(Grants(ps)), lineage |-> done.last,
                   fence |-> s.fence, attempt |-> s.attempt, tick |-> s.tick]
    BY <2>2 DEF Counters
  <2> QED  BY <2>1, <2>3, <1>6, <1>7 DEF Counters
<1>9. Held(a.partitions, a.state.authority)
  BY <1>5, <1>8 DEF Issued, Held
<1>10. Proper(EpochState(a.state, a.partitions), a.state)
  <2>1. IsSeq(Marks(a.partitions))  BY <1>9, GrantedIsSeq DEF Held
  <2> QED  BY <2>1, <1>8 DEF Proper, EpochState, Record
<1>11. /\ Queued(AssessmentRecords(a, io), a.state)
       /\ io => HasEpoch(AssessmentRecords(a, io))
  <2> DEFINE first == RecordsOf("Lineage", a.written)
             last == IF io THEN <<EpochState(a.state, a.partitions)>> ELSE <<>>
  <2>1. Queued(first, a.state)  BY <1>6, <1>8, BodiesQueued
  <2>2. EpochState(a.state, a.partitions).type = "EpochState"  BY DEF EpochState, Record
  <2>3. Queued(last, a.state) /\ (io => HasEpoch(last))
    BY <1>10, <2>2, SingleQueued, EmptyQueued
  <2>4. AssessmentRecords(a, io) = first \o last  BY DEF AssessmentRecords
  <2> HIDE DEF first, last
  <2> QED  BY <2>1, <2>3, <2>4, ConcatQueued
<1> QED
  BY <1>4, <1>5, <1>7, <1>8, <1>9, <1>11 DEF Issued

-----------------------------------------------------------------------------
(* What a caller is shown.                                                 *)

LEMMA ShownFacts ==
  ASSUME seen.epoch \in Nat, seen.authority \in Nat,
         NEW s \in Counters, NEW ps, NEW top \in Nat, Held(ps, top)
  PROVE  /\ Shown(s, ps).epoch \in {seen.epoch, s.epoch}
         /\ Shown(s, ps).authority \in Nat
         /\ \A bound \in Nat : seen.authority <= bound /\ Within(ps, bound)
                                => Shown(s, ps).authority <= bound
<1> DEFINE shown == {seen.authority} \cup {ps[i].authority : i \in DOMAIN ps}
<1>1. Shown(s, ps).epoch \in {seen.epoch, s.epoch}
  <2>1. seen.epoch \in Int /\ s.epoch \in Int  BY DEF Counters
  <2>2. Max({seen.epoch, s.epoch}) \in {seen.epoch, s.epoch}  BY <2>1, MaxOfTwo, Zenon
  <2> QED  BY <2>2 DEF Shown
<1>2. Max(shown) \in shown
  <2>1. shown \subseteq Nat /\ shown # {}  BY DEF Held
  <2>2. \A x \in shown : x <= seen.authority + top  BY DEF Held
  <2>3. seen.authority + top \in Nat  OBVIOUS
  <2> HIDE DEF shown
  <2> QED  BY <2>1, <2>2, <2>3, MaxOfBounded
<1>3. Shown(s, ps).authority = Max(shown)
  BY DEF Shown
<1>4. shown \subseteq Nat
  BY DEF Held
<1>5. ASSUME NEW bound \in Nat, seen.authority <= bound, Within(ps, bound)
      PROVE  \A x \in shown : x <= bound
  BY <1>5 DEF Within
<1> HIDE DEF shown
<1> QED
  BY <1>1, <1>2, <1>3, <1>4, <1>5

\* An operation of the running process keeps the invariant if it leaves proper
\* records, does not touch the epoch, does not take the authority sequence
\* back, and queues an epoch state whenever it issues authority.
LEMMA ReturnKeeps ==
  ASSUME IInv, Idle, phase' = phase, disk' = disk,
         st' \in Counters, st'.epoch = st.epoch, st.authority <= st'.authority,
         policy' \in 1..Len(Policies), topology' \in 0..Len(Topologies),
         IsSeq(fences'), Held(partitions', st'.authority),
         NEW records, Queued(records, st'),
         Reliable =>
           HasEpoch(records) \/ Within(partitions', disk.state.authority),
         Return(st', partitions', records)
  PROVE  IInv'
<1> USE DEF IInv
<1>1. st.epoch = disk.state.epoch
  <2>1. ~HasEpoch(wal)  BY EmptyQueued DEF Idle
  <2> QED  BY <2>1 DEF Idle, EpochOnDisk
<1>2. /\ disk.state \in Counters /\ st \in Counters
      /\ disk.state.authority \in Nat /\ disk.state.epoch \in Nat
      /\ st.authority \in Nat /\ st'.authority \in Nat
      /\ seen.epoch \in Nat /\ seen.authority \in Nat
  BY DEF TypeOK, Counters, Shapes
<1>3. TypeOK'
  BY DEF TypeOK, Held
<1>4. /\ seen'.epoch \in Nat /\ seen'.authority \in Nat
      /\ seen'.epoch <= disk.state.epoch
      /\ Reliable => seen'.authority <= disk.state.authority
  <2>1. CASE records = <<>>
    <3>1. seen' = Shown(st', partitions')  BY <2>1 DEF Return
    <3>2. ~HasEpoch(records)  BY <2>1, EmptyQueued
    <3>3. /\ seen'.epoch \in {seen.epoch, st'.epoch} /\ seen'.authority \in Nat
          /\ \A bound \in Nat : seen.authority <= bound /\ Within(partitions', bound)
                                  => seen'.authority <= bound
      BY <3>1, <1>2, ShownFacts
    <3> QED  BY <1>1, <1>2, <3>2, <3>3, SMTT(30) DEF EpochOnDisk, AuthorityOnDisk
  <2>2. CASE records # <<>>
    <3>1. seen' = seen  BY <2>2 DEF Return
    <3> QED  BY <3>1, <1>2 DEF EpochOnDisk, AuthorityOnDisk
  <2> QED  BY <2>1, <2>2
<1>5. Shapes'
  BY <1>4 DEF Shapes, Return, Idle
<1>6. EpochOnDisk'
  BY <1>1, <1>2, <1>4 DEF EpochOnDisk
<1>7. (Reliable => AuthorityOnDisk)'
  BY <1>2, <1>4 DEF AuthorityOnDisk, Return, Idle
<1> QED
  BY <1>3, <1>5, <1>6, <1>7

-----------------------------------------------------------------------------
(* The steps.                                                              *)

\* The counters an operation changes.
LEMMA CountersNextEpoch ==
  ASSUME NEW c \in Counters, NEW n \in Nat
  PROVE  LET d == [c EXCEPT !.fence = @ + n, !.epoch = @ + 1]
         IN  d \in Counters /\ d.epoch = c.epoch + 1 /\ d.authority = c.authority
<1> DEFINE x == c.fence + n
           y == c.epoch + 1
           d == [c EXCEPT !.fence = x, !.epoch = y]
<1>1. x \in Nat /\ y \in Nat  BY DEF Counters
<1> HIDE DEF x, y
<1>2. d \in Counters  BY <1>1 DEF Counters
<1>3. d.epoch = y /\ d.authority = c.authority  BY <1>1 DEF Counters
<1> QED  BY <1>2, <1>3 DEF x, y

LEMMA CountersAuthorityFence ==
  ASSUME NEW c \in Counters, NEW m \in Nat, NEW n \in Nat
  PROVE  LET d == [c EXCEPT !.authority = @ + m, !.fence = @ + n]
         IN  d \in Counters /\ d.epoch = c.epoch /\ d.authority = c.authority + m
<1> DEFINE x == c.authority + m
           y == c.fence + n
           d == [c EXCEPT !.authority = x, !.fence = y]
<1>1. x \in Nat /\ y \in Nat  BY DEF Counters
<1> HIDE DEF x, y
<1>2. d \in Counters  BY <1>1 DEF Counters
<1>3. d.epoch = c.epoch /\ d.authority = x  BY <1>1 DEF Counters
<1> QED  BY <1>2, <1>3 DEF x, y

LEMMA CountersLineageFence ==
  ASSUME NEW c \in Counters, NEW n \in Nat
  PROVE  LET d == [c EXCEPT !.lineage = @ + 1, !.fence = @ + n]
         IN  d \in Counters /\ d.epoch = c.epoch /\ d.authority = c.authority
<1> DEFINE x == c.lineage + 1
           y == c.fence + n
           d == [c EXCEPT !.lineage = x, !.fence = y]
<1>1. x \in Nat /\ y \in Nat  BY DEF Counters
<1> HIDE DEF x, y
<1>2. d \in Counters  BY <1>1 DEF Counters
<1>3. d.epoch = c.epoch /\ d.authority = c.authority  BY <1>1 DEF Counters
<1> QED  BY <1>2, <1>3 DEF x, y

LEMMA CountersOther ==
  ASSUME NEW c \in Counters, NEW n \in Nat
  PROVE  /\ LET d == [c EXCEPT !.fence = @ + n]
            IN  d \in Counters /\ d.epoch = c.epoch /\ d.authority = c.authority
         /\ LET d == [c EXCEPT !.tick = @ + n]
            IN  d \in Counters /\ d.epoch = c.epoch /\ d.authority = c.authority
         /\ LET d == [c EXCEPT !.attempt = n]
            IN  d \in Counters /\ d.epoch = c.epoch /\ d.authority = c.authority
  BY DEF Counters

LEMMA InitInv == Init => IInv
<1> SUFFICES ASSUME Init PROVE IInv  OBVIOUS
<1> USE DEF Init
<1>1. NewState \in Counters /\ NewState.epoch = 1 /\ NewState.authority = 0
  BY DEF NewState, Counters
<1>2. DOMAIN <<>> = {}  OBVIOUS
<1>3. TypeOK
  BY <1>1, <1>2, RuntimeAssumption DEF TypeOK
<1>4. Shapes
  BY <1>1, <1>2, EmptyIsSeq, EmptyQueued DEF Shapes, Held, DiskFields
<1>5. EpochOnDisk /\ AuthorityOnDisk
  BY <1>1 DEF EpochOnDisk, AuthorityOnDisk
<1> QED
  BY <1>3, <1>4, <1>5 DEF IInv

LEMMA RefuseKeeps == IInv /\ Refuse => IInv'
<1> SUFFICES ASSUME IInv, Refuse PROVE IInv'  OBVIOUS
<1> USE DEF IInv, Refuse, memory
<1>1. TypeOK'  BY DEF TypeOK
<1>2. Shapes'  BY DEF Shapes
<1>3. EpochOnDisk'  BY DEF EpochOnDisk
<1>4. (Reliable => AuthorityOnDisk)'  BY DEF AuthorityOnDisk
<1> QED  BY <1>1, <1>2, <1>3, <1>4

LEMMA CloseKeeps == IInv /\ Close => IInv'
<1> SUFFICES ASSUME IInv, Close PROVE IInv'  OBVIOUS
<1> USE DEF IInv, Close, memory
<1>1. TypeOK'  BY DEF TypeOK
<1>2. Shapes'  BY DEF Shapes, Idle
<1>3. EpochOnDisk'  BY DEF EpochOnDisk
<1>4. (Reliable => AuthorityOnDisk)'  BY DEF AuthorityOnDisk
<1> QED  BY <1>1, <1>2, <1>3, <1>4

LEMMA CrashKeeps == IInv /\ Crash => IInv'
<1> SUFFICES ASSUME IInv, Crash PROVE IInv'  OBVIOUS
<1> USE DEF IInv, Crash
<1>1. NewState \in Counters  BY DEF NewState, Counters
<1>2. DOMAIN <<>> = {}  OBVIOUS
<1>3. TypeOK'  BY <1>1, <1>2, RuntimeAssumption DEF TypeOK
<1>4. Shapes'  BY <1>2, EmptyIsSeq, EmptyQueued DEF Shapes, Held
<1>5. EpochOnDisk'  BY DEF EpochOnDisk
<1>6. (Reliable => AuthorityOnDisk)'  BY DEF AuthorityOnDisk
<1> QED  BY <1>3, <1>4, <1>5, <1>6

\* A start reads the last epoch state, and takes the next epoch.
LEMMA StartKeeps == IInv /\ Start => IInv'
<1> SUFFICES ASSUME IInv, Start PROVE IInv'  OBVIOUS
<1> DEFINE entries == RestoredInterruptions(disk)
           kept    == LastFences(disk.fences)
           new     == MakeFences(disk.state, entries)
           s       == [disk.state EXCEPT !.fence = @ + Len(new), !.epoch = @ + 1]
           stored  == Fitting(kept, new)
<1>1. /\ st' = s /\ fences' = kept \o stored /\ disk' = disk /\ phase' = "up"
      /\ Return(s, <<>>, StartRecords(stored, s))
      /\ policy' = disk.policy /\ topology' = disk.topology /\ partitions' = <<>>
  BY DEF Start
<1>2. IsSeq(entries)
  <2>1. Len(disk.live) \in Nat /\ DOMAIN disk.live = 1..Len(disk.live)
    BY SeqElim DEF IInv, Shapes
  <2>2. entries = [i \in 1..Len(disk.live) |-> entries[i]]
    BY <2>1 DEF RestoredInterruptions
  <2> HIDE DEF entries
  <2> QED  BY <2>1, <2>2, SeqIntro
<1>3. IsSeq(kept)
  <2> DEFINE all == disk.fences
             from == Max({1, Len(all) - MaxFences + 1})
             n == 1 + Len(all) - from
  <2>1. Len(all) \in Nat /\ MaxFences \in Nat  BY SeqElim, RuntimeAssumption DEF IInv, Shapes
  <2>2. from \in Int
    <3>1. 1 \in Int /\ Len(all) - MaxFences + 1 \in Int  BY <2>1
    <3>2. from \in {1, Len(all) - MaxFences + 1}  BY <3>1, MaxOfTwo, Zenon
    <3> QED  BY <3>1, <3>2
  <2>3. kept = SubSeq(all, from, Len(all))  BY DEF LastFences
  <2> HIDE DEF from, all, kept
  <2>4. kept = [i \in 1..n |-> kept[i]]
    BY <2>1, <2>2, <2>3
  <2>5. CASE n \in Nat  BY <2>4, <2>5, SeqIntro
  <2>6. CASE n \notin Nat
    <3>1. n \in Int /\ 1..n = 1..0  BY <2>1, <2>2, <2>6
    <3>2. kept = [i \in 1..0 |-> kept[i]]  BY <2>4, <3>1
    <3> QED  BY <3>2, SeqIntro
  <2> QED  BY <2>5, <2>6
<1> HIDE DEF entries, kept
<1>4. IsSeq(new) /\ Len(new) \in Nat
  BY <1>2, FencesAreSeq, SeqElim
<1>5. IsSeq(stored)
  BY <1>3, <1>4, FittingIsSeq
<1> HIDE DEF new, stored
<1>6. /\ s \in Counters /\ s.epoch = disk.state.epoch + 1
      /\ s.authority = disk.state.authority
      /\ disk.state.epoch \in Nat /\ disk.state.authority \in Nat
  <2>1. disk.state \in Counters  BY DEF IInv, TypeOK
  <2>2. s \in Counters /\ s.epoch = disk.state.epoch + 1 /\ s.authority = disk.state.authority
    BY <2>1, <1>4, CountersNextEpoch
  <2> QED  BY <2>1, <2>2 DEF Counters
<1> HIDE DEF s
<1>7. Queued(StartRecords(stored, s), s) /\ HasEpoch(StartRecords(stored, s))
  <2> DEFINE last == EpochState(s, <<>>)
  <2>1. Queued(RecordsOf("Fence", stored), s)  BY <1>5, BodiesQueued
  <2>2. last.type = "EpochState" /\ Proper(last, s)
    <3>1. IsSeq(Marks(<<>>))  BY EmptyIsSeq, GrantedIsSeq
    <3> QED  BY <3>1, <1>6 DEF Proper, EpochState, Record
  <2> HIDE DEF last
  <2>3. Queued(<<last>>, s) /\ HasEpoch(<<last>>)  BY <2>2, SingleQueued
  <2>4. StartRecords(stored, s) = RecordsOf("Fence", stored) \o <<last>>
    BY DEF StartRecords, last
  <2> QED  BY <2>1, <2>3, <2>4, ConcatQueued
<1>8. wal' = StartRecords(stored, s) /\ seen' = seen
  <2>1. StartRecords(stored, s) # <<>>  BY <1>7, EmptyQueued
  <2> QED  BY <1>1, <2>1 DEF Return
<1>9. DOMAIN <<>> = {}  OBVIOUS
<1>10. TypeOK'
  BY <1>1, <1>6, <1>9 DEF IInv, TypeOK
<1>11. Shapes'
  <2>1. IsSeq(kept \o stored)  BY <1>3, <1>5, ConcatIsSeq
  <2> QED  BY <2>1, <1>1, <1>7, <1>8, <1>9, EmptyIsSeq DEF IInv, Shapes, Held
<1>12. EpochOnDisk'
  BY <1>1, <1>6, <1>7, <1>8 DEF IInv, EpochOnDisk
<1>13. (Reliable => AuthorityOnDisk)'
  BY <1>1, <1>6, <1>7, <1>8 DEF IInv, AuthorityOnDisk
<1> QED
  BY <1>10, <1>11, <1>12, <1>13 DEF IInv

-----------------------------------------------------------------------------

\* What is left to show of a commit, for a record of any kind.
LEMMA CommitKeeps ==
  ASSUME IInv, phase = "up", phase' = "up", st' = st, partitions' = partitions,
         policy' = policy, topology' = topology, fences' = fences,
         disk'.state \in Counters, IsSeq(disk'.live), IsSeq(disk'.fences),
         DOMAIN disk' = DiskFields,
         disk'.policy \in 1..Len(Policies), disk'.topology \in 0..Len(Topologies),
         NEW rest, Queued(rest, st), Return(st, partitions, rest),
         \/ disk'.state.epoch = st.epoch /\ disk'.state.authority = st.authority
         \/ disk'.state = disk.state /\ (HasEpoch(wal) => HasEpoch(rest))
  PROVE  IInv'
<1> USE DEF IInv
<1>1. /\ disk.state \in Counters /\ st \in Counters /\ Held(partitions, st.authority)
      /\ disk.state.authority \in Nat /\ disk.state.epoch \in Nat
      /\ disk'.state.authority \in Nat /\ disk'.state.epoch \in Nat
      /\ st.authority \in Nat /\ st.epoch \in Nat
      /\ seen.epoch \in Nat /\ seen.authority \in Nat
  BY DEF TypeOK, Counters, Shapes
<1>2. /\ disk.state.epoch <= disk'.state.epoch /\ disk'.state.epoch <= st.epoch
      /\ HasEpoch(rest) \/ st.epoch = disk'.state.epoch
  BY <1>1 DEF EpochOnDisk
<1>3. Within(partitions, st.authority)
  BY <1>1 DEF Held, Within
<1>4. ASSUME Reliable
      PROVE  /\ disk.state.authority <= disk'.state.authority
             /\ disk'.state.authority <= st.authority
             /\ HasEpoch(rest) \/ Within(partitions, disk'.state.authority)
  BY <1>1, <1>3, <1>4 DEF AuthorityOnDisk
<1>5. /\ seen'.epoch \in Nat /\ seen'.authority \in Nat
      /\ seen'.epoch <= disk'.state.epoch
      /\ Reliable => seen'.authority <= disk'.state.authority
  <2>1. CASE rest = <<>>
    <3>1. seen' = Shown(st, partitions) /\ ~HasEpoch(rest)
      BY <2>1, EmptyQueued DEF Return
    <3>2. /\ seen'.epoch \in {seen.epoch, st.epoch} /\ seen'.authority \in Nat
          /\ \A bound \in Nat : seen.authority <= bound /\ Within(partitions, bound)
                                  => seen'.authority <= bound
      BY <3>1, <1>1, ShownFacts
    <3> QED  BY SMTT(30), <1>1, <1>2, <1>4, <3>1, <3>2 DEF EpochOnDisk, AuthorityOnDisk
  <2>2. CASE rest # <<>>
    <3>1. seen' = seen  BY <2>2 DEF Return
    <3> QED  BY SMTT(30), <3>1, <1>1, <1>2, <1>4 DEF EpochOnDisk, AuthorityOnDisk
  <2> QED  BY <2>1, <2>2
<1>6. TypeOK'
  BY DEF TypeOK
<1>7. Shapes'
  BY <1>5 DEF Shapes, Return
<1>8. EpochOnDisk'
  BY <1>2, <1>5 DEF EpochOnDisk, Return
<1>9. (Reliable => AuthorityOnDisk)'
  BY <1>4, <1>5 DEF AuthorityOnDisk, Return
<1> QED
  BY <1>6, <1>7, <1>8, <1>9

\* A commit: the epoch state on disk follows the memory and never goes back.
LEMMA FlushKeeps == IInv /\ Flush => IInv'
<1> SUFFICES ASSUME IInv, Flush PROVE IInv'  OBVIOUS
<1> DEFINE r == Head(wal)
           rest == Tail(wal)
<1>1. /\ IsSeq(rest) /\ Range(wal) = {r} \cup Range(rest)
      /\ phase = "up" /\ phase' = "up" /\ st' = st
      /\ policy' = policy /\ topology' = topology /\ partitions' = partitions /\ fences' = fences
      /\ Return(st, partitions, rest)
  BY TailIsSeq DEF IInv, Shapes, Queued, Flush, memory
<1>2. disk' = CASE r.type = "EpochState" -> [disk EXCEPT !.state = r.body.state,
                                                         !.live = r.body.live]
                [] r.type = "Policy"     -> [disk EXCEPT !.policy = r.body]
                [] r.type = "Topology"   -> [disk EXCEPT !.topology = r.body]
                [] r.type = "Lineage"    -> [disk EXCEPT !.lineage = Append(@, r.body)]
                [] r.type = "Fence"      -> [disk EXCEPT !.fences = Append(@, r.body)]
  BY DEF Flush
<1> HIDE DEF r, rest
<1>3. Proper(r, st) /\ Queued(rest, st)
  BY <1>1 DEF IInv, Shapes, Queued
<1>4. DOMAIN disk = DiskFields /\ IsSeq(disk.fences) /\ IsSeq(disk.live)
  BY DEF IInv, Shapes
<1>5. DOMAIN disk' = DiskFields
  BY <1>2, <1>3, <1>4 DEF Proper
<1>6. CASE r.type = "EpochState"
  <2>1. /\ disk'.state = r.body.state /\ disk'.live = r.body.live
        /\ disk'.policy = disk.policy /\ disk'.topology = disk.topology
        /\ disk'.fences = disk.fences
    BY <1>2, <1>4, <1>6 DEF DiskFields
  <2>2. /\ disk'.state \in Counters /\ IsSeq(disk'.live)
        /\ disk'.state.epoch = st.epoch /\ disk'.state.authority = st.authority
    BY <2>1, <1>3, <1>6 DEF Proper
  <2> QED  BY <2>1, <2>2, <1>1, <1>3, <1>5, CommitKeeps DEF IInv, Shapes, TypeOK
<1>7. CASE r.type # "EpochState"
  <2>1. disk'.state = disk.state /\ disk'.live = disk.live
    BY <1>2, <1>3, <1>4, <1>7 DEF Proper, DiskFields
  <2>2. IsSeq(disk'.fences)
    <3>1. CASE r.type = "Fence"
      <4>1. disk'.fences = Append(disk.fences, r.body)  BY <1>2, <1>4, <3>1 DEF DiskFields
      <4> QED  BY <4>1, <1>4, AppendIsSeq
    <3>2. CASE r.type # "Fence"
      <4>1. disk'.fences = disk.fences  BY <1>2, <1>3, <1>4, <3>2 DEF Proper, DiskFields
      <4> QED  BY <4>1, <1>4
    <3> QED  BY <3>1, <3>2
  <2>3. disk'.policy \in 1..Len(Policies) /\ disk'.topology \in 0..Len(Topologies)
    <3>1. CASE r.type = "Policy"
      BY <3>1, <1>2, <1>3, <1>4 DEF Proper, DiskFields, IInv, TypeOK
    <3>2. CASE r.type = "Topology"
      <4>1. disk'.topology = r.body /\ disk'.policy = disk.policy
        BY <3>2, <1>2, <1>4 DEF DiskFields
      <4>2. r.body \in 1..Len(Topologies)  BY <3>2, <1>3 DEF Proper
      <4>3. Len(Topologies) \in Nat  BY RuntimeAssumption
      <4> QED  BY <4>1, <4>2, <4>3 DEF IInv, TypeOK
    <3>3. CASE r.type \in {"Lineage", "Fence"}
      BY <3>3, <1>2, <1>4 DEF DiskFields, IInv, TypeOK
    <3> QED  BY <3>1, <3>2, <3>3, <1>3, <1>7 DEF Proper
  <2>4. HasEpoch(wal) => HasEpoch(rest)
    BY <1>1, <1>7 DEF HasEpoch
  <2> QED
    BY <2>1, <2>2, <2>3, <2>4, <1>1, <1>3, <1>5, CommitKeeps DEF IInv, Shapes, TypeOK
<1> QED  BY <1>6, <1>7

-----------------------------------------------------------------------------

LEMMA IdleFacts ==
  ASSUME IInv, Idle
  PROVE  /\ st \in Counters /\ st.authority \in Nat
         /\ Held(partitions, st.authority)
         /\ Reliable => Within(partitions, disk.state.authority)
         /\ IsSeq(fences) /\ policy \in 1..Len(Policies) /\ topology \in 0..Len(Topologies)
<1>1. ~HasEpoch(wal)  BY EmptyQueued DEF Idle
<1> QED
  BY <1>1 DEF IInv, TypeOK, Counters, Shapes, AuthorityOnDisk, Idle

LEMMA HeldAbove ==
  ASSUME NEW ps, NEW low \in Nat, NEW high \in Nat, low <= high, Held(ps, low)
  PROVE  Held(ps, high)
  BY DEF Held

\* An operation that ends with nothing to commit and no new assessment.
LEMMA QuietKeeps ==
  ASSUME IInv, Idle, phase' = phase, disk' = disk,
         UNCHANGED <<policy, topology, partitions, fences>>,
         st' \in Counters, st'.epoch = st.epoch, st'.authority = st.authority,
         NEW records, Queued(records, st'), Return(st', partitions, records)
  PROVE  IInv'
<1>1. /\ st.authority \in Nat /\ Held(partitions, st.authority) /\ IsSeq(fences)
      /\ Reliable => Within(partitions, disk.state.authority)
      /\ policy \in 1..Len(Policies) /\ topology \in 0..Len(Topologies)
  BY IdleFacts
<1>2. Return(st', partitions', records) /\ Held(partitions', st'.authority) /\ IsSeq(fences')
  BY <1>1
<1>3. st.authority <= st'.authority /\ (Reliable => Within(partitions', disk.state.authority))
  BY <1>1
<1>4. policy' \in 1..Len(Policies) /\ topology' \in 0..Len(Topologies)
  BY <1>1
<1> QED
  BY <1>2, <1>3, <1>4, ReturnKeeps

LEMMA AdvanceTicksKeeps ==
  ASSUME IInv, NEW d \in TickSteps, AdvanceTicks(d)
  PROVE  IInv'
<1> DEFINE s == [st EXCEPT !.tick = @ + d]
<1>1. Idle /\ st' = s /\ Return(s, partitions, <<>>)
      /\ UNCHANGED <<phase, disk, policy, topology, partitions, fences>>
  BY DEF AdvanceTicks, memory
<1>2. st \in Counters /\ d \in Nat
  BY <1>1, IdleFacts, RuntimeAssumption
<1>3. s \in Counters /\ s.epoch = st.epoch /\ s.authority = st.authority
  BY <1>2, CountersOther
<1> HIDE DEF s
<1>4. Queued(<<>>, st')  BY EmptyQueued
<1> QED
  BY <1>1, <1>3, <1>4, QuietKeeps

LEMMA IngestEvidenceKeeps ==
  ASSUME IInv, NEW claim \in Claims, IngestEvidence(claim)
  PROVE  IInv'
<1>1. Idle /\ st' = st /\ Return(st', partitions, <<>>)
      /\ UNCHANGED <<phase, disk, policy, topology, partitions, fences>>
  BY DEF IngestEvidence
<1>2. st' \in Counters /\ st'.epoch = st.epoch /\ st'.authority = st.authority
  BY <1>1, IdleFacts
<1>3. Queued(<<>>, st')  BY EmptyQueued
<1> QED
  BY <1>1, <1>2, <1>3, QuietKeeps

LEMMA AdmittedFacts ==
  ASSUME IInv, Idle, NEW n \in 1..MaxAttempts
  PROVE  /\ Admitted(n) \in Counters
         /\ Admitted(n).epoch = st.epoch /\ Admitted(n).authority = st.authority
<1>1. st \in Counters  BY IdleFacts
<1>2. n \in Nat  BY RuntimeAssumption
<1> QED  BY <1>1, <1>2, CountersOther DEF Admitted

LEMMA DenyRequestKeeps ==
  ASSUME IInv, NEW n \in 1..MaxAttempts, DenyRequest(n)
  PROVE  IInv'
<1>1. Idle /\ st' = Admitted(n) /\ Return(st', partitions, <<>>)
      /\ UNCHANGED <<phase, disk, policy, topology, partitions, fences>>
  BY DEF DenyRequest, Admits, memory
<1>2. st' \in Counters /\ st'.epoch = st.epoch /\ st'.authority = st.authority
  BY <1>1, AdmittedFacts
<1>3. Queued(<<>>, st')  BY EmptyQueued
<1> QED
  BY <1>1, <1>2, <1>3, QuietKeeps

LEMMA LineageQueued ==
  ASSUME NEW r, NEW s
  PROVE  Queued(<<Record("Lineage", r)>>, s)
<1>1. Proper(Record("Lineage", r), s)  BY DEF Proper, Record
<1> QED  BY <1>1, SingleQueued

LEMMA JournalledOnlyKeeps ==
  ASSUME IInv, Idle, NEW n \in 1..MaxAttempts, NEW r, JournalledOnly(n, r)
  PROVE  IInv'
<1>1. st' = Admitted(n) /\ Return(st', partitions, <<Record("Lineage", r)>>)
      /\ UNCHANGED <<phase, disk, policy, topology, partitions, fences>>
  BY DEF JournalledOnly, memory
<1>2. st' \in Counters /\ st'.epoch = st.epoch /\ st'.authority = st.authority
  BY <1>1, AdmittedFacts
<1>3. Queued(<<Record("Lineage", r)>>, st')  BY LineageQueued
<1> QED
  BY <1>1, <1>2, <1>3, QuietKeeps

-----------------------------------------------------------------------------

\* Fencing keeps the fence table a sequence and queues proper records.
LEMMA FencingFacts ==
  ASSUME IsSeq(fences), NEW c, NEW targets, IsSeq(targets), NEW s
  PROVE  LET new    == MakeFences(c, targets)
             stored == Fitting(fences, new)
         IN  /\ Len(new) \in Nat /\ IsSeq(stored)
             /\ IsSeq(fences \o stored)
             /\ Queued(RecordsOf("Fence", stored), s)
<1> DEFINE new    == MakeFences(c, targets)
           stored == Fitting(fences, new)
<1>1. IsSeq(new) /\ Len(new) \in Nat  BY FencesAreSeq, SeqElim
<1> HIDE DEF new
<1>2. IsSeq(stored)  BY <1>1, FittingIsSeq
<1> HIDE DEF stored
<1>3. IsSeq(fences \o stored)  BY <1>2, ConcatIsSeq
<1>4. Queued(RecordsOf("Fence", stored), s)  BY <1>2, BodiesQueued
<1> QED  BY <1>1, <1>2, <1>3, <1>4 DEF new, stored

LEMMA InterruptAllFacts ==
  ASSUME IInv, Idle, NEW first, InterruptAll(first), UNCHANGED partitions,
         \A s : Proper(first, s)
  PROVE  /\ st' \in Counters /\ st'.epoch = st.epoch /\ st.authority <= st'.authority
         /\ IsSeq(fences') /\ Held(partitions', st'.authority)
         /\ \E records : Queued(records, st') /\ Return(st', partitions', records)
<1> DEFINE granted == Granted(partitions)
           new     == MakeFences(st, FenceTargets(granted, st.epoch))
           stored  == Fitting(fences, new)
           s       == [st EXCEPT !.authority = @ + Len(granted), !.fence = @ + Len(new)]
           records == <<first>> \o RecordsOf("Fence", stored)
<1>1. fences' = fences \o stored /\ st' = s /\ Return(s, partitions, records)
  BY DEF InterruptAll
<1>2. /\ st \in Counters /\ st.authority \in Nat /\ IsSeq(fences)
      /\ Held(partitions, st.authority)
  BY IdleFacts
<1>3. IsSeq(granted) /\ Len(granted) \in Nat
  BY <1>2, GrantedIsSeq, SeqElim DEF Held
<1>4. IsSeq(FenceTargets(granted, st.epoch))
  BY <1>3, TargetsAreSeq
<1>5. /\ Len(new) \in Nat /\ IsSeq(fences \o stored)
      /\ Queued(RecordsOf("Fence", stored), st')
  BY <1>2, <1>4, FencingFacts
<1> HIDE DEF granted, new, stored
<1>6. s \in Counters /\ s.epoch = st.epoch /\ s.authority = st.authority + Len(granted)
  BY <1>2, <1>3, <1>5, CountersAuthorityFence
<1>7. st.authority <= s.authority /\ s.authority \in Nat
  BY <1>2, <1>3, <1>6
<1> HIDE DEF s
<1>8. Queued(<<first>>, st')  BY SingleQueued
<1>9. Queued(records, st')  BY <1>5, <1>8, ConcatQueued
<1> HIDE DEF records
<1>10. Held(partitions', st'.authority)
  BY <1>1, <1>2, <1>7, HeldAbove
<1> QED  BY <1>1, <1>5, <1>6, <1>7, <1>9, <1>10

LEMMA SetPolicyKeeps ==
  ASSUME IInv, NEW g \in 1..Len(Policies), SetPolicy(g)
  PROVE  IInv'
<1>1. /\ Idle /\ InterruptAll(Record("Policy", g)) /\ policy' = g
      /\ UNCHANGED <<phase, topology, partitions, disk>>
  BY DEF SetPolicy
<1>2. \A s : Proper(Record("Policy", g), s)  BY DEF Proper, Record
<1>3. /\ st' \in Counters /\ st'.epoch = st.epoch /\ st.authority <= st'.authority
      /\ IsSeq(fences') /\ Held(partitions', st'.authority)
      /\ \E records : Queued(records, st') /\ Return(st', partitions', records)
  BY <1>1, <1>2, InterruptAllFacts
<1>4. PICK records : Queued(records, st') /\ Return(st', partitions', records)
  BY <1>3
<1>5. /\ Reliable => Within(partitions', disk.state.authority)
      /\ topology' \in 0..Len(Topologies) /\ policy' \in 1..Len(Policies)
  BY <1>1, IdleFacts
<1> QED
  BY <1>1, <1>3, <1>4, <1>5, ReturnKeeps

LEMMA AdoptTopologyKeeps ==
  ASSUME IInv, NEW g \in 1..Len(Topologies), AdoptTopology(g)
  PROVE  IInv'
<1> DEFINE first == Record("Topology", g)
<1>1. /\ Idle /\ topology' = g
      /\ UNCHANGED <<phase, policy, partitions, disk>>
      /\ \/ InterruptAll(first)
         \/ Return(st, partitions, <<first>>) /\ UNCHANGED <<fences, st>>
  BY DEF AdoptTopology
<1>2. \A s : Proper(first, s)  BY DEF Proper, Record
<1> HIDE DEF first
<1>3. /\ Reliable => Within(partitions', disk.state.authority)
      /\ topology' \in 0..Len(Topologies) /\ policy' \in 1..Len(Policies)
  <2>1. Len(Topologies) \in Nat  BY RuntimeAssumption
  <2>2. g \in 0..Len(Topologies)  BY <2>1
  <2> QED  BY <1>1, <2>2, IdleFacts
<1>4. /\ st' \in Counters /\ st'.epoch = st.epoch /\ st.authority <= st'.authority
      /\ IsSeq(fences') /\ Held(partitions', st'.authority)
      /\ \E records : Queued(records, st') /\ Return(st', partitions', records)
  <2>1. CASE InterruptAll(first)  BY <2>1, <1>1, <1>2, InterruptAllFacts
  <2>2. CASE Return(st, partitions, <<first>>) /\ UNCHANGED <<fences, st>>
    <3>1. Queued(<<first>>, st')  BY <1>2, SingleQueued
    <3>2. Return(st', partitions', <<first>>)  BY <1>1, <2>2
    <3>3. st.authority <= st'.authority  BY <1>1, <2>2, IdleFacts
    <3> QED  BY <1>1, <2>2, <3>1, <3>2, <3>3, IdleFacts
  <2> QED  BY <1>1, <2>1, <2>2
<1>5. PICK records : Queued(records, st') /\ Return(st', partitions', records)
  BY <1>4
<1> QED
  BY <1>1, <1>3, <1>4, <1>5, ReturnKeeps

-----------------------------------------------------------------------------

LEMMA IoFacts ==
  ASSUME NEW io \in IoOutcomes
  PROVE  io \in BOOLEAN /\ (Reliable => io)
<1>1. io \in BOOLEAN  BY RuntimeAssumption, Zenon
<1>2. Reliable => io  BY Zenon DEF Reliable
<1> QED  BY <1>1, <1>2

\* An operation that ends with an assessment.
LEMMA PublishKeeps ==
  ASSUME IInv, Idle, topology # 0, UNCHANGED <<phase, policy, topology, disk>>, IsSeq(fences'),
         NEW s \in Counters, s.epoch = st.epoch, s.authority = st.authority,
         NEW lineages, NEW directives, NEW entries, NEW restore,
         NEW io \in BOOLEAN, Reliable => io,
         NEW a \in Assessments(s, lineages, directives, entries, restore, io),
         NEW before, Queued(before, a.state), Publish(a, before, io)
  PROVE  IInv'
<1> DEFINE records == before \o AssessmentRecords(a, io)
<1>1. topology \in 1..Len(Topologies) /\ topology \in 0..Len(Topologies)
      /\ policy \in 1..Len(Policies) /\ st.authority \in Nat
  BY IdleFacts
<1>2. /\ a.state \in Counters
      /\ a.state.epoch = s.epoch /\ s.authority <= a.state.authority
      /\ Held(a.partitions, a.state.authority)
      /\ Queued(AssessmentRecords(a, io), a.state)
      /\ io => HasEpoch(AssessmentRecords(a, io))
  BY <1>1, AssessmentFacts
<1>3. st' = a.state /\ partitions' = a.partitions /\ Return(st', partitions', records)
  BY DEF Publish, Adopt
<1>4. Queued(records, st') /\ (Reliable => HasEpoch(records))
  BY <1>2, <1>3, ConcatQueued
<1> HIDE DEF records
<1>5. policy' \in 1..Len(Policies) /\ topology' \in 0..Len(Topologies)
  BY <1>1
<1> QED
  BY <1>2, <1>3, <1>4, <1>5, ReturnKeeps

LEMMA AssessKeeps ==
  ASSUME IInv, NEW io \in IoOutcomes, Assess(io)
  PROVE  IInv'
<1>1. PICK a \in Assessments(st, store, isolations, interrupted, FALSE, io) : Publish(a, <<>>, io)
  BY DEF Assess
<1>2. Idle /\ topology # 0 /\ UNCHANGED <<phase, policy, topology, disk, fences>>
  BY DEF Assess, CanAssess
<1>3. st \in Counters /\ IsSeq(fences')  BY <1>2, IdleFacts
<1>4. Queued(<<>>, a.state)  BY EmptyQueued
<1>5. io \in BOOLEAN /\ (Reliable => io)  BY IoFacts
<1> QED
  BY <1>1, <1>2, <1>3, <1>4, <1>5, PublishKeeps

LEMMA IsolateKeeps ==
  ASSUME IInv, NEW n \in 1..MaxAttempts, NEW l, NEW duration, NEW io \in IoOutcomes,
         Isolate(n, l, duration, io)
  PROVE  IInv'
<1>1. PICK directives :
        \E a \in Assessments(Admitted(n), store, directives, interrupted, FALSE, io) :
          Publish(a, <<>>, io)
  BY DEF Isolate
<1>2. PICK a \in Assessments(Admitted(n), store, directives, interrupted, FALSE, io) :
        Publish(a, <<>>, io)
  BY <1>1
<1>3. Idle /\ topology # 0 /\ UNCHANGED <<phase, policy, topology, disk, fences>>
  BY DEF Isolate, Admits, CanAssess
<1>4. /\ Admitted(n) \in Counters /\ Admitted(n).epoch = st.epoch
      /\ Admitted(n).authority = st.authority
  BY <1>3, AdmittedFacts
<1>5. IsSeq(fences')  BY <1>3, IdleFacts
<1>6. Queued(<<>>, a.state)  BY EmptyQueued
<1>7. io \in BOOLEAN /\ (Reliable => io)  BY IoFacts
<1> QED
  BY <1>2, <1>3, <1>4, <1>5, <1>6, <1>7, PublishKeeps

LEMMA ClearIsolationKeeps ==
  ASSUME IInv, NEW n \in 1..MaxAttempts, NEW l, NEW io \in IoOutcomes,
         ClearIsolation(n, l, io)
  PROVE  IInv'
<1>1. PICK directives :
        \E a \in Assessments(Admitted(n), store, directives, interrupted, FALSE, io) :
          Publish(a, <<>>, io)
  BY DEF ClearIsolation
<1>2. PICK a \in Assessments(Admitted(n), store, directives, interrupted, FALSE, io) :
        Publish(a, <<>>, io)
  BY <1>1
<1>3. Idle /\ topology # 0 /\ UNCHANGED <<phase, policy, topology, disk, fences>>
  BY DEF ClearIsolation, Admits, CanAssess
<1>4. /\ Admitted(n) \in Counters /\ Admitted(n).epoch = st.epoch
      /\ Admitted(n).authority = st.authority
  BY <1>3, AdmittedFacts
<1>5. IsSeq(fences')  BY <1>3, IdleFacts
<1>6. Queued(<<>>, a.state)  BY EmptyQueued
<1>7. io \in BOOLEAN /\ (Reliable => io)  BY IoFacts
<1> QED
  BY <1>2, <1>3, <1>4, <1>5, <1>6, <1>7, PublishKeeps

\* The records a governed event queues before anything else, and its counters.
LEMMA GovernedFacts ==
  ASSUME IInv, Idle, NEW n \in 1..MaxAttempts, NEW r, NEW holders, IsSeq(holders), NEW s
  PROVE  LET new    == MakeFences(st, FenceTargets(holders, st.epoch))
             stored == Fitting(fences, new)
             c      == [Admitted(n) EXCEPT !.lineage = @ + 1, !.fence = @ + Len(new)]
         IN  /\ c \in Counters /\ c.epoch = st.epoch /\ c.authority = st.authority
             /\ IsSeq(fences \o stored)
             /\ Queued(<<Record("Lineage", r)>> \o RecordsOf("Fence", stored), s)
<1> DEFINE new    == MakeFences(st, FenceTargets(holders, st.epoch))
           stored == Fitting(fences, new)
           c      == [Admitted(n) EXCEPT !.lineage = @ + 1, !.fence = @ + Len(new)]
<1>1. IsSeq(FenceTargets(holders, st.epoch))  BY TargetsAreSeq
<1>2. IsSeq(fences)  BY IdleFacts
<1>3. /\ Len(new) \in Nat /\ IsSeq(fences \o stored)
      /\ Queued(RecordsOf("Fence", stored), s)
  BY <1>1, <1>2, FencingFacts
<1> HIDE DEF new
<1>4. Queued(<<Record("Lineage", r)>>, s)  BY LineageQueued
<1>5. Queued(<<Record("Lineage", r)>> \o RecordsOf("Fence", stored), s)
  <2> HIDE DEF stored
  <2> QED  BY <1>3, <1>4, ConcatQueued
<1>6. /\ Admitted(n) \in Counters
      /\ Admitted(n).epoch = st.epoch /\ Admitted(n).authority = st.authority
  BY AdmittedFacts
<1>7. c \in Counters /\ c.epoch = st.epoch /\ c.authority = st.authority
  BY <1>3, <1>6, CountersLineageFence
<1> QED  BY <1>3, <1>5, <1>7 DEF new

LEMMA RetireKeeps ==
  ASSUME IInv, NEW n \in 1..MaxAttempts, NEW l, Retire(n, l)
  PROVE  IInv'
<1>1. Idle  BY DEF Retire, Admits
<1>2. CASE JournalledOnly(n, RetireRecord(l))
  BY <1>1, <1>2, JournalledOnlyKeeps
<1>3. CASE ~JournalledOnly(n, RetireRecord(l))
  <2> DEFINE holders   == At(partitions, {i \in Grants(partitions) : partitions[i].lineage = l})
             new    == MakeFences(st, FenceTargets(holders, st.epoch))
             stored == Fitting(fences, new)
             s      == [Admitted(n) EXCEPT !.lineage = @ + 1, !.fence = @ + Len(new)]
             records == <<Record("Lineage", RetireRecord(l))>> \o RecordsOf("Fence", stored)
  <2>1. /\ st' = s /\ fences' = fences \o stored /\ Return(s, partitions, records)
        /\ UNCHANGED <<phase, policy, topology, partitions, disk>>
    BY <1>3 DEF Retire
  <2>2. /\ st.authority \in Nat /\ Held(partitions, st.authority)
        /\ Reliable => Within(partitions, disk.state.authority)
        /\ policy \in 1..Len(Policies) /\ topology \in 0..Len(Topologies)
    BY <1>1, IdleFacts
  <2>3. IsSeq(holders)
    <3>1. {i \in Grants(partitions) : partitions[i].lineage = l} \subseteq DOMAIN partitions
      BY DEF Grants
    <3> QED  BY <2>2, <3>1, AtIsSeq DEF Held
  <2> HIDE DEF holders
  <2>4. /\ s \in Counters /\ s.epoch = st.epoch /\ s.authority = st.authority
        /\ IsSeq(fences \o stored) /\ Queued(records, st')
    BY <1>1, <2>3, GovernedFacts
  <2> HIDE DEF s, stored, records
  <2>5. /\ st' \in Counters /\ st'.epoch = st.epoch /\ st.authority <= st'.authority
        /\ IsSeq(fences') /\ Held(partitions', st'.authority)
        /\ Reliable => Within(partitions', disk.state.authority)
        /\ Return(st', partitions', records)
        /\ policy' \in 1..Len(Policies) /\ topology' \in 0..Len(Topologies)
    BY <2>1, <2>2, <2>4
  <2> QED  BY <1>1, <2>1, <2>4, <2>5, ReturnKeeps
<1> QED  BY <1>2, <1>3

LEMMA RequestMergeKeeps ==
  ASSUME IInv, NEW n \in 1..MaxAttempts, NEW subject, NEW left, NEW right,
         NEW io \in IoOutcomes, RequestMerge(n, subject, left, right, io)
  PROVE  IInv'
<1> DEFINE r == MergeRecord(subject, left, right)
<1>1. Idle /\ topology # 0  BY DEF RequestMerge, Admits, CanAssess
<1>2. CASE JournalledOnly(n, r)
  BY <1>1, <1>2, JournalledOnlyKeeps
<1>3. CASE ~JournalledOnly(n, r)
  <2> DEFINE holders    == Granted(<<subject>>)
             new     == MakeFences(st, FenceTargets(holders, st.epoch))
             stored  == Fitting(fences, new)
             s       == [Admitted(n) EXCEPT !.lineage = @ + 1, !.fence = @ + Len(new)]
             entries == Outside(interrupted, {left, right})
             before  == <<Record("Lineage", r)>> \o RecordsOf("Fence", stored)
  <2>1. /\ fences' = fences \o stored
        /\ \E a \in Assessments(s, Append(store, r), isolations, entries, FALSE, io) :
             Publish(a, before, io)
        /\ UNCHANGED <<phase, policy, topology, disk>>
    BY <1>3 DEF RequestMerge
  <2>2. IsSeq(holders)  BY SingleIsSeq, GrantedIsSeq
  <2> HIDE DEF holders
  <2>3. PICK a \in Assessments(s, Append(store, r), isolations, entries, FALSE, io) :
          Publish(a, before, io)
    BY <2>1
  <2>4. /\ s \in Counters /\ s.epoch = st.epoch /\ s.authority = st.authority
        /\ IsSeq(fences \o stored) /\ Queued(before, a.state)
    BY <1>1, <2>2, GovernedFacts
  <2> HIDE DEF s, stored, before, entries, r
  <2>5. IsSeq(fences')  BY <2>1, <2>4
  <2>6. io \in BOOLEAN /\ (Reliable => io)  BY IoFacts
  <2> QED  BY <1>1, <2>1, <2>3, <2>4, <2>5, <2>6, PublishKeeps
<1> QED  BY <1>2, <1>3

LEMMA RevalidateKeeps ==
  ASSUME IInv, NEW n \in 1..MaxAttempts, NEW io \in IoOutcomes, Revalidate(n, io)
  PROVE  IInv'
<1>1. PICK a \in Assessments(Admitted(n), store, isolations, interrupted, TRUE, io) :
        Adopt(a) /\ EndInterruptions(a, io)
  BY DEF Revalidate
<1>2. Idle /\ topology # 0 /\ UNCHANGED <<phase, policy, topology, disk>>
  BY DEF Revalidate, Admits, CanAssess
<1>3. /\ st.authority \in Nat /\ IsSeq(fences) /\ policy \in 1..Len(Policies)
      /\ topology \in 1..Len(Topologies) /\ topology \in 0..Len(Topologies)
  BY <1>2, IdleFacts
<1>4. /\ Admitted(n) \in Counters /\ Admitted(n).epoch = st.epoch
      /\ Admitted(n).authority = st.authority
  BY <1>2, AdmittedFacts
<1>5. io \in BOOLEAN /\ (Reliable => io)  BY IoFacts
<1>6. /\ a.state \in Counters
      /\ a.state.epoch = st.epoch /\ st.authority <= a.state.authority
      /\ Held(a.partitions, a.state.authority)
      /\ Queued(AssessmentRecords(a, io), a.state)
      /\ io => HasEpoch(AssessmentRecords(a, io))
  <2> DEFINE s == Admitted(n)
             restore == TRUE
  <2>1. s \in Counters /\ a \in Assessments(s, store, isolations, interrupted, restore, io)
    BY <1>1, <1>4
  <2>2. s.epoch = st.epoch /\ s.authority = st.authority  BY <1>4
  <2> HIDE DEF s, restore
  <2>3. /\ a.state \in Counters
        /\ a.state.epoch = s.epoch /\ s.authority <= a.state.authority
        /\ Held(a.partitions, a.state.authority)
        /\ Queued(AssessmentRecords(a, io), a.state)
        /\ io => HasEpoch(AssessmentRecords(a, io))
    BY <1>3, <1>5, <2>1, AssessmentFacts
  <2> QED  BY <2>2, <2>3
<1> DEFINE targets == Revived(a.partitions, interrupted, a.state.epoch)
           new     == MakeFences(a.state, targets)
           stored  == Fitting(fences, new)
           next    == [a.state EXCEPT !.fence = @ + Len(new)]
           more    == IF io THEN RecordsOf("Fence", stored) ELSE <<>>
           records == AssessmentRecords(a, io) \o more
<1>7. /\ fences' = fences \o stored /\ st' = next /\ Return(next, a.partitions, records)
      /\ partitions' = a.partitions
  BY <1>1 DEF EndInterruptions, Adopt
<1>8. IsSeq(targets)
  <2> DEFINE back == At(a.partitions, {i \in Grants(a.partitions) :
                                         IsInterrupted(interrupted, a.partitions[i].lineage)})
  <2>1. IsSeq(back)
    <3>1. {i \in Grants(a.partitions) : IsInterrupted(interrupted, a.partitions[i].lineage)}
            \subseteq DOMAIN a.partitions
      BY DEF Grants
    <3> QED  BY <1>6, <3>1, AtIsSeq DEF Held
  <2>2. Len(back) \in Nat /\ DOMAIN back = 1..Len(back)  BY <2>1, SeqElim
  <2>3. targets = [i \in 1..Len(back) |-> targets[i]]
    BY <2>2 DEF Revived
  <2> HIDE DEF back, targets
  <2> QED  BY <2>2, <2>3, SeqIntro
<1> HIDE DEF targets
<1>9. /\ Len(new) \in Nat /\ IsSeq(fences \o stored)
      /\ Queued(RecordsOf("Fence", stored), next)
  BY <1>3, <1>8, FencingFacts
<1> HIDE DEF new, stored
<1>10. next \in Counters /\ next.epoch = a.state.epoch /\ next.authority = a.state.authority
  BY <1>6, <1>9, CountersOther
<1>11. Queued(AssessmentRecords(a, io), next)
  BY <1>6, <1>10 DEF Queued, Proper
<1> HIDE DEF next
<1>12. Queued(more, next)
  BY <1>9, EmptyQueued
<1> HIDE DEF more
<1>13. Queued(records, next) /\ (io => HasEpoch(records))
  BY <1>6, <1>11, <1>12, ConcatQueued
<1> HIDE DEF records
<1>14. /\ st' \in Counters /\ st'.epoch = st.epoch /\ st.authority <= st'.authority
       /\ IsSeq(fences') /\ Held(partitions', st'.authority)
       /\ Queued(records, st') /\ Return(st', partitions', records)
       /\ Reliable => HasEpoch(records)
       /\ policy' \in 1..Len(Policies) /\ topology' \in 0..Len(Topologies)
  BY <1>2, <1>3, <1>5, <1>6, <1>7, <1>9, <1>10, <1>13
<1> QED
  BY <1>2, <1>14, ReturnKeeps

LEMMA RequestKeeps ==
  ASSUME IInv, NEW n \in 1..MaxAttempts, Request(n)
  PROVE  IInv'
<1>1. CASE DenyRequest(n)  BY <1>1, DenyRequestKeeps
<1>2. CASE \E l \in Lineages, d \in Durations, io \in IoOutcomes : Isolate(n, l, d, io)
  BY <1>2, IsolateKeeps
<1>3. CASE \E l \in Lineages, io \in IoOutcomes : ClearIsolation(n, l, io)
  BY <1>3, ClearIsolationKeeps
<1>4. CASE \E l \in Lineages : Retire(n, l)  BY <1>4, RetireKeeps
<1>5. CASE \E subject \in ToSet(partitions) :
             \E left, right \in subject.pending, io \in IoOutcomes :
               RequestMerge(n, subject, left, right, io)
  BY <1>5, RequestMergeKeeps
<1>6. CASE \E io \in IoOutcomes : Revalidate(n, io)  BY <1>6, RevalidateKeeps
<1> QED
  BY <1>1, <1>2, <1>3, <1>4, <1>5, <1>6 DEF Request

LEMMA NextKeeps == IInv /\ [Next]_vars => IInv'
<1> SUFFICES ASSUME IInv, [Next]_vars PROVE IInv'  OBVIOUS
<1>1. CASE Start  BY <1>1, StartKeeps
<1>2. CASE Refuse  BY <1>2, RefuseKeeps
<1>3. CASE Crash  BY <1>3, CrashKeeps
<1>4. CASE Flush  BY <1>4, FlushKeeps
<1>5. CASE Close  BY <1>5, CloseKeeps
<1>6. CASE \E d \in TickSteps : AdvanceTicks(d)  BY <1>6, AdvanceTicksKeeps
<1>7. CASE \E g \in 1..Len(Topologies) : AdoptTopology(g)  BY <1>7, AdoptTopologyKeeps
<1>8. CASE \E g \in 1..Len(Policies) : SetPolicy(g)  BY <1>8, SetPolicyKeeps
<1>9. CASE \E claim \in Claims : IngestEvidence(claim)  BY <1>9, IngestEvidenceKeeps
<1>10. CASE \E io \in IoOutcomes : Assess(io)  BY <1>10, AssessKeeps
<1>11. CASE \E n \in 1..MaxAttempts : Request(n)  BY <1>11, RequestKeeps
<1>12. CASE UNCHANGED vars
  <2> USE <1>12 DEF vars
  <2>1. TypeOK'  BY DEF IInv, TypeOK
  <2>2. Shapes'  BY DEF IInv, Shapes
  <2>3. EpochOnDisk'  BY DEF IInv, EpochOnDisk
  <2>4. (Reliable => AuthorityOnDisk)'  BY DEF IInv, AuthorityOnDisk
  <2> QED  BY <2>1, <2>2, <2>3, <2>4 DEF IInv
<1> QED
  BY <1>1, <1>2, <1>3, <1>4, <1>5, <1>6, <1>7, <1>8, <1>9, <1>10, <1>11, <1>12 DEF Next

LEMMA Invariance == Spec => []IInv
  BY InitInv, NextKeeps, PTL DEF Spec

-----------------------------------------------------------------------------
(* Type correctness.                                                       *)

\* TypeOK is the first conjunct of the inductive invariant: the counters stay
\* naturals and the policy and topology in force, in memory and on disk, stay
\* generations that exist, through every operation, crash and restart.
THEOREM TypeCorrect == Spec => []TypeOK
<1>1. IInv => TypeOK  BY DEF IInv
<1> QED  BY <1>1, Invariance, PTL

-----------------------------------------------------------------------------
(* Epochs.                                                                 *)

LEMMA EpochRises ==
  ASSUME IInv, [Next]_vars, phase = "down", phase' = "up"
  PROVE  st'.epoch > seen.epoch
<1>1. CASE Start
  <2>1. /\ st'.epoch = disk.state.epoch + 1
        /\ disk.state \in Counters /\ seen.epoch <= disk.state.epoch /\ seen.epoch \in Nat
    <3>1. disk.state \in Counters  BY DEF IInv, TypeOK
    <3> DEFINE more == Len(MakeFences(disk.state, RestoredInterruptions(disk)))
    <3>2. st' = [disk.state EXCEPT !.fence = @ + more, !.epoch = @ + 1]
      BY <1>1 DEF Start
    <3> HIDE DEF more
    <3>3. st'.epoch = disk.state.epoch + 1  BY <3>1, <3>2 DEF Counters
    <3> QED  BY <3>1, <3>3 DEF IInv, EpochOnDisk, Shapes
  <2>2. disk.state.epoch \in Nat  BY <2>1 DEF Counters
  <2> QED  BY <2>1, <2>2
<1>2. ~Start => phase' = phase \/ phase' = "refused" \/ phase' = "down" \/ phase' = "closed" \/ Idle
  BY DEF Next, Refuse, Crash, Flush, Close, AdvanceTicks, AdoptTopology, SetPolicy,
         IngestEvidence, Assess, Request, DenyRequest, Isolate, ClearIsolation, Retire,
         RequestMerge, Revalidate, Admits, vars
<1> QED  BY <1>1, <1>2 DEF Idle

\* A restart never serves under an epoch that an earlier incarnation has shown
\* a caller, wherever the crash fell: the constructor adds one to the epoch on
\* disk, and what a caller was shown is on disk (EpochOnDisk).
THEOREM EpochFresh == Spec => EpochNeverReused
<1>1. IInv /\ [Next]_vars => [phase = "down" /\ phase' = "up" => st'.epoch > seen.epoch]_vars
  BY EpochRises
<1> QED  BY <1>1, Invariance, PTL DEF Spec, EpochNeverReused

-----------------------------------------------------------------------------
(* Grants.                                                                 *)

\* What every assessment leaves, in terms of the state it starts from.
FreshGrants ==
  /\ Idle
  /\ ~Policies[policy].multiple =>
       \A i, j \in DOMAIN partitions' :
         partitions'[i].class = Primary /\ partitions'[j].class = Primary => i = j
  /\ \A i \in DOMAIN partitions' :
       partitions'[i].authorized # {} => partitions'[i].authority > st.authority
  /\ \A i, j \in Grants(partitions') :
       partitions'[i].authority = partitions'[j].authority => i = j

LEMMA AssessmentGrants ==
  ASSUME IInv, Idle, topology # 0, NEW s \in Counters, s.authority = st.authority,
         NEW lineages, NEW directives, NEW entries, NEW restore, NEW io \in BOOLEAN,
         NEW a \in Assessments(s, lineages, directives, entries, restore, io),
         partitions' = a.partitions
  PROVE  FreshGrants
<1>1. topology \in 1..Len(Topologies)  BY IdleFacts
<1>2. /\ \A i \in DOMAIN a.partitions :
           a.partitions[i].authorized # {} => a.partitions[i].authority > s.authority
      /\ \A i, j \in Grants(a.partitions) :
           a.partitions[i].authority = a.partitions[j].authority => i = j
      /\ ~Policies[policy].multiple =>
           \A i, j \in DOMAIN a.partitions :
             a.partitions[i].class = Primary /\ a.partitions[j].class = Primary => i = j
  BY <1>1, AssessmentFacts
<1> QED  BY <1>2 DEF FreshGrants

LEMMA AssessGrants ==
  ASSUME IInv, NEW io \in IoOutcomes, Assess(io)
  PROVE  FreshGrants
<1>1. PICK a \in Assessments(st, store, isolations, interrupted, FALSE, io) : Publish(a, <<>>, io)
  BY DEF Assess
<1>2. Idle /\ topology # 0 /\ partitions' = a.partitions
  BY <1>1 DEF Assess, CanAssess, Publish, Adopt
<1>3. st \in Counters /\ io \in BOOLEAN  BY <1>2, IdleFacts, IoFacts
<1> QED  BY <1>1, <1>2, <1>3, AssessmentGrants

LEMMA IsolateGrants ==
  ASSUME IInv, NEW n \in 1..MaxAttempts, NEW l, NEW d, NEW io \in IoOutcomes, Isolate(n, l, d, io)
  PROVE  FreshGrants
<1> DEFINE directives == Append(isolations, [lineage |-> l, expires |-> ExpiresAt(d)])
<1>1. PICK a \in Assessments(Admitted(n), store, directives, interrupted, FALSE, io) :
        Publish(a, <<>>, io)
  BY DEF Isolate
<1>2. Idle /\ topology # 0 /\ partitions' = a.partitions
  BY <1>1 DEF Isolate, Admits, CanAssess, Publish, Adopt
<1>3. Admitted(n) \in Counters /\ Admitted(n).authority = st.authority /\ io \in BOOLEAN
  BY <1>2, AdmittedFacts, IoFacts
<1> HIDE DEF directives
<1> QED  BY <1>1, <1>2, <1>3, AssessmentGrants

LEMMA ClearIsolationGrants ==
  ASSUME IInv, NEW n \in 1..MaxAttempts, NEW l, NEW io \in IoOutcomes, ClearIsolation(n, l, io)
  PROVE  FreshGrants
<1> DEFINE directives == At(isolations, {i \in DOMAIN isolations : isolations[i].lineage # l})
<1>1. PICK a \in Assessments(Admitted(n), store, directives, interrupted, FALSE, io) :
        Publish(a, <<>>, io)
  BY DEF ClearIsolation
<1>2. Idle /\ topology # 0 /\ partitions' = a.partitions
  BY <1>1 DEF ClearIsolation, Admits, CanAssess, Publish, Adopt
<1>3. Admitted(n) \in Counters /\ Admitted(n).authority = st.authority /\ io \in BOOLEAN
  BY <1>2, AdmittedFacts, IoFacts
<1> HIDE DEF directives
<1> QED  BY <1>1, <1>2, <1>3, AssessmentGrants

LEMMA RevalidateGrants ==
  ASSUME IInv, NEW n \in 1..MaxAttempts, NEW io \in IoOutcomes, Revalidate(n, io)
  PROVE  FreshGrants
<1> DEFINE s == Admitted(n)
           restore == TRUE
<1>1. PICK a \in Assessments(s, store, isolations, interrupted, restore, io) : Adopt(a)
  BY DEF Revalidate
<1>2. Idle /\ topology # 0 /\ partitions' = a.partitions
  BY <1>1 DEF Revalidate, Admits, CanAssess, Adopt
<1>3. s \in Counters /\ s.authority = st.authority /\ io \in BOOLEAN
  BY <1>2, AdmittedFacts, IoFacts
<1> HIDE DEF s, restore
<1> QED  BY <1>1, <1>2, <1>3, AssessmentGrants

LEMMA RequestMergeGrants ==
  ASSUME IInv, NEW n \in 1..MaxAttempts, NEW subject, NEW left, NEW right,
         NEW io \in IoOutcomes, RequestMerge(n, subject, left, right, io), partitions' # partitions
  PROVE  FreshGrants
<1> DEFINE r       == MergeRecord(subject, left, right)
           holders    == Granted(<<subject>>)
           new     == MakeFences(st, FenceTargets(holders, st.epoch))
           stored  == Fitting(fences, new)
           s       == [Admitted(n) EXCEPT !.lineage = @ + 1, !.fence = @ + Len(new)]
           entries == Outside(interrupted, {left, right})
           before  == <<Record("Lineage", r)>> \o RecordsOf("Fence", stored)
<1>1. ~JournalledOnly(n, r)  BY DEF JournalledOnly, memory
<1>2. PICK a \in Assessments(s, Append(store, r), isolations, entries, FALSE, io) :
        Publish(a, before, io)
  BY <1>1 DEF RequestMerge
<1>3. Idle /\ topology # 0 /\ partitions' = a.partitions
  BY <1>2 DEF RequestMerge, Admits, CanAssess, Publish, Adopt
<1>4. IsSeq(holders)  BY SingleIsSeq, GrantedIsSeq
<1> HIDE DEF holders
<1>5. s \in Counters /\ s.authority = st.authority  BY <1>3, <1>4, GovernedFacts
<1> HIDE DEF s, before, entries, r
<1>6. io \in BOOLEAN  BY IoFacts
<1> QED  BY <1>2, <1>3, <1>5, <1>6, AssessmentGrants

LEMMA NextGrants ==
  ASSUME IInv, [Next]_vars, Assessed
  PROVE  FreshGrants
<1>1. CASE \E io \in IoOutcomes : Assess(io)  BY <1>1, AssessGrants
<1>2. CASE \E n \in 1..MaxAttempts : Request(n)
  <2>1. PICK n \in 1..MaxAttempts : Request(n)  BY <1>2
  <2>2. CASE \E l \in Lineages, d \in Durations, io \in IoOutcomes : Isolate(n, l, d, io)
    BY <2>2, IsolateGrants
  <2>3. CASE \E l \in Lineages, io \in IoOutcomes : ClearIsolation(n, l, io)
    BY <2>3, ClearIsolationGrants
  <2>4. CASE \E subject \in ToSet(partitions) :
               \E left, right \in subject.pending, io \in IoOutcomes :
                 RequestMerge(n, subject, left, right, io)
    BY <2>4, RequestMergeGrants DEF Assessed
  <2>5. CASE \E io \in IoOutcomes : Revalidate(n, io)  BY <2>5, RevalidateGrants
  <2>6. ~DenyRequest(n) /\ ~\E l \in Lineages : Retire(n, l)
    BY DEF DenyRequest, Retire, JournalledOnly, memory, Assessed
  <2> QED  BY <2>1, <2>2, <2>3, <2>4, <2>5, <2>6 DEF Request
<1>3. CASE \/ Start \/ Refuse \/ Crash \/ Flush \/ Close \/ UNCHANGED vars
           \/ \E d \in TickSteps : AdvanceTicks(d)
           \/ \E g \in 1..Len(Topologies) : AdoptTopology(g)
           \/ \E g \in 1..Len(Policies) : SetPolicy(g)
           \/ \E claim \in Claims : IngestEvidence(claim)
  <2>1. partitions' = partitions \/ partitions' = <<>>
    BY <1>3 DEF Start, Refuse, Crash, Flush, Close, AdvanceTicks, AdoptTopology, SetPolicy,
                IngestEvidence, memory, vars
  <2> QED  BY <2>1 DEF Assessed
<1> QED  BY <1>1, <1>2, <1>3 DEF Next

\* Split brain, for every policy, topology and evidence: unless the policy
\* allows several authoritative partitions, no assessment leaves two PRIMARY
\* partitions, by whichever operation it was run.
THEOREM NoSplitBrain == Spec => SingleAuthority
<1>1. IInv /\ [Next]_vars =>
        [Assessed /\ ~Policies[policy].multiple =>
           \A i, j \in DOMAIN partitions' :
             partitions'[i].class = Primary /\ partitions'[j].class = Primary => i = j]_vars
  BY NextGrants DEF FreshGrants
<1> QED  BY <1>1, Invariance, PTL DEF Spec, SingleAuthority

\* While every append succeeds, an authority sequence that a caller has seen is
\* never issued again, however often the process is killed and wherever the
\* crash falls: a grant is shown only after the epoch state that carries its
\* sequence is on disk (AuthorityOnDisk).
THEOREM GrantsNeverReissued == Reliable => (Spec => AuthorityNeverReissued)
<1> SUFFICES ASSUME Reliable PROVE Spec => AuthorityNeverReissued  OBVIOUS
<1>1. IInv /\ [Next]_vars =>
        [Assessed => \A i \in DOMAIN partitions' :
           partitions'[i].authorized # {} => partitions'[i].authority > seen.authority]_vars
  <2> SUFFICES ASSUME IInv, [Next]_vars, Assessed, NEW i \in DOMAIN partitions',
                      partitions'[i].authorized # {}
               PROVE  partitions'[i].authority > seen.authority
    OBVIOUS
  <2>1. Idle /\ partitions'[i].authority > st.authority  BY NextGrants DEF FreshGrants
  <2>2. seen.authority <= disk.state.authority /\ disk.state.authority <= st.authority
    BY <2>1 DEF IInv, AuthorityOnDisk, Idle
  <2>3. seen.authority \in Nat /\ disk.state.authority \in Nat /\ st.authority \in Nat
    BY DEF IInv, TypeOK, Shapes, Counters
  <2>4. partitions'[i].authority \in Nat
    <3>1. IInv'  BY NextKeeps
    <3> QED  BY <3>1 DEF IInv, Shapes, Held
  <2> QED  BY <2>1, <2>2, <2>3, <2>4
<1> QED  BY <1>1, Invariance, PTL DEF Spec, AuthorityNeverReissued

\* Within an incarnation the epoch stays; the authority sequence, the clock and
\* the floor of the attempts rise.
Rises ==
  /\ st'.epoch = st.epoch /\ st.authority <= st'.authority
  /\ st.tick <= st'.tick /\ st.attempt <= st'.attempt

LEMMA SameRises ==
  ASSUME IInv, st' = st
  PROVE  Rises
<1>1. st.authority \in Nat /\ st.tick \in Nat /\ st.attempt \in Nat
  BY DEF IInv, TypeOK, Counters
<1> QED  BY <1>1 DEF Rises

LEMMA AssessmentRises ==
  ASSUME IInv, Idle, topology # 0, NEW s \in Counters,
         s.epoch = st.epoch, s.authority = st.authority,
         s.tick = st.tick, st.attempt <= s.attempt,
         NEW lineages, NEW directives, NEW entries, NEW restore, NEW io \in BOOLEAN,
         NEW a \in Assessments(s, lineages, directives, entries, restore, io),
         NEW k, st' = a.state \/ st' = [a.state EXCEPT !.fence = @ + k]
  PROVE  Rises
<1>1. topology \in 1..Len(Topologies)  BY IdleFacts
<1>2. /\ a.state \in Counters /\ a.state.epoch = s.epoch /\ s.authority <= a.state.authority
      /\ a.state.tick = s.tick /\ a.state.attempt = s.attempt
  BY <1>1, AssessmentFacts
<1>3. /\ st'.epoch = a.state.epoch /\ st'.authority = a.state.authority
      /\ st'.tick = a.state.tick /\ st'.attempt = a.state.attempt
  BY <1>2 DEF Counters
<1>4. st.tick \in Nat  BY IdleFacts DEF Counters
<1> QED  BY <1>2, <1>3, <1>4 DEF Rises

LEMMA InputsRise ==
  ASSUME IInv, NEW g, AdoptTopology(g) \/ SetPolicy(g)
  PROVE  Rises
<1> DEFINE granted == Granted(partitions)
<1>1. Idle  BY DEF AdoptTopology, SetPolicy
<1>2. st \in Counters /\ IsSeq(granted)
  BY <1>1, IdleFacts, GrantedIsSeq DEF Held
<1>3. Len(granted) \in Nat  BY <1>2, SeqElim
<1>4. st' = st \/ \E m : st' = [st EXCEPT !.authority = @ + Len(granted), !.fence = @ + m]
  BY DEF AdoptTopology, SetPolicy, InterruptAll
<1> HIDE DEF granted
<1>5. CASE st' = st  BY <1>5, SameRises
<1>6. CASE \E m : st' = [st EXCEPT !.authority = @ + Len(granted), !.fence = @ + m]
  <2>1. /\ st.authority \in Nat /\ st.tick \in Nat /\ st.attempt \in Nat
        /\ st'.epoch = st.epoch /\ st'.tick = st.tick /\ st'.attempt = st.attempt
        /\ st'.authority = st.authority + Len(granted)
    BY <1>2, <1>6 DEF Counters
  <2> QED  BY <1>3, <2>1 DEF Rises
<1> QED  BY <1>4, <1>5, <1>6

LEMMA RequestRises ==
  ASSUME IInv, NEW n \in 1..MaxAttempts, Request(n)
  PROVE  Rises
<1>1. Idle /\ n > st.attempt
  BY DEF Request, DenyRequest, Isolate, ClearIsolation, Retire, RequestMerge, Revalidate, Admits
<1>2. /\ Admitted(n) \in Counters /\ Admitted(n).epoch = st.epoch
      /\ Admitted(n).authority = st.authority /\ st.authority \in Nat
      /\ Admitted(n).tick = st.tick /\ st.tick \in Nat
      /\ st.attempt <= Admitted(n).attempt
  <2>1. Admitted(n) \in Counters /\ st \in Counters
    BY <1>1, AdmittedFacts, IdleFacts
  <2>2. Admitted(n).attempt = n /\ Admitted(n).tick = st.tick
    BY <2>1 DEF Admitted, Counters
  <2>3. st.attempt \in Nat /\ n \in Nat /\ st.tick \in Nat /\ st.authority \in Nat
    BY <2>1 DEF Counters
  <2>4. st.attempt <= n
    BY <1>1, <2>3
  <2> QED  BY <1>1, <2>1, <2>2, <2>3, <2>4, AdmittedFacts
<1>3. CASE st' = Admitted(n)
  BY <1>2, <1>3 DEF Rises
<1>4. CASE \E l \in Lineages, d \in Durations, io \in IoOutcomes : Isolate(n, l, d, io)
  <2>1. PICK l \in Lineages, d \in Durations, io \in IoOutcomes : Isolate(n, l, d, io)  BY <1>4
  <2> DEFINE directives == Append(isolations, [lineage |-> l, expires |-> ExpiresAt(d)])
  <2>2. PICK a \in Assessments(Admitted(n), store, directives, interrupted, FALSE, io) :
          Publish(a, <<>>, io)
    BY <2>1 DEF Isolate
  <2>3. topology # 0 /\ st' = a.state /\ io \in BOOLEAN
    BY <2>1, <2>2, IoFacts DEF Isolate, CanAssess, Publish
  <2> HIDE DEF directives
  <2> QED  BY <1>1, <1>2, <2>2, <2>3, AssessmentRises
<1>5. CASE \E l \in Lineages, io \in IoOutcomes : ClearIsolation(n, l, io)
  <2>1. PICK l \in Lineages, io \in IoOutcomes : ClearIsolation(n, l, io)  BY <1>5
  <2> DEFINE directives == At(isolations, {i \in DOMAIN isolations : isolations[i].lineage # l})
  <2>2. PICK a \in Assessments(Admitted(n), store, directives, interrupted, FALSE, io) :
          Publish(a, <<>>, io)
    BY <2>1 DEF ClearIsolation
  <2>3. topology # 0 /\ st' = a.state /\ io \in BOOLEAN
    BY <2>1, <2>2, IoFacts DEF ClearIsolation, CanAssess, Publish
  <2> HIDE DEF directives
  <2> QED  BY <1>1, <1>2, <2>2, <2>3, AssessmentRises
<1>6. CASE \E io \in IoOutcomes : Revalidate(n, io)
  <2>1. PICK io \in IoOutcomes : Revalidate(n, io)  BY <1>6
  <2> DEFINE restore == TRUE
  <2>2. PICK a \in Assessments(Admitted(n), store, isolations, interrupted, restore, io) :
          EndInterruptions(a, io)
    BY <2>1 DEF Revalidate
  <2>3. topology # 0 /\ io \in BOOLEAN
    BY <2>1, IoFacts DEF Revalidate, CanAssess
  <2>4. PICK k : st' = [a.state EXCEPT !.fence = @ + k]
    BY <2>2 DEF EndInterruptions
  <2> HIDE DEF restore
  <2> QED  BY <1>1, <1>2, <2>2, <2>3, <2>4, AssessmentRises
<1>7. CASE \E l \in Lineages : Retire(n, l)
  <2>1. PICK l \in Lineages : Retire(n, l)  BY <1>7
  <2>2. st' = Admitted(n) \/ \E k : st' = [Admitted(n) EXCEPT !.lineage = @ + 1, !.fence = @ + k]
    BY <2>1 DEF Retire, JournalledOnly
  <2>3. /\ st'.epoch = st.epoch /\ st'.authority = st.authority
        /\ st'.tick = st.tick /\ st'.attempt = Admitted(n).attempt
    BY <1>2, <2>2 DEF Counters
  <2> QED  BY <1>2, <2>3 DEF Rises
<1>8. CASE \E subject \in ToSet(partitions) :
             \E left, right \in subject.pending, io \in IoOutcomes :
               RequestMerge(n, subject, left, right, io)
  <2>1. PICK subject, left, right, io :
          io \in IoOutcomes /\ RequestMerge(n, subject, left, right, io)
    BY <1>8
  <2> DEFINE r       == MergeRecord(subject, left, right)
             holders == Granted(<<subject>>)
             new     == MakeFences(st, FenceTargets(holders, st.epoch))
             stored  == Fitting(fences, new)
             s       == [Admitted(n) EXCEPT !.lineage = @ + 1, !.fence = @ + Len(new)]
             entries == Outside(interrupted, {left, right})
             before  == <<Record("Lineage", r)>> \o RecordsOf("Fence", stored)
  <2>2. CASE JournalledOnly(n, r)
    BY <1>3, <2>2 DEF JournalledOnly
  <2>3. CASE ~JournalledOnly(n, r)
    <3>1. IsSeq(holders)  BY SingleIsSeq, GrantedIsSeq
    <3>2. /\ s \in Counters /\ s.epoch = st.epoch /\ s.authority = st.authority
          /\ s.tick = st.tick /\ st.attempt <= s.attempt
      <4> HIDE DEF holders
      <4>1. IsSeq(new)  BY <3>1, TargetsAreSeq, FencesAreSeq
      <4> HIDE DEF new
      <4>2. Len(new) \in Nat  BY <4>1, SeqElim
      <4>3. s \in Counters /\ s.epoch = st.epoch /\ s.authority = st.authority
        BY <1>2, <4>2, CountersLineageFence
      <4>4. s.tick = Admitted(n).tick /\ s.attempt = Admitted(n).attempt
        BY <1>2 DEF Counters
      <4> HIDE DEF s
      <4> QED  BY <1>2, <4>3, <4>4
    <3>3. PICK a \in Assessments(s, Append(store, r), isolations, entries, FALSE, io) :
            Publish(a, before, io)
      BY <2>1, <2>3 DEF RequestMerge
    <3>4. topology # 0 /\ st' = a.state
      BY <2>1, <3>3 DEF RequestMerge, CanAssess, Publish
    <3> HIDE DEF s, before, entries, r
    <3>5. io \in BOOLEAN  BY <2>1, IoFacts
    <3> QED  BY <1>1, <3>2, <3>3, <3>4, <3>5, AssessmentRises
  <2> QED  BY <2>2, <2>3
<1>9. CASE DenyRequest(n)
  BY <1>3, <1>9 DEF DenyRequest
<1> QED
  BY <1>4, <1>5, <1>6, <1>7, <1>8, <1>9 DEF Request

LEMMA NextRises ==
  ASSUME IInv, [Next]_vars, phase = "up", phase' = "up"
  PROVE  Rises
<1>1. CASE \/ Flush \/ UNCHANGED vars
           \/ \E claim \in Claims : IngestEvidence(claim)
  <2>1. st' = st  BY <1>1 DEF Flush, IngestEvidence, vars
  <2> QED  BY <2>1, SameRises
<1>2. CASE \E d \in TickSteps : AdvanceTicks(d)
  <2>1. PICK d \in TickSteps : st' = [st EXCEPT !.tick = @ + d]
    BY <1>2 DEF AdvanceTicks
  <2>2. /\ st'.epoch = st.epoch /\ st'.authority = st.authority /\ st'.attempt = st.attempt
        /\ st'.tick = st.tick + d
        /\ st.authority \in Nat /\ st.tick \in Nat /\ st.attempt \in Nat
    BY <2>1 DEF IInv, TypeOK, Counters
  <2>3. d \in Nat  BY RuntimeAssumption
  <2> QED  BY <2>2, <2>3 DEF Rises
<1>3. CASE \/ \E g \in 1..Len(Topologies) : AdoptTopology(g)
           \/ \E g \in 1..Len(Policies) : SetPolicy(g)
  BY <1>3, InputsRise
<1>4. CASE \E io \in IoOutcomes : Assess(io)
  <2>1. PICK io \in IoOutcomes : Assess(io)  BY <1>4
  <2>2. PICK a \in Assessments(st, store, isolations, interrupted, FALSE, io) :
          Publish(a, <<>>, io)
    BY <2>1 DEF Assess
  <2>3. Idle /\ topology # 0 /\ st' = a.state
    BY <2>1, <2>2 DEF Assess, CanAssess, Publish
  <2>4. st \in Counters /\ io \in BOOLEAN  BY <2>3, IdleFacts, IoFacts
  <2>5. st.attempt <= st.attempt  BY <2>4 DEF Counters
  <2> QED  BY <2>2, <2>3, <2>4, <2>5, AssessmentRises
<1>5. CASE \E n \in 1..MaxAttempts : Request(n)
  BY <1>5, RequestRises
<1>6. ~Start /\ ~Refuse /\ ~Crash /\ ~Close
  BY DEF Start, Refuse, Crash, Close
<1> QED
  BY <1>1, <1>2, <1>3, <1>4, <1>5, <1>6 DEF Next

\* Whatever appends fail, the sequence rises while a process runs, and every
\* assessment, of whichever operation, gives each of its grants one that was not
\* drawn before: with EpochFresh, an epoch and an authority sequence name one
\* grant for ever (evaluate_authority and interrupt_all_authority draw from
\* state_.authority_sequence in memory, appended or not).
THEOREM EpochAndSequenceName == Spec => GrantsNamedOnce
<1> DEFINE step ==
      phase = "up" /\ phase' = "up" =>
        /\ st'.epoch = st.epoch /\ st.authority <= st'.authority
        /\ partitions' # partitions =>
             /\ \A i \in Grants(partitions') : /\ st.authority < partitions'[i].authority
                                               /\ partitions'[i].authority <= st'.authority
             /\ \A i, j \in Grants(partitions') :
                  partitions'[i].authority = partitions'[j].authority => i = j
<1>1. IInv /\ [Next]_vars => step
  <2> SUFFICES ASSUME IInv, [Next]_vars, phase = "up", phase' = "up"
               PROVE  step
    OBVIOUS
  <2>1. Rises  BY NextRises
  <2>2. CASE partitions' = partitions
    BY <2>1, <2>2 DEF Rises
  <2>3. CASE partitions' = <<>>
    <3>1. Grants(partitions') = {}  BY <2>3 DEF Grants
    <3> QED  BY <2>1, <3>1 DEF Rises
  <2>4. CASE partitions' # partitions /\ partitions' # <<>>
    <3>1. FreshGrants  BY <2>4, NextGrants DEF Assessed
    <3>2. Held(partitions', st'.authority)
      <4>1. IInv'  BY NextKeeps
      <4> QED  BY <4>1 DEF IInv, Shapes
    <3>3. st.authority \in Nat  BY DEF IInv, TypeOK, Counters
    <3>4. \A i \in Grants(partitions') : /\ st.authority < partitions'[i].authority
                                         /\ partitions'[i].authority <= st'.authority
      BY <3>1, <3>2, <3>3 DEF FreshGrants, Held, Grants
    <3> QED  BY <2>1, <3>1, <3>4 DEF Rises, FreshGrants
  <2> QED  BY <2>2, <2>3, <2>4
<1>2. IInv /\ [Next]_vars => [step]_vars
  BY <1>1
<1> QED
  BY <1>2, Invariance, PTL DEF Spec, GrantsNamedOnce

-----------------------------------------------------------------------------
(* The clock and the floor of the attempts.                                *)

\* A running process is not below what is on disk.
FloorInv ==
  phase = "up" => disk.state.tick <= st.tick /\ disk.state.attempt <= st.attempt

LEMMA FloorTypes ==
  ASSUME IInv
  PROVE  /\ st.tick \in Nat /\ st.attempt \in Nat
         /\ disk.state.tick \in Nat /\ disk.state.attempt \in Nat
  BY DEF IInv, TypeOK, Counters

\* A commit leaves the floors on disk or brings them to those of the memory.
LEMMA FlushFloors ==
  ASSUME IInv, Flush
  PROVE  /\ phase = "up" /\ st' = st
         /\ \/ disk'.state = disk.state
            \/ disk'.state.tick = st.tick /\ disk'.state.attempt = st.attempt
<1> DEFINE r == Head(wal)
           rest == Tail(wal)
<1>1. Range(wal) = {r} \cup Range(rest) /\ phase = "up" /\ st' = st
  BY TailIsSeq DEF IInv, Shapes, Queued, Flush
<1>2. disk' = CASE r.type = "EpochState" -> [disk EXCEPT !.state = r.body.state,
                                                         !.live = r.body.live]
                [] r.type = "Policy"     -> [disk EXCEPT !.policy = r.body]
                [] r.type = "Topology"   -> [disk EXCEPT !.topology = r.body]
                [] r.type = "Lineage"    -> [disk EXCEPT !.lineage = Append(@, r.body)]
                [] r.type = "Fence"      -> [disk EXCEPT !.fences = Append(@, r.body)]
  BY DEF Flush
<1> HIDE DEF r, rest
<1>3. Proper(r, st) /\ DOMAIN disk = DiskFields
  BY <1>1 DEF IInv, Shapes, Queued
<1>4. CASE r.type = "EpochState"
  <2>1. disk'.state = r.body.state
    BY <1>2, <1>3, <1>4 DEF DiskFields
  <2> QED  BY <1>1, <1>3, <1>4, <2>1 DEF Proper
<1>5. CASE r.type # "EpochState"
  <2>1. disk'.state = disk.state
    BY <1>2, <1>3, <1>5 DEF Proper, DiskFields
  <2> QED  BY <1>1, <2>1
<1> QED
  BY <1>4, <1>5

\* A governed request commits nothing by itself, and leaves the ledger alone.
LEMMA RequestFrame ==
  ASSUME NEW n, Request(n)
  PROVE  disk' = disk /\ ledger' = ledger
<1>1. CASE DenyRequest(n)  BY <1>1 DEF DenyRequest, memory
<1>2. CASE \E l \in Lineages, d \in Durations, io \in IoOutcomes : Isolate(n, l, d, io)
  BY <1>2 DEF Isolate
<1>3. CASE \E l \in Lineages, io \in IoOutcomes : ClearIsolation(n, l, io)
  BY <1>3 DEF ClearIsolation
<1>4. CASE \E l \in Lineages : Retire(n, l)  BY <1>4 DEF Retire, JournalledOnly, memory
<1>5. CASE \E subject \in ToSet(partitions) :
             \E left, right \in subject.pending, io \in IoOutcomes :
               RequestMerge(n, subject, left, right, io)
  <2>1. PICK subject, left, right, io : RequestMerge(n, subject, left, right, io)  BY <1>5
  <2>2. CASE JournalledOnly(n, MergeRecord(subject, left, right))
    BY <2>2 DEF JournalledOnly, memory
  <2>3. CASE ~JournalledOnly(n, MergeRecord(subject, left, right))
    BY <2>1, <2>3 DEF RequestMerge
  <2> QED  BY <2>2, <2>3
<1>6. CASE \E io \in IoOutcomes : Revalidate(n, io)  BY <1>6 DEF Revalidate
<1> QED  BY <1>1, <1>2, <1>3, <1>4, <1>5, <1>6 DEF Request

LEMMA NextKeepsFloors ==
  ASSUME IInv, FloorInv, [Next]_vars
  PROVE  /\ FloorInv'
         /\ disk.state.tick <= disk'.state.tick /\ disk.state.attempt <= disk'.state.attempt
<1>0. IInv'  BY NextKeeps
<1>1. /\ st.tick \in Nat /\ st.attempt \in Nat
      /\ disk.state.tick \in Nat /\ disk.state.attempt \in Nat
  BY FloorTypes
<1>2. /\ st'.tick \in Nat /\ st'.attempt \in Nat
      /\ disk'.state.tick \in Nat /\ disk'.state.attempt \in Nat
  BY <1>0 DEF IInv, TypeOK, Counters
<1>3. CASE Flush
  <2>1. /\ phase = "up" /\ st' = st
        /\ \/ disk'.state = disk.state
           \/ disk'.state.tick = st.tick /\ disk'.state.attempt = st.attempt
    BY <1>3, FlushFloors
  <2> QED  BY <1>1, <1>2, <2>1 DEF FloorInv
<1>4. CASE ~Flush
  <2>1. disk' = disk
    <3>1. CASE \E n \in 1..MaxAttempts : Request(n)
      BY <3>1, RequestFrame
    <3>2. CASE ~\E n \in 1..MaxAttempts : Request(n)
      BY <1>4, <3>2 DEF Next, Start, Refuse, Crash, Close, AdvanceTicks, AdoptTopology,
                        SetPolicy, IngestEvidence, Assess, vars
    <3> QED  BY <3>1, <3>2
  <2>2. CASE phase' # "up"
    BY <1>1, <2>1, <2>2 DEF FloorInv
  <2>3. CASE phase = "up" /\ phase' = "up"
    <3>1. Rises  BY <2>3, NextRises
    <3> QED  BY <1>1, <1>2, <2>1, <2>3, <3>1 DEF FloorInv, Rises
  <2>4. CASE phase # "up" /\ phase' = "up"
    <3>1. Start
      <4>1. ~\E n \in 1..MaxAttempts : Request(n)
        <5>1. ASSUME NEW n, Request(n)  PROVE Idle
          BY <5>1 DEF Request, DenyRequest, Isolate, ClearIsolation, Retire, RequestMerge,
                      Revalidate, Admits
        <5> QED  BY <2>4, <5>1 DEF Idle
      <4> QED  BY <2>4, <4>1 DEF Next, Refuse, Crash, Flush, Close, AdvanceTicks, AdoptTopology,
                                 SetPolicy, IngestEvidence, Assess, Idle, vars
    <3>2. PICK k : st' = [disk.state EXCEPT !.fence = @ + k, !.epoch = @ + 1]
      BY <3>1 DEF Start
    <3>3. st'.tick = disk.state.tick /\ st'.attempt = disk.state.attempt
      BY <3>2 DEF IInv, TypeOK, Counters
    <3> QED  BY <1>1, <2>1, <3>3 DEF FloorInv
  <2> QED  BY <2>2, <2>3, <2>4
<1> QED
  BY <1>3, <1>4

LEMMA FloorInvariance == Spec => []FloorInv
<1>1. Init => FloorInv  BY DEF Init, FloorInv
<1>2. IInv /\ FloorInv /\ [Next]_vars => FloorInv'  BY NextKeepsFloors
<1> QED  BY <1>1, <1>2, Invariance, PTL DEF Spec

\* The clock and the floor of the attempts that an epoch state has put on disk are
\* never lost: they never go back there, every later process starts at them, and
\* no attempt they cover is admitted again.  What may be lost is what came after
\* the last epoch state, and an epoch state whose append failed.
THEOREM FloorsNeverFall == Spec => FloorsRise
<1> DEFINE step ==
      /\ disk.state.tick <= disk'.state.tick /\ disk.state.attempt <= disk'.state.attempt
      /\ phase' = "up" => /\ disk'.state.tick <= st'.tick
                          /\ disk'.state.attempt <= st'.attempt
      /\ phase = "up" /\ phase' = "up" /\ st'.attempt # st.attempt =>
           st'.attempt > disk.state.attempt
<1>1. IInv /\ FloorInv /\ [Next]_vars => step
  <2> SUFFICES ASSUME IInv, FloorInv, [Next]_vars
               PROVE  step
    OBVIOUS
  <2>1. /\ FloorInv'
        /\ disk.state.tick <= disk'.state.tick /\ disk.state.attempt <= disk'.state.attempt
    BY NextKeepsFloors
  <2>2. phase = "up" /\ phase' = "up" /\ st'.attempt # st.attempt =>
          st'.attempt > disk.state.attempt
    <3> SUFFICES ASSUME phase = "up", phase' = "up", st'.attempt # st.attempt
                 PROVE  st'.attempt > disk.state.attempt
      OBVIOUS
    <3>1. Rises  BY NextRises
    <3>2. /\ disk.state.attempt \in Nat /\ st.attempt \in Nat /\ st'.attempt \in Nat
      <4>1. IInv'  BY NextKeeps
      <4> QED  BY <4>1, FloorTypes DEF IInv, TypeOK, Counters
    <3> QED  BY <3>1, <3>2 DEF FloorInv, Rises
  <2> QED  BY <2>1, <2>2 DEF FloorInv
<1>2. IInv /\ FloorInv /\ [Next]_vars => [step]_vars
  BY <1>1
<1> QED
  BY <1>2, Invariance, FloorInvariance, PTL DEF Spec, FloorsRise

-----------------------------------------------------------------------------
(* Order.                                                                  *)

\* The place of an element in the order of its key.
RankOf(S, key, x) == Cardinality({y \in S : key[y] <= key[x]})

\* The elements of a finite set with distinct keys have the ranks from one on.
LEMMA RankOnto ==
  ASSUME NEW S, IsFiniteSet(S), NEW key \in [S -> Nat],
         \A x, y \in S : key[x] = key[y] => x = y
  PROVE  /\ \A x \in S : RankOf(S, key, x) \in 1..Cardinality(S)
         /\ \A x, y \in S : RankOf(S, key, x) = RankOf(S, key, y) => x = y
         /\ \A k \in 1..Cardinality(S) : \E x \in S : RankOf(S, key, x) = k
<1> DEFINE below(x) == {y \in S : key[y] <= key[x]}
           n == Cardinality(S)
           rank == [x \in S |-> RankOf(S, key, x)]
<1>1. n \in Nat
  BY FS_CardinalityType
<1>2. ASSUME NEW x \in S
      PROVE  /\ IsFiniteSet(below(x)) /\ RankOf(S, key, x) = Cardinality(below(x))
             /\ RankOf(S, key, x) \in 1..n
  <2>1. below(x) \in SUBSET S /\ x \in below(x)
    OBVIOUS
  <2>2. IsFiniteSet(below(x)) /\ Cardinality(below(x)) <= n
    <3> HIDE DEF below
    <3> QED  BY <2>1, FS_Subset
  <2>3. Cardinality(below(x)) \in Nat /\ Cardinality(below(x)) # 0
    <3> HIDE DEF below
    <3> QED  BY <2>1, <2>2, FS_CardinalityType, FS_EmptySet
  <2>4. RankOf(S, key, x) = Cardinality(below(x))
    BY DEF RankOf
  <2> HIDE DEF below, n
  <2> QED  BY <2>2, <2>3, <2>4, <1>1
<1>3. ASSUME NEW x \in S, NEW y \in S, key[x] < key[y]
      PROVE  RankOf(S, key, x) # RankOf(S, key, y)
  <2>1. key[x] \in Nat /\ key[y] \in Nat
    OBVIOUS
  <2>2. below(x) \in SUBSET below(y) /\ y \in below(y) /\ y \notin below(x)
    BY <1>3, <2>1
  <2>3. IsFiniteSet(below(y)) /\ below(x) # below(y)
    <3>1. IsFiniteSet(below(y))  BY <1>2
    <3> HIDE DEF below
    <3> QED  BY <2>2, <3>1
  <2>4. Cardinality(below(x)) # Cardinality(below(y))
    <3> HIDE DEF below
    <3> QED  BY <2>2, <2>3, FS_Subset
  <2> HIDE DEF below
  <2> QED  BY <2>4, <1>2
<1>4. ASSUME NEW x \in S, NEW y \in S, RankOf(S, key, x) = RankOf(S, key, y)
      PROVE  x = y
  <2>1. key[x] \in Nat /\ key[y] \in Nat
    OBVIOUS
  <2>2. ~(key[x] < key[y]) /\ ~(key[y] < key[x])
    BY <1>3, <1>4
  <2> QED  BY <2>1, <2>2
<1>5. rank \in Injection(S, 1..n)
  BY <1>2, <1>4 DEF Injection, IsInjective
<1>6. IsFiniteSet(1..n) /\ Cardinality(1..n) = n
  <2>1. 1 \in Int /\ n \in Int  BY <1>1
  <2> HIDE DEF n
  <2> QED  BY <2>1, <1>1, FS_Interval
<1>7. rank \in Surjection(S, 1..n)
  <2> HIDE DEF rank
  <2> QED  BY <1>5, <1>6, FS_Injection
<1>8. ASSUME NEW k \in 1..n PROVE \E x \in S : RankOf(S, key, x) = k
  BY <1>7 DEF Surjection
<1> QED
  BY <1>2, <1>4, <1>8

\* What At holds: the elements at the places, all of them and nothing else.
LEMMA AtElements ==
  ASSUME NEW s, IsSeq(s), NEW places, places \subseteq DOMAIN s
  PROVE  /\ \A k \in DOMAIN At(s, places) : \E i \in places : At(s, places)[k] = s[i]
         /\ \A i \in places : \E k \in DOMAIN At(s, places) : At(s, places)[k] = s[i]
<1> DEFINE key == [i \in places |-> i]
           n == Cardinality(places)
           has(i, k) == Cardinality({j \in places : j <= i}) = k
<1>1. IsFiniteSet(places) /\ places \subseteq Nat
  <2>1. Len(s) \in Nat /\ DOMAIN s = 1..Len(s)  BY SeqElim
  <2>2. IsFiniteSet(1..Len(s))  BY <2>1, FS_Interval
  <2> QED  BY <2>1, <2>2, FS_Subset
<1>2. key \in [places -> Nat] /\ \A i, j \in places : key[i] = key[j] => i = j
  BY <1>1
<1>3. \A i \in places : RankOf(places, key, i) = Cardinality({j \in places : j <= i})
  <2> SUFFICES ASSUME NEW i \in places
               PROVE  {j \in places : key[j] <= key[i]} = {j \in places : j <= i}
    BY DEF RankOf
  <2> QED  OBVIOUS
<1> HIDE DEF key
<1>4. /\ \A i \in places : Cardinality({j \in places : j <= i}) \in 1..n
      /\ \A i, j \in places : \A k : has(i, k) /\ has(j, k) => i = j
      /\ \A k \in 1..n : \E i \in places : has(i, k)
  BY <1>1, <1>2, <1>3, RankOnto
<1>5. At(s, places) = [k \in 1..n |-> s[CHOOSE i \in places : has(i, k)]]
  BY DEF At
<1>6. ASSUME NEW k \in 1..n PROVE \E i \in places : has(i, k) /\ At(s, places)[k] = s[i]
  <2>1. PICK i \in places : has(i, k)  BY <1>4
  <2> DEFINE c == CHOOSE x \in places : has(x, k)
  <2>2. c \in places /\ has(c, k)
    <3> HIDE DEF has
    <3> QED  BY <2>1
  <2>3. At(s, places)[k] = s[c]  BY <1>5
  <2> HIDE DEF c, has
  <2> QED  BY <2>2, <2>3
<1>7. ASSUME NEW i \in places PROVE \E k \in 1..n : At(s, places)[k] = s[i]
  <2> DEFINE k == Cardinality({j \in places : j <= i})
  <2>1. k \in 1..n /\ has(i, k)  BY <1>4
  <2>2. PICK j \in places : has(j, k) /\ At(s, places)[k] = s[j]  BY <2>1, <1>6
  <2>3. j = i  BY <2>1, <2>2, <1>4
  <2> HIDE DEF k
  <2> QED  BY <2>1, <2>2, <2>3
<1>8. DOMAIN At(s, places) = 1..n
  BY <1>5
<1> HIDE DEF n, has
<1> QED
  BY <1>6, <1>7, <1>8

-----------------------------------------------------------------------------
(* Grants on disk.                                                         *)

Mark(p) == [partition |-> PartitionId(p), lineage |-> p.lineage, authority |-> p.authority]

\* Every grant has its mark, and every mark is the mark of a grant.
LEMMA MarksAreGrants ==
  ASSUME NEW ps, IsSeq(ps)
  PROVE  /\ \A i \in Grants(ps) : \E j \in DOMAIN Marks(ps) : Marks(ps)[j] = Mark(ps[i])
         /\ \A j \in DOMAIN Marks(ps) : \E i \in Grants(ps) : Marks(ps)[j] = Mark(ps[i])
<1> DEFINE granted == Granted(ps)
<1>1. Grants(ps) \subseteq DOMAIN ps
  BY DEF Grants
<1>2. /\ \A k \in DOMAIN granted : \E i \in Grants(ps) : granted[k] = ps[i]
      /\ \A i \in Grants(ps) : \E k \in DOMAIN granted : granted[k] = ps[i]
  BY <1>1, AtElements DEF Granted
<1>3. DOMAIN Marks(ps) = DOMAIN granted /\ \A k \in DOMAIN granted : Marks(ps)[k] = Mark(granted[k])
  BY DEF Marks, Mark
<1> HIDE DEF granted
<1> QED
  BY <1>2, <1>3

\* Every epoch state among the records names exactly the grants of ps.
Marking(records, ps) ==
  \A r \in Range(records) : r.type = "EpochState" => r.body.live = Marks(ps)

\* The last epoch state, on disk or still queued, names the grants in force.
LiveOnDisk ==
  phase = "up" => /\ Marking(wal, partitions)
                  /\ HasEpoch(wal) \/ disk.live = Marks(partitions)

LEMMA SilentRecords ==
  /\ ~HasEpoch(<<>>)
  /\ \A r : r.type # "EpochState" => ~HasEpoch(<<r>>)
  /\ \A type, bodies : type # "EpochState" => ~HasEpoch(RecordsOf(type, bodies))
  /\ \A a, b : IsSeq(a) /\ IsSeq(b) /\ ~HasEpoch(a) /\ ~HasEpoch(b) => ~HasEpoch(a \o b)
<1>1. ~HasEpoch(<<>>)
  BY EmptyQueued
<1>2. ASSUME NEW r, r.type # "EpochState" PROVE ~HasEpoch(<<r>>)
  BY <1>2, SingleIsSeq DEF HasEpoch
<1>3. ASSUME NEW type, NEW bodies, type # "EpochState" PROVE ~HasEpoch(RecordsOf(type, bodies))
  BY <1>3 DEF HasEpoch, RecordsOf, Record, Range
<1>4. ASSUME NEW a, NEW b, IsSeq(a), IsSeq(b), ~HasEpoch(a), ~HasEpoch(b)
      PROVE  ~HasEpoch(a \o b)
  BY <1>4, ConcatIsSeq DEF HasEpoch
<1> QED
  BY <1>1, <1>2, <1>3, <1>4

\* A record of another kind with fences after it.
LEMMA SilentFences ==
  ASSUME NEW r, r.type # "EpochState", NEW stored, IsSeq(stored)
  PROVE  ~HasEpoch(<<r>> \o RecordsOf("Fence", stored))
<1> DEFINE more == RecordsOf("Fence", stored)
<1>1. IsSeq(more) /\ IsSeq(<<r>>)
  BY RecordsAreSeq, SingleIsSeq
<1>2. ~HasEpoch(more) /\ ~HasEpoch(<<r>>)
  BY SilentRecords
<1> HIDE DEF more
<1> QED
  BY <1>1, <1>2, ConcatIsSeq DEF HasEpoch, more

\* The fences that find a place.
LEMMA StoredIsSeq ==
  ASSUME IsSeq(fences), NEW c, NEW targets, IsSeq(targets)
  PROVE  IsSeq(Fitting(fences, MakeFences(c, targets)))
<1>1. IsSeq(MakeFences(c, targets))  BY FencesAreSeq
<1> QED  BY <1>1, FittingIsSeq

\* An operation that makes no assessment.
LEMMA SilentKeepsLive ==
  ASSUME LiveOnDisk, Idle, UNCHANGED <<phase, partitions, disk>>, ~HasEpoch(wal')
  PROVE  LiveOnDisk'
<1>1. ~HasEpoch(wal)  BY EmptyQueued DEF Idle
<1>2. Marking(wal', partitions')  BY DEF Marking, HasEpoch
<1> QED  BY <1>1, <1>2 DEF LiveOnDisk, Idle

\* What an assessment is made of.
SnapshotAt(s) ==
  Snapshot(Topologies[topology], topology, ledger.retained, Policies[policy].maxAge, s.tick)
BuiltFrom(s, lineages) == BuildPartitions(lineages, SnapshotAt(s).groups, s.generation + 1)

LEMMA AssessmentParts ==
  ASSUME NEW s \in Counters, topology \in 1..Len(Topologies),
         NEW lineages, NEW directives, NEW entries, NEW restore, NEW io \in BOOLEAN,
         NEW a \in Assessments(s, lineages, directives, entries, restore, io)
  PROVE  /\ IsSeq(BuiltFrom(s, lineages))
         /\ a.partitions = EvaluateAuthority(s, Policies[policy], SnapshotAt(s),
                              BuiltFrom(s, lineages), directives, entries, restore)
         /\ Issued(a.partitions, s.authority)
         /\ LET done == CommitLineage(lineages, s.lineage, a.partitions, SnapshotAt(s).fresh, io)
            IN  /\ a.store = done.store /\ a.written = done.written
                /\ a.state.lineage = done.last
         /\ IsSeq(a.written)
<1> DEFINE snap == SnapshotAt(s)
           built == BuiltFrom(s, lineages)
           ps == EvaluateAuthority(s, Policies[policy], snap, built, directives, entries, restore)
           done == CommitLineage(lineages, s.lineage, ps, snap.fresh, io)
<1>1. a = Outcome(s, snap, ps, done)
  BY DEF Assessments, SnapshotAt, BuiltFrom
<1>2. Topologies[topology] \in Range(Topologies)
  BY RuntimeAssumption DEF Range
<1>3. IsSeq(built)
  BY <1>2, BuiltIsSeq DEF BuiltFrom, SnapshotAt
<1>4. s.authority \in Nat /\ s.lineage \in Nat
  BY DEF Counters
<1> HIDE DEF built, snap
<1>5. Issued(ps, s.authority)
  BY <1>3, <1>4, EvaluateAuthorityFacts
<1>6. IsSeq(ps)
  BY <1>5 DEF Issued
<1> HIDE DEF ps
<1>7. IsSeq(done.written)
  BY <1>6, <1>4, CommitLineageTyped DEF CommitTyped
<1> HIDE DEF done
<1>8. /\ a.partitions = ps /\ a.store = done.store /\ a.written = done.written
      /\ a.state.lineage = done.last
  BY <1>1 DEF Outcome, Counters
<1> QED
  BY <1>3, <1>5, <1>7, <1>8 DEF snap, built, ps, done

\* The records of an assessment that is committed.
LEMMA AssessmentMarks ==
  ASSUME NEW a, IsSeq(a.written)
  PROVE  /\ IsSeq(AssessmentRecords(a, TRUE))
         /\ Marking(AssessmentRecords(a, TRUE), a.partitions)
         /\ HasEpoch(AssessmentRecords(a, TRUE))
<1> DEFINE first == RecordsOf("Lineage", a.written)
           last == EpochState(a.state, a.partitions)
<1>1. AssessmentRecords(a, TRUE) = first \o <<last>>  BY DEF AssessmentRecords
<1>2. last.type = "EpochState" /\ last.body.live = Marks(a.partitions)  BY DEF EpochState, Record
<1>3. IsSeq(first) /\ \A r \in Range(first) : r.type = "Lineage"  BY RecordsAreSeq
<1> HIDE DEF first, last
<1>4. IsSeq(first \o <<last>>) /\ Range(first \o <<last>>) = Range(first) \cup {last}
  BY <1>3, SingleIsSeq, ConcatIsSeq
<1> QED
  BY <1>1, <1>2, <1>3, <1>4 DEF Marking, HasEpoch

\* An operation that queues a committed assessment, and records of other kinds.
LEMMA AssessmentKeepsLive ==
  ASSUME topology \in 1..Len(Topologies), phase' = "up",
         NEW s \in Counters, NEW lineages, NEW directives, NEW entries, NEW restore,
         NEW a \in Assessments(s, lineages, directives, entries, restore, TRUE),
         NEW others, \A r \in others : r.type # "EpochState",
         partitions' = a.partitions, Range(wal') = Range(AssessmentRecords(a, TRUE)) \cup others
  PROVE  LiveOnDisk'
<1>1. IsSeq(a.written)
  BY AssessmentParts
<1>2. Marking(AssessmentRecords(a, TRUE), a.partitions) /\ HasEpoch(AssessmentRecords(a, TRUE))
  BY <1>1, AssessmentMarks
<1>3. Marking(wal', partitions') /\ HasEpoch(wal')
  BY <1>2 DEF Marking, HasEpoch
<1> QED
  BY <1>3 DEF LiveOnDisk

LEMMA PublishKeepsLive ==
  ASSUME IInv, Idle, topology # 0, phase' = phase,
         NEW s \in Counters, NEW lineages, NEW directives, NEW entries,
         NEW a \in Assessments(s, lineages, directives, entries, FALSE, TRUE),
         NEW before, IsSeq(before), ~HasEpoch(before), Publish(a, before, TRUE)
  PROVE  LiveOnDisk'
<1> DEFINE records == AssessmentRecords(a, TRUE)
<1>1. topology \in 1..Len(Topologies) /\ phase' = "up"
  BY IdleFacts DEF Idle
<1>2. partitions' = a.partitions /\ wal' = before \o records
  BY DEF Publish, Adopt, Return
<1>3. IsSeq(a.written)
  BY <1>1, AssessmentParts
<1>4. IsSeq(records)
  BY <1>3, AssessmentMarks
<1>5. Range(wal') = Range(records) \cup Range(before)
  <2> HIDE DEF records
  <2> QED  BY <1>2, <1>4, ConcatIsSeq
<1>6. \A r \in Range(before) : r.type # "EpochState"
  BY DEF HasEpoch
<1> QED
  BY <1>1, <1>2, <1>5, <1>6, AssessmentKeepsLive

LEMMA AssessKeepsLive ==
  ASSUME IInv, Assess(TRUE)
  PROVE  LiveOnDisk'
<1>1. PICK a \in Assessments(st, store, isolations, interrupted, FALSE, TRUE) :
        Publish(a, <<>>, TRUE)
  BY DEF Assess
<1>2. Idle /\ topology # 0 /\ phase' = phase
  BY DEF Assess, CanAssess
<1>3. st \in Counters  BY <1>2, IdleFacts
<1>4. IsSeq(<<>>) /\ ~HasEpoch(<<>>)  BY EmptyIsSeq, EmptyQueued
<1> QED
  BY <1>1, <1>2, <1>3, <1>4, PublishKeepsLive

LEMMA IsolateKeepsLive ==
  ASSUME IInv, NEW n \in 1..MaxAttempts, NEW l, NEW d, Isolate(n, l, d, TRUE)
  PROVE  LiveOnDisk'
<1> DEFINE directives == Append(isolations, [lineage |-> l, expires |-> ExpiresAt(d)])
<1>1. PICK a \in Assessments(Admitted(n), store, directives, interrupted, FALSE, TRUE) :
        Publish(a, <<>>, TRUE)
  BY DEF Isolate
<1>2. Idle /\ topology # 0 /\ phase' = phase
  BY DEF Isolate, Admits, CanAssess
<1>3. Admitted(n) \in Counters  BY <1>2, AdmittedFacts
<1>4. IsSeq(<<>>) /\ ~HasEpoch(<<>>)  BY EmptyIsSeq, EmptyQueued
<1> HIDE DEF directives
<1> QED
  BY <1>1, <1>2, <1>3, <1>4, PublishKeepsLive

LEMMA ClearIsolationKeepsLive ==
  ASSUME IInv, NEW n \in 1..MaxAttempts, NEW l, ClearIsolation(n, l, TRUE)
  PROVE  LiveOnDisk'
<1> DEFINE directives == At(isolations, {i \in DOMAIN isolations : isolations[i].lineage # l})
<1>1. PICK a \in Assessments(Admitted(n), store, directives, interrupted, FALSE, TRUE) :
        Publish(a, <<>>, TRUE)
  BY DEF ClearIsolation
<1>2. Idle /\ topology # 0 /\ phase' = phase
  BY DEF ClearIsolation, Admits, CanAssess
<1>3. Admitted(n) \in Counters  BY <1>2, AdmittedFacts
<1>4. IsSeq(<<>>) /\ ~HasEpoch(<<>>)  BY EmptyIsSeq, EmptyQueued
<1> HIDE DEF directives
<1> QED
  BY <1>1, <1>2, <1>3, <1>4, PublishKeepsLive

LEMMA JournalledOnlyKeepsLive ==
  ASSUME LiveOnDisk, Idle, NEW n, NEW r, JournalledOnly(n, r)
  PROVE  LiveOnDisk'
<1>1. Record("Lineage", r).type # "EpochState"  BY DEF Record
<1>2. ~HasEpoch(<<Record("Lineage", r)>>)  BY <1>1, SilentRecords
<1>3. wal' = <<Record("Lineage", r)>> /\ UNCHANGED <<phase, partitions, disk>>
  BY DEF JournalledOnly, Return, memory
<1> QED
  BY <1>2, <1>3, SilentKeepsLive

LEMMA RetireKeepsLive ==
  ASSUME IInv, LiveOnDisk, NEW n, NEW l, Retire(n, l)
  PROVE  LiveOnDisk'
<1> DEFINE r == RetireRecord(l)
<1>1. Idle  BY DEF Retire, Admits
<1>2. CASE JournalledOnly(n, r)
  BY <1>1, <1>2, JournalledOnlyKeepsLive
<1>3. CASE ~JournalledOnly(n, r)
  <2> DEFINE holders   == At(partitions, {i \in Grants(partitions) : partitions[i].lineage = l})
             new    == MakeFences(st, FenceTargets(holders, st.epoch))
             stored == Fitting(fences, new)
             first  == Record("Lineage", r)
  <2>1. wal' = <<first>> \o RecordsOf("Fence", stored) /\ UNCHANGED <<phase, partitions, disk>>
    BY <1>3 DEF Retire, Return
  <2>2. IsSeq(fences) /\ IsSeq(partitions)
    BY <1>1, IdleFacts DEF Held
  <2>3. IsSeq(holders)
    <3>1. {i \in Grants(partitions) : partitions[i].lineage = l} \subseteq DOMAIN partitions
      BY DEF Grants
    <3> QED  BY <2>2, <3>1, AtIsSeq
  <2> HIDE DEF holders
  <2>4. IsSeq(stored)
    BY <2>2, <2>3, TargetsAreSeq, StoredIsSeq
  <2>5. first.type # "EpochState"  BY DEF Record
  <2> HIDE DEF stored, first
  <2>6. ~HasEpoch(wal')  BY <2>1, <2>4, <2>5, SilentFences
  <2> QED  BY <1>1, <2>1, <2>6, SilentKeepsLive
<1> QED  BY <1>2, <1>3

LEMMA RequestMergeKeepsLive ==
  ASSUME IInv, LiveOnDisk, NEW n \in 1..MaxAttempts, NEW subject, NEW left, NEW right,
         RequestMerge(n, subject, left, right, TRUE)
  PROVE  LiveOnDisk'
<1> DEFINE r == MergeRecord(subject, left, right)
<1>1. Idle /\ topology # 0  BY DEF RequestMerge, Admits, CanAssess
<1>2. CASE JournalledOnly(n, r)
  BY <1>1, <1>2, JournalledOnlyKeepsLive
<1>3. CASE ~JournalledOnly(n, r)
  <2> DEFINE holders    == Granted(<<subject>>)
             new     == MakeFences(st, FenceTargets(holders, st.epoch))
             stored  == Fitting(fences, new)
             s       == [Admitted(n) EXCEPT !.lineage = @ + 1, !.fence = @ + Len(new)]
             entries == Outside(interrupted, {left, right})
             first   == Record("Lineage", r)
             before  == <<first>> \o RecordsOf("Fence", stored)
  <2>1. /\ \E a \in Assessments(s, Append(store, r), isolations, entries, FALSE, TRUE) :
             Publish(a, before, TRUE)
        /\ phase' = phase
    BY <1>3 DEF RequestMerge
  <2>2. IsSeq(holders)  BY SingleIsSeq, GrantedIsSeq
  <2> HIDE DEF holders
  <2>3. s \in Counters  BY <1>1, <2>2, GovernedFacts
  <2>4. IsSeq(stored)
    BY <1>1, <2>2, IdleFacts, TargetsAreSeq, StoredIsSeq
  <2>5. first.type # "EpochState"  BY DEF Record
  <2> HIDE DEF s, stored, first, entries, r
  <2>6. ~HasEpoch(before)  BY <2>4, <2>5, SilentFences
  <2>7. IsSeq(before)
    <3>1. IsSeq(RecordsOf("Fence", stored)) /\ IsSeq(<<first>>)
      BY <2>4, RecordsAreSeq, SingleIsSeq
    <3> QED  BY <3>1, ConcatIsSeq
  <2> HIDE DEF before
  <2> QED  BY <1>1, <2>1, <2>3, <2>6, <2>7, PublishKeepsLive
<1> QED  BY <1>2, <1>3

LEMMA RevivedIsSeq ==
  ASSUME NEW ps, IsSeq(ps), NEW entries, NEW epoch
  PROVE  IsSeq(Revived(ps, entries, epoch))
<1> DEFINE places  == {i \in Grants(ps) : IsInterrupted(entries, ps[i].lineage)}
           back    == At(ps, places)
           targets == Revived(ps, entries, epoch)
<1>1. IsSeq(back)
  <2>1. places \subseteq DOMAIN ps  BY DEF Grants
  <2> QED  BY <2>1, AtIsSeq
<1>2. Len(back) \in Nat /\ DOMAIN back = 1..Len(back)  BY <1>1, SeqElim
<1>3. targets = [i \in 1..Len(back) |-> targets[i]]
  BY <1>2 DEF Revived
<1> HIDE DEF back, targets
<1>4. IsSeq(targets)  BY <1>2, <1>3, SeqIntro
<1> QED  BY <1>4 DEF targets

LEMMA RevalidateKeepsLive ==
  ASSUME IInv, NEW n \in 1..MaxAttempts, Revalidate(n, TRUE)
  PROVE  LiveOnDisk'
<1> DEFINE s == Admitted(n)
           restore == TRUE
<1>1. PICK a \in Assessments(s, store, isolations, interrupted, restore, TRUE) :
        Adopt(a) /\ EndInterruptions(a, TRUE)
  BY DEF Revalidate
<1>2. Idle /\ topology # 0 /\ phase' = phase
  BY DEF Revalidate, Admits, CanAssess
<1>3. s \in Counters /\ topology \in 1..Len(Topologies) /\ IsSeq(fences) /\ phase' = "up"
  BY <1>2, AdmittedFacts, IdleFacts DEF Idle
<1> HIDE DEF s, restore
<1> DEFINE targets == Revived(a.partitions, interrupted, a.state.epoch)
           stored  == Fitting(fences, MakeFences(a.state, targets))
           records == AssessmentRecords(a, TRUE)
           more    == RecordsOf("Fence", stored)
<1>4. wal' = records \o more /\ partitions' = a.partitions
  BY <1>1 DEF EndInterruptions, Adopt, Return
<1>5. IsSeq(a.written) /\ IsSeq(a.partitions)
  BY <1>3, AssessmentParts DEF Issued
<1>6. IsSeq(targets)
  BY <1>5, RevivedIsSeq
<1> HIDE DEF targets
<1>7. IsSeq(stored)
  BY <1>3, <1>6, StoredIsSeq
<1> HIDE DEF stored
<1>8. IsSeq(more) /\ \A r \in Range(more) : r.type = "Fence"
  BY <1>7, RecordsAreSeq
<1>9. IsSeq(records)
  BY <1>5, AssessmentMarks
<1>10. Range(wal') = Range(records) \cup Range(more)
  <2> HIDE DEF records, more
  <2> QED  BY <1>4, <1>8, <1>9, ConcatIsSeq
<1>11. \A r \in Range(more) : r.type # "EpochState"
  BY <1>8
<1> HIDE DEF more
<1> QED
  BY <1>1, <1>3, <1>4, <1>10, <1>11, AssessmentKeepsLive

LEMMA InterruptAllKeepsLive ==
  ASSUME IInv, LiveOnDisk, Idle, NEW first, first.type # "EpochState", InterruptAll(first),
         UNCHANGED <<phase, partitions, disk>>
  PROVE  LiveOnDisk'
<1> DEFINE granted == Granted(partitions)
           targets == FenceTargets(granted, st.epoch)
           stored  == Fitting(fences, MakeFences(st, targets))
<1>1. wal' = <<first>> \o RecordsOf("Fence", stored)
  BY DEF InterruptAll, Return
<1>2. IsSeq(fences) /\ IsSeq(partitions)
  BY IdleFacts DEF Held
<1>3. IsSeq(targets)
  BY <1>2, GrantedIsSeq, TargetsAreSeq
<1> HIDE DEF targets
<1>4. IsSeq(stored)
  BY <1>2, <1>3, StoredIsSeq
<1> HIDE DEF stored
<1>5. ~HasEpoch(wal')
  BY <1>1, <1>4, SilentFences
<1> QED
  BY <1>5, SilentKeepsLive

LEMMA AdoptTopologyKeepsLive ==
  ASSUME IInv, LiveOnDisk, NEW g, AdoptTopology(g)
  PROVE  LiveOnDisk'
<1> DEFINE first == Record("Topology", g)
<1>1. Idle /\ UNCHANGED <<phase, partitions, disk>>
  BY DEF AdoptTopology
<1>2. first.type # "EpochState"  BY DEF Record
<1>3. InterruptAll(first) \/ wal' = <<first>>
  BY DEF AdoptTopology, Return
<1> HIDE DEF first
<1>4. CASE InterruptAll(first)  BY <1>1, <1>2, <1>4, InterruptAllKeepsLive
<1>5. CASE wal' = <<first>>
  <2>1. ~HasEpoch(wal')  BY <1>2, <1>5, SilentRecords
  <2> QED  BY <1>1, <2>1, SilentKeepsLive
<1> QED  BY <1>3, <1>4, <1>5

LEMMA SetPolicyKeepsLive ==
  ASSUME IInv, LiveOnDisk, NEW g, SetPolicy(g)
  PROVE  LiveOnDisk'
<1> DEFINE first == Record("Policy", g)
<1>1. Idle /\ UNCHANGED <<phase, partitions, disk>> /\ InterruptAll(first)
  BY DEF SetPolicy
<1>2. first.type # "EpochState"  BY DEF Record
<1> HIDE DEF first
<1> QED  BY <1>1, <1>2, InterruptAllKeepsLive

LEMMA LastFencesIsSeq ==
  ASSUME NEW all, IsSeq(all)
  PROVE  IsSeq(LastFences(all))
<1> DEFINE kept == LastFences(all)
           from == Max({1, Len(all) - MaxFences + 1})
           n == 1 + Len(all) - from
<1>1. Len(all) \in Nat /\ MaxFences \in Nat  BY SeqElim, RuntimeAssumption
<1>2. from \in Int
  <2>1. 1 \in Int /\ Len(all) - MaxFences + 1 \in Int  BY <1>1
  <2>2. from \in {1, Len(all) - MaxFences + 1}  BY <2>1, MaxOfTwo, Zenon
  <2> QED  BY <2>1, <2>2
<1>3. kept = SubSeq(all, from, Len(all))  BY DEF LastFences
<1> HIDE DEF from, kept
<1>4. kept = [i \in 1..n |-> kept[i]]
  BY <1>1, <1>2, <1>3
<1>5. CASE n \in Nat
  <2>1. IsSeq(kept)  BY <1>4, <1>5, SeqIntro
  <2> QED  BY <2>1 DEF kept
<1>6. CASE n \notin Nat
  <2>1. n \in Int /\ 1..n = 1..0  BY <1>1, <1>2, <1>6
  <2>2. kept = [i \in 1..0 |-> kept[i]]  BY <1>4, <2>1
  <2>3. IsSeq(kept)  BY <2>2, SeqIntro
  <2> QED  BY <2>3 DEF kept
<1> QED  BY <1>5, <1>6

LEMMA RestoredIsSeq ==
  ASSUME IsSeq(disk.live)
  PROVE  IsSeq(RestoredInterruptions(disk))
<1> DEFINE entries == RestoredInterruptions(disk)
<1>1. Len(disk.live) \in Nat /\ DOMAIN disk.live = 1..Len(disk.live)
  BY SeqElim
<1>2. entries = [i \in 1..Len(disk.live) |-> entries[i]]
  BY <1>1 DEF RestoredInterruptions
<1> HIDE DEF entries
<1>3. IsSeq(entries)  BY <1>1, <1>2, SeqIntro
<1> QED  BY <1>3 DEF entries

\* A start queues fences and an epoch state with no grant and the lineage sequence
\* of the disk.
LEMMA StartQueues ==
  ASSUME IInv, Start
  PROVE  /\ HasEpoch(wal')
         /\ \A r \in Range(wal') :
              \/ r.type = "Fence"
              \/ /\ r.type = "EpochState" /\ r.body.live = Marks(<<>>)
                 /\ r.body.state.lineage = disk.state.lineage
<1> DEFINE kept    == LastFences(disk.fences)
           new     == MakeFences(disk.state, RestoredInterruptions(disk))
           stored  == Fitting(kept, new)
           s       == [disk.state EXCEPT !.fence = @ + Len(new), !.epoch = @ + 1]
           last    == EpochState(s, <<>>)
           more    == RecordsOf("Fence", stored)
<1>1. wal' = more \o <<last>>
  BY DEF Start, Return, StartRecords
<1>2. /\ last.type = "EpochState" /\ last.body.live = Marks(<<>>)
      /\ last.body.state.lineage = disk.state.lineage
  <2>1. last.type = "EpochState" /\ last.body.live = Marks(<<>>) /\ last.body.state = s
    BY DEF EpochState, Record
  <2>2. disk.state \in Counters
    BY DEF IInv, TypeOK
  <2>3. s.lineage = disk.state.lineage
    BY <2>2 DEF Counters
  <2> QED  BY <2>1, <2>3
<1>3. \A r \in Range(more) : r.type = "Fence"
  BY DEF RecordsOf, Record, Range
<1>4. IsSeq(more)
  <2>1. IsSeq(disk.live) /\ IsSeq(disk.fences)  BY DEF IInv, Shapes
  <2>2. IsSeq(new)  BY <2>1, RestoredIsSeq, FencesAreSeq
  <2>3. IsSeq(kept)  BY <2>1, LastFencesIsSeq
  <2> HIDE DEF new, kept
  <2>4. IsSeq(stored)  BY <2>2, <2>3, FittingIsSeq
  <2> HIDE DEF stored
  <2> QED  BY <2>4, RecordsAreSeq
<1> HIDE DEF more, last
<1>5. Range(wal') = Range(more) \cup {last}
  BY <1>1, <1>4, SingleIsSeq, ConcatIsSeq
<1> QED
  BY <1>2, <1>3, <1>5 DEF HasEpoch

LEMMA StartKeepsLive ==
  ASSUME IInv, Start
  PROVE  LiveOnDisk'
<1>1. partitions' = <<>>
  BY DEF Start
<1>2. Marking(wal', partitions') /\ HasEpoch(wal')
  BY <1>1, StartQueues DEF Marking
<1> QED
  BY <1>2 DEF LiveOnDisk

\* A commit of an epoch state puts the grants in force on disk.
LEMMA FlushKeepsLive ==
  ASSUME IInv, LiveOnDisk, Flush
  PROVE  LiveOnDisk'
<1> DEFINE r == Head(wal)
           rest == Tail(wal)
<1>1. /\ Range(wal) = {r} \cup Range(rest) /\ phase = "up" /\ phase' = "up"
      /\ wal' = rest /\ partitions' = partitions
  BY TailIsSeq DEF IInv, Shapes, Queued, Flush, memory, Return
<1>2. disk' = CASE r.type = "EpochState" -> [disk EXCEPT !.state = r.body.state,
                                                         !.live = r.body.live]
                [] r.type = "Policy"     -> [disk EXCEPT !.policy = r.body]
                [] r.type = "Topology"   -> [disk EXCEPT !.topology = r.body]
                [] r.type = "Lineage"    -> [disk EXCEPT !.lineage = Append(@, r.body)]
                [] r.type = "Fence"      -> [disk EXCEPT !.fences = Append(@, r.body)]
  BY DEF Flush
<1> HIDE DEF r, rest
<1>3. Proper(r, st) /\ DOMAIN disk = DiskFields
  BY <1>1 DEF IInv, Shapes, Queued
<1>4. Marking(wal', partitions')
  BY <1>1 DEF LiveOnDisk, Marking
<1>5. CASE r.type = "EpochState"
  <2>1. disk'.live = r.body.live
    BY <1>2, <1>3, <1>5 DEF DiskFields
  <2>2. r.body.live = Marks(partitions)
    BY <1>1, <1>5 DEF LiveOnDisk, Marking
  <2> QED  BY <1>1, <1>4, <2>1, <2>2 DEF LiveOnDisk
<1>6. CASE r.type # "EpochState"
  <2>1. disk'.live = disk.live
    BY <1>2, <1>3, <1>6 DEF Proper, DiskFields
  <2>2. HasEpoch(wal) => HasEpoch(wal')
    BY <1>1, <1>6 DEF HasEpoch
  <2> QED  BY <1>1, <1>4, <2>1, <2>2 DEF LiveOnDisk
<1> QED
  BY <1>5, <1>6

LEMMA NextKeepsLive ==
  ASSUME Reliable, IInv, LiveOnDisk, [Next]_vars
  PROVE  LiveOnDisk'
<1>1. \A io \in IoOutcomes : io = TRUE  BY Zenon DEF Reliable
<1>2. CASE Start  BY <1>2, StartKeepsLive
<1>3. CASE Refuse \/ Crash \/ Close
  <2>1. phase' # "up"  BY <1>3 DEF Refuse, Crash, Close
  <2> QED  BY <2>1 DEF LiveOnDisk
<1>4. CASE Flush  BY <1>4, FlushKeepsLive
<1>5. CASE \E d \in TickSteps : AdvanceTicks(d)
  <2>1. Idle /\ wal' = <<>> /\ UNCHANGED <<phase, partitions, disk>>
    BY <1>5 DEF AdvanceTicks, Return, memory
  <2> QED  BY <2>1, EmptyQueued, SilentKeepsLive
<1>6. CASE \E g \in 1..Len(Topologies) : AdoptTopology(g)  BY <1>6, AdoptTopologyKeepsLive
<1>7. CASE \E g \in 1..Len(Policies) : SetPolicy(g)  BY <1>7, SetPolicyKeepsLive
<1>8. CASE \E claim \in Claims : IngestEvidence(claim)
  <2>1. Idle /\ wal' = <<>> /\ UNCHANGED <<phase, partitions, disk>>
    BY <1>8 DEF IngestEvidence, Return
  <2> QED  BY <2>1, EmptyQueued, SilentKeepsLive
<1>9. CASE \E io \in IoOutcomes : Assess(io)  BY <1>1, <1>9, AssessKeepsLive
<1>10. CASE \E n \in 1..MaxAttempts : Request(n)
  <2> PICK n \in 1..MaxAttempts : Request(n)  BY <1>10
  <2>1. CASE DenyRequest(n)
    <3>1. Idle /\ wal' = <<>> /\ UNCHANGED <<phase, partitions, disk>>
      BY <2>1 DEF DenyRequest, Admits, Return, memory
    <3> QED  BY <3>1, EmptyQueued, SilentKeepsLive
  <2>2. CASE \E l \in Lineages, d \in Durations, io \in IoOutcomes : Isolate(n, l, d, io)
    BY <1>1, <2>2, IsolateKeepsLive
  <2>3. CASE \E l \in Lineages, io \in IoOutcomes : ClearIsolation(n, l, io)
    BY <1>1, <2>3, ClearIsolationKeepsLive
  <2>4. CASE \E l \in Lineages : Retire(n, l)  BY <2>4, RetireKeepsLive
  <2>5. CASE \E subject \in ToSet(partitions) :
               \E left, right \in subject.pending, io \in IoOutcomes :
                 RequestMerge(n, subject, left, right, io)
    BY <1>1, <2>5, RequestMergeKeepsLive
  <2>6. CASE \E io \in IoOutcomes : Revalidate(n, io)  BY <1>1, <2>6, RevalidateKeepsLive
  <2> QED  BY <2>1, <2>2, <2>3, <2>4, <2>5, <2>6 DEF Request
<1>11. CASE UNCHANGED vars
  BY <1>11 DEF vars, LiveOnDisk, Marking, HasEpoch
<1> QED
  BY <1>2, <1>3, <1>4, <1>5, <1>6, <1>7, <1>8, <1>9, <1>10, <1>11 DEF Next

LEMMA LiveInvariance == Reliable => (Spec => []LiveOnDisk)
<1> SUFFICES ASSUME Reliable PROVE Spec => []LiveOnDisk  OBVIOUS
<1>1. Init => LiveOnDisk
  BY DEF Init, LiveOnDisk
<1>2. IInv /\ LiveOnDisk /\ [Next]_vars => LiveOnDisk'
  BY NextKeepsLive
<1> QED
  BY <1>1, <1>2, Invariance, PTL DEF Spec

\* While every append succeeds, whenever an operation has returned each grant in
\* force has its mark in the last epoch state on disk: a process killed at any
\* later point comes back knowing which grants it interrupts (assess_locked
\* commits the epoch state before it replaces the partitions).
THEOREM GrantsOnDisk == Reliable => (Spec => []GrantsDurable)
<1> SUFFICES ASSUME Reliable PROVE Spec => []GrantsDurable  OBVIOUS
<1>1. IInv /\ LiveOnDisk => GrantsDurable
  <2> SUFFICES ASSUME IInv, LiveOnDisk, Idle, NEW i \in DOMAIN partitions,
                      partitions[i].authorized # {}
               PROVE  \E j \in DOMAIN disk.live : disk.live[j] = Mark(partitions[i])
    BY DEF GrantsDurable, Mark
  <2>1. disk.live = Marks(partitions)
    BY EmptyQueued DEF LiveOnDisk, Idle
  <2>2. IsSeq(partitions) /\ i \in Grants(partitions)
    BY IdleFacts DEF Held, Grants
  <2> QED  BY <2>1, <2>2, MarksAreGrants
<1>2. Spec => []LiveOnDisk
  BY LiveInvariance
<1> QED
  BY <1>1, <1>2, Invariance, PTL

-----------------------------------------------------------------------------
(* Lineages have one name each.                                            *)

\* The identity of a lineage ends with the members it stands for, unless a
\* merge made it.
Named(r) == r.lineage[1] = "merge" \/ r.lineage[Len(r.lineage)] = r.members

AllNamed(s) == IsSeq(s) /\ \A r \in Range(s) : Named(r)

LEMMA LatestNamed ==
  ASSUME NEW s, AllNamed(s), NEW l, Recorded(s, l)
  PROVE  Latest(s, l) \in Range(s) /\ Latest(s, l).lineage = l /\ Named(Latest(s, l))
<1> DEFINE P == Positions(s, l)
<1>1. Len(s) \in Nat /\ DOMAIN s = 1..Len(s)
  BY SeqElim DEF AllNamed
<1>2. P \subseteq Nat /\ P # {} /\ \A i \in P : i <= Len(s)
  BY <1>1 DEF Positions, Recorded
<1>3. Max(P) \in P
  <2> HIDE DEF P
  <2> QED  BY <1>1, <1>2, MaxOfBounded
<1>4. Max(P) \in 1..Len(s) /\ s[Max(P)].lineage = l
  BY <1>3 DEF Positions
<1>5. Latest(s, l) = s[Max(P)]
  BY DEF Latest
<1> HIDE DEF P
<1>6. Latest(s, l) \in Range(s)
  BY <1>1, <1>4, <1>5 DEF Range
<1> QED
  BY <1>4, <1>5, <1>6 DEF AllNamed

\* A fresh identity names its members and is no merge; the other partitions
\* continue the lineage that was last recorded with their members.
Fresh(l, members) == l[1] # "merge" /\ l[Len(l)] = members
Continued(s, l, members) == Recorded(s, l) /\ Latest(s, l).members = members

LEMMA FreshNames ==
  ASSUME NEW owner, NEW members
  PROVE  /\ Fresh(GenesisId(members), members)
         /\ Fresh(SplitId(owner, members), members)
         /\ Fresh(DivergentId(owner, members), members)
         /\ Fresh(PendingId(owner, members), members)
<1>1. Fresh(GenesisId(members), members)  BY DEF Fresh, GenesisId
<1>2. Fresh(SplitId(owner, members), members)  BY DEF Fresh, SplitId
<1>3. Fresh(DivergentId(owner, members), members)  BY DEF Fresh, DivergentId
<1>4. Fresh(PendingId(owner, members), members)  BY DEF Fresh, PendingId
<1> QED  BY <1>1, <1>2, <1>3, <1>4

LEMMA ClassifyNames ==
  ASSUME NEW s, IsSeq(s), NEW members
  PROVE  LET l == Classify(s, members).lineage
         IN  Fresh(l, members) \/ Continued(s, l, members)
<1> DEFINE owners == Owners(s, members)
           owner == CHOOSE l \in owners : TRUE
           recorded == Latest(s, owner).members
           c == Classify(s, members)
<1>1. IsFiniteSet(owners) /\ \A l \in owners : Recorded(s, l)
  <2> DEFINE all == {s[i].lineage : i \in 1..Len(s)}
             f == [i \in 1..Len(s) |-> s[i].lineage]
  <2>1. Len(s) \in Nat  BY SeqElim
  <2>2. IsFiniteSet(all)
    <3>1. f \in Surjection(1..Len(s), all)  BY DEF Surjection
    <3>2. IsFiniteSet(1..Len(s))  BY <2>1, FS_Interval
    <3> HIDE DEF f, all
    <3> QED  BY <3>1, <3>2, FS_Surjection
  <2>3. owners \subseteq all  BY DEF Owners, Live
  <2>4. \A l \in all : Recorded(s, l)  BY DEF Recorded, Positions
  <2> HIDE DEF all, owners
  <2> QED  BY <2>2, <2>3, <2>4, FS_Subset
<1>2. /\ Cardinality(owners) \in Nat
      /\ owners # {} => Cardinality(owners) # 0 /\ owner \in owners
  <2> HIDE DEF owners
  <2> QED  BY <1>1, FS_CardinalityType, FS_EmptySet
<1>3. CASE owners = {}
  <2>1. c.lineage = GenesisId(members)  BY <1>3, FS_EmptySet DEF Classify
  <2> QED  BY <2>1, FreshNames
<1>4. CASE owners # {} /\ Cardinality(owners) = 1 /\ recorded = members
  <2>3. c.lineage = owner
    <3> DEFINE as(id, parents, pending) ==
                 [lineage |-> id, parents |-> parents, pending |-> pending]
    <3>1. c = CASE owners = {} -> as(GenesisId(members), {}, {})
                [] Cardinality(owners) = 1 /\ recorded = members -> as(owner, {}, {})
                [] Cardinality(owners) = 1 /\ recorded # members /\ members \subseteq recorded
                     -> as(SplitId(owner, members), {owner}, {})
                [] Cardinality(owners) = 1 /\ ~(members \subseteq recorded)
                     -> as(DivergentId(owner, members), {owner}, {})
                [] Cardinality(owners) > 1 -> as(PendingId(owners, members), {}, owners)
      BY DEF Classify
    <3>2. as(owner, {}, {}).lineage = owner  OBVIOUS
    <3> HIDE DEF c, as, owners, owner, recorded
    <3>3. c = as(owner, {}, {})  BY <3>1, <1>4
    <3> QED  BY <3>2, <3>3
  <2>2. Recorded(s, owner) /\ Latest(s, owner).members = members
    <3> HIDE DEF owners, owner
    <3>1. Recorded(s, owner)  BY <1>1, <1>2, <1>4
    <3> QED  BY <3>1, <1>4
  <2> HIDE DEF c, owner
  <2> QED  BY <2>2, <2>3 DEF Continued, c
<1>5. CASE /\ owners # {} /\ Cardinality(owners) = 1
           /\ recorded # members /\ members \subseteq recorded
  <2>1. c.lineage = SplitId(owner, members)  BY <1>5 DEF Classify
  <2> QED  BY <2>1, FreshNames
<1>6. CASE owners # {} /\ Cardinality(owners) = 1 /\ ~(members \subseteq recorded)
  <2>1. c.lineage = DivergentId(owner, members)  BY <1>6 DEF Classify
  <2> QED  BY <2>1, FreshNames
<1>7. CASE owners # {} /\ Cardinality(owners) > 1
  <2>1. c.lineage = PendingId(owners, members)  BY <1>7 DEF Classify
  <2> QED  BY <2>1, FreshNames
<1> QED
  <2>1. owners # {} => Cardinality(owners) = 1 \/ Cardinality(owners) > 1
    <3> HIDE DEF owners
    <3> QED  BY <1>2
  <2>2. recorded = members \/ (recorded # members /\ members \subseteq recorded)
          \/ ~(members \subseteq recorded)
    OBVIOUS
  <2> HIDE DEF owners, recorded
  <2> QED  BY <1>3, <1>4, <1>5, <1>6, <1>7, <2>1, <2>2 DEF owners, recorded

-----------------------------------------------------------------------------
(* The partitions of an assessment are of different lineages.              *)

\* Min is what it says on a non-empty set of natural numbers.
LEMMA MinOfNaturals ==
  ASSUME NEW S, S \subseteq Nat, S # {}
  PROVE  Min(S) \in S /\ \A x \in S : Min(S) <= x
<1>1. \E x \in S : \A y \in S : x <= y
  BY LeastNatural
<1> QED
  BY <1>1 DEF Min

\* The canonical order lists groups, each of them once.
LEMMA OrderListsOnce ==
  ASSUME NEW roster, roster \subseteq Nat, IsFiniteSet(roster), NEW edges
  PROVE  LET groups == Components(roster, edges)
             order == CanonicalOrder(groups)
         IN  /\ \A i, j \in DOMAIN order : order[i] = order[j] => i = j
             /\ \A i \in DOMAIN order : order[i] \in groups
<1> DEFINE groups == Components(roster, edges)
           order == CanonicalOrder(groups)
           key == [g \in groups |-> Min(g)]
           before(g) == {h \in groups : Min(h) < Min(g)}
           at(g, i) == Cardinality(before(g)) = i - 1
           n == Cardinality(groups)
<1>1. groups \subseteq SUBSET roster /\ {} \notin groups
  BY DEF Components
<1>2. IsFiniteSet(groups)
  <2>1. IsFiniteSet(SUBSET roster)  BY FS_SUBSET
  <2> HIDE DEF groups
  <2> QED  BY <1>1, <2>1, FS_Subset
<1>3. \A g \in groups : Min(g) \in g /\ Min(g) \in Nat
  <2> HIDE DEF groups
  <2> QED  BY <1>1, MinOfNaturals
<1>4. \A g, h \in groups : key[g] = key[h] => g = h
  BY <1>3, ComponentsDisjoint
<1> HIDE DEF groups
<1>5. key \in [groups -> Nat]
  BY <1>3
<1>6. \A k \in 1..n : \E g \in groups : RankOf(groups, key, g) = k
  <2> HIDE DEF key
  <2> QED  BY <1>2, <1>4, <1>5, RankOnto
<1>7. ASSUME NEW g \in groups PROVE Cardinality(before(g)) = RankOf(groups, key, g) - 1
  <2> DEFINE upto == {h \in groups : key[h] <= key[g]}
  <2>1. \A h \in groups : key[h] = Min(h) /\ Min(h) \in Nat  BY <1>3
  <2>2. before(g) = upto \ {g}  BY <1>4, <2>1
  <2>3. upto \subseteq groups /\ g \in upto  BY <2>1
  <2>4. RankOf(groups, key, g) = Cardinality(upto)  BY DEF RankOf
  <2> HIDE DEF upto, before
  <2>5. IsFiniteSet(upto)  BY <1>2, <2>3, FS_Subset
  <2> QED  BY <2>2, <2>3, <2>4, <2>5, FS_RemoveElement
<1>8. n \in Nat
  BY <1>2, FS_CardinalityType
<1> HIDE DEF key, n, before
<1>9. ASSUME NEW i \in 1..n
      PROVE  /\ at(CHOOSE g \in groups : at(g, i), i)
             /\ (CHOOSE g \in groups : at(g, i)) \in groups
  <2>1. \E g \in groups : at(g, i)  BY <1>6, <1>7
  <2> HIDE DEF at
  <2> QED  BY <2>1
<1>10. order = IF n > MaxPartitions THEN <<>>
               ELSE [i \in 1..n |-> CHOOSE g \in groups : at(g, i)]
  BY DEF CanonicalOrder, n, before
<1> HIDE DEF order
<1>11. ASSUME NEW i \in DOMAIN order, NEW j \in DOMAIN order, order[i] = order[j]
       PROVE  i = j
  <2>1. i \in 1..n /\ j \in 1..n /\ at(order[i], i) /\ at(order[j], j)
    <3> HIDE DEF at
    <3> QED  BY <1>9, <1>10
  <2> QED  BY <2>1, <1>8, <1>11
<1>12. \A i \in DOMAIN order : order[i] \in groups
  <2> HIDE DEF at
  <2> QED  BY <1>9, <1>10
<1> QED
  BY <1>11, <1>12 DEF order, groups

Distinct(ps) == \A i, j \in DOMAIN ps : ps[i].lineage = ps[j].lineage => i = j

LEMMA BuiltApart ==
  ASSUME NEW roster \in Range(Topologies), NEW g, NEW bundles, NEW age, NEW now,
         NEW lineages, AllNamed(lineages), NEW generation
  PROVE  LET built == BuildPartitions(lineages, Snapshot(roster, g, bundles, age, now).groups,
                                      generation)
         IN  Distinct(built) /\ \A i \in DOMAIN built : Named(built[i])
<1> DEFINE edges == Edges(Evidence(roster, g, bundles, age, now))
           groups == Components(roster, edges)
           order == CanonicalOrder(groups)
           built == BuildPartitions(lineages, groups, generation)
<1>1. Snapshot(roster, g, bundles, age, now).groups = groups
  BY DEF Snapshot
<1>2. \A i, j \in DOMAIN order : order[i] = order[j] => i = j
  <2>1. roster \subseteq Nat /\ IsFiniteSet(roster)  BY RuntimeAssumption
  <2> HIDE DEF edges
  <2> QED  BY <2>1, OrderListsOnce
<1>3. /\ DOMAIN built = DOMAIN order
      /\ \A i \in DOMAIN order : /\ built[i].members = order[i]
                                  /\ built[i].lineage = Classify(lineages, order[i]).lineage
  BY DEF BuildPartitions
<1> HIDE DEF built, order
<1>4. ASSUME NEW i \in DOMAIN built
      PROVE  LET p == built[i]
             IN  Fresh(p.lineage, p.members) \/ Continued(lineages, p.lineage, p.members)
  BY <1>3, ClassifyNames DEF AllNamed
<1>5. ASSUME NEW i \in DOMAIN built PROVE Named(built[i])
  <2>1. CASE Fresh(built[i].lineage, built[i].members)
    BY <2>1 DEF Fresh, Named
  <2>2. CASE Continued(lineages, built[i].lineage, built[i].members)
    BY <2>2, LatestNamed DEF Continued, Named
  <2> QED  BY <1>4, <2>1, <2>2
<1>6. ASSUME NEW i \in DOMAIN built, NEW j \in DOMAIN built, built[i].lineage = built[j].lineage
      PROVE  i = j
  <2>1. CASE built[i].lineage[1] # "merge"
    <3>1. built[i].members = built[j].members  BY <1>5, <1>6, <2>1 DEF Named
    <3> QED  BY <1>2, <1>3, <3>1
  <2>2. CASE built[i].lineage[1] = "merge"
    <3>1. built[i].members = built[j].members
      BY <1>4, <1>6, <2>2 DEF Fresh, Continued
    <3> QED  BY <1>2, <1>3, <3>1
  <2> QED  BY <2>1, <2>2
<1> QED
  BY <1>1, <1>5, <1>6 DEF Distinct, built

\* What evaluate_authority keeps of a partition, the sequence of one without a
\* grant, and the cap of an interrupted lineage.
LEMMA EvaluateAuthorityCaps ==
  ASSUME NEW s, NEW rules, NEW snap, NEW built, NEW directives, NEW entries, NEW restore
  PROVE  LET ps == EvaluateAuthority(s, rules, snap, built, directives, entries, restore)
         IN  /\ DOMAIN ps = DOMAIN built
             /\ \A i \in DOMAIN ps :
                  /\ ps[i].lineage = built[i].lineage /\ ps[i].members = built[i].members
                  /\ ps[i].authorized = {} => ps[i].authority = 0
                  /\ ~restore /\ IsInterrupted(entries, ps[i].lineage)
                       => ps[i].class >= ObserveOnly
<1> DEFINE capped == [i \in DOMAIN built |->
                        Capped(rules, snap, built[i],
                               IsIsolated(directives, s.tick, built[i].lineage),
                               ~restore /\ IsInterrupted(entries, built[i].lineage))]
           class == Classes(s, rules, snap, built, directives, entries, restore)
           authorized(i) == CapabilitiesForClass(rules, class[i])
           below(i) == {j \in DOMAIN built : j <= i /\ authorized(j) # {}}
           ps == EvaluateAuthority(s, rules, snap, built, directives, entries, restore)
<1>1. class = FinalClasses(rules, capped)
  BY DEF Classes
<1>2. \A i \in DOMAIN capped : capped[i] \in Primary..Isolated
  BY CappedType
<1>3. DOMAIN capped = DOMAIN built  OBVIOUS
<1>4. ASSUME NEW i \in DOMAIN built, ~restore, IsInterrupted(entries, built[i].lineage)
      PROVE  capped[i] >= ObserveOnly
  <2>1. (~restore /\ IsInterrupted(entries, built[i].lineage)) = TRUE  BY <1>4
  <2>2. capped[i] = Capped(rules, snap, built[i],
                           IsIsolated(directives, s.tick, built[i].lineage), TRUE)
    BY <2>1
  <2> QED  BY <2>2, CappedWhenInterrupted
<1> HIDE DEF capped, class
<1>5. ASSUME NEW i \in DOMAIN built, ~restore, IsInterrupted(entries, built[i].lineage)
      PROVE  class[i] >= ObserveOnly
  <2>1. class[i] \in Primary..Isolated /\ class[i] >= capped[i]
        /\ capped[i] \in Primary..Isolated
    BY <1>1, <1>2, <1>3, FinalClassesType
  <2> QED  BY <2>1, <1>4, <1>5 DEF Primary, ObserveOnly, Isolated
<1> HIDE DEF authorized
<1>6. ps = [i \in DOMAIN built |->
              [lineage |-> built[i].lineage, parents |-> built[i].parents,
               pending |-> built[i].pending, members |-> built[i].members,
               generation |-> built[i].generation, class |-> class[i],
               authorized |-> authorized(i),
               authority |-> IF authorized(i) = {} THEN 0
                             ELSE s.authority + Cardinality(below(i))]]
  BY DEF EvaluateAuthority, class, authorized
<1> HIDE DEF ps, below
<1>7. /\ DOMAIN ps = DOMAIN built
      /\ \A i \in DOMAIN built :
           /\ ps[i].lineage = built[i].lineage /\ ps[i].members = built[i].members
           /\ ps[i].class = class[i] /\ ps[i].authorized = authorized(i)
           /\ ps[i].authority = IF authorized(i) = {} THEN 0
                                ELSE s.authority + Cardinality(below(i))
  BY <1>6
<1>8. /\ DOMAIN ps = DOMAIN built
      /\ \A i \in DOMAIN ps :
           /\ ps[i].lineage = built[i].lineage /\ ps[i].members = built[i].members
           /\ ps[i].authorized = {} => ps[i].authority = 0
           /\ ~restore /\ IsInterrupted(entries, ps[i].lineage)
                => ps[i].class >= ObserveOnly
  BY <1>5, <1>7
<1> QED
  BY <1>8 DEF ps

LEMMA AppendNamed ==
  ASSUME NEW s, AllNamed(s), NEW r, Named(r)
  PROVE  AllNamed(Append(s, r))
<1>1. IsSeq(Append(s, r))  BY AppendIsSeq DEF AllNamed
<1>2. Range(Append(s, r)) = Range(s) \cup {r}
  <2>1. s \in Seq(Range(s))  BY DEF AllNamed, IsSeq
  <2>2. /\ Len(s) \in Nat /\ Len(Append(s, r)) = Len(s) + 1
        /\ DOMAIN s = 1..Len(s) /\ DOMAIN Append(s, r) = 1..(Len(s) + 1)
        /\ \A i \in 1..(Len(s) + 1) : Append(s, r)[i] = IF i = Len(s) + 1 THEN r ELSE s[i]
    BY <2>1
  <2> QED  BY <2>2 DEF Range
<1> QED  BY <1>1, <1>2 DEF AllNamed

LEMMA CommitLineageNamed ==
  ASSUME NEW lineages, AllNamed(lineages), NEW last, NEW ps, IsSeq(ps),
         \A i \in DOMAIN ps : Named(ps[i]), NEW fresh, NEW io
  PROVE  LET done == CommitLineage(lineages, last, ps, fresh, io)
         IN  AllNamed(done.store) /\ AllNamed(done.written)
<1> DEFINE OK(acc) == AllNamed(acc.store) /\ AllNamed(acc.written)
<1>1. PICK after :
        /\ CommitLineage(lineages, last, ps, fresh, io) = after[Len(ps)]
        /\ after[0] = [store |-> lineages, last |-> last, written |-> <<>>]
        /\ \A i \in 1..Len(ps) : after[i] = CommitPartition(after[i - 1], ps[i], fresh, io)
  BY CommitLineageSteps
<1>2. Len(ps) \in Nat /\ DOMAIN ps = 1..Len(ps)
  BY SeqElim
<1>3. OK(after[0])
  BY <1>1, EmptyIsSeq DEF AllNamed
<1>4. ASSUME NEW acc, OK(acc), NEW p, Named(p)
      PROVE  OK(CommitPartition(acc, p, fresh, io))
  <2> DEFINE event == IF p.parents = {} THEN "GENESIS" ELSE "SPLIT"
             r == LineageRecord(acc.last + 1, p, event, p.parents)
  <2>1. Named(r)  BY <1>4 DEF LineageRecord, Named
  <2> HIDE DEF r
  <2>2. AllNamed(Append(acc.store, r)) /\ AllNamed(Append(acc.written, r))
    BY <1>4, <2>1, AppendNamed
  <2>3. OK(Commit(acc, r, io))  BY <1>4, <2>2 DEF Commit
  <2> HIDE DEF OK
  <2>4. CommitPartition(acc, p, fresh, io) \in {acc, Commit(acc, r, io)}
    BY DEF CommitPartition, r
  <2> QED  BY <1>4, <2>3, <2>4
<1> HIDE DEF OK
<1>5. OK(after[Len(ps)])
  <2> DEFINE Wrong == {i \in 0..Len(ps) : ~OK(after[i])}
  <2>1. SUFFICES ASSUME Wrong # {} PROVE FALSE
    BY <1>2
  <2>2. PICK i \in Wrong : \A j \in Wrong : i <= j
    <3>1. Wrong \subseteq Nat  BY <1>2
    <3> HIDE DEF Wrong
    <3> QED  BY <2>1, <3>1, LeastNatural
  <2>3. i \in 1..Len(ps) /\ ~OK(after[i])  BY <1>2, <1>3
  <2>4. i - 1 \in 0..Len(ps) /\ i - 1 \notin Wrong
    <3>1. i - 1 \in 0..Len(ps) /\ ~(i <= i - 1)  BY <2>3, <1>2
    <3> HIDE DEF Wrong
    <3> QED  BY <2>2, <3>1
  <2>5. OK(after[i - 1])  BY <2>4
  <2> QED  BY <1>1, <1>2, <1>4, <2>3, <2>5
<1> QED
  BY <1>1, <1>5 DEF OK

-----------------------------------------------------------------------------
(* Interruptions.                                                          *)

\* Interruptions, or marks, of issued sequences.
Numbered(entries) == IsSeq(entries) /\ \A i \in DOMAIN entries : entries[i].authority \in Nat

\* Records that keep the disk's lineages named and its marks numbered.
Sound(r) ==
  /\ r.type = "Lineage" => Named(r.body)
  /\ r.type = "EpochState" => Numbered(r.body.live)
SoundRecords(records) == \A r \in Range(records) : Sound(r)

StaysCapped(ps, entries) ==
  \A i \in DOMAIN ps, j \in DOMAIN entries :
    ps[i].lineage = entries[j].lineage /\ ps[i].authority > entries[j].authority
      => ps[i].class >= ObserveOnly

\* What InterruptedStaysCapped rests on: no two partitions of an assessment
\* share a lineage, because the lineages, in memory, on disk and on their way
\* there, are named after their members.
CapInv ==
  /\ AllNamed(store) /\ AllNamed(disk.lineage)
  /\ Numbered(interrupted) /\ Numbered(disk.live)
  /\ SoundRecords(wal)
  /\ Distinct(partitions)
  /\ StaysCapped(partitions, interrupted)

LEMMA EmptySound == SoundRecords(<<>>)
  BY EmptyIsSeq DEF SoundRecords

LEMMA ConcatSound ==
  ASSUME NEW a, NEW b, IsSeq(a), IsSeq(b), SoundRecords(a), SoundRecords(b)
  PROVE  SoundRecords(a \o b)
  BY ConcatIsSeq DEF SoundRecords

LEMMA FencesSound ==
  ASSUME NEW stored
  PROVE  SoundRecords(RecordsOf("Fence", stored))
<1>1. \A r \in Range(RecordsOf("Fence", stored)) : r.type = "Fence"
  BY DEF RecordsOf, Record, Range
<1> QED  BY <1>1 DEF SoundRecords, Sound

LEMMA SoundThenFences ==
  ASSUME NEW r, Sound(r), NEW stored, IsSeq(stored)
  PROVE  LET records == <<r>> \o RecordsOf("Fence", stored)
         IN  SoundRecords(records) /\ IsSeq(records)
<1> DEFINE more == RecordsOf("Fence", stored)
<1>1. IsSeq(more) /\ IsSeq(<<r>>)
  BY RecordsAreSeq, SingleIsSeq
<1>2. SoundRecords(more) /\ SoundRecords(<<r>>)
  BY FencesSound, SingleIsSeq DEF SoundRecords
<1> HIDE DEF more
<1>3. SoundRecords(<<r>> \o more) /\ IsSeq(<<r>> \o more)
  BY <1>1, <1>2, ConcatSound, ConcatIsSeq
<1> QED
  BY <1>3 DEF more

LEMMA MarksNumbered ==
  ASSUME NEW ps, NEW top, Held(ps, top)
  PROVE  Numbered(Marks(ps))
<1>1. IsSeq(ps) /\ IsSeq(Marks(ps))
  BY GrantedIsSeq DEF Held
<1>2. ASSUME NEW j \in DOMAIN Marks(ps) PROVE Marks(ps)[j].authority \in Nat
  <2>1. PICK i \in Grants(ps) : Marks(ps)[j] = Mark(ps[i])
    BY <1>1, MarksAreGrants
  <2> QED  BY <2>1 DEF Mark, Grants, Held
<1> QED  BY <1>1, <1>2 DEF Numbered

\* Fewer interruptions.
LEMMA FewerEntries ==
  ASSUME NEW entries, Numbered(entries), NEW places, places \subseteq DOMAIN entries
  PROVE  /\ Numbered(At(entries, places))
         /\ \A ps : StaysCapped(ps, entries) => StaysCapped(ps, At(entries, places))
<1> DEFINE fewer == At(entries, places)
<1>1. IsSeq(entries) /\ IsSeq(fewer)
  BY AtIsSeq DEF Numbered
<1>2. \A k \in DOMAIN fewer : \E i \in places : fewer[k] = entries[i]
  BY <1>1, AtElements
<1> HIDE DEF fewer
<1>3. Numbered(fewer)
  BY <1>1, <1>2 DEF Numbered
<1>4. \A ps : StaysCapped(ps, entries) => StaysCapped(ps, fewer)
  BY <1>2 DEF StaysCapped
<1> QED
  BY <1>3, <1>4 DEF fewer

\* An assessment over named lineages.
LEMMA AssessmentCaps ==
  ASSUME NEW s \in Counters, topology \in 1..Len(Topologies),
         NEW lineages, AllNamed(lineages), NEW directives, NEW entries, NEW restore,
         NEW io \in BOOLEAN,
         NEW a \in Assessments(s, lineages, directives, entries, restore, io)
  PROVE  /\ AllNamed(a.store)
         /\ SoundRecords(AssessmentRecords(a, io)) /\ IsSeq(AssessmentRecords(a, io))
         /\ Distinct(a.partitions)
         /\ \A i \in DOMAIN a.partitions :
              /\ a.partitions[i].authorized = {} => a.partitions[i].authority = 0
              /\ ~restore /\ IsInterrupted(entries, a.partitions[i].lineage)
                   => a.partitions[i].class >= ObserveOnly
<1> DEFINE snap == SnapshotAt(s)
           built == BuiltFrom(s, lineages)
           ps == a.partitions
           done == CommitLineage(lineages, s.lineage, ps, snap.fresh, io)
<1>1. /\ ps = EvaluateAuthority(s, Policies[policy], snap, built, directives, entries, restore)
      /\ Issued(ps, s.authority)
      /\ a.store = done.store /\ a.written = done.written /\ IsSeq(a.written)
  BY AssessmentParts
<1>2. Distinct(built) /\ \A i \in DOMAIN built : Named(built[i])
  <2>1. Topologies[topology] \in Range(Topologies)
    BY RuntimeAssumption, SMTT(30) DEF Range
  <2> QED  BY <2>1, BuiltApart DEF BuiltFrom, SnapshotAt
<1> HIDE DEF snap, built
<1>3. /\ DOMAIN ps = DOMAIN built
      /\ \A i \in DOMAIN ps :
           /\ ps[i].lineage = built[i].lineage /\ ps[i].members = built[i].members
           /\ ps[i].authorized = {} => ps[i].authority = 0
           /\ ~restore /\ IsInterrupted(entries, ps[i].lineage) => ps[i].class >= ObserveOnly
  <2> DEFINE e == EvaluateAuthority(s, Policies[policy], snap, built, directives, entries, restore)
  <2>1. /\ DOMAIN e = DOMAIN built
        /\ \A i \in DOMAIN e :
             /\ e[i].lineage = built[i].lineage /\ e[i].members = built[i].members
             /\ e[i].authorized = {} => e[i].authority = 0
             /\ ~restore /\ IsInterrupted(entries, e[i].lineage) => e[i].class >= ObserveOnly
    BY EvaluateAuthorityCaps
  <2>2. ps = e  BY <1>1
  <2> HIDE DEF e, ps
  <2> QED  BY <2>1, <2>2
<1> HIDE DEF ps
<1>4. Distinct(ps) /\ (\A i \in DOMAIN ps : Named(ps[i])) /\ IsSeq(ps)
  BY <1>1, <1>2, <1>3 DEF Distinct, Named, Issued
<1>5. AllNamed(done.store) /\ AllNamed(done.written)
  BY <1>4, CommitLineageNamed
<1> HIDE DEF done
<1>6. Numbered(Marks(ps))
  <2>1. \E top : Held(ps, top)
    <3>1. Held(a.partitions, a.state.authority)  BY AssessmentFacts
    <3> QED  BY <3>1 DEF ps
  <2> QED  BY <2>1, MarksNumbered
<1>7. SoundRecords(AssessmentRecords(a, io)) /\ IsSeq(AssessmentRecords(a, io))
  <2> DEFINE first == RecordsOf("Lineage", a.written)
             epoch == EpochState(a.state, a.partitions)
             last == IF io THEN <<epoch>> ELSE <<>>
  <2>1. SoundRecords(first)
    <3>1. \A r \in Range(first) : r.type = "Lineage" /\ r.body \in Range(a.written)
      <4> SUFFICES ASSUME NEW i \in DOMAIN first
                   PROVE  first[i].type = "Lineage" /\ first[i].body \in Range(a.written)
        BY DEF Range
      <4>1. i \in DOMAIN a.written /\ first[i] = Record("Lineage", a.written[i])
        BY DEF RecordsOf
      <4> QED  BY <4>1 DEF Record, Range
    <3> HIDE DEF first
    <3> QED  BY <1>1, <1>5, <3>1 DEF SoundRecords, Sound, AllNamed
  <2>2. IsSeq(first)  BY <1>1, RecordsAreSeq
  <2>3. Sound(epoch)  BY <1>6 DEF Sound, EpochState, Record, ps
  <2> HIDE DEF epoch
  <2>4. SoundRecords(last) /\ IsSeq(last)
    BY <2>3, SingleIsSeq, EmptyIsSeq, EmptySound DEF SoundRecords
  <2>5. AssessmentRecords(a, io) = first \o last  BY DEF AssessmentRecords, epoch
  <2> HIDE DEF first, last
  <2> QED  BY <2>1, <2>2, <2>4, <2>5, ConcatSound, ConcatIsSeq
<1> QED
  BY <1>1, <1>3, <1>4, <1>5, <1>7 DEF ps

\* An operation that changes neither the partitions nor the interruptions.
LEMMA SilentKeepsCap ==
  ASSUME CapInv, UNCHANGED <<store, partitions, interrupted, disk>>, SoundRecords(wal')
  PROVE  CapInv'
  BY DEF CapInv, StaysCapped, Distinct

LEMMA PublishKeepsCap ==
  ASSUME IInv, CapInv, Idle, topology # 0, disk' = disk,
         NEW s \in Counters, NEW lineages, AllNamed(lineages), NEW directives,
         NEW io \in BOOLEAN, Numbered(interrupted'),
         NEW a \in Assessments(s, lineages, directives, interrupted', FALSE, io),
         NEW before, IsSeq(before), SoundRecords(before), Publish(a, before, io)
  PROVE  CapInv'
<1> DEFINE entries == interrupted'
           restore == FALSE
           records == AssessmentRecords(a, io)
<1>1. topology \in 1..Len(Topologies) /\ ~restore
  BY IdleFacts
<1>2. partitions' = a.partitions /\ store' = a.store /\ wal' = before \o records
  BY DEF Publish, Adopt, Return
<1>3. a \in Assessments(s, lineages, directives, entries, restore, io)
  OBVIOUS
<1> HIDE DEF restore, entries
<1>4. /\ AllNamed(a.store) /\ SoundRecords(records) /\ IsSeq(records) /\ Distinct(a.partitions)
      /\ \A i \in DOMAIN a.partitions :
           IsInterrupted(entries, a.partitions[i].lineage) => a.partitions[i].class >= ObserveOnly
  BY <1>1, <1>3, AssessmentCaps
<1>5. StaysCapped(a.partitions, entries)
  BY <1>4 DEF StaysCapped, IsInterrupted
<1>6. SoundRecords(wal')
  <2> HIDE DEF records
  <2> QED  BY <1>2, <1>4, ConcatSound
<1> QED
  BY <1>2, <1>4, <1>5, <1>6 DEF CapInv, entries, Distinct, StaysCapped

LEMMA AssessKeepsCap ==
  ASSUME IInv, CapInv, NEW io \in IoOutcomes, Assess(io)
  PROVE  CapInv'
<1>1. interrupted' = interrupted /\ disk' = disk /\ Idle /\ topology # 0 /\ io \in BOOLEAN
  BY IoFacts DEF Assess, CanAssess
<1>2. PICK a \in Assessments(st, store, isolations, interrupted', FALSE, io) :
        Publish(a, <<>>, io)
  BY <1>1 DEF Assess
<1>3. st \in Counters /\ AllNamed(store) /\ Numbered(interrupted')
  BY <1>1, IdleFacts DEF CapInv
<1>4. IsSeq(<<>>) /\ SoundRecords(<<>>)  BY EmptyIsSeq, EmptySound
<1> QED
  BY <1>1, <1>2, <1>3, <1>4, PublishKeepsCap

LEMMA IsolateKeepsCap ==
  ASSUME IInv, CapInv, NEW n \in 1..MaxAttempts, NEW l, NEW d, NEW io \in IoOutcomes,
         Isolate(n, l, d, io)
  PROVE  CapInv'
<1> DEFINE directives == Append(isolations, [lineage |-> l, expires |-> ExpiresAt(d)])
<1>1. interrupted' = interrupted /\ disk' = disk /\ Idle /\ topology # 0 /\ io \in BOOLEAN
  BY IoFacts DEF Isolate, Admits, CanAssess
<1>2. PICK a \in Assessments(Admitted(n), store, directives, interrupted', FALSE, io) :
        Publish(a, <<>>, io)
  BY <1>1 DEF Isolate
<1>3. Admitted(n) \in Counters /\ AllNamed(store) /\ Numbered(interrupted')
  BY <1>1, AdmittedFacts DEF CapInv
<1>4. IsSeq(<<>>) /\ SoundRecords(<<>>)  BY EmptyIsSeq, EmptySound
<1> HIDE DEF directives
<1> QED
  BY <1>1, <1>2, <1>3, <1>4, PublishKeepsCap

LEMMA ClearIsolationKeepsCap ==
  ASSUME IInv, CapInv, NEW n \in 1..MaxAttempts, NEW l, NEW io \in IoOutcomes,
         ClearIsolation(n, l, io)
  PROVE  CapInv'
<1> DEFINE directives == At(isolations, {i \in DOMAIN isolations : isolations[i].lineage # l})
<1>1. interrupted' = interrupted /\ disk' = disk /\ Idle /\ topology # 0 /\ io \in BOOLEAN
  BY IoFacts DEF ClearIsolation, Admits, CanAssess
<1>2. PICK a \in Assessments(Admitted(n), store, directives, interrupted', FALSE, io) :
        Publish(a, <<>>, io)
  BY <1>1 DEF ClearIsolation
<1>3. Admitted(n) \in Counters /\ AllNamed(store) /\ Numbered(interrupted')
  BY <1>1, AdmittedFacts DEF CapInv
<1>4. IsSeq(<<>>) /\ SoundRecords(<<>>)  BY EmptyIsSeq, EmptySound
<1> HIDE DEF directives
<1> QED
  BY <1>1, <1>2, <1>3, <1>4, PublishKeepsCap

LEMMA JournalledOnlyKeepsCap ==
  ASSUME CapInv, NEW n, NEW r, Named(r), JournalledOnly(n, r)
  PROVE  CapInv'
<1> DEFINE first == Record("Lineage", r)
<1>1. Sound(first)  BY DEF Sound, Record
<1>2. wal' = <<first>> /\ UNCHANGED <<store, partitions, interrupted, disk>>
  BY DEF JournalledOnly, Return, memory
<1> HIDE DEF first
<1>3. SoundRecords(wal')  BY <1>1, <1>2, SingleIsSeq DEF SoundRecords
<1> QED
  BY <1>2, <1>3, SilentKeepsCap

LEMMA RetireKeepsCap ==
  ASSUME IInv, CapInv, NEW n, NEW l, Retire(n, l)
  PROVE  CapInv'
<1> DEFINE r == RetireRecord(l)
<1>1. Idle  BY DEF Retire, Admits
<1>2. Named(r)
  <2>1. Named(Latest(store, l))  BY LatestNamed DEF Retire, CapInv
  <2> QED  BY <2>1 DEF RetireRecord, LineageRecord, Named
<1>3. CASE JournalledOnly(n, r)
  BY <1>2, <1>3, JournalledOnlyKeepsCap
<1>4. CASE ~JournalledOnly(n, r)
  <2> DEFINE holders   == At(partitions, {i \in Grants(partitions) : partitions[i].lineage = l})
             new    == MakeFences(st, FenceTargets(holders, st.epoch))
             stored == Fitting(fences, new)
             first  == Record("Lineage", r)
             places == {i \in DOMAIN interrupted : interrupted[i].lineage \notin {l}}
  <2>1. /\ wal' = <<first>> \o RecordsOf("Fence", stored) /\ UNCHANGED <<partitions, disk>>
        /\ store' = Append(store, r) /\ interrupted' = At(interrupted, places)
    BY <1>4 DEF Retire, Return, Outside
  <2>2. IsSeq(fences) /\ IsSeq(partitions)
    BY <1>1, IdleFacts DEF Held
  <2>3. IsSeq(holders)
    <3>1. {i \in Grants(partitions) : partitions[i].lineage = l} \subseteq DOMAIN partitions
      BY DEF Grants
    <3> QED  BY <2>2, <3>1, AtIsSeq
  <2> HIDE DEF holders
  <2>4. IsSeq(stored)
    BY <2>2, <2>3, TargetsAreSeq, StoredIsSeq
  <2>5. Sound(first)  BY <1>2 DEF Sound, Record
  <2>6. places \subseteq DOMAIN interrupted  OBVIOUS
  <2> HIDE DEF stored, first, places, r
  <2>7. SoundRecords(wal')  BY <2>1, <2>4, <2>5, SoundThenFences
  <2>8. AllNamed(store')  BY <1>2, <2>1, AppendNamed DEF CapInv
  <2>9. Numbered(interrupted') /\ StaysCapped(partitions, interrupted')
    BY <2>1, <2>6, FewerEntries DEF CapInv
  <2> QED  BY <2>1, <2>7, <2>8, <2>9 DEF CapInv, StaysCapped, Distinct
<1> QED  BY <1>3, <1>4

LEMMA RequestMergeKeepsCap ==
  ASSUME IInv, CapInv, NEW n \in 1..MaxAttempts, NEW subject, NEW left, NEW right,
         NEW io \in IoOutcomes, RequestMerge(n, subject, left, right, io)
  PROVE  CapInv'
<1> DEFINE r == MergeRecord(subject, left, right)
<1>1. Idle /\ topology # 0  BY DEF RequestMerge, Admits, CanAssess
<1>2. Named(r)
  <2>1. r.lineage = <<"merge", {left, right}>>  BY DEF MergeRecord, MergeId
  <2> HIDE DEF r
  <2> QED  BY <2>1 DEF Named
<1>3. CASE JournalledOnly(n, r)
  BY <1>2, <1>3, JournalledOnlyKeepsCap
<1>4. CASE ~JournalledOnly(n, r)
  <2> DEFINE holders    == Granted(<<subject>>)
             new     == MakeFences(st, FenceTargets(holders, st.epoch))
             stored  == Fitting(fences, new)
             s       == [Admitted(n) EXCEPT !.lineage = @ + 1, !.fence = @ + Len(new)]
             entries == Outside(interrupted, {left, right})
             first   == Record("Lineage", r)
             before  == <<first>> \o RecordsOf("Fence", stored)
             places  == {i \in DOMAIN interrupted : interrupted[i].lineage \notin {left, right}}
  <2>1. /\ \E a \in Assessments(s, Append(store, r), isolations, entries, FALSE, io) :
             Publish(a, before, io)
        /\ disk' = disk /\ interrupted' = entries
    BY <1>4 DEF RequestMerge
  <2>2. IsSeq(holders)  BY SingleIsSeq, GrantedIsSeq
  <2>3. entries = At(interrupted, places) /\ places \subseteq DOMAIN interrupted
    BY DEF Outside
  <2>4. io \in BOOLEAN  BY IoFacts
  <2> HIDE DEF holders
  <2>5. s \in Counters  BY <1>1, <2>2, GovernedFacts
  <2>6. IsSeq(stored)
    BY <1>1, <2>2, IdleFacts, TargetsAreSeq, StoredIsSeq
  <2>7. Sound(first)  BY <1>2 DEF Sound, Record
  <2> HIDE DEF s, stored, first, entries, r, places
  <2>8. SoundRecords(before) /\ IsSeq(before)  BY <2>6, <2>7, SoundThenFences
  <2>9. AllNamed(Append(store, r))  BY <1>2, AppendNamed DEF CapInv
  <2>10. Numbered(interrupted')
    BY <2>1, <2>3, FewerEntries DEF CapInv
  <2> HIDE DEF before
  <2> QED  BY <1>1, <2>1, <2>4, <2>5, <2>8, <2>9, <2>10, PublishKeepsCap
<1> QED  BY <1>3, <1>4

\* The interruptions that outlive a revalidation have no grant: the sequence of
\* their partition is zero.
LEMMA RevalidateKeepsCap ==
  ASSUME IInv, CapInv, NEW n \in 1..MaxAttempts, NEW io \in IoOutcomes, Revalidate(n, io)
  PROVE  CapInv'
<1> DEFINE s == Admitted(n)
           restore == TRUE
<1>1. PICK a \in Assessments(s, store, isolations, interrupted, restore, io) :
        Adopt(a) /\ EndInterruptions(a, io)
  BY DEF Revalidate
<1>2. Idle /\ topology # 0 /\ disk' = disk /\ io \in BOOLEAN
  BY IoFacts DEF Revalidate, Admits, CanAssess
<1>3. s \in Counters /\ topology \in 1..Len(Topologies) /\ IsSeq(fences)
  BY <1>2, AdmittedFacts, IdleFacts
<1> HIDE DEF s, restore
<1> DEFINE ps      == a.partitions
           targets == Revived(ps, interrupted, a.state.epoch)
           stored  == Fitting(fences, MakeFences(a.state, targets))
           records == AssessmentRecords(a, io)
           fenced  == RecordsOf("Fence", stored)
           more    == IF io THEN fenced ELSE <<>>
           places  == {i \in DOMAIN interrupted : ~Restored(ps, interrupted[i])}
<1>4. /\ wal' = records \o more /\ partitions' = ps /\ store' = a.store
      /\ interrupted' = At(interrupted, places)
  BY <1>1 DEF EndInterruptions, Adopt, Return
<1>5. IsSeq(ps)
  BY <1>2, <1>3, AssessmentParts DEF Issued
<1>6. /\ AllNamed(a.store) /\ SoundRecords(records) /\ IsSeq(records) /\ Distinct(ps)
      /\ \A i \in DOMAIN ps : ps[i].authorized = {} => ps[i].authority = 0
  BY <1>2, <1>3, AssessmentCaps DEF CapInv
<1>7. IsSeq(fenced) /\ SoundRecords(fenced)
  <2>1. IsSeq(targets)  BY <1>5, RevivedIsSeq
  <2> HIDE DEF targets
  <2>2. IsSeq(stored)  BY <1>3, <2>1, StoredIsSeq
  <2> QED  BY <2>2, RecordsAreSeq, FencesSound
<1> HIDE DEF fenced, records
<1>8. SoundRecords(wal')
  <2>1. IsSeq(more) /\ SoundRecords(more)  BY <1>7, EmptyIsSeq, EmptySound
  <2> HIDE DEF more
  <2> QED  BY <1>4, <1>6, <2>1, ConcatSound
<1>9. Numbered(interrupted) /\ places \subseteq DOMAIN interrupted
  BY DEF CapInv
<1>10. Numbered(interrupted') /\ StaysCapped(ps, interrupted')
  <2>1. \A k \in DOMAIN interrupted' : \E j \in places : interrupted'[k] = interrupted[j]
    <3> HIDE DEF places
    <3> QED  BY <1>4, <1>9, AtElements DEF Numbered
  <2>2. Numbered(interrupted')
    <3> HIDE DEF places
    <3> QED  BY <1>4, <1>9, FewerEntries
  <2>3. ASSUME NEW i \in DOMAIN ps, NEW k \in DOMAIN interrupted',
               ps[i].lineage = interrupted'[k].lineage
        PROVE  ~(ps[i].authority > interrupted'[k].authority)
    <3>1. ps[i].authorized = {}
      BY <2>1, <2>3 DEF Restored
    <3>2. ps[i].authority = 0 /\ interrupted'[k].authority \in Nat
      BY <1>6, <2>2, <3>1 DEF Numbered
    <3> QED  BY <3>2
  <2> QED  BY <2>2, <2>3 DEF StaysCapped
<1> HIDE DEF ps, places, more
<1> QED
  BY <1>2, <1>4, <1>6, <1>8, <1>10 DEF CapInv, StaysCapped, Distinct

\* A grant is interrupted with its own sequence, and it is the only partition of
\* its lineage.
LEMMA InterruptAllKeepsCap ==
  ASSUME IInv, CapInv, Idle, NEW first, Sound(first), InterruptAll(first),
         UNCHANGED <<store, partitions, disk>>
  PROVE  CapInv'
<1> DEFINE granted == Granted(partitions)
           targets == FenceTargets(granted, st.epoch)
           stored  == Fitting(fences, MakeFences(st, targets))
           new     == [i \in DOMAIN granted |->
                         [partition |-> PartitionId(granted[i]), lineage |-> granted[i].lineage,
                          authority |-> granted[i].authority, epoch |-> st.epoch]]
<1>1. wal' = <<first>> \o RecordsOf("Fence", stored) /\ interrupted' = interrupted \o new
  BY DEF InterruptAll, Return
<1>2. IsSeq(fences) /\ IsSeq(partitions) /\ Held(partitions, st.authority)
  BY IdleFacts DEF Held
<1>3. IsSeq(granted) /\ IsSeq(targets)
  BY <1>2, GrantedIsSeq, TargetsAreSeq
<1>4. \A k \in DOMAIN granted : \E i \in Grants(partitions) : granted[k] = partitions[i]
  <2>1. Grants(partitions) \subseteq DOMAIN partitions  BY DEF Grants
  <2> QED  BY <1>2, <2>1, AtElements DEF Granted
<1> HIDE DEF targets, granted
<1>5. SoundRecords(wal')
  <2>1. IsSeq(stored)  BY <1>2, <1>3, StoredIsSeq
  <2> HIDE DEF stored
  <2> QED  BY <1>1, <2>1, SoundThenFences
<1>6. IsSeq(new) /\ DOMAIN new = DOMAIN granted
  <2>1. Len(granted) \in Nat /\ DOMAIN granted = 1..Len(granted)  BY <1>3, SeqElim
  <2>2. new = [i \in 1..Len(granted) |-> new[i]]  BY <2>1
  <2> HIDE DEF new
  <2> QED  BY <2>1, <2>2, SeqIntro
<1>7. ASSUME NEW k \in DOMAIN new
      PROVE  \E i \in DOMAIN partitions : /\ new[k].lineage = partitions[i].lineage
                                          /\ new[k].authority = partitions[i].authority
  <2>1. PICK i \in Grants(partitions) : granted[k] = partitions[i]  BY <1>4, <1>6
  <2>2. i \in DOMAIN partitions  BY DEF Grants
  <2>3. new[k].lineage = granted[k].lineage /\ new[k].authority = granted[k].authority
    BY <1>6
  <2> QED  BY <2>1, <2>2, <2>3
<1> HIDE DEF new
<1>8. \A x \in Range(interrupted') : x \in Range(interrupted) \/ x \in Range(new)
  BY <1>1, <1>6, ConcatIsSeq DEF CapInv, Numbered
<1>9. IsSeq(interrupted')
  BY <1>1, <1>6, ConcatIsSeq DEF CapInv, Numbered
<1>10. ASSUME NEW j \in DOMAIN interrupted'
       PROVE  /\ interrupted'[j].authority \in Nat
              /\ \A i \in DOMAIN partitions :
                   /\ partitions[i].lineage = interrupted'[j].lineage
                   /\ partitions[i].authority > interrupted'[j].authority
                   => partitions[i].class >= ObserveOnly
  <2>1. interrupted'[j] \in Range(interrupted')  BY DEF Range
  <2>2. CASE \E k \in DOMAIN interrupted : interrupted'[j] = interrupted[k]
    BY <2>2 DEF CapInv, Numbered, StaysCapped
  <2>3. CASE \E k \in DOMAIN new : interrupted'[j] = new[k]
    <3>1. PICK m \in DOMAIN partitions : /\ interrupted'[j].lineage = partitions[m].lineage
                                         /\ interrupted'[j].authority = partitions[m].authority
      BY <1>7, <2>3
    <3>2. partitions[m].authority \in Nat  BY <1>2 DEF Held
    <3>3. ASSUME NEW i \in DOMAIN partitions, partitions[i].lineage = interrupted'[j].lineage
          PROVE  ~(partitions[i].authority > interrupted'[j].authority)
      <4>1. i = m  BY <3>1, <3>3 DEF CapInv, Distinct
      <4> QED  BY <3>1, <3>2, <4>1
    <3> QED  BY <3>1, <3>2, <3>3
  <2> QED  BY <1>8, <2>1, <2>2, <2>3 DEF Range
<1>11. Numbered(interrupted') /\ StaysCapped(partitions, interrupted')
  BY <1>9, <1>10 DEF Numbered, StaysCapped
<1> QED
  BY <1>5, <1>11 DEF CapInv, StaysCapped, Distinct

LEMMA AdoptTopologyKeepsCap ==
  ASSUME IInv, CapInv, NEW g, AdoptTopology(g)
  PROVE  CapInv'
<1> DEFINE first == Record("Topology", g)
<1>1. Idle /\ UNCHANGED <<store, partitions, disk>>
  BY DEF AdoptTopology
<1>2. Sound(first)  BY DEF Record, Sound
<1>3. InterruptAll(first) \/ (wal' = <<first>> /\ interrupted' = interrupted)
  BY DEF AdoptTopology, Return
<1> HIDE DEF first
<1>4. CASE InterruptAll(first)  BY <1>1, <1>2, <1>4, InterruptAllKeepsCap
<1>5. CASE wal' = <<first>> /\ interrupted' = interrupted
  <2>1. SoundRecords(wal')  BY <1>2, <1>5, SingleIsSeq DEF SoundRecords
  <2> QED  BY <1>1, <1>5, <2>1, SilentKeepsCap
<1> QED  BY <1>3, <1>4, <1>5

LEMMA SetPolicyKeepsCap ==
  ASSUME IInv, CapInv, NEW g, SetPolicy(g)
  PROVE  CapInv'
<1> DEFINE first == Record("Policy", g)
<1>1. Idle /\ UNCHANGED <<store, partitions, disk>> /\ InterruptAll(first)
  BY DEF SetPolicy
<1>2. Sound(first)  BY DEF Record, Sound
<1> HIDE DEF first
<1> QED  BY <1>1, <1>2, InterruptAllKeepsCap

LEMMA StartKeepsCap ==
  ASSUME IInv, CapInv, Start
  PROVE  CapInv'
<1> DEFINE entries == RestoredInterruptions(disk)
<1>1. partitions' = <<>> /\ store' = disk.lineage /\ interrupted' = entries /\ disk' = disk
  BY DEF Start
<1>2. Numbered(entries)
  <2>1. IsSeq(entries)  BY RestoredIsSeq DEF CapInv, Numbered
  <2>2. \A i \in DOMAIN entries : entries[i].authority \in Nat
    BY DEF RestoredInterruptions, CapInv, Numbered
  <2> HIDE DEF entries
  <2> QED  BY <2>1, <2>2 DEF Numbered
<1>3. SoundRecords(wal')
  <2>1. Held(<<>>, 0)  BY EmptyIsSeq DEF Held
  <2>2. Numbered(Marks(<<>>))  BY <2>1, MarksNumbered
  <2> QED  BY <2>2, StartQueues DEF SoundRecords, Sound
<1> HIDE DEF entries
<1> QED
  BY <1>1, <1>2, <1>3 DEF CapInv, Distinct, StaysCapped

LEMMA FlushKeepsCap ==
  ASSUME IInv, CapInv, Flush
  PROVE  CapInv'
<1> DEFINE r == Head(wal)
           rest == Tail(wal)
<1>1. /\ Range(wal) = {r} \cup Range(rest)
      /\ wal' = rest /\ UNCHANGED <<store, partitions, interrupted>>
  BY TailIsSeq DEF IInv, Shapes, Queued, Flush, memory, Return
<1>2. disk' = CASE r.type = "EpochState" -> [disk EXCEPT !.state = r.body.state,
                                                         !.live = r.body.live]
                [] r.type = "Policy"     -> [disk EXCEPT !.policy = r.body]
                [] r.type = "Topology"   -> [disk EXCEPT !.topology = r.body]
                [] r.type = "Lineage"    -> [disk EXCEPT !.lineage = Append(@, r.body)]
                [] r.type = "Fence"      -> [disk EXCEPT !.fences = Append(@, r.body)]
  BY DEF Flush
<1> HIDE DEF r, rest
<1>3. Proper(r, st) /\ DOMAIN disk = DiskFields
  BY <1>1 DEF IInv, Shapes, Queued
<1>4. Sound(r) /\ SoundRecords(wal')
  BY <1>1 DEF CapInv, SoundRecords
<1>5. AllNamed(disk'.lineage)
  <2>1. CASE r.type = "Lineage"
    <3>1. disk'.lineage = Append(disk.lineage, r.body)
      BY <1>2, <1>3, <2>1 DEF DiskFields
    <3> QED  BY <1>4, <2>1, <3>1, AppendNamed DEF Sound, CapInv
  <2>2. CASE r.type # "Lineage"
    <3>1. disk'.lineage = disk.lineage
      BY <1>2, <1>3, <2>2 DEF Proper, DiskFields
    <3> QED  BY <3>1 DEF CapInv
  <2> QED  BY <2>1, <2>2
<1>6. Numbered(disk'.live)
  <2>1. CASE r.type = "EpochState"
    <3>1. disk'.live = r.body.live
      BY <1>2, <1>3, <2>1 DEF DiskFields
    <3> QED  BY <1>4, <2>1, <3>1 DEF Sound
  <2>2. CASE r.type # "EpochState"
    <3>1. disk'.live = disk.live
      BY <1>2, <1>3, <2>2 DEF Proper, DiskFields
    <3> QED  BY <3>1 DEF CapInv
  <2> QED  BY <2>1, <2>2
<1> QED
  BY <1>1, <1>4, <1>5, <1>6 DEF CapInv, Distinct, StaysCapped

LEMMA NextKeepsCap ==
  ASSUME IInv, CapInv, [Next]_vars
  PROVE  CapInv'
<1>1. CASE Start  BY <1>1, StartKeepsCap
<1>2. CASE Refuse \/ Close
  <2>1. wal' = wal /\ UNCHANGED <<store, partitions, interrupted, disk>>
    BY <1>2 DEF Refuse, Close, memory
  <2>2. SoundRecords(wal')  BY <2>1 DEF CapInv
  <2> QED  BY <2>1, <2>2, SilentKeepsCap
<1>3. CASE Crash
  <2>1. /\ wal' = <<>> /\ store' = <<>> /\ partitions' = <<>> /\ interrupted' = <<>>
        /\ disk' = disk
    BY <1>3 DEF Crash
  <2>2. AllNamed(<<>>) /\ Numbered(<<>>)  BY EmptyIsSeq DEF AllNamed, Numbered
  <2> QED  BY <2>1, <2>2, EmptySound DEF CapInv, Distinct, StaysCapped
<1>4. CASE Flush  BY <1>4, FlushKeepsCap
<1>5. CASE \E d \in TickSteps : AdvanceTicks(d)
  <2>1. wal' = <<>> /\ UNCHANGED <<store, partitions, interrupted, disk>>
    BY <1>5 DEF AdvanceTicks, Return, memory
  <2> QED  BY <2>1, EmptySound, SilentKeepsCap
<1>6. CASE \E g \in 1..Len(Topologies) : AdoptTopology(g)  BY <1>6, AdoptTopologyKeepsCap
<1>7. CASE \E g \in 1..Len(Policies) : SetPolicy(g)  BY <1>7, SetPolicyKeepsCap
<1>8. CASE \E claim \in Claims : IngestEvidence(claim)
  <2>1. wal' = <<>> /\ UNCHANGED <<store, partitions, interrupted, disk>>
    BY <1>8 DEF IngestEvidence, Return
  <2> QED  BY <2>1, EmptySound, SilentKeepsCap
<1>9. CASE \E io \in IoOutcomes : Assess(io)  BY <1>9, AssessKeepsCap
<1>10. CASE \E n \in 1..MaxAttempts : Request(n)
  <2> PICK n \in 1..MaxAttempts : Request(n)  BY <1>10
  <2>1. CASE DenyRequest(n)
    <3>1. wal' = <<>> /\ UNCHANGED <<store, partitions, interrupted, disk>>
      BY <2>1 DEF DenyRequest, Return, memory
    <3> QED  BY <3>1, EmptySound, SilentKeepsCap
  <2>2. CASE \E l \in Lineages, d \in Durations, io \in IoOutcomes : Isolate(n, l, d, io)
    BY <2>2, IsolateKeepsCap
  <2>3. CASE \E l \in Lineages, io \in IoOutcomes : ClearIsolation(n, l, io)
    BY <2>3, ClearIsolationKeepsCap
  <2>4. CASE \E l \in Lineages : Retire(n, l)  BY <2>4, RetireKeepsCap
  <2>5. CASE \E subject \in ToSet(partitions) :
               \E left, right \in subject.pending, io \in IoOutcomes :
                 RequestMerge(n, subject, left, right, io)
    BY <2>5, RequestMergeKeepsCap
  <2>6. CASE \E io \in IoOutcomes : Revalidate(n, io)  BY <2>6, RevalidateKeepsCap
  <2> QED  BY <2>1, <2>2, <2>3, <2>4, <2>5, <2>6 DEF Request
<1>11. CASE UNCHANGED vars
  <2>1. wal' = wal /\ UNCHANGED <<store, partitions, interrupted, disk>>
    BY <1>11 DEF vars
  <2>2. SoundRecords(wal')  BY <2>1 DEF CapInv
  <2> QED  BY <2>1, <2>2, SilentKeepsCap
<1> QED
  BY <1>1, <1>2, <1>3, <1>4, <1>5, <1>6, <1>7, <1>8, <1>9, <1>10, <1>11 DEF Next

LEMMA CapInvariance == Spec => []CapInv
<1>1. Init => CapInv
  <2>1. AllNamed(<<>>) /\ Numbered(<<>>)  BY EmptyIsSeq DEF AllNamed, Numbered
  <2> QED  BY <2>1, EmptySound DEF Init, CapInv, Distinct, StaysCapped
<1>2. IInv /\ CapInv /\ [Next]_vars => CapInv'
  BY NextKeepsCap
<1> QED
  BY <1>1, <1>2, Invariance, PTL DEF Spec

\* An interruption holds until it is ended: no restart, change of policy or new
\* topology, and no assessment in between, whatever appends fail, gives an
\* interrupted lineage a newer grant above OBSERVE_ONLY (the interruption cap of
\* evaluate_authority, over the lineages build_partitions gives out).
THEOREM InterruptionHolds == Spec => []InterruptedStaysCapped
<1>1. CapInv => InterruptedStaysCapped
  BY DEF CapInv, StaysCapped, InterruptedStaysCapped
<1> QED
  BY <1>1, CapInvariance, PTL

-----------------------------------------------------------------------------
(* One more record.                                                        *)

LEMMA AppendAt ==
  ASSUME NEW s, IsSeq(s), NEW r
  PROVE  /\ IsSeq(Append(s, r)) /\ Len(s) \in Nat /\ Len(Append(s, r)) = Len(s) + 1
         /\ \A i \in 1..Len(s) : Append(s, r)[i] = s[i]
         /\ Append(s, r)[Len(s) + 1] = r
         /\ Range(Append(s, r)) = Range(s) \cup {r}
<1> DEFINE T == Range(s) \cup {r}
<1>1. s \in Seq(T)
  <2>1. s \in Seq(Range(s)) /\ Range(s) \subseteq T  BY DEF IsSeq
  <2> QED  BY <2>1, SeqMonotonic
<1>2. r \in T
  OBVIOUS
<1> HIDE DEF T
<1>3. /\ Len(s) \in Nat /\ Len(Append(s, r)) = Len(s) + 1
      /\ DOMAIN s = 1..Len(s) /\ DOMAIN Append(s, r) = 1..(Len(s) + 1)
      /\ \A i \in 1..Len(s) : Append(s, r)[i] = s[i]
      /\ Append(s, r)[Len(s) + 1] = r
  BY <1>1, <1>2
<1>4. Range(Append(s, r)) = Range(s) \cup {r}
  <2>1. 1..(Len(s) + 1) = 1..Len(s) \cup {Len(s) + 1}  BY <1>3
  <2> HIDE DEF T
  <2> QED  BY <1>3, <2>1 DEF Range
<1> QED
  BY <1>3, <1>4, AppendIsSeq

\* The latest record of a lineage is a record of it.
LEMMA LatestIs ==
  ASSUME NEW s, IsSeq(s), NEW l, Recorded(s, l)
  PROVE  /\ Max(Positions(s, l)) \in Positions(s, l)
         /\ Latest(s, l) \in Range(s) /\ Latest(s, l).lineage = l
<1> DEFINE P == Positions(s, l)
<1>1. Len(s) \in Nat
  BY SeqElim
<1>2. P \subseteq Nat /\ P # {} /\ \A i \in P : i <= Len(s)
  BY <1>1 DEF Positions, Recorded
<1>3. Max(P) \in P
  <2> HIDE DEF P
  <2> QED  BY <1>1, <1>2, MaxOfBounded
<1>4. Max(P) \in 1..Len(s) /\ s[Max(P)].lineage = l
  BY <1>3 DEF Positions
<1> QED
  BY <1>3, <1>4, ElementInRange DEF Latest

LEMMA RecordedIs ==
  ASSUME NEW s, IsSeq(s)
  PROVE  \A l : Recorded(s, l) <=> \E r \in Range(s) : r.lineage = l
<1>1. DOMAIN s = 1..Len(s)
  BY SeqElim
<1> QED
  BY <1>1 DEF Recorded, Positions, Range

LEMMA SupersededIs ==
  ASSUME NEW s, IsSeq(s)
  PROVE  Superseded(s) = UNION {r.parents : r \in Range(s)}
<1>1. DOMAIN s = 1..Len(s)
  BY SeqElim
<1> QED
  BY <1>1 DEF Superseded, Range

LEMMA LiveIs ==
  ASSUME NEW s, IsSeq(s)
  PROVE  \A l : l \in Live(s) <=>
           Recorded(s, l) /\ Latest(s, l).event # "RETIRE" /\ l \notin Superseded(s)
  BY DEF Live, Recorded, Positions

\* A record makes itself the latest of its lineage, and its parents superseded;
\* nothing else changes.
LEMMA AppendLatest ==
  ASSUME NEW s, IsSeq(s), NEW r
  PROVE  /\ \A l : Recorded(Append(s, r), l) <=> Recorded(s, l) \/ l = r.lineage
         /\ Latest(Append(s, r), r.lineage) = r
         /\ \A l : l # r.lineage /\ Recorded(s, l) => Latest(Append(s, r), l) = Latest(s, l)
         /\ Superseded(Append(s, r)) = Superseded(s) \cup r.parents
<1> DEFINE t == Append(s, r)
<1>1. /\ IsSeq(t) /\ Len(s) \in Nat /\ Len(t) = Len(s) + 1
      /\ \A i \in 1..Len(s) : t[i] = s[i]
      /\ t[Len(s) + 1] = r
      /\ Range(t) = Range(s) \cup {r}
  BY AppendAt
<1> HIDE DEF t
<1>2. 1..Len(t) = 1..Len(s) \cup {Len(s) + 1}
  BY <1>1
<1>3. \A l : Positions(t, l) = Positions(s, l) \cup (IF l = r.lineage THEN {Len(s) + 1} ELSE {})
  BY <1>1, <1>2 DEF Positions
<1>4. \A l : Recorded(t, l) <=> Recorded(s, l) \/ l = r.lineage
  BY <1>3 DEF Recorded
<1>5. Latest(t, r.lineage) = r
  <2> DEFINE P == Positions(t, r.lineage)
  <2>1. P \subseteq Nat /\ Len(s) + 1 \in P /\ \A i \in P : i <= Len(s) + 1
    BY <1>1, <1>2, <1>3 DEF Positions
  <2> HIDE DEF P
  <2>2. Max(P) \in P /\ \A x \in P : x <= Max(P)
    BY <1>1, <2>1, MaxOfBounded
  <2>3. Max(P) = Len(s) + 1
    <3>1. Len(s) + 1 <= Max(P) /\ Max(P) <= Len(s) + 1 /\ Max(P) \in Nat
      BY <2>1, <2>2
    <3> QED  BY <1>1, <3>1
  <2> QED  BY <1>1, <2>3 DEF Latest, P
<1>6. ASSUME NEW l, l # r.lineage, Recorded(s, l) PROVE Latest(t, l) = Latest(s, l)
  <2>1. Positions(t, l) = Positions(s, l)
    BY <1>3, <1>6
  <2>2. Max(Positions(s, l)) \in 1..Len(s)
    BY <1>6, LatestIs DEF Positions
  <2> QED  BY <1>1, <2>1, <2>2 DEF Latest
<1>7. Superseded(t) = Superseded(s) \cup r.parents
  BY <1>1, SupersededIs
<1> QED
  BY <1>4, <1>5, <1>6, <1>7 DEF t

-----------------------------------------------------------------------------
(* How an assessment grows the lineages.                                   *)

\* How build_partitions classified a set of components against the store.
Derived(s, p) ==
  /\ Fresh(p.lineage, p.members) \/ Continued(s, p.lineage, p.members)
  /\ p.pending \subseteq Owners(s, p.members) /\ p.parents \subseteq Owners(s, p.members)
  /\ p.pending = {} =>
       /\ \A l \in Owners(s, p.members) : p.lineage = l \/ p.parents = {l}
       /\ \A l, m \in Owners(s, p.members) : l = m

LEMMA ClassifyDerives ==
  ASSUME NEW s, IsSeq(s), NEW members, NEW p, p.members = members,
         p.lineage = Classify(s, members).lineage, p.parents = Classify(s, members).parents,
         p.pending = Classify(s, members).pending
  PROVE  Derived(s, p)
<1> DEFINE owners == Owners(s, members)
           owner == CHOOSE l \in owners : TRUE
           recorded == Latest(s, owner).members
           as(id, parents, pending) == [lineage |-> id, parents |-> parents, pending |-> pending]
           c == Classify(s, members)
<1>1. IsFiniteSet(owners)
  <2> DEFINE all == {s[i].lineage : i \in 1..Len(s)}
             f == [i \in 1..Len(s) |-> s[i].lineage]
  <2>1. Len(s) \in Nat  BY SeqElim
  <2>2. IsFiniteSet(all)
    <3>1. f \in Surjection(1..Len(s), all)  BY DEF Surjection
    <3>2. IsFiniteSet(1..Len(s))  BY <2>1, FS_Interval
    <3> HIDE DEF f, all
    <3> QED  BY <3>1, <3>2, FS_Surjection
  <2>3. owners \subseteq all  BY DEF Owners, Live
  <2> HIDE DEF all, owners
  <2> QED  BY <2>2, <2>3, FS_Subset
<1>2. /\ Cardinality(owners) \in Nat
      /\ Cardinality(owners) = 0 <=> owners = {}
      /\ Cardinality(owners) = 1 => owners = {owner}
  <2> HIDE DEF owners
  <2>1. Cardinality(owners) \in Nat /\ (Cardinality(owners) = 0 <=> owners = {})
    BY <1>1, FS_CardinalityType, FS_EmptySet
  <2>2. Cardinality(owners) = 1 => \E x : owners = {x}  BY <1>1, FS_Singleton
  <2> QED  BY <2>1, <2>2
<1> DEFINE Good == /\ c.pending \subseteq owners /\ c.parents \subseteq owners
                   /\ c.pending = {} => /\ \A l \in owners : c.lineage = l \/ c.parents = {l}
                                        /\ \A l, m \in owners : l = m
<1>3. ASSUME owners = {} PROVE Good
  <2>1. c.pending = {} /\ c.parents = {}  BY <1>3, FS_EmptySet DEF Classify
  <2> HIDE DEF c
  <2> QED  BY <1>3, <2>1
<1>4. ASSUME owners # {}, Cardinality(owners) = 1, recorded = members PROVE Good
  <2>1. c.lineage = owner /\ c.pending = {} /\ c.parents = {}
    <3>1. c = CASE owners = {} -> as(GenesisId(members), {}, {})
                [] Cardinality(owners) = 1 /\ recorded = members -> as(owner, {}, {})
                [] Cardinality(owners) = 1 /\ recorded # members /\ members \subseteq recorded
                     -> as(SplitId(owner, members), {owner}, {})
                [] Cardinality(owners) = 1 /\ ~(members \subseteq recorded)
                     -> as(DivergentId(owner, members), {owner}, {})
                [] Cardinality(owners) > 1 -> as(PendingId(owners, members), {}, owners)
      BY DEF Classify
    <3>2. /\ as(owner, {}, {}).lineage = owner /\ as(owner, {}, {}).pending = {}
          /\ as(owner, {}, {}).parents = {}
      OBVIOUS
    <3> HIDE DEF c, as, owners, owner, recorded
    <3>3. c = as(owner, {}, {})  BY <3>1, <1>4
    <3> QED  BY <3>2, <3>3
  <2> HIDE DEF c, owners, owner, recorded
  <2> QED  BY <1>2, <1>4, <2>1
<1>5. ASSUME owners # {}, Cardinality(owners) = 1, recorded # members, members \subseteq recorded
      PROVE  Good
  <2>1. c.parents = {owner} /\ c.pending = {}  BY <1>5 DEF Classify
  <2> HIDE DEF c, owners, owner, recorded
  <2> QED  BY <1>2, <1>5, <2>1
<1>6. ASSUME owners # {}, Cardinality(owners) = 1, ~(members \subseteq recorded) PROVE Good
  <2>1. c.parents = {owner} /\ c.pending = {}  BY <1>6 DEF Classify
  <2> HIDE DEF c, owners, owner, recorded
  <2> QED  BY <1>2, <1>6, <2>1
<1>7. ASSUME owners # {}, Cardinality(owners) > 1 PROVE Good
  <2>1. c.pending = owners /\ c.parents = {}  BY <1>7 DEF Classify
  <2> HIDE DEF c, owners, owner, recorded
  <2> QED  BY <1>7, <2>1
<1>8. Good
  <2>1. owners # {} => Cardinality(owners) = 1 \/ Cardinality(owners) > 1
    <3> HIDE DEF owners
    <3> QED  BY <1>2
  <2>2. recorded = members \/ (recorded # members /\ members \subseteq recorded)
          \/ ~(members \subseteq recorded)
    OBVIOUS
  <2> HIDE DEF owners, recorded, c, owner, Good
  <2> QED  BY <1>3, <1>4, <1>5, <1>6, <1>7, <2>1, <2>2 DEF owners, recorded, owner, c
<1>9. Fresh(p.lineage, members) \/ Continued(s, p.lineage, members)
  BY ClassifyNames
<1> QED
  BY <1>8, <1>9 DEF Derived, owners, c

\* What the lineage step has recorded after some of the partitions: nothing new
\* of a lineage that had a record, and for a lineage that had none the
\* membership of its partition, whose parents it supersedes.
Grown(s, t, ps, n) ==
  /\ AllNamed(t)
  /\ \A l : Recorded(s, l) => Recorded(t, l) /\ Latest(t, l) = Latest(s, l)
  /\ \A l : Recorded(t, l) /\ ~Recorded(s, l) =>
       /\ l[1] # "merge"
       /\ \E j \in 1..n : /\ ps[j].lineage = l /\ Latest(t, l).members = ps[j].members
                          /\ ps[j].pending = {} /\ ps[j].parents \subseteq Superseded(t)
  /\ Superseded(s) \subseteq Superseded(t)

LEMMA GrownFromStart ==
  ASSUME NEW s, AllNamed(s), NEW ps
  PROVE  Grown(s, s, ps, 0)
  BY DEF Grown

\* A partition that is to be recorded starts a lineage.
LEMMA UnsettledIsNew ==
  ASSUME NEW s, NEW t, NEW ps, NEW n, Grown(s, t, ps, n), NEW p, Derived(s, p), NEW fresh,
         ~Settled(t, p, fresh)
  PROVE  ~Recorded(t, p.lineage) /\ p.lineage[1] # "merge" /\ p.pending = {}
<1>1. p.pending = {} /\ ~(Recorded(t, p.lineage) /\ Latest(t, p.lineage).members = p.members)
  BY DEF Settled
<1>2. Fresh(p.lineage, p.members)
  <2>1. Continued(s, p.lineage, p.members) =>
          Recorded(t, p.lineage) /\ Latest(t, p.lineage).members = p.members
    BY DEF Continued, Grown
  <2> QED  BY <1>1, <2>1 DEF Derived
<1>3. Recorded(t, p.lineage) => Latest(t, p.lineage).members = p.members
  <2> SUFFICES ASSUME Recorded(t, p.lineage) PROVE Latest(t, p.lineage).members = p.members
    OBVIOUS
  <2>1. Latest(t, p.lineage).lineage = p.lineage /\ Named(Latest(t, p.lineage))
    BY LatestNamed DEF Grown
  <2> QED  BY <1>2, <2>1 DEF Named, Fresh
<1> QED
  BY <1>1, <1>2, <1>3 DEF Fresh

LEMMA GrownStep ==
  ASSUME NEW s, NEW t, NEW ps, NEW n \in Nat, Grown(s, t, ps, n),
         ~Recorded(t, ps[n + 1].lineage), ps[n + 1].lineage[1] # "merge", ps[n + 1].pending = {},
         NEW r, Named(r), r.lineage = ps[n + 1].lineage, r.members = ps[n + 1].members,
         r.parents = ps[n + 1].parents
  PROVE  Grown(s, Append(t, r), ps, n + 1)
<1> DEFINE u == Append(t, r)
           p == ps[n + 1]
<1>1. IsSeq(t) /\ AllNamed(u)
  BY AppendNamed DEF Grown, AllNamed
<1>2. /\ \A l : Recorded(u, l) <=> Recorded(t, l) \/ l = r.lineage
      /\ Latest(u, r.lineage) = r
      /\ \A l : l # r.lineage /\ Recorded(t, l) => Latest(u, l) = Latest(t, l)
      /\ Superseded(u) = Superseded(t) \cup r.parents
  BY <1>1, AppendLatest
<1>3. 1..(n + 1) = 1..n \cup {n + 1}
  OBVIOUS
<1> HIDE DEF u
<1>4. ASSUME NEW l, Recorded(s, l) PROVE Recorded(u, l) /\ Latest(u, l) = Latest(s, l)
  <2>1. Recorded(t, l) /\ Latest(t, l) = Latest(s, l)
    BY <1>4 DEF Grown
  <2> QED  BY <1>2, <2>1
<1>5. ASSUME NEW l, Recorded(u, l), ~Recorded(s, l)
      PROVE  /\ l[1] # "merge"
             /\ \E j \in 1..(n + 1) :
                  /\ ps[j].lineage = l /\ Latest(u, l).members = ps[j].members
                  /\ ps[j].pending = {} /\ ps[j].parents \subseteq Superseded(u)
  <2>1. CASE l = r.lineage
    <3>1. n + 1 \in 1..(n + 1)  OBVIOUS
    <3>2. Latest(u, l).members = p.members /\ p.parents \subseteq Superseded(u)
      BY <1>2, <2>1
    <3> QED  BY <2>1, <3>1, <3>2
  <2>2. CASE l # r.lineage
    <3>1. Recorded(t, l) /\ Latest(u, l) = Latest(t, l)
      BY <1>2, <1>5, <2>2
    <3>2. l[1] # "merge"
      BY <1>5, <3>1 DEF Grown
    <3>3. PICK j \in 1..n : /\ ps[j].lineage = l /\ Latest(t, l).members = ps[j].members
                            /\ ps[j].pending = {} /\ ps[j].parents \subseteq Superseded(t)
      BY <1>5, <3>1 DEF Grown
    <3>4. j \in 1..(n + 1) /\ ps[j].parents \subseteq Superseded(u)
      BY <1>2, <1>3, <3>3
    <3> QED  BY <3>1, <3>2, <3>3, <3>4
  <2> QED  BY <2>1, <2>2
<1>6. Superseded(s) \subseteq Superseded(u)
  BY <1>2 DEF Grown
<1>7. Grown(s, u, ps, n + 1)
  BY <1>1, <1>4, <1>5, <1>6 DEF Grown
<1> QED
  BY <1>7 DEF u

LEMMA GrownMore ==
  ASSUME NEW s, NEW t, NEW ps, NEW n \in Nat, Grown(s, t, ps, n)
  PROVE  Grown(s, t, ps, n + 1)
<1>1. 1..n \subseteq 1..(n + 1)
  OBVIOUS
<1> QED
  BY <1>1 DEF Grown

\* The members of two partitions have nothing in common.
Apart(ps) == \A i, j \in DOMAIN ps : ps[i].members \cap ps[j].members # {} => i = j

\* A lineage that is live after the step was live before it, with the same
\* record, or it is new.
LEMMA GrownLive ==
  ASSUME NEW s, IsSeq(s), NEW t, NEW ps, NEW n, Grown(s, t, ps, n), NEW l \in Live(t)
  PROVE  \/ l \in Live(s) /\ Latest(t, l) = Latest(s, l)
         \/ /\ ~Recorded(s, l)
            /\ \E j \in 1..n : /\ ps[j].lineage = l /\ Latest(t, l).members = ps[j].members
                               /\ ps[j].pending = {} /\ ps[j].parents \subseteq Superseded(t)
<1>1. Recorded(t, l) /\ Latest(t, l).event # "RETIRE" /\ l \notin Superseded(t)
  BY LiveIs DEF Grown, AllNamed
<1>2. CASE Recorded(s, l)
  <2>1. Latest(t, l) = Latest(s, l) /\ l \notin Superseded(s)
    BY <1>1, <1>2 DEF Grown
  <2> QED  BY <1>1, <1>2, <2>1, LiveIs
<1>3. CASE ~Recorded(s, l)
  BY <1>1, <1>3 DEF Grown
<1> QED
  BY <1>2, <1>3

\* After the step a partition without a pending merge is on one live lineage.
LEMMA GrownOwners ==
  ASSUME NEW s, IsSeq(s), NEW t, NEW ps, IsSeq(ps), Grown(s, t, ps, Len(ps)), Apart(ps),
         \A i \in DOMAIN ps : Derived(s, ps[i]),
         NEW i \in DOMAIN ps, ps[i].pending = {},
         NEW l \in Owners(t, ps[i].members), NEW m \in Owners(t, ps[i].members)
  PROVE  l = m
<1> DEFINE Old(x) == x \in Owners(s, ps[i].members)
           New(x) == x = ps[i].lineage /\ ps[i].parents \subseteq Superseded(t)
<1>1. DOMAIN ps = 1..Len(ps)
  BY SeqElim
<1>2. ASSUME NEW x \in Owners(t, ps[i].members) PROVE (Old(x) \/ New(x)) /\ x \notin Superseded(t)
  <2>1. x \in Live(t) /\ Latest(t, x).members \cap ps[i].members # {}
    BY DEF Owners
  <2>2. x \notin Superseded(t)
    BY <2>1 DEF Live
  <2>3. CASE x \in Live(s) /\ Latest(t, x) = Latest(s, x)
    BY <2>1, <2>2, <2>3 DEF Owners
  <2>4. CASE \E j \in 1..Len(ps) : /\ ps[j].lineage = x /\ Latest(t, x).members = ps[j].members
                                   /\ ps[j].parents \subseteq Superseded(t)
    BY <1>1, <2>1, <2>2, <2>4 DEF Apart
  <2> QED  BY <2>1, <2>3, <2>4, GrownLive
<1>3. ASSUME NEW x, Old(x), x \notin Superseded(t), New(l) \/ New(m)
      PROVE  x = ps[i].lineage
  BY <1>3 DEF Derived
<1>4. Old(l) /\ Old(m) => l = m
  BY DEF Derived
<1>5. (Old(l) \/ New(l)) /\ l \notin Superseded(t) /\ (Old(m) \/ New(m)) /\ m \notin Superseded(t)
  BY <1>2
<1>6. New(l) => l = ps[i].lineage
  OBVIOUS
<1>7. New(m) => m = ps[i].lineage
  OBVIOUS
<1> HIDE DEF Old, New
<1> QED
  BY <1>3, <1>4, <1>5, <1>6, <1>7

\* Two live lineages of which neither comes from a merge share no member.
Disjoint(s) ==
  \A l, m \in Live(s) :
    l # m /\ Latest(s, l).members \cap Latest(s, m).members # {}
      => "MERGE" \in {Latest(s, l).event, Latest(s, m).event}

LEMMA GrownDisjoint ==
  ASSUME NEW s, IsSeq(s), Disjoint(s), NEW t, NEW ps, IsSeq(ps), NEW n \in 0..Len(ps),
         Grown(s, t, ps, n), Apart(ps), \A i \in DOMAIN ps : Derived(s, ps[i])
  PROVE  Disjoint(t)
<1> DEFINE Old(x) == x \in Live(s) /\ Latest(t, x) = Latest(s, x)
           New(x, j) == /\ ps[j].lineage = x /\ Latest(t, x).members = ps[j].members
                        /\ ps[j].pending = {} /\ ps[j].parents \subseteq Superseded(t)
<1>1. \A j \in 1..n : j \in DOMAIN ps
  <2>1. DOMAIN ps = 1..Len(ps) /\ Len(ps) \in Nat  BY SeqElim
  <2> QED  BY <2>1
<1>2. \A x \in Live(t) : Old(x) \/ \E j \in 1..n : New(x, j)
  BY GrownLive
<1>3. ASSUME NEW x \in Live(t), NEW y \in Live(t), Old(x), NEW j \in 1..n, New(y, j),
             Latest(t, x).members \cap Latest(t, y).members # {}
      PROVE  x = y
  <2>1. x \in Owners(s, ps[j].members)
    BY <1>3 DEF Owners
  <2>2. ps[j].lineage = x \/ ps[j].parents = {x}
    BY <1>1, <1>3, <2>1 DEF Derived
  <2>3. x \notin Superseded(t)
    BY DEF Live
  <2> QED  BY <1>3, <2>2, <2>3
<1>4. ASSUME NEW x \in Live(t), NEW y \in Live(t), x # y,
             Latest(t, x).members \cap Latest(t, y).members # {}
      PROVE  Old(x) /\ Old(y)
  <2>1. \A i, j \in 1..n : ~(New(x, i) /\ New(y, j))
    BY <1>1, <1>4 DEF Apart
  <2>2. ~(Old(x) /\ \E j \in 1..n : New(y, j)) /\ ~(Old(y) /\ \E j \in 1..n : New(x, j))
    <3>1. Latest(t, y).members \cap Latest(t, x).members # {}  BY <1>4
    <3> HIDE DEF Old, New
    <3> QED  BY <1>3, <1>4, <3>1
  <2> HIDE DEF Old, New
  <2> QED  BY <1>2, <2>1, <2>2
<1> SUFFICES ASSUME NEW x \in Live(t), NEW y \in Live(t), x # y,
                    Latest(t, x).members \cap Latest(t, y).members # {}
             PROVE  "MERGE" \in {Latest(t, x).event, Latest(t, y).event}
  BY DEF Disjoint
<1>5. Old(x) /\ Old(y)
  <2> HIDE DEF Old
  <2> QED  BY <1>4
<1> QED
  BY <1>5 DEF Disjoint

-----------------------------------------------------------------------------
(* The grounds of PRIMARY.                                                 *)

\* No cap applies.
LEMMA NoEvidenceCap ==
  ASSUME NEW rules, NEW snap, NEW pending, EvidenceCap(rules, snap, pending) = Primary
  PROVE  /\ pending = {} /\ snap.fresh
         /\ rules.downgrade \/ rules.writeConfirmed \/ rules.readConfirmed => snap.confirmed
<1> DEFINE unconfirmed(rule, cap) == IF ~snap.confirmed /\ rule THEN {cap} ELSE {}
           caps == (IF pending # {} \/ ~snap.fresh THEN {ObserveOnly} ELSE {})
                   \cup unconfirmed(rules.downgrade, Degraded)
                   \cup unconfirmed(rules.writeConfirmed, ReadOnly)
                   \cup unconfirmed(rules.readConfirmed, ObserveOnly)
           all == caps \cup {Primary}
<1>1. all \subseteq Nat /\ 1 \in all /\ \A x \in all : x <= 4
  BY DEF Primary, Degraded, ReadOnly, ObserveOnly
<1>2. Max(all) = 1
  BY DEF EvidenceCap, Primary
<1>3. /\ pending # {} \/ ~snap.fresh => 4 \in all
      /\ ~snap.confirmed /\ rules.downgrade => 2 \in all
      /\ ~snap.confirmed /\ rules.writeConfirmed => 3 \in all
      /\ ~snap.confirmed /\ rules.readConfirmed => 4 \in all
  BY DEF Primary, Degraded, ReadOnly, ObserveOnly
<1> HIDE DEF all
<1>4. \A x \in all : x <= Max(all)
  BY <1>1, MaxOfBounded
<1>5. 2 \notin all /\ 3 \notin all /\ 4 \notin all
  BY <1>2, <1>4
<1> QED
  BY <1>3, <1>5

LEMMA CappedPrimary ==
  ASSUME NEW rules, NEW snap, NEW p, NEW isolated \in BOOLEAN, NEW stopped \in BOOLEAN,
         Capped(rules, snap, p, isolated, stopped) = Primary
  PROVE  /\ ~isolated /\ ~stopped
         /\ SatisfiedBy(rules, rules.full, p.members)
         /\ p.pending = {} /\ snap.fresh
         /\ rules.downgrade \/ rules.writeConfirmed \/ rules.readConfirmed => snap.confirmed
<1> DEFINE q == QuorumClass(rules, p.members)
           e == EvidenceCap(rules, snap, p.pending)
<1>1. q \in 1..5 /\ (q = 1 => SatisfiedBy(rules, rules.full, p.members))
  BY DEF QuorumClass, Primary, Degraded, Isolated
<1>2. e \in 1..4
  BY EvidenceCapType DEF Primary, ObserveOnly
<1>3. Capped(rules, snap, p, isolated, stopped) =
        LET class == IF isolated THEN 5 ELSE Weaker(q, e)
        IN  IF stopped THEN Weaker(class, 4) ELSE class
  BY DEF Capped, ObserveOnly, Isolated
<1> HIDE DEF q, e
<1>4. ~isolated /\ ~stopped /\ q = 1 /\ e = 1
  BY <1>1, <1>2, <1>3 DEF Weaker, Primary
<1> QED
  BY <1>1, <1>4, NoEvidenceCap DEF e, Primary

\* What evaluate_authority keeps of a partition, and what PRIMARY takes.
Grounds(rules, snap, p) ==
  /\ p.pending = {} /\ snap.fresh
  /\ rules.downgrade \/ rules.writeConfirmed \/ rules.readConfirmed => snap.confirmed
  /\ SatisfiedBy(rules, rules.full, p.members)

LEMMA EvaluateAuthorityGrounds ==
  ASSUME NEW s, NEW rules, NEW snap, NEW built, NEW directives, NEW entries,
         NEW restore
  PROVE  LET ps == EvaluateAuthority(s, rules, snap, built, directives, entries, restore)
         IN  /\ DOMAIN ps = DOMAIN built
             /\ \A i \in DOMAIN ps :
                  /\ ps[i].lineage = built[i].lineage /\ ps[i].members = built[i].members
                  /\ ps[i].parents = built[i].parents /\ ps[i].pending = built[i].pending
                  /\ ps[i].generation = built[i].generation
                  /\ ps[i].class = Primary =>
                       /\ Grounds(rules, snap, ps[i]) /\ ps[i].authorized # {}
                       /\ ~IsIsolated(directives, s.tick, ps[i].lineage)
                       /\ ~restore => ~IsInterrupted(entries, ps[i].lineage)
<1> DEFINE isolated(i) == IsIsolated(directives, s.tick, built[i].lineage)
           stopped(i) == ~restore /\ IsInterrupted(entries, built[i].lineage)
           capped == [i \in DOMAIN built |-> Capped(rules, snap, built[i], isolated(i), stopped(i))]
           class == Classes(s, rules, snap, built, directives, entries, restore)
           authorized(i) == CapabilitiesForClass(rules, class[i])
           below(i) == {j \in DOMAIN built : j <= i /\ authorized(j) # {}}
           ps == EvaluateAuthority(s, rules, snap, built, directives, entries, restore)
<1>1. class = FinalClasses(rules, capped)
  BY DEF Classes
<1>2. \A i \in DOMAIN built : class[i] = Primary => capped[i] = Primary
  <2>1. DOMAIN capped = DOMAIN built  OBVIOUS
  <2> HIDE DEF class, capped
  <2> QED  BY <1>1, <2>1 DEF FinalClasses, Primary, ObserveOnly
<1>3. ASSUME NEW i \in DOMAIN built, class[i] = Primary
      PROVE  Grounds(rules, snap, built[i]) /\ ~isolated(i) /\ ~stopped(i)
  <2>1. Capped(rules, snap, built[i], isolated(i), stopped(i)) = Primary
    BY <1>2, <1>3
  <2>2. isolated(i) \in BOOLEAN /\ stopped(i) \in BOOLEAN
    BY DEF IsIsolated, IsInterrupted
  <2> HIDE DEF isolated, stopped, class
  <2> QED  BY <2>1, <2>2, CappedPrimary DEF Grounds
<1> HIDE DEF class, capped
<1>4. \A i : class[i] = Primary => authorized(i) # {}
  <2>1. AllCapabilities # {}  BY DEF AllCapabilities
  <2>2. CapabilitiesForClass(rules, Primary) = AllCapabilities
    BY DEF CapabilitiesForClass, Primary, Degraded, ReadOnly, ObserveOnly
  <2> QED  BY <2>1, <2>2
<1> HIDE DEF authorized
<1>5. ps = [i \in DOMAIN built |->
              [lineage |-> built[i].lineage, parents |-> built[i].parents,
               pending |-> built[i].pending, members |-> built[i].members,
               generation |-> built[i].generation, class |-> class[i],
               authorized |-> authorized(i),
               authority |-> IF authorized(i) = {} THEN 0
                             ELSE s.authority + Cardinality(below(i))]]
  BY DEF EvaluateAuthority, class, authorized
<1> HIDE DEF ps, below
<1>6. /\ DOMAIN ps = DOMAIN built
      /\ \A i \in DOMAIN built :
           /\ ps[i].lineage = built[i].lineage /\ ps[i].members = built[i].members
           /\ ps[i].parents = built[i].parents /\ ps[i].pending = built[i].pending
           /\ ps[i].generation = built[i].generation
           /\ ps[i].class = class[i] /\ ps[i].authorized = authorized(i)
  BY <1>5
<1>7. \A i \in DOMAIN built : Grounds(rules, snap, built[i]) => Grounds(rules, snap, ps[i])
  BY <1>6 DEF Grounds
<1>8. ASSUME NEW i \in DOMAIN ps, ps[i].class = Primary
      PROVE  /\ Grounds(rules, snap, ps[i]) /\ ps[i].authorized # {}
             /\ ~IsIsolated(directives, s.tick, ps[i].lineage)
             /\ ~restore => ~IsInterrupted(entries, ps[i].lineage)
  <2>1. i \in DOMAIN built /\ class[i] = Primary /\ ps[i].lineage = built[i].lineage
    BY <1>6, <1>8
  <2>2. Grounds(rules, snap, built[i]) /\ ~isolated(i) /\ ~stopped(i)
    BY <1>3, <2>1
  <2> QED  BY <1>4, <1>6, <1>7, <2>1, <2>2
<1>9. /\ DOMAIN ps = DOMAIN built
      /\ \A i \in DOMAIN ps :
           /\ ps[i].lineage = built[i].lineage /\ ps[i].members = built[i].members
           /\ ps[i].parents = built[i].parents /\ ps[i].pending = built[i].pending
           /\ ps[i].generation = built[i].generation
  BY <1>6
<1> QED
  BY <1>8, <1>9 DEF ps

\* The partitions are groups of the decomposition, classified one by one.
LEMMA BuiltDerives ==
  ASSUME NEW roster \in Range(Topologies), NEW edges, NEW lineages, IsSeq(lineages),
         NEW generation
  PROVE  LET groups == Components(roster, edges)
             built == BuildPartitions(lineages, groups, generation)
         IN  /\ Apart(built)
             /\ \A i \in DOMAIN built : /\ Derived(lineages, built[i])
                                        /\ built[i].members \in groups
                                        /\ built[i].generation = generation
<1> DEFINE groups == Components(roster, edges)
           order == CanonicalOrder(groups)
           built == BuildPartitions(lineages, groups, generation)
<1>1. roster \subseteq Nat /\ IsFiniteSet(roster)
  BY RuntimeAssumption
<1>2. \A i, j \in DOMAIN order : order[i] = order[j] => i = j
  BY <1>1, OrderListsOnce
<1>3. \A i \in DOMAIN order : order[i] \in groups
  BY <1>1, OrderListsOnce
<1>4. DOMAIN built = DOMAIN order
  BY DEF BuildPartitions
<1>5. \A i \in DOMAIN order :
        /\ built[i].members = order[i] /\ built[i].generation = generation
        /\ built[i].lineage = Classify(lineages, order[i]).lineage
        /\ built[i].parents = Classify(lineages, order[i]).parents
        /\ built[i].pending = Classify(lineages, order[i]).pending
  BY DEF BuildPartitions
<1> HIDE DEF built, order
<1>6. \A i \in DOMAIN built : Derived(lineages, built[i])
  BY <1>4, <1>5, ClassifyDerives
<1>7. Apart(built)
  <2> SUFFICES ASSUME NEW i \in DOMAIN built, NEW j \in DOMAIN built,
                      built[i].members \cap built[j].members # {}
               PROVE  i = j
    BY DEF Apart
  <2>1. built[i].members \in groups /\ built[j].members \in groups
    BY <1>3, <1>4, <1>5
  <2>2. built[i].members = built[j].members
    BY <2>1, ComponentsDisjoint
  <2> QED  BY <1>2, <1>4, <1>5, <2>2
<1> QED
  BY <1>3, <1>4, <1>5, <1>6, <1>7 DEF built, groups

-----------------------------------------------------------------------------
(* The lineage step.                                                       *)

LEMMA CommitLineageGrows ==
  ASSUME NEW lineages, AllNamed(lineages), NEW last, NEW ps, IsSeq(ps),
         \A i \in DOMAIN ps : Named(ps[i]) /\ Derived(lineages, ps[i]), NEW fresh, NEW io
  PROVE  Grown(lineages, CommitLineage(lineages, last, ps, fresh, io).store, ps, Len(ps))
<1> DEFINE OK(acc, n) == Grown(lineages, acc.store, ps, n)
<1>1. PICK after :
        /\ CommitLineage(lineages, last, ps, fresh, io) = after[Len(ps)]
        /\ after[0] = [store |-> lineages, last |-> last, written |-> <<>>]
        /\ \A i \in 1..Len(ps) : after[i] = CommitPartition(after[i - 1], ps[i], fresh, io)
  BY CommitLineageSteps
<1>2. Len(ps) \in Nat /\ DOMAIN ps = 1..Len(ps)
  BY SeqElim
<1>3. OK(after[0], 0)
  BY <1>1, GrownFromStart
<1>4. ASSUME NEW n \in 0..(Len(ps) - 1), NEW acc, OK(acc, n)
      PROVE  OK(CommitPartition(acc, ps[n + 1], fresh, io), n + 1)
  <2> DEFINE p == ps[n + 1]
             event == IF p.parents = {} THEN "GENESIS" ELSE "SPLIT"
             r == LineageRecord(acc.last + 1, p, event, p.parents)
  <2>1. n \in Nat /\ n + 1 \in 1..Len(ps)
    BY <1>2
  <2>2. Named(p) /\ Derived(lineages, p)
    BY <1>2, <2>1
  <2>3. Named(r) /\ r.lineage = p.lineage /\ r.members = p.members /\ r.parents = p.parents
    BY <2>2 DEF LineageRecord, Named
  <2>4. Grown(lineages, acc.store, ps, n + 1)
    BY <1>4, <2>1, GrownMore
  <2>5. CASE Settled(acc.store, p, fresh)
    <3>1. CommitPartition(acc, p, fresh, io) = acc
      BY <2>5 DEF CommitPartition
    <3> QED  BY <2>4, <3>1
  <2>6. CASE ~Settled(acc.store, p, fresh)
    <3>1. ~Recorded(acc.store, p.lineage) /\ p.lineage[1] # "merge" /\ p.pending = {}
      BY <1>4, <2>2, <2>6, UnsettledIsNew
    <3>2. CommitPartition(acc, p, fresh, io) = Commit(acc, r, io)
      BY <2>6 DEF CommitPartition
    <3> HIDE DEF r
    <3>3. Grown(lineages, Append(acc.store, r), ps, n + 1)
      BY <1>4, <2>1, <2>3, <3>1, GrownStep
    <3>4. Commit(acc, r, io).store \in {acc.store, Append(acc.store, r)}
      BY DEF Commit
    <3> QED  BY <2>4, <3>2, <3>3, <3>4
  <2> QED  BY <2>5, <2>6
<1> HIDE DEF OK
<1>5. OK(after[Len(ps)], Len(ps))
  <2> DEFINE Wrong == {i \in 0..Len(ps) : ~OK(after[i], i)}
  <2>1. SUFFICES ASSUME Wrong # {} PROVE FALSE
    BY <1>2
  <2>2. PICK i \in Wrong : \A j \in Wrong : i <= j
    <3>1. Wrong \subseteq Nat  BY <1>2
    <3> HIDE DEF Wrong
    <3> QED  BY <2>1, <3>1, LeastNatural
  <2>3. i \in 1..Len(ps) /\ ~OK(after[i], i)  BY <1>2, <1>3
  <2>4. i - 1 \in 0..(Len(ps) - 1) /\ i - 1 \notin Wrong /\ (i - 1) + 1 = i
    <3>1. i - 1 \in 0..(Len(ps) - 1) /\ ~(i <= i - 1) /\ (i - 1) + 1 = i  BY <2>3, <1>2
    <3> HIDE DEF Wrong
    <3> QED  BY <2>2, <3>1
  <2>5. OK(after[i - 1], i - 1)  BY <1>2, <2>4
  <2>6. OK(CommitPartition(after[i - 1], ps[i], fresh, io), i)
    BY <1>4, <2>4, <2>5
  <2> QED  BY <1>1, <2>3, <2>6
<1> QED
  BY <1>1, <1>5 DEF OK

\* What an assessment does to the lineages, and what its partitions are.
LEMMA AssessmentGrows ==
  ASSUME NEW s \in Counters, topology \in 1..Len(Topologies),
         NEW lineages, AllNamed(lineages), NEW directives, NEW entries,
         NEW restore, NEW io \in BOOLEAN,
         NEW a \in Assessments(s, lineages, directives, entries, restore, io)
  PROVE  /\ IsSeq(a.partitions) /\ Apart(a.partitions)
         /\ Grown(lineages, a.store, a.partitions, Len(a.partitions))
         /\ \A i \in DOMAIN a.partitions :
              /\ Derived(lineages, a.partitions[i]) /\ Named(a.partitions[i])
              /\ a.partitions[i].members \in SnapshotAt(s).groups
              /\ a.partitions[i].members # {}
              /\ a.partitions[i].generation = s.generation + 1
              /\ a.partitions[i].class = Primary =>
                   /\ Grounds(Policies[policy], SnapshotAt(s), a.partitions[i])
                   /\ a.partitions[i].authorized # {}
                   /\ ~IsIsolated(directives, s.tick, a.partitions[i].lineage)
                   /\ ~restore => ~IsInterrupted(entries, a.partitions[i].lineage)
<1> DEFINE snap == SnapshotAt(s)
           rules == Policies[policy]
           built == BuiltFrom(s, lineages)
           ps == a.partitions
           done == CommitLineage(lineages, s.lineage, ps, snap.fresh, io)
           e == EvaluateAuthority(s, rules, snap, built, directives, entries, restore)
<1>1. ps = e /\ Issued(ps, s.authority) /\ a.store = done.store
  BY AssessmentParts
<1>2. Topologies[topology] \in Range(Topologies)
  BY RuntimeAssumption, SMTT(30) DEF Range
<1>3. \A i \in DOMAIN built : Named(built[i])
  BY <1>2, BuiltApart DEF BuiltFrom, SnapshotAt
<1>4. Apart(built) /\ \A i \in DOMAIN built : /\ Derived(lineages, built[i])
                                              /\ built[i].members \in snap.groups
                                              /\ built[i].members # {}
                                              /\ built[i].generation = s.generation + 1
  <2> DEFINE roster == Topologies[topology]
             edges == Edges(Evidence(roster, topology, ledger.retained, rules.maxAge, s.tick))
  <2>1. snap.groups = Components(roster, edges)
    BY DEF SnapshotAt, Snapshot
  <2>2. IsSeq(lineages)  BY DEF AllNamed
  <2>3. \A c \in snap.groups : c # {}
    BY <2>1 DEF Components
  <2> HIDE DEF edges, snap
  <2> QED  BY <1>2, <2>1, <2>2, <2>3, BuiltDerives DEF BuiltFrom, snap
<1> HIDE DEF snap, built, rules
<1>5. /\ DOMAIN e = DOMAIN built
      /\ \A i \in DOMAIN e :
           /\ e[i].lineage = built[i].lineage /\ e[i].members = built[i].members
           /\ e[i].parents = built[i].parents /\ e[i].pending = built[i].pending
           /\ e[i].generation = built[i].generation
           /\ e[i].class = Primary =>
                /\ Grounds(rules, snap, e[i]) /\ e[i].authorized # {}
                /\ ~IsIsolated(directives, s.tick, e[i].lineage)
                /\ ~restore => ~IsInterrupted(entries, e[i].lineage)
  BY EvaluateAuthorityGrounds
<1> HIDE DEF e, ps, done
<1>6. IsSeq(ps) /\ Apart(ps)
  BY <1>1, <1>4, <1>5 DEF Apart, Issued
<1>7. \A i \in DOMAIN ps : /\ Derived(lineages, ps[i]) /\ Named(ps[i])
                           /\ ps[i].members \in snap.groups /\ ps[i].members # {}
                           /\ ps[i].generation = s.generation + 1
  <2> SUFFICES ASSUME NEW i \in DOMAIN ps
               PROVE  /\ Derived(lineages, ps[i]) /\ Named(ps[i])
                      /\ ps[i].members \in snap.groups /\ ps[i].members # {}
                      /\ ps[i].generation = s.generation + 1
    OBVIOUS
  <2>1. /\ i \in DOMAIN built
        /\ ps[i].lineage = built[i].lineage /\ ps[i].members = built[i].members
        /\ ps[i].parents = built[i].parents /\ ps[i].pending = built[i].pending
        /\ ps[i].generation = built[i].generation
    BY <1>1, <1>5
  <2>2. Derived(lineages, built[i]) /\ Named(built[i])
    BY <1>3, <1>4, <2>1
  <2>3. Derived(lineages, ps[i])
    BY <2>1, <2>2 DEF Derived
  <2> QED  BY <1>4, <2>1, <2>2, <2>3 DEF Named
<1>8. Grown(lineages, done.store, ps, Len(ps))
  BY <1>6, <1>7, CommitLineageGrows DEF done
<1> QED
  BY <1>1, <1>5, <1>6, <1>7, <1>8 DEF ps, snap, rules

\* A set whose elements are all the same has at most one.
LEMMA AtMostOne ==
  ASSUME NEW S, \A x, y \in S : x = y
  PROVE  Cardinality(S) <= 1
<1>1. CASE S = {}
  BY <1>1, FS_EmptySet
<1>2. CASE S # {}
  <2>1. PICK x \in S : TRUE  BY <1>2
  <2>2. S = {x}  BY <2>1
  <2> QED  BY <2>2, FS_Singleton
<1> QED
  BY <1>1, <1>2

\* The grounds of PRIMARY, read from the ledger and the lineages.
Justified(p, lineages, directives) ==
  LET rules == Policies[policy]
      roster == Topologies[topology]
      ev == Evidence(roster, topology, ledger.retained, rules.maxAge, st.tick)
      apart(members) == \A s \in roster, t \in roster :
                           (s \in members) # (t \in members)
                             => ResolveByTable(ev, s, t) = Unreachable
  IN  /\ ev.fresh # {}
      /\ rules.downgrade \/ rules.writeConfirmed \/ rules.readConfirmed => apart(p.members)
      /\ SatisfiedBy(rules, rules.full, p.members)
      /\ Cardinality(Owners(lineages, p.members)) <= 1
      /\ ~IsIsolated(directives, st.tick, p.lineage)

LEMMA AssessmentJustified ==
  ASSUME NEW s \in Counters, s.tick = st.tick, topology \in 1..Len(Topologies),
         IsFiniteSet(ledger.retained),
         NEW lineages, AllNamed(lineages), NEW directives, NEW entries,
         NEW restore, NEW io \in BOOLEAN,
         NEW a \in Assessments(s, lineages, directives, entries, restore, io),
         NEW i \in DOMAIN a.partitions, a.partitions[i].class = Primary
  PROVE  /\ Justified(a.partitions[i], a.store, directives)
         /\ a.partitions[i].authorized # {}
         /\ ~restore => ~IsInterrupted(entries, a.partitions[i].lineage)
<1> DEFINE rules == Policies[policy]
           roster == Topologies[topology]
           ev == Evidence(roster, topology, ledger.retained, rules.maxAge, st.tick)
           snap == SnapshotAt(s)
           ps == a.partitions
           p == ps[i]
           groups == Components(roster, Edges(ev))
<1>1. /\ IsSeq(ps) /\ Apart(ps)
      /\ Grown(lineages, a.store, ps, Len(ps))
      /\ \A j \in DOMAIN ps : Derived(lineages, ps[j])
      /\ p.members \in snap.groups
      /\ Grounds(rules, snap, p) /\ p.authorized # {}
      /\ ~IsIsolated(directives, s.tick, p.lineage)
      /\ ~restore => ~IsInterrupted(entries, p.lineage)
  <2>1. /\ IsSeq(ps) /\ Apart(ps)
        /\ Grown(lineages, a.store, ps, Len(ps))
        /\ \A j \in DOMAIN ps :
             /\ Derived(lineages, ps[j]) /\ Named(ps[j])
             /\ ps[j].members \in SnapshotAt(s).groups
             /\ ps[j].generation = s.generation + 1
             /\ ps[j].class = Primary =>
                  /\ Grounds(Policies[policy], SnapshotAt(s), ps[j])
                  /\ ps[j].authorized # {}
                  /\ ~IsIsolated(directives, s.tick, ps[j].lineage)
                  /\ ~restore => ~IsInterrupted(entries, ps[j].lineage)
    BY AssessmentGrows
  <2>2. i \in DOMAIN ps /\ ps[i].class = Primary
    OBVIOUS
  <2> HIDE DEF ps
  <2> QED  BY <2>1, <2>2
<1>2. /\ snap.groups = groups /\ snap.fresh = (ev.fresh # {})
      /\ snap.confirmed = Confirmed(ev, groups)
      /\ ev.roster = roster /\ ev.fresh \subseteq ledger.retained
  BY DEF SnapshotAt, Snapshot, Evidence
<1>3. FiniteEvidence(ev)
  <2>1. Topologies[topology] \in Range(Topologies)  BY RuntimeAssumption DEF Range
  <2>2. IsFiniteSet(roster)  BY <2>1, RuntimeAssumption
  <2>3. IsFiniteSet(ev.fresh)  BY <1>2, FS_Subset
  <2> QED  BY <1>2, <2>2, <2>3 DEF FiniteEvidence
<1> HIDE DEF ev, snap, rules, roster
<1>4. ASSUME snap.confirmed, NEW x \in roster, NEW y \in roster,
             (x \in p.members) # (y \in p.members)
      PROVE  ResolveByTable(ev, x, y) = Unreachable
  <2>1. groups = Components(ev.roster, Edges(ev))  BY <1>2
  <2> HIDE DEF groups
  <2>2. Partitions(groups, roster)  BY <1>2, <2>1, ComponentsPartition
  <2>3. \A q \in OrderedPairs(roster) :
          q[2] \notin Home(groups, q[1]) => ResolveByTable(ev, q[1], q[2]) = Unreachable
    BY <1>2, <1>3, <1>4, <2>1, ConfirmedByTable
  <2>4. Home(groups, x) \in groups /\ x \in Home(groups, x)
    BY <2>2, HomeFacts
  <2>5. y \notin Home(groups, x)
    <3>1. p.members \in groups  BY <1>1, <1>2
    <3>2. y \in Home(groups, x) /\ y \in p.members => Home(groups, x) = p.members
      BY <2>2, <2>4, <3>1 DEF Partitions
    <3>3. x \in p.members => Home(groups, x) = p.members
      BY <2>2, <2>4, <3>1 DEF Partitions
    <3> QED  BY <1>4, <2>4, <3>2, <3>3
  <2>6. <<x, y>> \in OrderedPairs(roster)
    BY <1>4 DEF OrderedPairs
  <2> QED  BY <2>3, <2>5, <2>6
<1>5. Cardinality(Owners(a.store, p.members)) <= 1
  <2> DEFINE t == a.store
             owners == Owners(t, p.members)
  <2>1. /\ IsSeq(lineages) /\ IsSeq(ps) /\ Grown(lineages, t, ps, Len(ps)) /\ Apart(ps)
        /\ \A j \in DOMAIN ps : Derived(lineages, ps[j])
        /\ i \in DOMAIN ps /\ ps[i].pending = {}
    BY <1>1 DEF Grounds, AllNamed
  <2> HIDE DEF ps, t
  <2>2. \A l \in Owners(t, ps[i].members), m \in Owners(t, ps[i].members) : l = m
    BY <2>1, GrownOwners
  <2> QED  BY <2>2, AtMostOne DEF t
<1>6. /\ ev.fresh # {}
      /\ rules.downgrade \/ rules.writeConfirmed \/ rules.readConfirmed => snap.confirmed
      /\ SatisfiedBy(rules, rules.full, p.members)
  BY <1>1, <1>2 DEF Grounds
<1>7. Justified(p, a.store, directives)
  BY <1>1, <1>4, <1>5, <1>6 DEF Justified, ev, rules, roster
<1> QED
  BY <1>1, <1>7

-----------------------------------------------------------------------------
(* The steps that assess.                                                  *)

LEMMA ConcatEmpty ==
  ASSUME NEW x, IsSeq(x)
  PROVE  x \o <<>> = x /\ <<>> \o x = x
<1> DEFINE T == Range(x)
<1>1. x \in Seq(T)
  BY DEF IsSeq
<1> HIDE DEF T
<1> QED
  BY <1>1

\* Records that say nothing of lineages, and whose epoch states carry the last
\* lineage sequence n.
Lineageless(records, n) ==
  /\ IsSeq(records)
  /\ \A r \in Range(records) :
       r.type # "Lineage" /\ (r.type = "EpochState" => r.body.state.lineage = n)

\* The step ends in an assessment from the given counters and lineages; `before'
\* and `after' are the records around those of the assessment.
Assesses(s, lineages, entries, restore, io, a, before, after) ==
  /\ Idle /\ phase' = phase /\ disk' = disk /\ topology \in 1..Len(Topologies)
  /\ s \in Counters /\ s.tick = st.tick /\ AllNamed(lineages)
  /\ io \in BOOLEAN /\ (Reliable => io)
  /\ s.generation = st.generation /\ st'.generation = a.state.generation
  /\ st'.lineage = a.state.lineage
  /\ a \in Assessments(s, lineages, isolations', entries, restore, io)
  /\ partitions' = a.partitions /\ store' = a.store
  /\ ~restore => interrupted' = entries
  /\ restore => \A k \in DOMAIN interrupted' : ~Restored(a.partitions, interrupted'[k])
  /\ IsSeq(before) /\ Lineageless(after, st'.lineage)
  /\ wal' = (before \o AssessmentRecords(a, io)) \o after

\* An assessment over the store as it is, or over it with one more merge.
AssessesStore ==
  \E s, entries, restore, io, a, after :
    s.lineage = st.lineage /\ Assesses(s, store, entries, restore, io, a, <<>>, after)
AssessesMerge(r) ==
  \E s, entries, restore, io, a, more, after :
    /\ Lineageless(more, st.lineage + 1) /\ s.lineage = st.lineage + 1 /\ Appendable(store, r)
    /\ Assesses(s, Append(store, r), entries, restore, io, a,
                <<Record("Lineage", r)>> \o more, after)

LEMMA PublishAssesses ==
  ASSUME IInv, CapInv, Idle, phase' = phase, disk' = disk, topology # 0,
         NEW s \in Counters, s.tick = st.tick, s.generation = st.generation,
         NEW lineages, AllNamed(lineages), NEW io \in BOOLEAN, Reliable => io,
         NEW a \in Assessments(s, lineages, isolations', interrupted', FALSE, io),
         NEW before, IsSeq(before), Publish(a, before, io)
  PROVE  Assesses(s, lineages, interrupted', FALSE, io, a, before, <<>>)
<1> DEFINE entries == interrupted'
           directives == isolations'
           restore == FALSE
           records == AssessmentRecords(a, io)
<1>1. topology \in 1..Len(Topologies) /\ ~restore
  BY IdleFacts
<1>2. /\ partitions' = a.partitions /\ store' = a.store /\ wal' = before \o records
      /\ st' = a.state
  BY DEF Publish, Adopt, Return
<1>3. a \in Assessments(s, lineages, directives, entries, restore, io)
  OBVIOUS
<1> HIDE DEF restore, entries, directives
<1>4. IsSeq(records)
  BY <1>1, <1>3, AssessmentCaps
<1> HIDE DEF records
<1>5. wal' = (before \o records) \o <<>>
  BY <1>2, <1>4, ConcatIsSeq, ConcatEmpty
<1>6. Lineageless(<<>>, st'.lineage)
  BY EmptyIsSeq DEF Lineageless
<1>7. Assesses(s, lineages, entries, restore, io, a, before, <<>>)
  BY <1>1, <1>2, <1>3, <1>5, <1>6 DEF Assesses, records, directives, entries
<1> QED
  BY <1>7 DEF restore, entries

LEMMA AssessAssesses ==
  ASSUME IInv, CapInv, NEW io \in IoOutcomes, Assess(io)
  PROVE  AssessesStore
<1>1. /\ interrupted' = interrupted /\ isolations' = isolations /\ disk' = disk
      /\ phase' = phase /\ Idle /\ topology # 0 /\ io \in BOOLEAN /\ (Reliable => io)
  BY IoFacts DEF Assess, CanAssess
<1>2. PICK a \in Assessments(st, store, isolations', interrupted', FALSE, io) :
        Publish(a, <<>>, io)
  BY <1>1 DEF Assess
<1>3. st \in Counters /\ AllNamed(store) /\ IsSeq(<<>>)
  BY <1>1, IdleFacts, EmptyIsSeq DEF CapInv
<1>4. Assesses(st, store, interrupted', FALSE, io, a, <<>>, <<>>)
  BY <1>1, <1>2, <1>3, PublishAssesses
<1> QED
  BY <1>4 DEF AssessesStore

LEMMA AdmittedTick ==
  ASSUME IInv, Idle, NEW n \in 1..MaxAttempts
  PROVE  /\ Admitted(n) \in Counters /\ Admitted(n).tick = st.tick
         /\ Admitted(n).generation = st.generation /\ Admitted(n).lineage = st.lineage
<1>1. st \in Counters  BY IdleFacts
<1> QED  BY <1>1, AdmittedFacts DEF Admitted, Counters

LEMMA IsolationAssesses ==
  ASSUME IInv, CapInv, NEW n \in 1..MaxAttempts, NEW l, NEW io \in IoOutcomes,
         (\E d : Isolate(n, l, d, io)) \/ ClearIsolation(n, l, io)
  PROVE  AssessesStore
<1>1. /\ interrupted' = interrupted /\ disk' = disk /\ phase' = phase
      /\ Idle /\ topology # 0 /\ io \in BOOLEAN /\ (Reliable => io)
  BY IoFacts DEF Isolate, ClearIsolation, Admits, CanAssess
<1>2. PICK a \in Assessments(Admitted(n), store, isolations', interrupted', FALSE, io) :
        Publish(a, <<>>, io)
  BY <1>1 DEF Isolate, ClearIsolation
<1>3. /\ Admitted(n) \in Counters /\ Admitted(n).tick = st.tick
      /\ Admitted(n).generation = st.generation /\ Admitted(n).lineage = st.lineage
      /\ AllNamed(store) /\ IsSeq(<<>>)
  BY <1>1, AdmittedTick, EmptyIsSeq DEF CapInv
<1>4. Assesses(Admitted(n), store, interrupted', FALSE, io, a, <<>>, <<>>)
  BY <1>1, <1>2, <1>3, PublishAssesses
<1> QED
  BY <1>3, <1>4 DEF AssessesStore

LEMMA FencesSilent ==
  ASSUME NEW stored, IsSeq(stored)
  PROVE  \A n : Lineageless(RecordsOf("Fence", stored), n)
<1>1. \A r \in Range(RecordsOf("Fence", stored)) : r.type = "Fence"
  BY DEF RecordsOf, Record, Range
<1> QED  BY <1>1, RecordsAreSeq DEF Lineageless

LEMMA RequestMergeAssesses ==
  ASSUME IInv, CapInv, NEW n \in 1..MaxAttempts, NEW subject, NEW left, NEW right,
         NEW io \in IoOutcomes, RequestMerge(n, subject, left, right, io),
         ~JournalledOnly(n, MergeRecord(subject, left, right))
  PROVE  AssessesMerge(MergeRecord(subject, left, right))
<1> DEFINE r       == MergeRecord(subject, left, right)
           holders    == Granted(<<subject>>)
           new     == MakeFences(st, FenceTargets(holders, st.epoch))
           stored  == Fitting(fences, new)
           s       == [Admitted(n) EXCEPT !.lineage = @ + 1, !.fence = @ + Len(new)]
           entries == Outside(interrupted, {left, right})
           first   == Record("Lineage", r)
           more    == RecordsOf("Fence", stored)
           before  == <<first>> \o more
<1>1. Idle /\ topology # 0  BY DEF RequestMerge, Admits, CanAssess
<1>2. Named(r)
  <2>1. r.lineage = <<"merge", {left, right}>>  BY DEF MergeRecord, MergeId
  <2> HIDE DEF r
  <2> QED  BY <2>1 DEF Named
<1>3. /\ \E a \in Assessments(s, Append(store, r), isolations, entries, FALSE, io) :
           Publish(a, before, io)
      /\ disk' = disk /\ phase' = phase /\ interrupted' = entries /\ isolations' = isolations
      /\ Appendable(store, r)
  BY DEF RequestMerge
<1>4. IsSeq(holders)  BY SingleIsSeq, GrantedIsSeq
<1>5. io \in BOOLEAN /\ (Reliable => io)  BY IoFacts
<1> HIDE DEF holders
<1>6. s \in Counters  BY <1>1, <1>4, GovernedFacts
<1>7. s.tick = st.tick /\ s.generation = st.generation /\ s.lineage = st.lineage + 1
  <2>1. /\ Admitted(n) \in Counters /\ Admitted(n).tick = st.tick
        /\ Admitted(n).generation = st.generation /\ Admitted(n).lineage = st.lineage
    BY <1>1, AdmittedTick
  <2> QED  BY <2>1 DEF Counters
<1>8. IsSeq(stored)
  BY <1>1, <1>4, IdleFacts, TargetsAreSeq, StoredIsSeq
<1> HIDE DEF s, stored, first, entries, r
<1>9. Lineageless(more, st.lineage + 1)  BY <1>8, FencesSilent
<1> HIDE DEF more
<1>10. IsSeq(before)  BY <1>9, SingleIsSeq, ConcatIsSeq DEF Lineageless
<1>11. AllNamed(Append(store, r))  BY <1>2, AppendNamed DEF CapInv
<1>12. PICK a \in Assessments(s, Append(store, r), isolations', interrupted', FALSE, io) :
         Publish(a, before, io)
  BY <1>3
<1>13. Assesses(s, Append(store, r), interrupted', FALSE, io, a, before, <<>>)
  <2> HIDE DEF before
  <2> QED  BY <1>1, <1>3, <1>5, <1>6, <1>7, <1>10, <1>11, <1>12, PublishAssesses
<1> QED
  BY <1>3, <1>7, <1>9, <1>13 DEF AssessesMerge, first, r

LEMMA RevalidateAssesses ==
  ASSUME IInv, CapInv, NEW n \in 1..MaxAttempts, NEW io \in IoOutcomes, Revalidate(n, io)
  PROVE  AssessesStore
<1> DEFINE s == Admitted(n)
           restore == TRUE
           directives == isolations'
<1>1. PICK a \in Assessments(s, store, directives, interrupted, restore, io) :
        Adopt(a) /\ EndInterruptions(a, io)
  BY DEF Revalidate
<1>2. /\ Idle /\ topology # 0 /\ disk' = disk /\ phase' = phase /\ restore
      /\ io \in BOOLEAN /\ (Reliable => io)
  BY IoFacts DEF Revalidate, Admits, CanAssess
<1>3. /\ s \in Counters /\ s.tick = st.tick /\ s.generation = st.generation
      /\ s.lineage = st.lineage /\ topology \in 1..Len(Topologies) /\ IsSeq(fences)
  BY <1>2, AdmittedTick, IdleFacts
<1> HIDE DEF s, restore, directives
<1> DEFINE ps      == a.partitions
           targets == Revived(ps, interrupted, a.state.epoch)
           stored  == Fitting(fences, MakeFences(a.state, targets))
           records == AssessmentRecords(a, io)
           fenced  == RecordsOf("Fence", stored)
           more    == IF io THEN fenced ELSE <<>>
           places  == {i \in DOMAIN interrupted : ~Restored(ps, interrupted[i])}
<1>4. /\ wal' = records \o more /\ partitions' = ps /\ store' = a.store
      /\ interrupted' = At(interrupted, places)
  BY <1>1 DEF EndInterruptions, Adopt, Return
<1>5. IsSeq(ps)
  BY <1>2, <1>3, AssessmentParts DEF Issued
<1> DEFINE state == a.state
<1>12. st'.generation = a.state.generation /\ st'.lineage = a.state.lineage
  <2>1. \E k : st' = [state EXCEPT !.fence = @ + k]  BY <1>1 DEF EndInterruptions
  <2>2. state \in Counters  BY <1>2, <1>3, AssessmentFacts
  <2> HIDE DEF state
  <2>3. st'.generation = state.generation /\ st'.lineage = state.lineage
    BY <2>1, <2>2 DEF Counters
  <2> QED  BY <2>3 DEF state
<1>6. AllNamed(store) /\ IsSeq(records)
  BY <1>2, <1>3, AssessmentCaps DEF CapInv
<1>7. IsSeq(fenced) /\ \A k : Lineageless(fenced, k)
  <2>1. IsSeq(targets)  BY <1>5, RevivedIsSeq
  <2> HIDE DEF targets
  <2>2. IsSeq(stored)  BY <1>3, <2>1, StoredIsSeq
  <2> QED  BY <2>2, FencesSilent DEF Lineageless
<1> HIDE DEF fenced, records
<1>8. \A k : Lineageless(more, k)
  BY <1>7, EmptyIsSeq DEF Lineageless
<1> HIDE DEF more
<1>9. wal' = (<<>> \o records) \o more
  BY <1>4, <1>6, ConcatEmpty
<1>10. \A k \in DOMAIN interrupted' : ~Restored(ps, interrupted'[k])
  <2>1. IsSeq(interrupted) /\ places \subseteq DOMAIN interrupted
    BY DEF CapInv, Numbered
  <2>2. \A k \in DOMAIN interrupted' : \E j \in places : interrupted'[k] = interrupted[j]
    <3> HIDE DEF places
    <3> QED  BY <1>4, <2>1, AtElements
  <2> QED  BY <2>2
<1>11. Assesses(s, store, interrupted, restore, io, a, <<>>, more)
  BY <1>1, <1>2, <1>3, <1>4, <1>6, <1>8, <1>9, <1>10, <1>12, EmptyIsSeq
  DEF Assesses, records, directives
<1> QED
  BY <1>3, <1>11 DEF AssessesStore

\* A new assessment comes from one of the operations that assess.
LEMMA NextAssesses ==
  ASSUME IInv, CapInv, [Next]_vars, Assessed
  PROVE  \E s, lineages, entries, restore, io, a, before, after :
           Assesses(s, lineages, entries, restore, io, a, before, after)
<1>1. AssessesStore \/ \E r : AssessesMerge(r)
  <2>1. CASE \E io \in IoOutcomes : Assess(io)  BY <2>1, AssessAssesses
  <2>2. CASE \E n \in 1..MaxAttempts : Request(n)
    <3>1. PICK n \in 1..MaxAttempts : Request(n)  BY <2>2
    <3>2. CASE \E l \in Lineages, d \in Durations, io \in IoOutcomes : Isolate(n, l, d, io)
      BY <3>2, IsolationAssesses
    <3>3. CASE \E l \in Lineages, io \in IoOutcomes : ClearIsolation(n, l, io)
      BY <3>3, IsolationAssesses
    <3>4. CASE \E subject \in ToSet(partitions) :
                 \E left, right \in subject.pending, io \in IoOutcomes :
                   RequestMerge(n, subject, left, right, io)
      <4>1. PICK subject \in ToSet(partitions) :
              \E left, right \in subject.pending, io \in IoOutcomes :
                RequestMerge(n, subject, left, right, io)
        BY <3>4
      <4>2. PICK left, right \in subject.pending, io \in IoOutcomes :
              RequestMerge(n, subject, left, right, io)
        BY <4>1
      <4>3. ~JournalledOnly(n, MergeRecord(subject, left, right))
        BY DEF JournalledOnly, memory, Assessed
      <4> QED  BY <4>2, <4>3, RequestMergeAssesses
    <3>5. CASE \E io \in IoOutcomes : Revalidate(n, io)  BY <3>5, RevalidateAssesses
    <3>6. ~DenyRequest(n) /\ ~\E l \in Lineages : Retire(n, l)
      BY DEF DenyRequest, Retire, JournalledOnly, memory, Assessed
    <3> QED  BY <3>1, <3>2, <3>3, <3>4, <3>5, <3>6 DEF Request
  <2>3. CASE \/ Start \/ Refuse \/ Crash \/ Flush \/ Close \/ UNCHANGED vars
             \/ \E d \in TickSteps : AdvanceTicks(d)
             \/ \E g \in 1..Len(Topologies) : AdoptTopology(g)
             \/ \E g \in 1..Len(Policies) : SetPolicy(g)
             \/ \E claim \in Claims : IngestEvidence(claim)
    <3>1. partitions' = partitions \/ partitions' = <<>>
      BY <2>3 DEF Start, Refuse, Crash, Flush, Close, AdvanceTicks, AdoptTopology, SetPolicy,
                  IngestEvidence, memory, vars
    <3> QED  BY <3>1 DEF Assessed
  <2> QED  BY <2>1, <2>2, <2>3 DEF Next
<1> QED
  BY <1>1 DEF AssessesStore, AssessesMerge

\* The retained evidence is a finite set, over which the closed forms count.
FiniteLedger == IsFiniteSet(ledger.retained)

LEMMA NextKeepsFinite ==
  ASSUME FiniteLedger, [Next]_vars
  PROVE  FiniteLedger'
<1>1. IsFiniteSet(EmptyLedger.retained)
  BY FS_EmptySet DEF EmptyLedger
<1>2. CASE \E claim \in Claims : IngestEvidence(claim)
  <2>1. PICK claim \in Claims : IngestEvidence(claim)  BY <1>2
  <2> DEFINE b == NextBundle(claim)
  <2>2. ledger' = Accept(ledger, b)  BY <2>1 DEF IngestEvidence
  <2> HIDE DEF b
  <2>3. ledger'.retained = ledger.retained \cup {b}  BY <2>2 DEF Accept
  <2>4. IsFiniteSet(ledger.retained \cup {b})  BY FS_AddElement DEF FiniteLedger
  <2> QED  BY <2>3, <2>4 DEF FiniteLedger
<1>3. CASE ledger' = ledger \/ ledger' = EmptyLedger
  BY <1>1, <1>3 DEF FiniteLedger
<1>4. ASSUME NEW n, Request(n) PROVE ledger' = ledger
  BY <1>4, RequestFrame
<1>5. CASE \/ Start \/ Refuse \/ Crash \/ Flush \/ Close \/ UNCHANGED vars
           \/ \E d \in TickSteps : AdvanceTicks(d)
           \/ \E g \in 1..Len(Topologies) : AdoptTopology(g)
           \/ \E g \in 1..Len(Policies) : SetPolicy(g)
           \/ \E io \in IoOutcomes : Assess(io)
  <2>1. ledger' = ledger \/ ledger' = EmptyLedger
    BY <1>5 DEF Start, Refuse, Crash, Flush, Close, AdvanceTicks, AdoptTopology, SetPolicy,
                Assess, memory, vars
  <2> QED  BY <1>3, <2>1
<1> QED
  BY <1>2, <1>3, <1>4, <1>5 DEF Next

LEMMA AssessedJustified ==
  ASSUME CapInv, FiniteLedger, NEW s, NEW lineages, NEW entries, NEW restore, NEW io, NEW a,
         NEW before, NEW after,
         Assesses(s, lineages, entries, restore, io, a, before, after),
         NEW i \in DOMAIN partitions', partitions'[i].class = Primary
  PROVE  /\ Justified(partitions'[i], store', isolations')
         /\ ~IsInterrupted(interrupted', partitions'[i].lineage)
<1> DEFINE directives == isolations'
           ps == a.partitions
<1>1. /\ s \in Counters /\ s.tick = st.tick /\ topology \in 1..Len(Topologies)
      /\ AllNamed(lineages) /\ io \in BOOLEAN
      /\ a \in Assessments(s, lineages, directives, entries, restore, io)
      /\ partitions' = ps /\ store' = a.store
      /\ ~restore => interrupted' = entries
      /\ restore => \A k \in DOMAIN interrupted' : ~Restored(ps, interrupted'[k])
  BY DEF Assesses
<1>2. i \in DOMAIN ps /\ ps[i].class = Primary
  BY <1>1
<1> HIDE DEF directives
<1>3. /\ Justified(ps[i], a.store, directives) /\ ps[i].authorized # {}
      /\ ~restore => ~IsInterrupted(entries, ps[i].lineage)
  BY <1>1, <1>2, AssessmentJustified DEF FiniteLedger
<1> HIDE DEF ps
<1>4. ~IsInterrupted(interrupted', ps[i].lineage)
  <2>1. CASE restore
    <3>1. \A k \in DOMAIN interrupted' : ~Restored(ps, interrupted'[k])  BY <1>1, <2>1
    <3> QED  BY <1>2, <1>3, <3>1 DEF IsInterrupted, Restored
  <2>2. CASE ~restore
    BY <1>1, <1>3, <2>2
  <2> QED  BY <2>1, <2>2
<1> QED
  BY <1>1, <1>3, <1>4 DEF directives

\* PRIMARY has its grounds, whatever the roster, the policy and the evidence are
\* and whichever operation assesses: some fresh bundle; every pair across the
\* boundary of the partition proven apart by the table of README section 3,
\* where the policy asks for that (so the closed form by which the snapshot is
\* confirmed stands for the pairs); a full quorum; one live lineage at most; and
\* no isolation or interruption outstanding (evaluate_authority over
\* build_partitions and assess_locked).
THEOREM PrimaryHasGrounds == Spec => PrimaryJustified
<1>1. Init => FiniteLedger
  BY FS_EmptySet DEF Init, FiniteLedger, EmptyLedger
<1>2. FiniteLedger /\ [Next]_vars => FiniteLedger'
  BY NextKeepsFinite
<1>3. IInv /\ CapInv /\ FiniteLedger /\ [Next]_vars =>
        [Assessed => \A i \in DOMAIN partitions' :
           partitions'[i].class = Primary =>
             /\ Justified(partitions'[i], store', isolations')
             /\ ~IsInterrupted(interrupted', partitions'[i].lineage)]_vars
  BY NextAssesses, AssessedJustified
<1>4. [Assessed => \A i \in DOMAIN partitions' :
         partitions'[i].class = Primary =>
           /\ Justified(partitions'[i], store', isolations')
           /\ ~IsInterrupted(interrupted', partitions'[i].lineage)]_vars
      <=> [Assessed =>
             LET rules == Policies[policy]
                 roster == Topologies[topology]
                 ev == Evidence(roster, topology, ledger.retained, rules.maxAge, st.tick)
                 apart(members) == \A s \in roster, t \in roster :
                                      (s \in members) # (t \in members)
                                        => ResolveByTable(ev, s, t) = Unreachable
             IN  \A i \in DOMAIN partitions' :
                   LET p == partitions'[i]
                   IN  p.class = Primary =>
                         /\ ev.fresh # {}
                         /\ rules.downgrade \/ rules.writeConfirmed \/ rules.readConfirmed
                              => apart(p.members)
                         /\ SatisfiedBy(rules, rules.full, p.members)
                         /\ Cardinality(Owners(store', p.members)) <= 1
                         /\ ~IsIsolated(isolations', st.tick, p.lineage)
                         /\ ~IsInterrupted(interrupted', p.lineage)]_vars
  BY DEF Justified
<1> QED
  BY <1>1, <1>2, <1>3, <1>4, Invariance, CapInvariance, PTL DEF Spec, PrimaryJustified

-----------------------------------------------------------------------------
(* What a load would replay.                                               *)

LEMMA SubSeqOfAppend ==
  ASSUME NEW t, IsSeq(t), NEW r
  PROVE  /\ \A k \in 0..Len(t) : SubSeq(Append(t, r), 1, k) = SubSeq(t, 1, k)
         /\ SubSeq(t, 1, Len(t)) = t
<1> DEFINE u == Append(t, r)
<1>1. /\ Len(t) \in Nat /\ DOMAIN t = 1..Len(t) /\ t = [i \in 1..Len(t) |-> t[i]]
      /\ \A i \in 1..Len(t) : u[i] = t[i]
  BY SeqElim, AppendAt
<1>2. \A x : \A k \in 0..Len(t) : SubSeq(x, 1, k) = [i \in 1..k |-> x[i]]
  BY <1>1
<1> HIDE DEF u
<1>3. ASSUME NEW k \in 0..Len(t) PROVE SubSeq(u, 1, k) = SubSeq(t, 1, k)
  <2>1. \A i \in 1..k : u[i] = t[i]
    BY <1>1
  <2>2. [i \in 1..k |-> u[i]] = [i \in 1..k |-> t[i]]
    BY <2>1
  <2> QED  BY <1>2, <2>2
<1>4. SubSeq(t, 1, Len(t)) = t
  <2>1. Len(t) \in 0..Len(t)  BY <1>1
  <2>2. SubSeq(t, 1, Len(t)) = [i \in 1..Len(t) |-> t[i]]  BY <1>2, <2>1
  <2> QED  BY <1>1, <2>2
<1> QED
  BY <1>3, <1>4 DEF u

LEMMA ConsistentAppend ==
  ASSUME NEW t, IsSeq(t), NEW r
  PROVE  Consistent(Append(t, r)) <=> Consistent(t) /\ Appendable(t, r)
<1> DEFINE u == Append(t, r)
<1>1. /\ Len(t) \in Nat /\ Len(u) = Len(t) + 1 /\ u[Len(t) + 1] = r
      /\ \A i \in 1..Len(t) : u[i] = t[i]
  BY AppendAt
<1>2. /\ \A k \in 0..Len(t) : SubSeq(u, 1, k) = SubSeq(t, 1, k)
      /\ SubSeq(t, 1, Len(t)) = t
  BY SubSeqOfAppend
<1> HIDE DEF u
<1>3. \A i \in 1..Len(t) : i - 1 \in 0..Len(t)
  BY <1>1
<1>4. \A i \in 1..Len(t) :
        Appendable(SubSeq(u, 1, i - 1), u[i]) <=> Appendable(SubSeq(t, 1, i - 1), t[i])
  BY <1>1, <1>2, <1>3
<1>5. Appendable(SubSeq(u, 1, (Len(t) + 1) - 1), u[Len(t) + 1]) <=> Appendable(t, r)
  <2>1. (Len(t) + 1) - 1 = Len(t) /\ Len(t) \in 0..Len(t)  BY <1>1
  <2> QED  BY <1>1, <1>2, <2>1
<1>6. 1..Len(u) = 1..Len(t) \cup {Len(t) + 1}
  BY <1>1
<1>7. Consistent(u) <=> Consistent(t) /\ Appendable(t, r)
  BY <1>4, <1>5, <1>6 DEF Consistent
<1> QED
  BY <1>7 DEF u

LEMMA RoomyAppend ==
  ASSUME NEW t, IsSeq(t), NEW r
  PROVE  Roomy(Append(t, r)) <=>
           Roomy(t) /\ MemberEntries(Append(t, r)) <= MaxMemberEntries
<1> DEFINE u == Append(t, r)
<1>1. Len(t) \in Nat /\ Len(u) = Len(t) + 1 /\ IsSeq(u)
  BY AppendAt
<1>2. /\ \A k \in 0..Len(t) : SubSeq(u, 1, k) = SubSeq(t, 1, k)
      /\ SubSeq(u, 1, Len(t) + 1) = u
  BY <1>1, SubSeqOfAppend
<1> HIDE DEF u
<1>3. \A i \in 1..Len(t) : SubSeq(u, 1, i) = SubSeq(t, 1, i)
  BY <1>1, <1>2
<1>4. 1..Len(u) = 1..Len(t) \cup {Len(t) + 1}
  BY <1>1
<1>5. Roomy(u) <=> Roomy(t) /\ MemberEntries(u) <= MaxMemberEntries
  BY <1>2, <1>3, <1>4 DEF Roomy
<1> QED
  BY <1>5 DEF u

\* The parents of a recorded merge are superseded.
MergesEnd(s) == \A l : Recorded(s, l) /\ l[1] = "merge" => l[2] \subseteq Superseded(s)

Sane(s) == Disjoint(s) /\ MergesEnd(s)

\* Nothing recorded in s becomes live again in u.
KeepsEnded(s, u) == \A l \in Live(u) : Recorded(s, l) => l \in Live(s)

\* The sequences of the records are numbers.
Counted(s) == \A i \in 1..Len(s) : s[i].sequence \in Nat

\* A store that the runtime may hold.
Whole(s) == IsSeq(s) /\ Counted(s) /\ Consistent(s) /\ Sane(s)

\* What a load takes of the disk: the lineages, and the last lineage sequence of
\* the epoch state.  Lineages that replay are sane, and lineages the epoch state
\* covers replay, unless one of them had too many members.
Image == [lineage |-> disk.lineage, last |-> disk.state.lineage]

Loadable(d) ==
  /\ d = [lineage |-> d.lineage, last |-> d.last] /\ d.last \in Nat
  /\ IsSeq(d.lineage) /\ Counted(d.lineage)
  /\ Consistent(d.lineage) => Sane(d.lineage)
  /\ Roomy(d.lineage) /\ HighestSequence(d.lineage) <= d.last => Consistent(d.lineage)

\* What is on disk once `records' are there too.  Whatever a crash leaves at any
\* point can be loaded, and no record revives a lineage.
Replayed(d, r) ==
  [lineage |-> IF r.type = "Lineage" THEN Append(d.lineage, r.body) ELSE d.lineage,
   last    |-> IF r.type = "EpochState" THEN r.body.state.lineage ELSE d.last]
Revives(d, e) == Consistent(e.lineage) /\ ~KeepsEnded(d.lineage, e.lineage)
Replays(img, d, records) ==
  /\ img[0] = d
  /\ \A k \in 1..Len(records) : /\ img[k] = Replayed(img[k - 1], records[k])
                                /\ ~Revives(img[k - 1], img[k])
  /\ \A k \in 0..Len(records) : Loadable(img[k])
Path(d, records, t) == \E img : Replays(img, d, records) /\ img[Len(records)] = t

LEMMA KeepsEndedSame ==
  ASSUME NEW s
  PROVE  KeepsEnded(s, s)
  BY DEF KeepsEnded

\* Records that say nothing of lineages leave them, and may renew the counter.
LEMMA PathSilent ==
  ASSUME NEW d, Loadable(d), NEW n, NEW records, Lineageless(records, n),
         Loadable([lineage |-> d.lineage, last |-> n])
  PROVE  \E e : Path(d, records, e) /\ e.lineage = d.lineage /\ e.last \in {d.last, n}
<1> DEFINE new == [lineage |-> d.lineage, last |-> n]
           renewed(k) == \E j \in 1..k : records[j].type = "EpochState"
           img == [k \in 0..Len(records) |-> IF renewed(k) THEN new ELSE d]
<1>1. Len(records) \in Nat /\ DOMAIN records = 1..Len(records)
  BY SeqElim DEF Lineageless
<1>2. \A k \in 0..Len(records) : img[k] = IF renewed(k) THEN new ELSE d
  OBVIOUS
<1>3. new.lineage = d.lineage /\ new.last = n /\ d = [lineage |-> d.lineage, last |-> d.last]
  BY DEF Loadable
<1>4. Loadable(new)
  OBVIOUS
<1> HIDE DEF img, new
<1>5. ASSUME NEW k \in 1..Len(records)
      PROVE  img[k] = Replayed(img[k - 1], records[k]) /\ ~Revives(img[k - 1], img[k])
  <2>1. /\ k \in 0..Len(records) /\ k - 1 \in 0..Len(records)
        /\ renewed(k) <=> renewed(k - 1) \/ records[k].type = "EpochState"
    <3>1. 1..k = 1..(k - 1) \cup {k}  BY <1>1
    <3> QED  BY <1>1, <3>1
  <2>2. /\ records[k].type # "Lineage"
        /\ records[k].type = "EpochState" => records[k].body.state.lineage = n
    BY <1>1 DEF Lineageless, Range
  <2> HIDE DEF renewed
  <2>3. img[k].lineage = d.lineage /\ img[k - 1].lineage = d.lineage
    BY <1>2, <1>3, <2>1
  <2>4. img[k] = Replayed(img[k - 1], records[k])
    <3>1. Replayed(img[k - 1], records[k]) =
            [lineage |-> d.lineage,
             last |-> IF records[k].type = "EpochState" THEN n ELSE img[k - 1].last]
      BY <2>2, <2>3 DEF Replayed
    <3>2. CASE records[k].type = "EpochState"  BY <1>2, <2>1, <3>1, <3>2 DEF new
    <3>3. CASE records[k].type # "EpochState"
      <4>1. img[k] = img[k - 1]  BY <1>2, <2>1, <3>3
      <4>2. img[k - 1] = [lineage |-> d.lineage, last |-> img[k - 1].last]
        BY <1>2, <1>3, <2>1 DEF new
      <4> QED  BY <3>1, <3>3, <4>1, <4>2
    <3> QED  BY <3>2, <3>3
  <2> QED  BY <2>3, <2>4, KeepsEndedSame DEF Revives
<1>6. img[0] = d
  <2>1. 0 \in 0..Len(records) /\ ~renewed(0)  BY <1>1
  <2> QED  BY <1>2, <2>1
<1>7. \A k \in 0..Len(records) : Loadable(img[k])
  BY <1>2, <1>4
<1>8. Replays(img, d, records)
  BY <1>5, <1>6, <1>7 DEF Replays
<1>9. Len(records) \in 0..Len(records)
  BY <1>1
<1>10. img[Len(records)].lineage = d.lineage /\ img[Len(records)].last \in {d.last, n}
  BY <1>2, <1>3, <1>9
<1> QED
  BY <1>8, <1>10 DEF Path

LEMMA PathSingle ==
  ASSUME NEW d, Loadable(d), NEW r, NEW e, e = Replayed(d, Record("Lineage", r)), Loadable(e),
         ~Revives(d, e)
  PROVE  Path(d, <<Record("Lineage", r)>>, e)
<1> DEFINE first == Record("Lineage", r)
           img == [k \in 0..1 |-> IF k = 0 THEN d ELSE e]
<1>1. Replayed(d, first) = e
  OBVIOUS
<1> HIDE DEF first
<1>2. Len(<<first>>) = 1 /\ <<first>>[1] = first
  OBVIOUS
<1>3. img[0] = d /\ img[1] = e /\ 1..1 = {1} /\ 0..1 = {0, 1} /\ 1 - 1 = 0
  OBVIOUS
<1> HIDE DEF img
<1>4. Replays(img, d, <<first>>)
  BY <1>1, <1>2, <1>3 DEF Replays
<1>5. Path(d, <<first>>, e)
  BY <1>2, <1>3, <1>4 DEF Path
<1> QED
  BY <1>5 DEF first

LEMMA PathConcat ==
  ASSUME NEW d, NEW a, IsSeq(a), NEW t, Path(d, a, t), NEW b, IsSeq(b), NEW u, Path(t, b, u)
  PROVE  Path(d, a \o b, u)
<1> DEFINE m == Len(a)
           n == Len(b)
<1>1. PICK f : Replays(f, d, a) /\ f[m] = t
  BY DEF Path
<1>2. PICK g : Replays(g, t, b) /\ g[n] = u
  BY DEF Path
<1> DEFINE img == [k \in 0..(m + n) |-> IF k <= m THEN f[k] ELSE g[k - m]]
<1>3. m \in Nat /\ n \in Nat /\ Len(a \o b) = m + n
      /\ (\A k \in 1..m : (a \o b)[k] = a[k])
      /\ (\A k \in 1..n : (a \o b)[m + k] = b[k])
  BY ConcatElements, SeqElim
<1>4. \A k \in 0..m : img[k] = f[k]
  BY <1>3
<1>5. \A k \in 0..n : img[m + k] = g[k]
  <2> SUFFICES ASSUME NEW k \in 0..n PROVE img[m + k] = g[k]
    OBVIOUS
  <2>1. m + k \in 0..(m + n) /\ (m + k) - m = k  BY <1>3
  <2>2. CASE k = 0
    <3>1. m + k = m /\ m <= m  BY <1>3, <2>2
    <3>2. g[0] = t  BY <1>2 DEF Replays
    <3> QED  BY <1>1, <2>1, <2>2, <3>1, <3>2
  <2>3. CASE k # 0
    <3>1. ~(m + k <= m)  BY <1>3, <2>3
    <3> QED  BY <2>1, <3>1
  <2> QED  BY <2>2, <2>3
<1> HIDE DEF img
<1>6. ASSUME NEW k \in 1..(m + n)
      PROVE  img[k] = Replayed(img[k - 1], (a \o b)[k]) /\ ~Revives(img[k - 1], img[k])
  <2>1. CASE k \in 1..m
    <3>1. k \in 0..m /\ k - 1 \in 0..m  BY <1>3, <2>1
    <3>2. f[k] = Replayed(f[k - 1], a[k]) /\ ~Revives(f[k - 1], f[k])
      BY <1>1, <2>1 DEF Replays
    <3> QED  BY <1>3, <1>4, <2>1, <3>1, <3>2
  <2>2. CASE k \notin 1..m
    <3> DEFINE j == k - m
    <3>1. j \in 1..n /\ j - 1 \in 0..n /\ j \in 0..n /\ k = m + j /\ k - 1 = m + (j - 1)
      BY <1>3, <2>2
    <3> HIDE DEF j
    <3>2. g[j] = Replayed(g[j - 1], b[j]) /\ ~Revives(g[j - 1], g[j])
      BY <1>2, <3>1 DEF Replays
    <3>3. img[k] = g[j] /\ img[k - 1] = g[j - 1] /\ (a \o b)[k] = b[j]
      BY <1>3, <1>5, <3>1
    <3> QED  BY <3>2, <3>3
  <2> QED  BY <2>1, <2>2
<1>7. ASSUME NEW k \in 0..(m + n) PROVE Loadable(img[k])
  <2>1. CASE k \in 0..m
    BY <1>1, <1>4, <2>1 DEF Replays
  <2>2. CASE k \notin 0..m
    <3>1. k - m \in 0..n /\ k = m + (k - m)  BY <1>3, <2>2
    <3>2. img[k] = g[k - m]  BY <1>5, <3>1
    <3> QED  BY <1>2, <3>1, <3>2 DEF Replays
  <2> QED  BY <2>1, <2>2
<1>8. img[0] = d /\ img[m + n] = u
  <2>1. 0 \in 0..m /\ n \in 0..n  BY <1>3
  <2> QED  BY <1>1, <1>2, <1>4, <1>5, <2>1 DEF Replays
<1>9. Replays(img, d, a \o b)
  BY <1>3, <1>6, <1>7, <1>8 DEF Replays
<1> QED
  BY <1>3, <1>8, <1>9 DEF Path

LEMMA PathTail ==
  ASSUME NEW d, NEW records, IsSeq(records), records # <<>>, NEW t, Path(d, records, t)
  PROVE  /\ Path(Replayed(d, Head(records)), Tail(records), t)
         /\ ~Revives(d, Replayed(d, Head(records)))
<1> DEFINE n == Len(records)
<1>1. PICK f : Replays(f, d, records) /\ f[n] = t
  BY DEF Path
<1> DEFINE img == [k \in 0..(n - 1) |-> f[k + 1]]
           rest == Tail(records)
<1>2. /\ n \in Nat /\ n # 0 /\ Len(rest) = n - 1 /\ Head(records) = records[1]
      /\ \A k \in 1..(n - 1) : rest[k] = records[k + 1]
  BY SeqElim, TailElements
<1>3. \A k \in 0..(n - 1) : img[k] = f[k + 1]
  OBVIOUS
<1> HIDE DEF img, rest
<1>4. /\ img[0] = Replayed(d, Head(records)) /\ img[n - 1] = t
      /\ ~Revives(d, Replayed(d, Head(records)))
  <2>1. 0 \in 0..(n - 1) /\ n - 1 \in 0..(n - 1) /\ 0 + 1 = 1 /\ (n - 1) + 1 = n /\ 1 \in 1..n
    BY <1>2
  <2>2. /\ f[1] = Replayed(f[1 - 1], records[1]) /\ ~Revives(f[1 - 1], f[1])
        /\ 1 - 1 = 0 /\ f[0] = d
    BY <1>1, <2>1 DEF Replays
  <2> QED  BY <1>1, <1>2, <1>3, <2>1, <2>2
<1>5. ASSUME NEW k \in 1..(n - 1)
      PROVE  img[k] = Replayed(img[k - 1], rest[k]) /\ ~Revives(img[k - 1], img[k])
  <2>1. /\ k \in 0..(n - 1) /\ k - 1 \in 0..(n - 1) /\ k + 1 \in 1..n
        /\ (k + 1) - 1 = k /\ (k - 1) + 1 = k
    BY <1>2
  <2>2. /\ f[k + 1] = Replayed(f[(k + 1) - 1], records[k + 1])
        /\ ~Revives(f[(k + 1) - 1], f[k + 1])
    BY <1>1, <2>1 DEF Replays
  <2> QED  BY <1>2, <1>3, <2>1, <2>2
<1>6. ASSUME NEW k \in 0..(n - 1) PROVE Loadable(img[k])
  <2>1. k + 1 \in 0..n  BY <1>2
  <2> QED  BY <1>1, <1>3, <2>1 DEF Replays
<1>7. Replays(img, Replayed(d, Head(records)), rest)
  BY <1>2, <1>4, <1>5, <1>6 DEF Replays
<1> QED
  BY <1>2, <1>4, <1>7 DEF Path, rest

LEMMA PathStart ==
  ASSUME NEW d, NEW records, IsSeq(records), NEW t, Path(d, records, t)
  PROVE  Loadable(d) /\ Loadable(t)
<1>1. Len(records) \in Nat  BY SeqElim
<1>2. 0 \in 0..Len(records) /\ Len(records) \in 0..Len(records)  BY <1>1
<1> QED
  BY <1>2 DEF Path, Replays

-----------------------------------------------------------------------------
(* What the operations make of the lineages.                               *)

\* No record of a merge that is still to be decided.
NoneMerged(ps, s) ==
  \A i \in DOMAIN ps : \A l, m \in ps[i].pending : l # m => ~Recorded(s, MergeId(l, m))

LEMMA EmptyWhole == Whole(<<>>)
<1>1. IsSeq(<<>>) /\ Range(<<>>) = {}
  BY EmptyIsSeq
<1>2. \A l : ~Recorded(<<>>, l)
  BY <1>1, RecordedIs
<1>3. Live(<<>>) = {}
  BY <1>1, <1>2, LiveIs
<1>4. Consistent(<<>>) /\ Counted(<<>>)
  <2>1. 1..Len(<<>>) = {}  OBVIOUS
  <2> QED  BY <2>1 DEF Consistent, Counted
<1> QED
  BY <1>1, <1>2, <1>3, <1>4 DEF Whole, Sane, Disjoint, MergesEnd

LEMMA GrownSane ==
  ASSUME NEW s, IsSeq(s), Sane(s), NEW t, NEW ps, IsSeq(ps), NEW n \in 0..Len(ps),
         Grown(s, t, ps, n), Apart(ps), \A i \in DOMAIN ps : Derived(s, ps[i])
  PROVE  Sane(t) /\ KeepsEnded(s, t)
<1>1. Disjoint(t)
  BY GrownDisjoint DEF Sane
<1>2. MergesEnd(t)
  <2> SUFFICES ASSUME NEW l, Recorded(t, l), l[1] = "merge" PROVE l[2] \subseteq Superseded(t)
    BY DEF MergesEnd
  <2>1. Recorded(s, l)  BY DEF Grown
  <2>2. l[2] \subseteq Superseded(s)  BY <2>1 DEF Sane, MergesEnd
  <2> QED  BY <2>2 DEF Grown
<1>3. KeepsEnded(s, t)
  <2> SUFFICES ASSUME NEW l \in Live(t), Recorded(s, l) PROVE l \in Live(s)
    BY DEF KeepsEnded
  <2> QED  BY GrownLive
<1> QED
  BY <1>1, <1>2, <1>3 DEF Sane

\* A merge is never pending between lineages that have been merged.
LEMMA GrownNoneMerged ==
  ASSUME NEW s, IsSeq(s), Sane(s), NEW t, NEW ps, NEW n, Grown(s, t, ps, n),
         \A i \in DOMAIN ps : Derived(s, ps[i])
  PROVE  NoneMerged(ps, t)
<1> SUFFICES ASSUME NEW i \in DOMAIN ps, NEW l \in ps[i].pending, NEW m \in ps[i].pending,
                    Recorded(t, MergeId(l, m))
             PROVE  FALSE
  BY DEF NoneMerged
<1> DEFINE id == MergeId(l, m)
<1>1. id[1] = "merge" /\ id[2] = {l, m}
  BY DEF MergeId
<1> HIDE DEF id
<1>2. Recorded(s, id)
  BY <1>1 DEF Grown, id
<1>3. l \in Superseded(s)
  BY <1>1, <1>2 DEF Sane, MergesEnd
<1>4. l \in Live(s)
  BY DEF Derived, Owners
<1> QED
  BY <1>3, <1>4, LiveIs

\* The record of a retirement ends its lineage.
LEMMA RetireSane ==
  ASSUME NEW s, IsSeq(s), Sane(s), NEW r, r.event = "RETIRE", r.parents = {},
         Recorded(s, r.lineage)
  PROVE  /\ Sane(Append(s, r)) /\ KeepsEnded(s, Append(s, r))
         /\ \A l : Recorded(Append(s, r), l) <=> Recorded(s, l)
<1> DEFINE u == Append(s, r)
<1>1. IsSeq(u)  BY AppendAt
<1>2. /\ \A l : Recorded(u, l) <=> Recorded(s, l) \/ l = r.lineage
      /\ Latest(u, r.lineage) = r
      /\ \A l : l # r.lineage /\ Recorded(s, l) => Latest(u, l) = Latest(s, l)
      /\ Superseded(u) = Superseded(s) \cup r.parents
  BY AppendLatest
<1> HIDE DEF u
<1>3. \A l : Recorded(u, l) <=> Recorded(s, l)
  BY <1>2
<1>4. ASSUME NEW l \in Live(u) PROVE l \in Live(s) /\ Latest(u, l) = Latest(s, l)
  <2>1. Recorded(u, l) /\ Latest(u, l).event # "RETIRE" /\ l \notin Superseded(u)
    BY <1>1, LiveIs
  <2>2. l # r.lineage  BY <1>2, <2>1
  <2>3. Recorded(s, l) /\ Latest(u, l) = Latest(s, l) /\ l \notin Superseded(s)
    BY <1>2, <1>3, <2>1, <2>2
  <2> QED  BY <2>1, <2>3, LiveIs
<1>5. Disjoint(u)
  BY <1>4 DEF Sane, Disjoint
<1>6. MergesEnd(u)
  BY <1>2, <1>3 DEF Sane, MergesEnd
<1>7. KeepsEnded(s, u)
  BY <1>4 DEF KeepsEnded
<1> QED
  BY <1>3, <1>5, <1>6, <1>7 DEF Sane, u

\* The record of a merge ends its parents.
LEMMA MergeSane ==
  ASSUME NEW s, IsSeq(s), Sane(s), NEW r, NEW left, NEW right, r.event = "MERGE",
         r.lineage = MergeId(left, right), r.parents = {left, right}
  PROVE  /\ Sane(Append(s, r))
         /\ ~Recorded(s, r.lineage) => KeepsEnded(s, Append(s, r))
<1> DEFINE u == Append(s, r)
<1>1. IsSeq(u)  BY AppendAt
<1>2. /\ \A l : Recorded(u, l) <=> Recorded(s, l) \/ l = r.lineage
      /\ Latest(u, r.lineage) = r
      /\ \A l : l # r.lineage /\ Recorded(s, l) => Latest(u, l) = Latest(s, l)
      /\ Superseded(u) = Superseded(s) \cup r.parents
  BY AppendLatest
<1> HIDE DEF u
<1>3. ASSUME NEW l \in Live(u), l # r.lineage PROVE l \in Live(s) /\ Latest(u, l) = Latest(s, l)
  <2>1. Recorded(u, l) /\ Latest(u, l).event # "RETIRE" /\ l \notin Superseded(u)
    BY <1>1, LiveIs
  <2>2. Recorded(s, l) /\ Latest(u, l) = Latest(s, l) /\ l \notin Superseded(s)
    BY <1>2, <1>3, <2>1
  <2> QED  BY <2>1, <2>2, LiveIs
<1>4. Disjoint(u)
  <2> SUFFICES ASSUME NEW l \in Live(u), NEW m \in Live(u), l # m,
                      Latest(u, l).members \cap Latest(u, m).members # {}
               PROVE  "MERGE" \in {Latest(u, l).event, Latest(u, m).event}
    BY DEF Disjoint
  <2>1. CASE r.lineage \in {l, m}  BY <1>2, <2>1
  <2>2. CASE r.lineage \notin {l, m}
    <3>1. /\ l \in Live(s) /\ Latest(u, l) = Latest(s, l)
          /\ m \in Live(s) /\ Latest(u, m) = Latest(s, m)
      BY <1>3, <2>2
    <3> QED  BY <3>1 DEF Sane, Disjoint
  <2> QED  BY <2>1, <2>2
<1>5. MergesEnd(u)
  <2>1. r.lineage[2] = r.parents  BY DEF MergeId
  <2> QED  BY <1>2, <2>1 DEF Sane, MergesEnd
<1>6. ~Recorded(s, r.lineage) => KeepsEnded(s, u)
  BY <1>3 DEF KeepsEnded
<1> QED
  BY <1>4, <1>5, <1>6 DEF Sane, u

-----------------------------------------------------------------------------
(* What they leave on disk.                                                *)

\* No further record fits a store: its last sequence is beyond the counter, or
\* it is at its limit.
Blocked(s, n) == HighestSequence(s) > n \/ Len(s) >= MaxLineageRecords

\* A disk that loads as s, or that is refused; refused only when a record had too
\* many members, or when the counter n does not cover the last record, which then
\* nothing will change.
LoadsAs(d, s, n) ==
  /\ d.last <= n
  /\ \/ d.lineage = s
     \/ /\ ~Consistent(d.lineage)
        /\ ~Roomy(d.lineage) \/ (HighestSequence(d.lineage) > n /\ Blocked(s, n))

\* On a disk that loads as s, the records leave one that loads as u, and at no
\* point in between one that loads as something insane.
Leads(s, n, records, u, m) ==
  \A d : Loadable(d) /\ LoadsAs(d, s, n) => \E e : Path(d, records, e) /\ LoadsAs(e, u, m)

LEMMA HighestIs ==
  ASSUME NEW s, IsSeq(s), Counted(s)
  PROVE  HighestSequence(s) \in Nat
<1>1. Len(s) \in Nat /\ (s # <<>> => Len(s) \in 1..Len(s))
  BY SeqElim, EmptyIsSeq
<1> QED
  BY <1>1 DEF HighestSequence, Counted

LEMMA AppendCounted ==
  ASSUME NEW s, IsSeq(s), Counted(s), NEW r, r.sequence \in Nat
  PROVE  /\ IsSeq(Append(s, r)) /\ Counted(Append(s, r))
         /\ HighestSequence(Append(s, r)) = r.sequence
<1> DEFINE t == Append(s, r)
<1>1. /\ IsSeq(t) /\ Len(s) \in Nat /\ Len(t) = Len(s) + 1
      /\ (\A i \in 1..Len(s) : t[i] = s[i]) /\ t[Len(s) + 1] = r
  BY AppendAt
<1> HIDE DEF t
<1>2. Counted(t)
  <2>1. \A i \in 1..Len(t) : i \in 1..Len(s) \/ i = Len(s) + 1  BY <1>1
  <2> QED  BY <1>1, <2>1 DEF Counted
<1>3. t # <<>>
  <2>1. Len(<<>>) = 0  OBVIOUS
  <2> QED  BY <1>1, <2>1
<1>4. HighestSequence(t) = r.sequence
  BY <1>1, <1>3 DEF HighestSequence
<1> QED
  BY <1>1, <1>2, <1>4 DEF t

LEMMA LeadsSilent ==
  ASSUME NEW s, Whole(s), NEW n \in Nat, NEW records, Lineageless(records, n)
  PROVE  Leads(s, n, records, s, n)
<1> SUFFICES ASSUME NEW d, Loadable(d), LoadsAs(d, s, n)
             PROVE  \E e : Path(d, records, e) /\ LoadsAs(e, s, n)
  BY DEF Leads
<1> DEFINE new == [lineage |-> d.lineage, last |-> n]
<1>1. new.lineage = d.lineage /\ new.last = n /\ new = [lineage |-> new.lineage, last |-> new.last]
  OBVIOUS
<1>2. HighestSequence(d.lineage) \in Nat
  BY HighestIs DEF Loadable
<1>3. Roomy(d.lineage) /\ HighestSequence(d.lineage) <= n => Consistent(d.lineage)
  BY <1>2 DEF LoadsAs, Whole
<1> HIDE DEF new
<1>4. Loadable(new)
  BY <1>1, <1>3 DEF Loadable
<1>5. PICK e : Path(d, records, e) /\ e.lineage = d.lineage /\ e.last \in {d.last, n}
  BY <1>4, PathSilent DEF new
<1>6. LoadsAs(e, s, n)
  BY <1>5 DEF LoadsAs
<1> QED
  BY <1>5, <1>6

LEMMA LeadsConcat ==
  ASSUME NEW s, NEW n, NEW a, IsSeq(a), NEW t, NEW m, Leads(s, n, a, t, m),
         NEW b, IsSeq(b), NEW u, NEW k, Leads(t, m, b, u, k)
  PROVE  Leads(s, n, a \o b, u, k)
<1> SUFFICES ASSUME NEW d, Loadable(d), LoadsAs(d, s, n)
             PROVE  \E v : Path(d, a \o b, v) /\ LoadsAs(v, u, k)
  BY DEF Leads
<1>1. PICK e : Path(d, a, e) /\ LoadsAs(e, t, m)
  BY DEF Leads
<1>2. Loadable(e)
  BY <1>1, PathStart
<1>3. PICK v : Path(e, b, v) /\ LoadsAs(v, u, k)
  BY <1>1, <1>2 DEF Leads
<1> QED
  BY <1>1, <1>3, PathConcat

\* What append asks of a record besides room and a sequence above the last.
Fits(s, r) ==
  /\ Len(s) < MaxLineageRecords /\ r.sequence > HighestSequence(s)
  /\ MemberEntries(Append(s, r)) <= MaxMemberEntries
  => Appendable(s, r)

\* A record that is journalled and then offered to the store.
LEMMA LeadsRecord ==
  ASSUME NEW s, Whole(s), NEW n \in Nat, NEW r, r.sequence = n + 1, Fits(s, r),
         Appendable(s, r) => Sane(Append(s, r)) /\ KeepsEnded(s, Append(s, r)),
         NEW u, NEW m,
         IF Appendable(s, r) THEN u = Append(s, r) /\ m = n + 1 ELSE u = s /\ m = n
  PROVE  Leads(s, n, <<Record("Lineage", r)>>, u, m) /\ Whole(u)
<1>1. /\ HighestSequence(s) \in Nat /\ Len(s) \in Nat /\ MaxLineageRecords \in Nat
      /\ n + 1 \in Nat /\ n + 1 > n
  BY HighestIs, SeqElim, LineageAssumption DEF Whole
<1>2. Whole(u)
  <2>1. Appendable(s, r) => Consistent(Append(s, r))  BY ConsistentAppend DEF Whole
  <2>2. IsSeq(Append(s, r)) /\ Counted(Append(s, r))  BY <1>1, AppendCounted DEF Whole
  <2> QED  BY <2>1, <2>2 DEF Whole
<1>3. ASSUME NEW d, Loadable(d), LoadsAs(d, s, n)
      PROVE  \E v : Path(d, <<Record("Lineage", r)>>, v) /\ LoadsAs(v, u, m)
  <2> DEFINE old == d.lineage
             new == Append(old, r)
             e == [lineage |-> new, last |-> d.last]
             first == Record("Lineage", r)
  <2>1. e = Replayed(d, first) /\ e.lineage = new /\ e.last = d.last
    BY DEF Replayed, Record
  <2>2. IsSeq(old) /\ Counted(old) /\ d.last \in Nat /\ d.last <= n
    BY <1>3 DEF Loadable, LoadsAs
  <2>3. IsSeq(new) /\ Counted(new) /\ HighestSequence(new) = n + 1
    BY <1>1, <2>2, AppendCounted
  <2>4. Consistent(new) <=> Consistent(old) /\ Appendable(old, r)
    BY <2>2, ConsistentAppend
  <2>5. \/ old = s
        \/ ~Consistent(old) /\ (~Roomy(old) \/ (HighestSequence(old) > n /\ Blocked(s, n)))
    BY <1>3 DEF LoadsAs
  <2> HIDE DEF old, new
  <2>6. Consistent(new) => Sane(new) /\ KeepsEnded(old, new)
    BY <2>4, <2>5 DEF new
  <2>7. ~(HighestSequence(new) <= d.last)
    BY <2>2, <2>3
  <2>8. e = [lineage |-> e.lineage, last |-> e.last]
    OBVIOUS
  <2> HIDE DEF e
  <2>9. Loadable(e) /\ ~Revives(d, e)
    BY <2>1, <2>2, <2>3, <2>6, <2>7, <2>8 DEF Loadable, Revives, old
  <2>10. Path(d, <<first>>, e)
    BY <1>3, <2>1, <2>9, PathSingle
  <2>11. LoadsAs(e, u, m)
    <3>1. CASE Appendable(s, r)
      <4>1. ~Blocked(s, n)
        BY <1>1, <3>1 DEF Blocked, Appendable
      <4>2. d.last <= m /\ (new = u \/ (~Consistent(new) /\ ~Roomy(new)))
        <5>1. Roomy(new) => Roomy(old)  BY <2>2, RoomyAppend DEF new
        <5> QED  BY <1>1, <2>2, <2>4, <2>5, <3>1, <4>1, <5>1 DEF new
      <4> QED  BY <2>1, <4>2 DEF LoadsAs
    <3>2. CASE ~Appendable(s, r)
      <4>1. Blocked(s, n) \/ ~Roomy(new)
        <5>1. Roomy(new) =>
                Roomy(old) /\ MemberEntries(Append(old, r)) <= MaxMemberEntries
          BY <2>2, RoomyAppend DEF new
        <5>2. Roomy(new) /\ old = s => Blocked(s, n)
          BY <1>1, <3>2, <5>1 DEF Fits, Blocked
        <5> QED  BY <2>5, <5>1, <5>2
      <4>2. ~Consistent(new) /\ u = s /\ m = n
        BY <2>4, <2>5, <3>2
      <4> QED  BY <1>1, <2>1, <2>2, <2>3, <4>1, <4>2 DEF LoadsAs
    <3> QED  BY <3>1, <3>2
  <2> QED  BY <2>10, <2>11 DEF first
<1> QED
  BY <1>2, <1>3 DEF Leads

-----------------------------------------------------------------------------
(* Every record the operations make fits.                                  *)

\* In a store that replays, every record has members, and no lineage starts with
\* its end.
LEMMA ConsistentRecords ==
  ASSUME NEW s, IsSeq(s), Consistent(s)
  PROVE  /\ \A i \in 1..Len(s) : s[i].members # {}
         /\ \A l : Recorded(s, l) => Earliest(s, l).event # "RETIRE"
<1>1. Len(s) \in Nat
  BY SeqElim
<1>2. \A i \in 1..Len(s) : Appendable(SubSeq(s, 1, i - 1), s[i])
  BY DEF Consistent
<1>3. \A i \in 1..Len(s) : s[i].members # {}
  BY <1>2 DEF Appendable
<1>4. ASSUME NEW l, Recorded(s, l), Earliest(s, l).event = "RETIRE" PROVE FALSE
  <2> DEFINE P == Positions(s, l)
             i == Min(P)
             before == SubSeq(s, 1, i - 1)
  <2>1. P \subseteq Nat /\ P # {}
    BY <1>1, <1>4 DEF Positions, Recorded
  <2>2. i \in P /\ \A j \in P : i <= j
    <3> HIDE DEF P
    <3> QED  BY <2>1, MinOfNaturals
  <2>3. i \in 1..Len(s) /\ s[i].lineage = l /\ s[i].event = "RETIRE"
    BY <1>4, <2>2 DEF Positions, Earliest
  <2> HIDE DEF i
  <2>4. Len(before) = i - 1 /\ \A j \in 1..(i - 1) : before[j] = s[j]
    <3>1. before = [j \in 1..(i - 1) |-> s[j]]  BY <1>1, <2>3
    <3>2. Len(before) = i - 1
      <4>1. i - 1 \in Nat  BY <1>1, <2>3
      <4> HIDE DEF before
      <4> QED  BY <3>1, <4>1
    <3> HIDE DEF before
    <3> QED  BY <3>1, <3>2
  <2> HIDE DEF before
  <2>5. Appendable(before, s[i])
    BY <1>2, <2>3 DEF before
  <2>6. PICK j \in Positions(before, l) : TRUE
    BY <2>3, <2>5 DEF Appendable
  <2>7. j \in 1..(i - 1) /\ s[j].lineage = l
    BY <2>4, <2>6 DEF Positions
  <2>8. j \in P /\ ~(i <= j)
    BY <1>1, <2>3, <2>7 DEF Positions
  <2> QED  BY <2>2, <2>8
<1> QED
  BY <1>3, <1>4

\* A record of a lineage that has none yet.
LEMMA NewFits ==
  ASSUME NEW s, NEW r, ~Recorded(s, r.lineage), r.members # {},
         \/ r.event = "GENESIS" /\ r.parents = {}
         \/ r.event = "SPLIT" /\ r.parents # {} /\ \A l \in r.parents : Recorded(s, l)
         \/ /\ r.event = "MERGE" /\ Cardinality(r.parents) = 2 /\ r.parents # {}
            /\ \A l \in r.parents : Recorded(s, l)
  PROVE  Fits(s, r)
  BY DEF Fits, Appendable, Recorded

LEMMA RetireFits ==
  ASSUME Whole(store), NEW l, Recorded(store, l)
  PROVE  LET r == RetireRecord(l)
         IN  /\ r.sequence = st.lineage + 1 /\ Fits(store, r)
             /\ r.event = "RETIRE" /\ r.parents = {} /\ r.lineage = l
<1> DEFINE r == RetireRecord(l)
           i == Max(Positions(store, l))
<1>1. i \in Positions(store, l) /\ Latest(store, l).lineage = l
  BY LatestIs DEF Whole
<1>2. /\ r.sequence = st.lineage + 1 /\ r.event = "RETIRE" /\ r.parents = {} /\ r.lineage = l
      /\ r.members = Latest(store, l).members /\ r.generation = Latest(store, l).generation
  BY <1>1 DEF RetireRecord, LineageRecord
<1>3. i \in 1..Len(store) /\ Latest(store, l) = store[i]
  BY <1>1 DEF Latest, Positions
<1> HIDE DEF r, i
<1>4. r.members # {} /\ store[i].generation = r.generation
      /\ Earliest(store, l).event # "RETIRE"
  BY <1>2, <1>3, ConsistentRecords DEF Whole
<1>5. Fits(store, r)
  BY <1>1, <1>2, <1>4 DEF Fits, Appendable
<1> QED
  BY <1>2, <1>5 DEF r

LEMMA MergeFits ==
  ASSUME NEW subject, NEW left, NEW right, MayMerge(subject, left, right), subject.members # {},
         ~Recorded(store, MergeId(left, right))
  PROVE  LET r == MergeRecord(subject, left, right)
         IN  r.sequence = st.lineage + 1 /\ Fits(store, r)
<1> DEFINE r == MergeRecord(subject, left, right)
<1>1. /\ r.sequence = st.lineage + 1 /\ r.event = "MERGE" /\ r.parents = {left, right}
      /\ r.lineage = MergeId(left, right) /\ r.members = subject.members
  BY DEF MergeRecord
<1>2. left # right /\ Recorded(store, left) /\ Recorded(store, right)
  BY DEF MayMerge, Relate
<1>3. Cardinality({left, right}) = 2
  <2>1. {left} \cup {right} = {left, right} /\ right \notin {left}  BY <1>2
  <2>2. IsFiniteSet({left}) /\ Cardinality({left}) = 1  BY FS_Singleton
  <2>3. Cardinality({left} \cup {right}) = Cardinality({left}) + 1  BY <2>1, <2>2, FS_AddElement
  <2> QED  BY <2>1, <2>2, <2>3
<1> HIDE DEF r
<1>4. Fits(store, r)
  BY <1>1, <1>2, <1>3, NewFits
<1> QED
  BY <1>1, <1>4 DEF r

-----------------------------------------------------------------------------
(* The lineage step of an assessment.                                      *)

LEMMA RecordsOfAppend ==
  ASSUME NEW w, IsSeq(w), NEW r
  PROVE  RecordsOf("Lineage", Append(w, r)) =
           RecordsOf("Lineage", w) \o <<Record("Lineage", r)>>
<1> DEFINE u == Append(w, r)
           x == RecordsOf("Lineage", u)
           first == RecordsOf("Lineage", w)
           last == <<Record("Lineage", r)>>
           y == first \o last
           n == Len(w)
<1>1. /\ IsSeq(u) /\ n \in Nat /\ Len(u) = n + 1 /\ (\A i \in 1..n : u[i] = w[i])
      /\ u[n + 1] = r /\ DOMAIN w = 1..n
  BY AppendAt, SeqElim
<1>2. DOMAIN u = 1..(n + 1)
  BY <1>1, SeqElim
<1>3. /\ x = [i \in 1..(n + 1) |-> x[i]]
      /\ \A i \in 1..(n + 1) : x[i] = Record("Lineage", u[i])
  BY <1>2 DEF RecordsOf
<1>4. IsSeq(first) /\ IsSeq(last)
  BY RecordsAreSeq, SingleIsSeq
<1>5. Len(first) = n /\ \A i \in 1..n : first[i] = Record("Lineage", w[i])
  <2>1. DOMAIN first = 1..n /\ \A i \in 1..n : first[i] = Record("Lineage", w[i])
    BY <1>1 DEF RecordsOf
  <2>2. Len(first) \in Nat /\ DOMAIN first = 1..Len(first)  BY <1>4, SeqElim
  <2> HIDE DEF first
  <2> QED  BY <1>1, <2>1, <2>2
<1>6. Len(last) = 1 /\ last[1] = Record("Lineage", r)
  OBVIOUS
<1> HIDE DEF u, x, first, last
<1>7. /\ Len(y) = n + 1 /\ (\A i \in 1..n : y[i] = first[i]) /\ y[n + 1] = last[1]
      /\ y = [i \in 1..(n + 1) |-> y[i]]
  <2>1. IsSeq(y)  BY <1>4, ConcatIsSeq
  <2>2. /\ Len(y) = Len(first) + Len(last) /\ (\A i \in 1..Len(first) : y[i] = first[i])
        /\ \A i \in 1..Len(last) : y[Len(first) + i] = last[i]
    BY <1>4, ConcatElements
  <2> HIDE DEF y
  <2>3. y = [i \in 1..Len(y) |-> y[i]]  BY <2>1, SeqElim
  <2>4. 1 \in 1..Len(last)  BY <1>6
  <2> QED  BY <1>5, <1>6, <2>2, <2>3, <2>4
<1> HIDE DEF y
<1>8. \A i \in 1..(n + 1) : x[i] = y[i]
  <2>1. \A i \in 1..n : i \in 1..(n + 1) /\ x[i] = y[i]
    BY SMTT(30), <1>1, <1>3, <1>5, <1>7
  <2>2. n + 1 \in 1..(n + 1) /\ x[n + 1] = y[n + 1]
    BY <1>1, <1>3, <1>6, <1>7
  <2>3. \A i \in 1..(n + 1) : i \in 1..n \/ i = n + 1
    BY <1>1
  <2> QED  BY <2>1, <2>2, <2>3
<1>9. x = y
  BY <1>3, <1>7, <1>8
<1> QED
  BY <1>9 DEF x, y, u, first, last

\* The records of the lineage step say what it makes of the store, or that the
\* next load refuses it.
LEMMA CommitLineageLeads ==
  ASSUME NEW lineages, AllNamed(lineages), Whole(lineages), NEW last \in Nat,
         NEW ps, IsSeq(ps), Apart(ps),
         \A i \in DOMAIN ps : /\ Named(ps[i]) /\ Derived(lineages, ps[i])
                              /\ ps[i].members # {},
         NEW fresh, NEW io \in BOOLEAN
  PROVE  LET done == CommitLineage(lineages, last, ps, fresh, io)
         IN  /\ Leads(lineages, last, RecordsOf("Lineage", done.written), done.store, done.last)
             /\ Whole(done.store) /\ done.last \in Nat
<1> DEFINE OK(acc, n) ==
             /\ Grown(lineages, acc.store, ps, n) /\ IsSeq(acc.written)
             /\ Leads(lineages, last, RecordsOf("Lineage", acc.written), acc.store, acc.last)
             /\ Whole(acc.store) /\ acc.last \in Nat
<1>1. PICK after :
        /\ CommitLineage(lineages, last, ps, fresh, io) = after[Len(ps)]
        /\ after[0] = [store |-> lineages, last |-> last, written |-> <<>>]
        /\ \A i \in 1..Len(ps) : after[i] = CommitPartition(after[i - 1], ps[i], fresh, io)
  BY CommitLineageSteps
<1>2. Len(ps) \in Nat /\ DOMAIN ps = 1..Len(ps) /\ IsSeq(lineages)
  BY SeqElim DEF AllNamed
<1>3. OK(after[0], 0)
  <2>1. after[0].store = lineages /\ after[0].written = <<>> /\ after[0].last = last
    BY <1>1
  <2>2. Lineageless(RecordsOf("Lineage", <<>>), last)
    <3>1. RecordsOf("Lineage", <<>>) = <<>>  BY DEF RecordsOf
    <3> QED  BY <3>1, EmptyIsSeq DEF Lineageless
  <2>3. Leads(lineages, last, RecordsOf("Lineage", <<>>), lineages, last)
    BY <2>2, LeadsSilent
  <2> QED  BY <2>1, <2>3, GrownFromStart, EmptyIsSeq
<1>4. ASSUME NEW n \in 0..(Len(ps) - 1), NEW acc, OK(acc, n)
      PROVE  OK(CommitPartition(acc, ps[n + 1], fresh, io), n + 1)
  <2> DEFINE p == ps[n + 1]
             event == IF p.parents = {} THEN "GENESIS" ELSE "SPLIT"
             r == LineageRecord(acc.last + 1, p, event, p.parents)
             first == RecordsOf("Lineage", acc.written)
             next == <<Record("Lineage", r)>>
             c == Commit(acc, r, io)
  <2>1. n \in Nat /\ n + 1 \in 1..Len(ps) /\ n + 1 \in 0..Len(ps)
    BY <1>2
  <2>2. Named(p) /\ Derived(lineages, p) /\ p.members # {}
    BY <1>2, <2>1
  <2>3. /\ Named(r) /\ r.lineage = p.lineage /\ r.members = p.members /\ r.parents = p.parents
        /\ r.sequence = acc.last + 1 /\ r.event = event
    BY <2>2 DEF LineageRecord, Named
  <2>4. Grown(lineages, acc.store, ps, n + 1)
    BY <1>4, <2>1, GrownMore
  <2>5. CASE Settled(acc.store, p, fresh)
    <3>1. CommitPartition(acc, p, fresh, io) = acc
      BY <2>5 DEF CommitPartition
    <3> QED  BY <1>4, <2>4, <3>1
  <2>6. CASE ~Settled(acc.store, p, fresh)
    <3>1. ~Recorded(acc.store, p.lineage) /\ p.lineage[1] # "merge" /\ p.pending = {}
      BY <1>4, <2>2, <2>6, UnsettledIsNew
    <3>2. CommitPartition(acc, p, fresh, io) = c
      BY <2>6 DEF CommitPartition
    <3> HIDE DEF r
    <3>3. Grown(lineages, Append(acc.store, r), ps, n + 1)
      BY <1>4, <2>1, <2>3, <3>1, GrownStep
    <3>4. Sane(Append(acc.store, r))
      BY <1>2, <2>1, <3>3, GrownSane DEF Whole
    <3>5. /\ Whole(acc.store) /\ IsSeq(acc.written) /\ acc.last \in Nat
          /\ Leads(lineages, last, first, acc.store, acc.last)
      BY <1>4
    <3>8. Fits(acc.store, r)
      <4>1. \A l \in r.parents : Recorded(acc.store, l)
        <5>1. \A l \in r.parents : Recorded(lineages, l)
          BY <1>2, <2>2, <2>3, LiveIs DEF Derived, Owners
        <5> QED  BY <1>4, <5>1 DEF Grown
      <4> QED  BY <2>2, <2>3, <3>1, <4>1, NewFits
    <3>9. KeepsEnded(acc.store, Append(acc.store, r))
      <4>1. /\ \A l : Recorded(Append(acc.store, r), l) <=> Recorded(acc.store, l) \/ l = r.lineage
            /\ \A l : l # r.lineage /\ Recorded(acc.store, l) =>
                 Latest(Append(acc.store, r), l) = Latest(acc.store, l)
            /\ Superseded(Append(acc.store, r)) = Superseded(acc.store) \cup r.parents
            /\ IsSeq(acc.store) /\ IsSeq(Append(acc.store, r))
        BY <3>5, AppendLatest, AppendAt, SMTT(30) DEF Whole
      <4> QED  BY <2>3, <3>1, <4>1, LiveIs DEF KeepsEnded
    <3>6. CASE ~io
      <4>1. c.store = acc.store /\ c.written = acc.written /\ c.last = acc.last
        BY <3>6 DEF Commit
      <4> HIDE DEF c
      <4> QED  BY <1>4, <2>4, <3>2, <4>1
    <3>7. CASE io
      <4>1. /\ c.written = Append(acc.written, r)
            /\ IF Appendable(acc.store, r)
               THEN c.store = Append(acc.store, r) /\ c.last = acc.last + 1
               ELSE c.store = acc.store /\ c.last = acc.last
        BY <2>3, <3>7 DEF Commit
      <4> HIDE DEF c
      <4>2. Leads(acc.store, acc.last, next, c.store, c.last) /\ Whole(c.store)
        BY <2>3, <3>4, <3>5, <3>8, <3>9, <4>1, LeadsRecord
      <4>3. IsSeq(first) /\ IsSeq(next)
        BY <3>5, RecordsAreSeq, SingleIsSeq
      <4>4. RecordsOf("Lineage", c.written) = first \o next
        BY <3>5, <4>1, RecordsOfAppend
      <4>5. IsSeq(c.written)
        BY <3>5, <4>1, AppendIsSeq
      <4>6. Leads(lineages, last, first \o next, c.store, c.last)
        <5> HIDE DEF first, next
        <5> QED  BY <3>5, <4>2, <4>3, LeadsConcat
      <4>7. Grown(lineages, c.store, ps, n + 1) /\ c.last \in Nat
        <5> HIDE DEF next
        <5>1. CASE Appendable(acc.store, r)
          <6>1. acc.last + 1 \in Nat  BY <3>5
          <6> QED  BY <3>3, <4>1, <5>1, <6>1
        <5>2. CASE ~Appendable(acc.store, r)  BY <2>4, <3>5, <4>1, <5>2
        <5> QED  BY <5>1, <5>2
      <4> HIDE DEF first, next
      <4> QED  BY <3>2, <4>2, <4>4, <4>5, <4>6, <4>7
    <3> QED  BY <3>6, <3>7
  <2> QED  BY <2>5, <2>6
<1> HIDE DEF OK
<1>5. OK(after[Len(ps)], Len(ps))
  <2> DEFINE Wrong == {i \in 0..Len(ps) : ~OK(after[i], i)}
  <2>1. SUFFICES ASSUME Wrong # {} PROVE FALSE
    BY <1>2
  <2>2. PICK i \in Wrong : \A j \in Wrong : i <= j
    <3>1. Wrong \subseteq Nat  BY <1>2
    <3> HIDE DEF Wrong
    <3> QED  BY <2>1, <3>1, LeastNatural
  <2>3. i \in 1..Len(ps) /\ ~OK(after[i], i)  BY <1>2, <1>3
  <2>4. i - 1 \in 0..(Len(ps) - 1) /\ i - 1 \notin Wrong /\ (i - 1) + 1 = i
    <3>1. i - 1 \in 0..(Len(ps) - 1) /\ ~(i <= i - 1) /\ (i - 1) + 1 = i  BY <2>3, <1>2
    <3> HIDE DEF Wrong
    <3> QED  BY <2>2, <3>1
  <2>5. OK(after[i - 1], i - 1)  BY <1>2, <2>4
  <2>6. OK(CommitPartition(after[i - 1], ps[i], fresh, io), i)
    BY <1>4, <2>4, <2>5
  <2> QED  BY <1>1, <2>3, <2>6
<1> QED
  BY <1>1, <1>5 DEF OK

-----------------------------------------------------------------------------
(* The lineages are sane, in memory and after any crash.                   *)

\* The lineages in memory are whole, and every partition has members.  Whatever
\* the queue still holds, the disk is one that loads as the memory or is refused,
\* and so is every prefix of it.
LineInv ==
  /\ Whole(store) /\ NoneMerged(partitions, store) /\ Loadable(Image)
  /\ \A i \in DOMAIN partitions : partitions[i].members # {}
  /\ phase = "up" => \E t : Path(Image, wal, t) /\ LoadsAs(t, store, st.lineage)

LineStep ==
  /\ LineInv'
  /\ phase = "up" /\ phase' = "up" => KeepsEnded(store, store')
  /\ Consistent(disk'.lineage) => KeepsEnded(disk.lineage, disk'.lineage)

\* An operation that leaves the lineages and the partitions as they are, or
\* changes both the memory and, in the end, the disk.
LEMMA LeadsKeepsLine ==
  ASSUME IInv, LineInv, Idle, disk' = disk,
         Leads(store, st.lineage, wal', store', st'.lineage), Whole(store'),
         NoneMerged(partitions', store'), \A i \in DOMAIN partitions' : partitions'[i].members # {},
         KeepsEnded(store, store')
  PROVE  LineStep
<1>1. PICK t : Path(Image, wal, t) /\ LoadsAs(t, store, st.lineage)
  BY DEF LineInv, Idle
<1>2. t = Image
  <2>1. wal = <<>> /\ Len(wal) = 0  BY DEF Idle
  <2> QED  BY <1>1, <2>1 DEF Path, Replays
<1>3. \E v : Path(Image, wal', v) /\ LoadsAs(v, store', st'.lineage)
  BY <1>1, <1>2 DEF LineInv, Leads
<1>4. Image' = Image
  BY DEF Image
<1> QED
  BY <1>3, <1>4, KeepsEndedSame DEF LineStep, LineInv, NoneMerged

LEMMA SilentKeepsLine ==
  ASSUME IInv, LineInv, Idle, UNCHANGED <<disk, store, partitions>>, st'.lineage = st.lineage,
         Lineageless(wal', st.lineage)
  PROVE  LineStep
<1>1. st.lineage \in Nat
  BY IdleFacts DEF Counters
<1>2. Leads(store, st.lineage, wal', store', st'.lineage) /\ KeepsEnded(store, store')
  BY <1>1, LeadsSilent, KeepsEndedSame DEF LineInv
<1>3. /\ Whole(store') /\ NoneMerged(partitions', store')
      /\ \A i \in DOMAIN partitions' : partitions'[i].members # {}
  BY DEF LineInv, NoneMerged
<1> QED
  BY <1>2, <1>3, LeadsKeepsLine

LEMMA EmptySilent == \A n : Lineageless(<<>>, n)
  BY EmptyIsSeq DEF Lineageless

LEMMA SingleSilent ==
  ASSUME NEW n, NEW r, r.type # "Lineage", r.type = "EpochState" => r.body.state.lineage = n
  PROVE  Lineageless(<<r>>, n)
  BY SingleIsSeq DEF Lineageless

LEMMA ConcatSilent ==
  ASSUME NEW n, NEW a, NEW b, Lineageless(a, n), Lineageless(b, n)
  PROVE  Lineageless(a \o b, n)
  BY ConcatIsSeq DEF Lineageless

LEMMA AssessmentLeads ==
  ASSUME NEW s \in Counters, topology \in 1..Len(Topologies),
         NEW lineages, AllNamed(lineages), Whole(lineages), NEW directives, NEW entries,
         NEW restore, NEW io \in BOOLEAN,
         NEW a \in Assessments(s, lineages, directives, entries, restore, io)
  PROVE  /\ Leads(lineages, s.lineage, AssessmentRecords(a, io), a.store, a.state.lineage)
         /\ IsSeq(AssessmentRecords(a, io)) /\ a.state.lineage \in Nat
         /\ Whole(a.store) /\ KeepsEnded(lineages, a.store) /\ NoneMerged(a.partitions, a.store)
         /\ \A i \in DOMAIN a.partitions : a.partitions[i].members # {}
<1> DEFINE ps == a.partitions
           done == CommitLineage(lineages, s.lineage, ps, SnapshotAt(s).fresh, io)
           first == RecordsOf("Lineage", a.written)
           epoch == EpochState(a.state, a.partitions)
           more == IF io THEN <<epoch>> ELSE <<>>
<1>1. /\ a.store = done.store /\ a.written = done.written /\ IsSeq(a.written)
      /\ a.state.lineage = done.last /\ s.lineage \in Nat
  BY AssessmentParts DEF Counters
<1>2. /\ IsSeq(ps) /\ Apart(ps) /\ Grown(lineages, a.store, ps, Len(ps))
      /\ \A i \in DOMAIN ps : /\ Derived(lineages, ps[i]) /\ Named(ps[i])
                               /\ ps[i].members # {}
  BY AssessmentGrows
<1>3. IsSeq(lineages) /\ Sane(lineages) /\ Len(ps) \in 0..Len(ps)
  BY <1>2, SeqElim DEF AllNamed, Whole
<1>4. AssessmentRecords(a, io) = first \o more
  BY DEF AssessmentRecords
<1>5. epoch.type # "Lineage" /\ epoch.body.state.lineage = a.state.lineage
  BY DEF EpochState, Record
<1> HIDE DEF ps, epoch
<1>6. /\ Leads(lineages, s.lineage, RecordsOf("Lineage", done.written), done.store, done.last)
      /\ Whole(done.store) /\ done.last \in Nat
  BY <1>1, <1>2, CommitLineageLeads
<1>7. Lineageless(more, a.state.lineage)
  BY <1>5, SingleSilent, EmptySilent
<1>8. IsSeq(first)
  BY <1>1, RecordsAreSeq
<1> HIDE DEF more, done
<1>9. Leads(a.store, a.state.lineage, more, a.store, a.state.lineage)
  BY <1>1, <1>6, <1>7, LeadsSilent
<1>10. /\ Leads(lineages, s.lineage, first, a.store, a.state.lineage)
       /\ Whole(a.store) /\ a.state.lineage \in Nat
  BY <1>1, <1>6
<1> HIDE DEF first
<1>11. /\ Leads(lineages, s.lineage, first \o more, a.store, a.state.lineage)
       /\ IsSeq(first \o more)
  BY <1>7, <1>8, <1>9, <1>10, LeadsConcat, ConcatIsSeq DEF Lineageless
<1>12. KeepsEnded(lineages, a.store)
  BY <1>2, <1>3, GrownSane
<1>13. NoneMerged(ps, a.store)
  BY <1>2, <1>3, GrownNoneMerged
<1> QED
  BY <1>2, <1>4, <1>10, <1>11, <1>12, <1>13 DEF ps

\* An operation that assesses, whatever it recorded before.
LEMMA AssessesKeepsLine ==
  ASSUME IInv, LineInv, NEW s, NEW lineages, NEW entries, NEW restore, NEW io, NEW a,
         NEW before, NEW after,
         Assesses(s, lineages, entries, restore, io, a, before, after),
         Whole(lineages), Leads(store, st.lineage, before, lineages, s.lineage),
         \A l \in Live(lineages) : Recorded(store, l) => l \in Live(store),
         \A l : Recorded(store, l) => Recorded(lineages, l)
  PROVE  LineStep
<1> DEFINE directives == isolations'
           records == AssessmentRecords(a, io)
<1>1. /\ Idle /\ disk' = disk /\ topology \in 1..Len(Topologies)
      /\ s \in Counters /\ AllNamed(lineages) /\ io \in BOOLEAN
      /\ a \in Assessments(s, lineages, directives, entries, restore, io)
      /\ partitions' = a.partitions /\ store' = a.store /\ st'.lineage = a.state.lineage
      /\ IsSeq(before) /\ Lineageless(after, st'.lineage)
      /\ wal' = (before \o records) \o after
  BY DEF Assesses
<1> HIDE DEF directives
<1>2. /\ Leads(lineages, s.lineage, records, a.store, st'.lineage) /\ IsSeq(records)
      /\ Whole(a.store) /\ KeepsEnded(lineages, a.store) /\ NoneMerged(a.partitions, a.store)
      /\ st'.lineage \in Nat /\ \A i \in DOMAIN a.partitions : a.partitions[i].members # {}
  BY <1>1, AssessmentLeads
<1> HIDE DEF records
<1>3. /\ Leads(store, st.lineage, before \o records, a.store, st'.lineage)
      /\ IsSeq(before \o records)
  BY <1>1, <1>2, LeadsConcat, ConcatIsSeq
<1>4. Leads(a.store, st'.lineage, after, a.store, st'.lineage)
  BY <1>1, <1>2, LeadsSilent
<1>5. Leads(store, st.lineage, wal', store', st'.lineage)
  <2> DEFINE front == before \o records
  <2>1. Leads(store, st.lineage, front, a.store, st'.lineage) /\ IsSeq(front)  BY <1>3
  <2>2. wal' = front \o after  BY <1>1
  <2> HIDE DEF front
  <2> QED  BY <1>1, <1>4, <2>1, <2>2, LeadsConcat DEF Lineageless
<1>6. KeepsEnded(store, store')
  BY <1>1, <1>2 DEF KeepsEnded
<1>7. /\ Whole(store') /\ NoneMerged(partitions', store')
      /\ \A i \in DOMAIN partitions' : partitions'[i].members # {}
  BY <1>1, <1>2 DEF NoneMerged
<1> QED
  BY <1>1, <1>5, <1>6, <1>7, LeadsKeepsLine

LEMMA AssessesStoreKeepsLine ==
  ASSUME IInv, LineInv, AssessesStore
  PROVE  LineStep
<1>1. PICK s, entries, restore, io, a, after :
        s.lineage = st.lineage /\ Assesses(s, store, entries, restore, io, a, <<>>, after)
  BY DEF AssessesStore
<1>2. Leads(store, st.lineage, <<>>, store, s.lineage) /\ Whole(store)
  <2>1. st.lineage \in Nat  BY <1>1, IdleFacts DEF Assesses, Counters
  <2> QED  BY <1>1, <2>1, EmptySilent, LeadsSilent DEF LineInv
<1> QED
  BY <1>1, <1>2, AssessesKeepsLine

LEMMA JournalledOnlyKeepsLine ==
  ASSUME IInv, CapInv, LineInv, Idle, NEW n \in 1..MaxAttempts, NEW r, JournalledOnly(n, r),
         r.sequence = st.lineage + 1, Fits(store, r)
  PROVE  LineStep
<1>1. /\ wal' = <<Record("Lineage", r)>> /\ UNCHANGED <<store, partitions, disk>>
      /\ ~Appendable(store, r) /\ st' = Admitted(n)
  BY DEF JournalledOnly, Return, memory
<1>2. st.lineage \in Nat /\ st'.lineage = st.lineage
  BY <1>1, AdmittedTick, IdleFacts DEF Counters
<1>3. Leads(store, st.lineage, wal', store', st'.lineage) /\ KeepsEnded(store, store')
  BY <1>1, <1>2, LeadsRecord, KeepsEndedSame DEF LineInv
<1>4. /\ Whole(store') /\ NoneMerged(partitions', store')
      /\ \A i \in DOMAIN partitions' : partitions'[i].members # {}
  BY <1>1 DEF LineInv, NoneMerged
<1> QED
  BY <1>1, <1>3, <1>4, LeadsKeepsLine

LEMMA RetireKeepsLine ==
  ASSUME IInv, CapInv, LineInv, NEW n \in 1..MaxAttempts, NEW l, Retire(n, l)
  PROVE  LineStep
<1> DEFINE r == RetireRecord(l)
<1>1. Idle /\ Recorded(store, l)  BY DEF Retire, Admits
<1>4. /\ r.sequence = st.lineage + 1 /\ Fits(store, r)
      /\ r.event = "RETIRE" /\ r.parents = {} /\ r.lineage = l
  BY <1>1, RetireFits DEF LineInv
<1>5. Admitted(n) \in Counters /\ Admitted(n).lineage = st.lineage /\ st.lineage \in Nat
  BY <1>1, AdmittedTick, IdleFacts DEF Counters
<1>2. CASE JournalledOnly(n, r)
  BY <1>1, <1>2, <1>4, JournalledOnlyKeepsLine
<1>3. CASE ~JournalledOnly(n, r)
  <2> DEFINE holders   == At(partitions, {i \in Grants(partitions) : partitions[i].lineage = l})
             new    == MakeFences(st, FenceTargets(holders, st.epoch))
             stored == Fitting(fences, new)
             first  == <<Record("Lineage", r)>>
             more   == RecordsOf("Fence", stored)
  <2>1. /\ wal' = first \o more
        /\ UNCHANGED <<partitions, disk>> /\ store' = Append(store, r) /\ Appendable(store, r)
        /\ \E k : st' = [Admitted(n) EXCEPT !.lineage = @ + 1, !.fence = @ + k]
    BY <1>3 DEF Retire, Return
  <2>10. st'.lineage = st.lineage + 1
    BY <1>5, <2>1 DEF Counters
  <2>2. IsSeq(fences) /\ IsSeq(partitions) /\ IsSeq(store)
    BY <1>1, IdleFacts DEF Held, CapInv, AllNamed
  <2>3. IsSeq(holders)
    <3>1. {i \in Grants(partitions) : partitions[i].lineage = l} \subseteq DOMAIN partitions
      BY DEF Grants
    <3> QED  BY <2>2, <3>1, AtIsSeq
  <2> HIDE DEF holders
  <2>4. Lineageless(more, st.lineage + 1)
    BY <2>2, <2>3, TargetsAreSeq, StoredIsSeq, FencesSilent
  <2> HIDE DEF more, r
  <2>6. /\ Sane(store') /\ KeepsEnded(store, store')
        /\ \A m : Recorded(store', m) <=> Recorded(store, m)
    BY <1>1, <1>4, <2>1, <2>2, RetireSane DEF LineInv, Whole
  <2>7. Leads(store, st.lineage, first, store', st'.lineage) /\ IsSeq(first) /\ Whole(store')
    BY <1>4, <1>5, <2>1, <2>6, <2>10, LeadsRecord, SingleIsSeq DEF LineInv
  <2> HIDE DEF first
  <2>8. Leads(store, st.lineage, wal', store', st'.lineage)
    <3>1. st'.lineage \in Nat /\ Lineageless(more, st'.lineage)  BY <1>5, <2>4, <2>10
    <3>2. Leads(store', st'.lineage, more, store', st'.lineage)  BY <2>7, <3>1, LeadsSilent
    <3> QED  BY <2>1, <2>4, <2>7, <3>2, LeadsConcat DEF Lineageless
  <2>9. NoneMerged(partitions', store') /\ \A i \in DOMAIN partitions' : partitions'[i].members # {}
    BY <2>1, <2>6 DEF LineInv, NoneMerged
  <2> QED  BY <1>1, <2>1, <2>6, <2>7, <2>8, <2>9, LeadsKeepsLine
<1> QED  BY <1>2, <1>3

LEMMA RequestMergeKeepsLine ==
  ASSUME IInv, CapInv, LineInv, NEW n \in 1..MaxAttempts, NEW subject \in ToSet(partitions),
         NEW left \in subject.pending, NEW right \in subject.pending,
         NEW ok \in IoOutcomes, RequestMerge(n, subject, left, right, ok)
  PROVE  LineStep
<1> DEFINE r == MergeRecord(subject, left, right)
           next == <<Record("Lineage", r)>>
<1>1. /\ Idle /\ left # right /\ IsSeq(store) /\ Sane(store) /\ MayMerge(subject, left, right)
      /\ st.lineage \in Nat
  BY IdleFacts DEF RequestMerge, Admits, MayMerge, CapInv, AllNamed, LineInv, Whole, Counters
<1>4. ~Recorded(store, MergeId(left, right)) /\ subject.members # {}
  <2>1. PICK i \in DOMAIN partitions : partitions[i] = subject  BY DEF ToSet
  <2> QED  BY <1>1, <2>1 DEF LineInv, NoneMerged
<1>5. r.sequence = st.lineage + 1 /\ Fits(store, r)
  BY <1>1, <1>4, MergeFits
<1>2. CASE JournalledOnly(n, r)
  BY <1>1, <1>2, <1>5, JournalledOnlyKeepsLine
<1>3. CASE ~JournalledOnly(n, r)
  <2>1. r.event = "MERGE" /\ r.lineage = MergeId(left, right) /\ r.parents = {left, right}
    BY DEF MergeRecord
  <2>2. AssessesMerge(r)
    BY <1>3, RequestMergeAssesses
  <2>3. ~Recorded(store, r.lineage)
    BY <1>4, <2>1
  <2> HIDE DEF r
  <2>4. Sane(Append(store, r)) /\ KeepsEnded(store, Append(store, r))
    BY <1>1, <2>1, <2>3, MergeSane
  <2>5. /\ Leads(store, st.lineage, next, Append(store, r), st.lineage + 1) /\ IsSeq(next)
        /\ Whole(Append(store, r))
    <3>1. Appendable(store, r)  BY <2>2 DEF AssessesMerge
    <3> QED  BY <1>1, <1>5, <2>4, <3>1, LeadsRecord, SingleIsSeq DEF LineInv
  <2>6. \A l : Recorded(store, l) => Recorded(Append(store, r), l)
    BY <1>1, AppendLatest
  <2>7. PICK s, entries, restore, io, a, more, after :
          /\ Lineageless(more, st.lineage + 1) /\ s.lineage = st.lineage + 1
          /\ Assesses(s, Append(store, r), entries, restore, io, a, next \o more, after)
    BY <2>2 DEF AssessesMerge
  <2> HIDE DEF next
  <2>8. Leads(store, st.lineage, next \o more, Append(store, r), s.lineage)
    <3>1. st.lineage + 1 \in Nat  BY <1>1
    <3>2. Leads(Append(store, r), st.lineage + 1, more, Append(store, r), st.lineage + 1)
      BY <2>5, <2>7, <3>1, LeadsSilent
    <3> QED  BY <2>5, <2>7, <3>2, LeadsConcat DEF Lineageless
  <2> DEFINE before == next \o more
             lineages == Append(store, r)
  <2>9. /\ Assesses(s, lineages, entries, restore, io, a, before, after)
        /\ Leads(store, st.lineage, before, lineages, s.lineage) /\ Whole(lineages)
        /\ \A l : Recorded(store, l) => Recorded(lineages, l)
        /\ \A l \in Live(lineages) : Recorded(store, l) => l \in Live(store)
    BY <2>4, <2>5, <2>6, <2>7, <2>8 DEF KeepsEnded
  <2> HIDE DEF before, lineages
  <2> QED  BY <2>9, AssessesKeepsLine
<1> QED  BY <1>2, <1>3

LEMMA InterruptAllKeepsLine ==
  ASSUME IInv, LineInv, Idle, NEW first, first.type \notin {"Lineage", "EpochState"},
         InterruptAll(first), UNCHANGED <<store, partitions, disk>>
  PROVE  LineStep
<1> DEFINE granted == Granted(partitions)
           targets == FenceTargets(granted, st.epoch)
           stored  == Fitting(fences, MakeFences(st, targets))
           more    == RecordsOf("Fence", stored)
<1>1. wal' = <<first>> \o more
  BY DEF InterruptAll, Return
<1>2. IsSeq(fences) /\ IsSeq(partitions)
  BY IdleFacts DEF Held
<1>3. IsSeq(targets)
  BY <1>2, GrantedIsSeq, TargetsAreSeq
<1> HIDE DEF targets
<1>4. Lineageless(more, st.lineage)
  BY <1>2, <1>3, StoredIsSeq, FencesSilent
<1> HIDE DEF more
<1>5. Lineageless(wal', st.lineage)
  BY <1>1, <1>4, SingleSilent, ConcatSilent
<1>6. st'.lineage = st.lineage
  <2>1. st \in Counters /\ \E k, m : st' = [st EXCEPT !.authority = @ + k, !.fence = @ + m]
    BY IdleFacts DEF InterruptAll
  <2> QED  BY <2>1 DEF Counters
<1> QED
  BY <1>5, <1>6, SilentKeepsLine

LEMMA InputsKeepLine ==
  ASSUME IInv, LineInv, NEW g, AdoptTopology(g) \/ SetPolicy(g)
  PROVE  LineStep
<1>1. Idle /\ UNCHANGED <<store, partitions, disk>>
  BY DEF AdoptTopology, SetPolicy
<1>2. /\ Record("Topology", g).type \notin {"Lineage", "EpochState"}
      /\ Record("Policy", g).type \notin {"Lineage", "EpochState"}
  BY DEF Record
<1>3. PICK first : /\ first.type \notin {"Lineage", "EpochState"}
                   /\ InterruptAll(first) \/ (wal' = <<first>> /\ st' = st)
  BY <1>2 DEF AdoptTopology, SetPolicy, Return
<1>4. CASE InterruptAll(first)  BY <1>1, <1>3, <1>4, InterruptAllKeepsLine
<1>5. CASE wal' = <<first>> /\ st' = st
  BY <1>1, <1>3, <1>5, SingleSilent, SilentKeepsLine
<1> QED  BY <1>3, <1>4, <1>5

LEMMA StartKeepsLine ==
  ASSUME IInv, LineInv, Start, IsSeq(wal')
  PROVE  LineStep
<1>1. /\ store' = disk.lineage /\ partitions' = <<>> /\ disk' = disk /\ phase = "down"
      /\ Consistent(disk.lineage) /\ Image' = Image
  BY DEF Start, Image
<1>2. Image.lineage = disk.lineage /\ Image.last = disk.state.lineage
  BY DEF Image
<1>3. st'.lineage = Image.last /\ Image.last \in Nat
  <2>1. disk.state \in Counters /\ \E k : st' = [disk.state EXCEPT !.fence = @ + k, !.epoch = @ + 1]
    BY DEF Start, IInv, TypeOK
  <2> QED  BY <1>2, <2>1 DEF Counters
<1>4. Lineageless(wal', st'.lineage)
  <2>1. \A r \in Range(wal') :
          r.type # "Lineage" /\ (r.type = "EpochState" => r.body.state.lineage = st'.lineage)
    BY <1>2, <1>3, StartQueues
  <2> QED  BY <2>1 DEF Lineageless
<1>5. Whole(store')
  BY <1>1, <1>2 DEF LineInv, Loadable, Whole
<1>6. LoadsAs(Image, store', st'.lineage)
  BY <1>1, <1>2, <1>3 DEF LoadsAs
<1>7. \E t : Path(Image, wal', t) /\ LoadsAs(t, store', st'.lineage)
  BY <1>3, <1>4, <1>5, <1>6, LeadsSilent DEF Leads, LineInv
<1> QED
  BY <1>1, <1>5, <1>7, KeepsEndedSame DEF LineStep, LineInv, NoneMerged

LEMMA FlushKeepsLine ==
  ASSUME IInv, LineInv, Flush
  PROVE  LineStep
<1> DEFINE r == Head(wal)
           rest == Tail(wal)
<1>1. /\ IsSeq(wal) /\ wal # <<>> /\ IsSeq(rest) /\ Range(wal) = {r} \cup Range(rest)
      /\ wal' = rest /\ phase = "up" /\ UNCHANGED <<phase, st, store, partitions>>
  BY TailIsSeq DEF IInv, Shapes, Queued, Flush, memory, Return
<1>2. disk' = CASE r.type = "EpochState" -> [disk EXCEPT !.state = r.body.state,
                                                         !.live = r.body.live]
                [] r.type = "Policy"     -> [disk EXCEPT !.policy = r.body]
                [] r.type = "Topology"   -> [disk EXCEPT !.topology = r.body]
                [] r.type = "Lineage"    -> [disk EXCEPT !.lineage = Append(@, r.body)]
                [] r.type = "Fence"      -> [disk EXCEPT !.fences = Append(@, r.body)]
  BY DEF Flush
<1>3. PICK t : Path(Image, wal, t) /\ LoadsAs(t, store, st.lineage)
  BY <1>1 DEF LineInv
<1>4. Path(Replayed(Image, r), rest, t) /\ ~Revives(Image, Replayed(Image, r))
  BY <1>1, <1>3, PathTail
<1> HIDE DEF r, rest
<1>5. Proper(r, st) /\ DOMAIN disk = DiskFields
  BY <1>1 DEF IInv, Shapes, Queued
<1>6. Image' = Replayed(Image, r)
  <2>1. CASE r.type = "Lineage"
    BY <1>2, <1>5, <2>1 DEF DiskFields, Replayed, Image
  <2>2. CASE r.type = "EpochState"
    BY <1>2, <1>5, <2>2 DEF DiskFields, Replayed, Image
  <2>3. CASE r.type \notin {"Lineage", "EpochState"}
    BY <1>2, <1>5, <2>3 DEF Proper, DiskFields, Replayed, Image
  <2> QED  BY <2>1, <2>2, <2>3
<1>7. Path(Image', wal', t) /\ LoadsAs(t, store', st'.lineage)
  BY <1>1, <1>3, <1>4, <1>6
<1>8. Loadable(Image')
  BY <1>1, <1>4, <1>6, PathStart
<1>9. Consistent(disk'.lineage) => KeepsEnded(disk.lineage, disk'.lineage)
  <2>1. Image.lineage = disk.lineage /\ Image'.lineage = disk'.lineage  BY DEF Image
  <2> QED  BY <1>4, <1>6, <2>1 DEF Revives
<1> QED
  BY <1>1, <1>7, <1>8, <1>9, KeepsEndedSame DEF LineStep, LineInv, NoneMerged

LEMMA NextKeepsLine ==
  ASSUME IInv, CapInv, LineInv, [Next]_vars
  PROVE  LineStep
<1>1. CASE Start
  <2>1. IsSeq(wal')
    <3>1. IInv'  BY NextKeeps
    <3> QED  BY <3>1 DEF IInv, Shapes, Queued
  <2> QED  BY <1>1, <2>1, StartKeepsLine
<1>2. CASE Refuse \/ Close
  <2>1. UNCHANGED <<store, partitions, disk>> /\ phase' # "up" /\ Image' = Image
    BY <1>2 DEF Refuse, Close, memory, Image
  <2> QED  BY <2>1, KeepsEndedSame DEF LineStep, LineInv, NoneMerged
<1>3. CASE Crash
  <2>1. store' = <<>> /\ partitions' = <<>> /\ disk' = disk /\ phase' # "up" /\ Image' = Image
    BY <1>3 DEF Crash, Image
  <2> QED  BY <2>1, EmptyWhole, KeepsEndedSame DEF LineStep, LineInv, NoneMerged
<1>4. CASE Flush  BY <1>4, FlushKeepsLine
<1>5. CASE \/ \E d \in TickSteps : AdvanceTicks(d)
           \/ \E claim \in Claims : IngestEvidence(claim)
  <2>1. /\ Idle /\ wal' = <<>> /\ UNCHANGED <<disk, store, partitions>>
        /\ st' = st \/ \E d : st' = [st EXCEPT !.tick = @ + d]
    BY <1>5 DEF AdvanceTicks, IngestEvidence, Return, memory
  <2>2. st'.lineage = st.lineage
    BY <2>1, IdleFacts DEF Counters
  <2> QED  BY <2>1, <2>2, EmptySilent, SilentKeepsLine
<1>6. CASE \/ \E g \in 1..Len(Topologies) : AdoptTopology(g)
           \/ \E g \in 1..Len(Policies) : SetPolicy(g)
  BY <1>6, InputsKeepLine
<1>7. CASE \E io \in IoOutcomes : Assess(io)
  BY <1>7, AssessAssesses, AssessesStoreKeepsLine
<1>8. CASE \E n \in 1..MaxAttempts : Request(n)
  <2> PICK n \in 1..MaxAttempts : Request(n)  BY <1>8
  <2>1. CASE DenyRequest(n)
    <3>1. Idle /\ wal' = <<>> /\ UNCHANGED <<disk, store, partitions>> /\ st' = Admitted(n)
      BY <2>1 DEF DenyRequest, Admits, Return, memory
    <3>2. st'.lineage = st.lineage
      BY <3>1, AdmittedTick
    <3> QED  BY <3>1, <3>2, EmptySilent, SilentKeepsLine
  <2>2. CASE \E l \in Lineages, d \in Durations, io \in IoOutcomes : Isolate(n, l, d, io)
    BY <2>2, IsolationAssesses, AssessesStoreKeepsLine
  <2>3. CASE \E l \in Lineages, io \in IoOutcomes : ClearIsolation(n, l, io)
    BY <2>3, IsolationAssesses, AssessesStoreKeepsLine
  <2>4. CASE \E l \in Lineages : Retire(n, l)  BY <2>4, RetireKeepsLine
  <2>5. CASE \E subject \in ToSet(partitions) :
               \E left, right \in subject.pending, io \in IoOutcomes :
                 RequestMerge(n, subject, left, right, io)
    BY <2>5, RequestMergeKeepsLine
  <2>6. CASE \E io \in IoOutcomes : Revalidate(n, io)
    BY <2>6, RevalidateAssesses, AssessesStoreKeepsLine
  <2> QED  BY <2>1, <2>2, <2>3, <2>4, <2>5, <2>6 DEF Request
<1>9. CASE UNCHANGED vars
  BY <1>9, KeepsEndedSame DEF vars, LineStep, LineInv, NoneMerged, Image
<1> QED
  BY <1>1, <1>2, <1>3, <1>4, <1>5, <1>6, <1>7, <1>8, <1>9 DEF Next

LEMMA LineInvariance == Spec => []LineInv
<1>1. Init => LineInv
  <2> SUFFICES ASSUME Init PROVE LineInv  OBVIOUS
  <2>1. /\ store = <<>> /\ partitions = <<>> /\ disk.lineage = <<>> /\ disk.state.lineage = 0
        /\ phase # "up"
    BY DEF Init, NewState
  <2>2. Loadable(Image)
    <3>1. Image = [lineage |-> <<>>, last |-> 0] /\ Image.lineage = <<>> /\ Image.last = 0
      BY <2>1 DEF Image
    <3> QED  BY <3>1, EmptyWhole DEF Loadable, Whole
  <2> QED  BY <2>1, <2>2, EmptyWhole DEF LineInv, NoneMerged
<1>2. IInv /\ CapInv /\ LineInv /\ [Next]_vars => LineInv'
  BY NextKeepsLine DEF LineStep
<1> QED
  BY <1>1, <1>2, Invariance, CapInvariance, PTL DEF Spec

\* Two live lineages never own a common component unless a governed merge made
\* one of them, through every crash: what a process that dies between the
\* records of an operation leaves on disk is a store with that property, or one
\* that the constructor refuses (build_partitions, assess_locked, retire and
\* request_merge over LineageStore::append).
THEOREM LineagesApart == Spec => []LiveLineagesDisjoint
<1>1. LineInv => LiveLineagesDisjoint
  BY DEF LineInv, Whole, Sane, Disjoint, LiveLineagesDisjoint
<1> QED
  BY <1>1, LineInvariance, PTL

\* A lineage that was retired or superseded stays ended while the process runs,
\* even where the same components come together again: a set whose identity has a
\* record is settled, and a merge is not pending between parents that have one.
THEOREM EndedForGood == Spec => EndedLineageStaysEnded
<1>1. IInv /\ CapInv /\ LineInv /\ [Next]_vars =>
        [phase = "up" /\ phase' = "up" => Live(store') \cap (Lineages \ Live(store)) = {}]_vars
  <2> SUFFICES ASSUME IInv, CapInv, LineInv, [Next]_vars, phase = "up", phase' = "up"
               PROVE  Live(store') \cap (Lineages \ Live(store)) = {}
    OBVIOUS
  <2>1. KeepsEnded(store, store')  BY NextKeepsLine DEF LineStep
  <2>2. \A l \in Lineages : Recorded(store, l)
    <3>1. IsSeq(store)  BY DEF CapInv, AllNamed
    <3> QED  BY <3>1, RecordedIs DEF Lineages, Range
  <2> QED  BY <2>1, <2>2 DEF KeepsEnded
<1> QED
  BY <1>1, Invariance, CapInvariance, LineInvariance, PTL DEF Spec, EndedLineageStaysEnded

\* A lineage whose end is on disk is live in no store that a later incarnation
\* loads, wherever the process died and whatever it had journalled without
\* storing (the commit order of assess_locked, retire and request_merge, and the
\* replay of restore_from_records).
THEOREM EndedThroughRestarts == Spec => EndedOnDiskStaysEnded
<1> DEFINE ended == {disk.lineage[i].lineage : i \in DOMAIN disk.lineage} \ Live(disk.lineage)
<1>1. IInv /\ CapInv /\ LineInv /\ [Next]_vars =>
        [Consistent(disk'.lineage) => Live(disk'.lineage) \cap ended = {}]_vars
  <2> SUFFICES ASSUME IInv, CapInv, LineInv, [Next]_vars, Consistent(disk'.lineage)
               PROVE  Live(disk'.lineage) \cap ended = {}
    OBVIOUS
  <2>1. KeepsEnded(disk.lineage, disk'.lineage)
    BY NextKeepsLine DEF LineStep
  <2>2. \A l \in ended : Recorded(disk.lineage, l) /\ l \notin Live(disk.lineage)
    <3>1. IsSeq(disk.lineage)  BY DEF LineInv, Loadable, Image
    <3> QED  BY <3>1, RecordedIs DEF Range
  <2> QED  BY <2>1, <2>2 DEF KeepsEnded
<1> QED
  BY <1>1, Invariance, CapInvariance, LineInvariance, PTL DEF Spec, EndedOnDiskStaysEnded

\* The constructor refuses a store the runtime wrote only when the last epoch
\* state does not cover the sequence of the last lineage record: after a crash
\* between the two, after a retirement, which commits no epoch state, or when a
\* record was journalled that the store had no room for (restore_from_records
\* over LineageStore::append).
THEOREM RefusedOnlyAhead == Spec => []CoveredStoreLoads
<1>1. LineInv => CoveredStoreLoads
  BY DEF LineInv, Loadable, Image, CoveredStoreLoads
<1> QED
  BY <1>1, LineInvariance, PTL

-----------------------------------------------------------------------------
(* Generations: every assessment that is shown has one of its own, through *)
(* every restart, and so has every partition identity.                     *)

UpTo(ps, top) == \A i \in DOMAIN ps : ps[i].generation \in Nat /\ ps[i].generation <= top

\* The generations of the partitions have been issued; those of an assessment
\* that was published are on disk or still queued.
GenerationInv ==
  /\ UpTo(partitions, st.generation)
  /\ phase = "up" => disk.state.generation <= st.generation
  /\ Reliable /\ phase \in {"up", "closed"} =>
       HasEpoch(wal) \/ UpTo(partitions, disk.state.generation)

\* A step that makes no assessment, commits nothing and ends no process.
Quiet ==
  /\ partitions' = partitions /\ st'.generation = st.generation /\ disk' = disk
  /\ \/ Idle /\ phase' \in {"up", "closed"}
     \/ phase = "down" /\ phase' = "refused"

\* A step that makes a new assessment.
Renews ==
  /\ Idle /\ phase' = "up" /\ disk' = disk
  /\ st'.generation = st.generation + 1
  /\ \A i \in DOMAIN partitions' : partitions'[i].generation = st.generation + 1
  /\ Reliable => HasEpoch(wal')

LEMMA AssessesRenews ==
  ASSUME IInv, CapInv, NEW s, NEW lineages, NEW entries, NEW restore, NEW io, NEW a,
         NEW before, NEW after, Assesses(s, lineages, entries, restore, io, a, before, after)
  PROVE  Renews
<1> DEFINE directives == isolations'
           records == AssessmentRecords(a, io)
<1>1. /\ Idle /\ phase' = phase /\ disk' = disk /\ topology \in 1..Len(Topologies)
      /\ s \in Counters /\ AllNamed(lineages) /\ io \in BOOLEAN /\ (Reliable => io)
      /\ s.generation = st.generation /\ st'.generation = a.state.generation
      /\ a \in Assessments(s, lineages, directives, entries, restore, io)
      /\ partitions' = a.partitions
      /\ IsSeq(before) /\ Lineageless(after, st'.lineage)
      /\ wal' = (before \o records) \o after
  BY DEF Assesses
<1> HIDE DEF directives
<1>3. /\ a.state.generation = s.generation + 1
      /\ Queued(records, a.state) /\ (io => HasEpoch(records))
  BY <1>1, AssessmentFacts
<1>4. \A i \in DOMAIN a.partitions : a.partitions[i].generation = s.generation + 1
  BY <1>1, AssessmentGrows
<1> HIDE DEF records
<1>5. io => HasEpoch(wal')
  <2> DEFINE front == before \o records
  <2>1. IsSeq(records)  BY <1>3 DEF Queued
  <2>2. IsSeq(front) /\ Range(front) = Range(before) \cup Range(records)
    BY <1>1, <2>1, ConcatIsSeq
  <2>3. wal' = front \o after  BY <1>1
  <2> HIDE DEF front
  <2>4. Range(wal') = Range(front) \cup Range(after)
    BY <1>1, <2>2, <2>3, ConcatIsSeq DEF Lineageless
  <2> QED  BY <1>3, <2>2, <2>4 DEF HasEpoch
<1> QED
  BY <1>1, <1>3, <1>4, <1>5 DEF Renews, Idle

LEMMA RetireIsQuiet ==
  ASSUME IInv, NEW n \in 1..MaxAttempts, NEW l, Retire(n, l)
  PROVE  Quiet
<1>1. Idle /\ phase' = phase /\ partitions' = partitions /\ disk' = disk
  BY DEF Retire, Admits, JournalledOnly, memory
<1>2. Admitted(n) \in Counters /\ Admitted(n).generation = st.generation
  BY <1>1, AdmittedTick
<1>3. st'.generation = st.generation
  <2>1. CASE JournalledOnly(n, RetireRecord(l))
    BY <1>2, <2>1 DEF JournalledOnly
  <2>2. CASE ~JournalledOnly(n, RetireRecord(l))
    <3>1. PICK k : st' = [Admitted(n) EXCEPT !.lineage = @ + 1, !.fence = @ + k]
      BY <2>2 DEF Retire
    <3> QED  BY <1>2, <3>1 DEF Counters
  <2> QED  BY <2>1, <2>2
<1> QED
  BY <1>1, <1>3 DEF Quiet, Idle

LEMMA InputsAreQuiet ==
  ASSUME IInv, NEW g, AdoptTopology(g) \/ SetPolicy(g)
  PROVE  Quiet
<1>1. Idle /\ phase' = phase /\ partitions' = partitions /\ disk' = disk /\ st \in Counters
  BY DEF AdoptTopology, SetPolicy, IInv, TypeOK
<1>2. st' = st \/ \E k, m : st' = [st EXCEPT !.authority = @ + k, !.fence = @ + m]
  BY DEF AdoptTopology, SetPolicy, InterruptAll
<1>3. st'.generation = st.generation
  BY <1>1, <1>2 DEF Counters
<1> QED
  BY <1>1, <1>3 DEF Quiet, Idle

LEMMA StoreRenews ==
  ASSUME IInv, CapInv, AssessesStore
  PROVE  Renews
  BY AssessesRenews DEF AssessesStore

\* Every operation assesses, is quiet, or starts, ends or commits.
LEMMA StepKinds ==
  ASSUME IInv, CapInv, Next
  PROVE  Start \/ Crash \/ Flush \/ Renews \/ Quiet
<1>1. CASE Start \/ Crash \/ Flush  BY <1>1
<1>2. CASE Refuse \/ Close
  BY <1>2 DEF Refuse, Close, memory, Quiet
<1>3. CASE \E d \in TickSteps : AdvanceTicks(d)
  <2>1. PICK d \in TickSteps : st' = [st EXCEPT !.tick = @ + d]
    BY <1>3 DEF AdvanceTicks
  <2>2. st'.generation = st.generation
    BY <2>1 DEF IInv, TypeOK, Counters
  <2> QED  BY <1>3, <2>2 DEF AdvanceTicks, memory, Quiet, Idle
<1>4. CASE \E claim \in Claims : IngestEvidence(claim)
  BY <1>4 DEF IngestEvidence, Quiet, Idle
<1>5. CASE \/ \E g \in 1..Len(Topologies) : AdoptTopology(g)
           \/ \E g \in 1..Len(Policies) : SetPolicy(g)
  BY <1>5, InputsAreQuiet
<1>6. CASE \E io \in IoOutcomes : Assess(io)
  BY <1>6, AssessAssesses, StoreRenews
<1>7. CASE \E n \in 1..MaxAttempts : Request(n)
  <2> PICK n \in 1..MaxAttempts : Request(n)  BY <1>7
  <2>1. Idle => Admitted(n).generation = st.generation
    BY AdmittedTick
  <2>2. CASE DenyRequest(n)
    BY <2>1, <2>2 DEF DenyRequest, Admits, memory, Quiet, Idle
  <2>3. CASE \E l \in Lineages, d \in Durations, io \in IoOutcomes : Isolate(n, l, d, io)
    BY <2>3, IsolationAssesses, StoreRenews
  <2>4. CASE \E l \in Lineages, io \in IoOutcomes : ClearIsolation(n, l, io)
    BY <2>4, IsolationAssesses, StoreRenews
  <2>5. CASE \E l \in Lineages : Retire(n, l)
    BY <2>5, RetireIsQuiet
  <2>6. CASE \E subject \in ToSet(partitions) :
               \E left, right \in subject.pending, io \in IoOutcomes :
                 RequestMerge(n, subject, left, right, io)
    <3>1. PICK subject, left, right, io :
          io \in IoOutcomes /\ RequestMerge(n, subject, left, right, io)
      BY <2>6
    <3>2. CASE JournalledOnly(n, MergeRecord(subject, left, right))
      BY <2>1, <3>1, <3>2 DEF RequestMerge, Admits, JournalledOnly, memory, Quiet, Idle
    <3>3. CASE ~JournalledOnly(n, MergeRecord(subject, left, right))
      BY <3>1, <3>3, RequestMergeAssesses, AssessesRenews DEF AssessesMerge
    <3> QED  BY <3>2, <3>3
  <2>7. CASE \E io \in IoOutcomes : Revalidate(n, io)
    BY <2>7, RevalidateAssesses, StoreRenews
  <2> QED  BY <2>2, <2>3, <2>4, <2>5, <2>6, <2>7 DEF Request
<1> QED
  BY <1>1, <1>2, <1>3, <1>4, <1>5, <1>6, <1>7 DEF Next

\* What the commit of one record does to the generation on disk.
LEMMA FlushGeneration ==
  ASSUME IInv, Flush
  PROVE  /\ phase = "up" /\ phase' = "up" /\ partitions' = partitions /\ st' = st
         /\ \/ disk'.state = disk.state /\ (HasEpoch(wal) => HasEpoch(wal'))
            \/ disk'.state.generation = st.generation
<1> DEFINE r == Head(wal)
           rest == Tail(wal)
<1>1. /\ IsSeq(wal) /\ wal # <<>> /\ Range(wal) = {r} \cup Range(rest)
      /\ wal' = rest /\ phase = "up" /\ phase' = phase /\ partitions' = partitions /\ st' = st
  BY TailIsSeq DEF IInv, Shapes, Queued, Flush, memory, Return
<1>2. disk' = CASE r.type = "EpochState" -> [disk EXCEPT !.state = r.body.state,
                                                         !.live = r.body.live]
                [] r.type = "Policy"     -> [disk EXCEPT !.policy = r.body]
                [] r.type = "Topology"   -> [disk EXCEPT !.topology = r.body]
                [] r.type = "Lineage"    -> [disk EXCEPT !.lineage = Append(@, r.body)]
                [] r.type = "Fence"      -> [disk EXCEPT !.fences = Append(@, r.body)]
  BY DEF Flush
<1> HIDE DEF r, rest
<1>3. Proper(r, st) /\ DOMAIN disk = DiskFields
  BY <1>1 DEF IInv, Shapes, Queued
<1>4. CASE r.type = "EpochState"
  <2>1. disk'.state = r.body.state
    BY <1>2, <1>3, <1>4 DEF DiskFields
  <2> QED  BY <1>1, <1>3, <1>4, <2>1 DEF Proper
<1>5. CASE r.type # "EpochState"
  <2>1. disk'.state = disk.state
    BY <1>2, <1>3, <1>5 DEF Proper, DiskFields
  <2>2. HasEpoch(wal) => HasEpoch(wal')
    BY <1>1, <1>5 DEF HasEpoch
  <2> QED  BY <1>1, <2>1, <2>2
<1> QED
  BY <1>4, <1>5

\* What a start takes over of the generations.
LEMMA StartGeneration ==
  ASSUME IInv, Start
  PROVE  /\ partitions' = <<>> /\ disk' = disk /\ phase' = "up"
         /\ st'.generation = disk.state.generation
<1>1. partitions' = <<>> /\ disk' = disk /\ phase' = "up" /\ disk.state \in Counters
  BY DEF Start, IInv, TypeOK
<1>2. PICK k : st' = [disk.state EXCEPT !.fence = @ + k, !.epoch = @ + 1]
  BY DEF Start
<1> QED
  BY <1>1, <1>2 DEF Counters

\* The generation on disk never goes back.
LEMMA NextKeepsGeneration ==
  ASSUME IInv, CapInv, GenerationInv, [Next]_vars, IInv'
  PROVE  GenerationInv' /\ disk.state.generation <= disk'.state.generation
<1>1. /\ st.generation \in Nat /\ disk.state.generation \in Nat
      /\ st'.generation \in Nat /\ disk'.state.generation \in Nat
  BY DEF IInv, TypeOK, Counters
<1>2. CASE Start
  <2>1. /\ partitions' = <<>> /\ disk' = disk /\ phase' = "up"
        /\ st'.generation = disk.state.generation
    BY <1>2, StartGeneration
  <2> QED  BY <1>1, <2>1 DEF GenerationInv, UpTo
<1>3. CASE Crash
  <2>1. partitions' = <<>> /\ disk' = disk /\ phase' = "down"
    BY <1>3 DEF Crash
  <2> QED  BY <1>1, <2>1 DEF GenerationInv, UpTo
<1>4. CASE Flush
  <2>1. /\ phase = "up" /\ phase' = "up" /\ partitions' = partitions /\ st' = st
        /\ \/ disk'.state = disk.state /\ (HasEpoch(wal) => HasEpoch(wal'))
           \/ disk'.state.generation = st.generation
    BY <1>4, FlushGeneration
  <2> QED  BY <1>1, <2>1 DEF GenerationInv
<1>5. CASE Renews
  <2>1. /\ phase = "up" /\ disk' = disk /\ st'.generation = st.generation + 1
        /\ \A i \in DOMAIN partitions' : partitions'[i].generation = st.generation + 1
        /\ Reliable => HasEpoch(wal')
    BY <1>5 DEF Renews, Idle
  <2>2. UpTo(partitions', st'.generation)
    BY <1>1, <2>1 DEF UpTo
  <2> QED  BY <1>1, <2>1, <2>2 DEF GenerationInv
<1>6. CASE Quiet
  <2>1. partitions' = partitions /\ st'.generation = st.generation /\ disk' = disk
    BY <1>6 DEF Quiet
  <2>2. CASE phase = "down" /\ phase' = "refused"
    BY <1>1, <2>1, <2>2 DEF GenerationInv
  <2>3. CASE Idle /\ phase' \in {"up", "closed"}
    <3>1. phase = "up" /\ ~HasEpoch(wal)  BY <2>3, EmptyQueued DEF Idle
    <3> QED  BY <1>1, <2>1, <2>3, <3>1 DEF GenerationInv
  <2> QED  BY <1>6, <2>2, <2>3 DEF Quiet
<1>7. CASE UNCHANGED vars
  <2>1. UNCHANGED <<partitions, st, disk, phase, wal>>  BY <1>7 DEF vars
  <2> QED  BY <1>1, <2>1 DEF GenerationInv
<1> QED
  BY <1>2, <1>3, <1>4, <1>5, <1>6, <1>7, StepKinds

LEMMA GenerationInvariance == Spec => []GenerationInv
<1>1. Init => GenerationInv
  <2> SUFFICES ASSUME Init PROVE GenerationInv  OBVIOUS
  <2>1. partitions = <<>> /\ phase = "down"  BY DEF Init
  <2> QED  BY <2>1 DEF GenerationInv, UpTo
<1>2. IInv /\ CapInv /\ GenerationInv /\ IInv' /\ [Next]_vars => GenerationInv'
  BY NextKeepsGeneration
<1> QED
  BY <1>1, <1>2, Invariance, CapInvariance, PTL DEF Spec

-----------------------------------------------------------------------------
(* The application tables, superposed on the runtime.                      *)

\* Every behaviour of the superposition is one of the runtime.
LEMMA ApplicationIsRuntime == ApplicationSpec => Spec
<1>1. ApplicationInit => Init
  BY DEF ApplicationInit
<1>2. [ApplicationNext]_<<vars, applicationVars>> => [Next]_vars
  BY DEF ApplicationNext, RuntimeStep, Report, vars
<1> QED
  BY <1>1, <1>2, PTL DEF ApplicationSpec, Spec

\* A step of the superposition is one of the runtime, a report, or nothing.
LEMMA ApplicationSteps ==
  ASSUME [ApplicationNext]_<<vars, applicationVars>>
  PROVE  /\ [Next]_vars
         /\ RuntimeStep \/ Report \/ UNCHANGED <<vars, applicationVars>>
  BY DEF ApplicationNext, RuntimeStep, Report, vars

\* The identity of a partition carries its generation.
LEMMA IdOfPartition ==
  ASSUME NEW p
  PROVE  PartitionId(p)[1] = p.lineage /\ PartitionId(p)[2] = p.generation
  BY DEF PartitionId

\* What `Current' and `Authorized' say of a given assessment.
Names(ps, id) == \E i \in DOMAIN ps : PartitionId(ps[i]) = id
Gives(ps, id) ==
  IF Names(ps, id) THEN ps[CHOOSE i \in DOMAIN ps : PartitionId(ps[i]) = id].authorized ELSE {}

LEMMA NamesGives ==
  ASSUME NEW id
  PROVE  /\ Current(id) <=> Names(partitions, id)
         /\ Authorized(id) = Gives(partitions, id)
         /\ Current(id)' <=> Names(partitions', id)
         /\ Authorized(id)' = Gives(partitions', id)
<1>1. Current(id) <=> Names(partitions, id)
  BY DEF Current, Names
<1>2. Current(id)' <=> Names(partitions', id)
  BY DEF Current, Names
<1>3. Authorized(id) = Gives(partitions, id)
  BY <1>1 DEF Authorized, PartitionById, Gives
<1>4. Authorized(id)' = Gives(partitions', id)
  BY <1>2 DEF Authorized, PartitionById, Gives
<1> QED
  BY <1>1, <1>2, <1>3, <1>4

\* The identity of a grant is that of one partition, which holds the grant.
LEMMA GrantGives ==
  ASSUME NEW ps, Distinct(ps), NEW i \in Grants(ps)
  PROVE  Names(ps, PartitionId(ps[i])) /\ Gives(ps, PartitionId(ps[i])) # {}
<1> DEFINE id == PartitionId(ps[i])
           j == CHOOSE k \in DOMAIN ps : PartitionId(ps[k]) = id
<1>1. i \in DOMAIN ps /\ ps[i].authorized # {} /\ Names(ps, id)
  BY DEF Grants, Names
<1>2. j \in DOMAIN ps /\ PartitionId(ps[j]) = id
  BY <1>1
<1>3. Gives(ps, id) = ps[j].authorized
  BY <1>1 DEF Gives
<1>4. ps[j].lineage = ps[i].lineage
  <2> HIDE DEF j
  <2> QED  BY <1>2, IdOfPartition
<1> HIDE DEF j
<1>5. j = i
  BY <1>1, <1>2, <1>4 DEF Distinct
<1> QED
  BY <1>1, <1>3, <1>5

\* An identity of a generation before those of an assessment is not in it.
LEMMA LaterNamesNot ==
  ASSUME NEW ps, NEW top \in Nat, NEW id, id[2] \in Nat, id[2] <= top,
         \A i \in DOMAIN ps : ps[i].generation = top + 1
  PROVE  ~Names(ps, id)
<1> SUFFICES ASSUME NEW i \in DOMAIN ps, PartitionId(ps[i]) = id PROVE FALSE
  BY DEF Names
<1>1. id[2] = top + 1  BY IdOfPartition
<1> QED  BY <1>1

-----------------------------------------------------------------------------
(* VERIFIED has its reports.                                               *)

\* A report of capabilities for an identity that has been issued: inside what
\* is authorized as long as that identity is current.
Reported(id, capabilities) ==
  /\ id[2] \in Nat /\ id[2] <= st.generation
  /\ Names(partitions, id) => capabilities \subseteq Gives(partitions, id)

TableInv ==
  /\ phase = "down" => acks = {} /\ effects = {}
  /\ \A a \in acks : Reported(a.partition, a.applied)
  /\ \A e \in effects :
       /\ Reported(e.partition, e.confirmed)
       /\ \E a \in acks : a.attempt = e.attempt /\ a.partition = e.partition /\ a.accepted

LEMMA ReportedLater ==
  ASSUME IInv, IInv', NEW id, NEW capabilities, Reported(id, capabilities),
         Renews \/ (partitions' = partitions /\ st'.generation = st.generation)
  PROVE  Reported(id, capabilities)'
<1>1. st.generation \in Nat /\ st'.generation \in Nat
  BY DEF IInv, TypeOK, Counters
<1>2. CASE Renews
  <2>1. /\ st'.generation = st.generation + 1
        /\ \A i \in DOMAIN partitions' : partitions'[i].generation = st.generation + 1
    BY <1>2 DEF Renews
  <2>2. ~Names(partitions', id)
    BY <1>1, <2>1, LaterNamesNot DEF Reported
  <2> QED  BY <1>1, <2>1, <2>2 DEF Reported
<1>3. CASE partitions' = partitions /\ st'.generation = st.generation
  BY <1>3 DEF Reported
<1> QED  BY <1>2, <1>3

LEMMA RuntimeKeepsTables ==
  ASSUME IInv, CapInv, IInv', TableInv, RuntimeStep
  PROVE  TableInv'
<1>1. Next /\ (phase' # "down" => acks' = acks /\ effects' = effects)
      /\ (phase' = "down" => acks' = {} /\ effects' = {})
  BY DEF RuntimeStep
<1>2. CASE Crash
  BY <1>1, <1>2 DEF Crash, TableInv
<1>3. CASE Start
  <2>1. phase = "down" /\ phase' = "up"  BY <1>3 DEF Start
  <2> QED  BY <1>1, <2>1 DEF TableInv
<1>4. CASE Flush \/ Renews \/ Quiet
  <2>1. phase' # "down"
    BY <1>4, FlushGeneration DEF Renews, Quiet
  <2>2. Renews \/ (partitions' = partitions /\ st'.generation = st.generation)
    BY <1>4, FlushGeneration DEF Quiet
  <2>3. \A id, capabilities : Reported(id, capabilities) => Reported(id, capabilities)'
    BY <2>2, ReportedLater
  <2> QED  BY <1>1, <2>1, <2>3 DEF TableInv
<1> QED
  BY <1>1, <1>2, <1>3, <1>4, StepKinds

LEMMA ReportKeepsTables ==
  ASSUME IInv, GenerationInv, TableInv, Report
  PROVE  TableInv'
<1>1. UNCHANGED <<phase, st, partitions>>
  BY DEF Report, vars
<1>2. \A id, capabilities : Reported(id, capabilities) => Reported(id, capabilities)'
  BY <1>1 DEF Reported
<1>3. ASSUME NEW id, Current(id), NEW capabilities, capabilities \subseteq Authorized(id)
      PROVE  Reported(id, capabilities)
  <2>1. PICK i \in DOMAIN partitions : PartitionId(partitions[i]) = id
    BY <1>3 DEF Current
  <2>2. id[2] = partitions[i].generation
    BY <2>1, IdOfPartition
  <2>3. id[2] \in Nat /\ id[2] <= st.generation
    BY <2>2 DEF GenerationInv, UpTo
  <2> QED  BY <1>3, <2>3, NamesGives DEF Reported
<1>4. ASSUME NEW attempt, NEW id, NEW accepted, NEW applied,
             RecordAcknowledgement(attempt, id, accepted, applied)
      PROVE  TableInv'
  <2> DEFINE a == [attempt |-> attempt, partition |-> id, accepted |-> accepted,
                   applied |-> applied]
  <2>1. /\ Idle /\ Current(id) /\ applied \subseteq Authorized(id)
        /\ acks' = acks \cup {a} /\ effects' = effects
    BY <1>4 DEF RecordAcknowledgement, StoreAcknowledgement
  <2>2. a.partition = id /\ a.applied = applied
    OBVIOUS
  <2> HIDE DEF a
  <2>3. Reported(a.partition, a.applied)
    BY <1>3, <2>1, <2>2
  <2>4. phase' # "down"
    BY <1>1, <2>1 DEF Idle
  <2> QED  BY <1>2, <2>1, <2>3, <2>4 DEF TableInv
<1>5. ASSUME NEW attempt, NEW id, NEW confirmed, RecordVerifiedEffect(attempt, id, confirmed)
      PROVE  TableInv'
  <2> DEFINE e == [attempt |-> attempt, partition |-> id, confirmed |-> confirmed]
  <2>1. /\ Idle /\ Current(id) /\ confirmed \subseteq Authorized(id) /\ Acknowledged(attempt, id)
        /\ effects' = effects \cup {e} /\ acks' = acks
    BY <1>5 DEF RecordVerifiedEffect
  <2>2. e.partition = id /\ e.confirmed = confirmed /\ e.attempt = attempt
    OBVIOUS
  <2> HIDE DEF e
  <2>3. Reported(e.partition, e.confirmed)
    BY <1>3, <2>1, <2>2
  <2>4. \E a \in acks : a.attempt = e.attempt /\ a.partition = e.partition /\ a.accepted
    BY <2>1, <2>2 DEF Acknowledged, SameReport
  <2>5. phase' # "down"
    BY <1>1, <2>1 DEF Idle
  <2> QED  BY <1>2, <2>1, <2>3, <2>4, <2>5 DEF TableInv
<1> QED
  BY <1>4, <1>5 DEF Report

LEMMA ApplicationKeepsTables ==
  ASSUME IInv, CapInv, GenerationInv, IInv', TableInv,
         [ApplicationNext]_<<vars, applicationVars>>
  PROVE  TableInv'
<1>1. CASE RuntimeStep  BY <1>1, RuntimeKeepsTables
<1>2. CASE Report  BY <1>2, ReportKeepsTables
<1>3. CASE UNCHANGED <<vars, applicationVars>>
  BY <1>3 DEF vars, applicationVars, TableInv, Reported
<1> QED
  BY <1>1, <1>2, <1>3, ApplicationSteps

LEMMA TableInvariance == ApplicationSpec => []TableInv
<1>1. ApplicationInit => TableInv
  BY DEF ApplicationInit, TableInv
<1>2. IInv /\ CapInv /\ GenerationInv /\ IInv' /\ TableInv
        /\ [ApplicationNext]_<<vars, applicationVars>> => TableInv'
  BY ApplicationKeepsTables
<1> QED
  BY <1>1, <1>2, ApplicationIsRuntime, Invariance, CapInvariance, GenerationInvariance, PTL
  DEF ApplicationSpec

\* A grant that is reported VERIFIED has an effect and an accepted
\* acknowledgement of the same attempt, both for this very grant and inside what
\* it authorizes now: generations never recur within one life of the tables, so
\* no later assessment, interruption or restart lets a grant inherit the reports
\* of another (record_acknowledgement, record_verified_effect, application_state).
THEOREM VerifiedHasReports == ApplicationSpec => []VerifiedIsJustified
<1>1. TableInv => VerifiedIsJustified
  <2> SUFFICES ASSUME TableInv, NEW id \in InForce, Stage(id) = "VERIFIED"
               PROVE  \E e \in effects, a \in acks :
                        /\ e.partition = id /\ a.partition = id /\ a.attempt = e.attempt
                        /\ a.accepted
                        /\ (a.applied \cup e.confirmed) \subseteq Authorized(id)
    BY DEF VerifiedIsJustified
  <2>1. Current(id)
    BY DEF InForce, Grants, Current
  <2>2. PICK e \in effects : e.partition = id
    BY <2>1 DEF Stage
  <2>3. PICK a \in acks : a.attempt = e.attempt /\ a.partition = id /\ a.accepted
    BY <2>2 DEF TableInv
  <2>4. a.applied \subseteq Authorized(id) /\ e.confirmed \subseteq Authorized(id)
    BY <2>1, <2>2, <2>3, NamesGives DEF TableInv, Reported
  <2> QED  BY <2>2, <2>3, <2>4
<1> QED
  BY <1>1, TableInvariance, PTL

-----------------------------------------------------------------------------
(* A restart interrupts what was in force.                                 *)

\* The last epoch state on disk marks the identity.
Marked(id) == \E j \in DOMAIN disk.live : disk.live[j].partition = id

\* A process that was closed, or has ended between two operations, left a mark
\* of every grant it held.
HeldInv ==
  /\ phase = "closed" => \A id \in InForce : Marked(id)
  /\ phase = "down" => \A id \in held : Marked(id)

LEMMA InForceMarked ==
  ASSUME IInv, LiveOnDisk, Idle, NEW id \in InForce
  PROVE  Marked(id)
<1>1. disk.live = Marks(partitions)
  BY EmptyQueued DEF LiveOnDisk, Idle
<1>2. PICK i \in Grants(partitions) : id = PartitionId(partitions[i])
  BY DEF InForce
<1>3. IsSeq(partitions)
  BY IdleFacts DEF Held
<1>4. PICK j \in DOMAIN disk.live : disk.live[j] = Mark(partitions[i])
  BY <1>1, <1>3, MarksAreGrants
<1>5. Mark(partitions[i]).partition = id
  BY <1>2 DEF Mark
<1> QED
  BY <1>4, <1>5 DEF Marked

LEMMA ApplicationKeepsHeld ==
  ASSUME IInv, CapInv, LiveOnDisk, HeldInv, [ApplicationNext]_<<vars, applicationVars>>
  PROVE  HeldInv'
<1>1. CASE RuntimeStep
  <2>1. /\ Next /\ (phase' # "down" => held' = held)
        /\ phase' = "down" => held' = IF wal = <<>> THEN InForce ELSE {}
    BY <1>1 DEF RuntimeStep
  <2>2. CASE Crash
    <3>1. phase \in {"up", "closed"} /\ phase' = "down" /\ disk' = disk
      BY <2>2 DEF Crash
    <3>2. ASSUME NEW id \in held' PROVE Marked(id)
      <4>1. wal = <<>> /\ id \in InForce  BY <2>1, <3>1, <3>2
      <4> QED  BY <3>1, <4>1, InForceMarked DEF Idle, HeldInv
    <3>3. \A id : Marked(id) => Marked(id)'
      BY <3>1 DEF Marked
    <3> QED  BY <3>1, <3>2, <3>3 DEF HeldInv
  <2>3. CASE Start \/ Flush \/ Renews
    <3>1. phase' = "up"
      BY <2>3, StartGeneration, FlushGeneration DEF Renews
    <3> QED  BY <3>1 DEF HeldInv
  <2>4. CASE Quiet
    <3>1. partitions' = partitions /\ disk' = disk
      BY <2>4 DEF Quiet
    <3>2. phase' = "closed" => \A id \in InForce : Marked(id)
      BY <2>4, InForceMarked DEF Quiet
    <3>3. phase' # "down"
      BY <2>4 DEF Quiet
    <3>4. (InForce)' = InForce /\ \A id : Marked(id) => Marked(id)'
      BY <3>1 DEF InForce, Marked
    <3> QED  BY <3>2, <3>3, <3>4 DEF HeldInv
  <2> QED  BY <2>1, <2>2, <2>3, <2>4, StepKinds
<1>2. CASE Report \/ UNCHANGED <<vars, applicationVars>>
  <2>1. UNCHANGED <<phase, partitions, disk, held>>
    BY <1>2 DEF Report, vars, applicationVars
  <2>2. (InForce)' = InForce /\ \A id : Marked(id) => Marked(id)'
    BY <2>1 DEF InForce, Marked
  <2> QED  BY <2>1, <2>2 DEF HeldInv
<1> QED
  BY <1>1, <1>2, ApplicationSteps

\* While every append succeeds, a grant that was in force when the process was
\* closed, or killed between two operations, is INTERRUPTED in the first answer
\* of the next incarnation: the epoch state that assess_locked commits names it,
\* and restore_from_records brings it back as an interruption.
THEOREM RestartReportsInterrupted == Reliable => (ApplicationSpec => RestartInterrupts)
<1> SUFFICES ASSUME Reliable PROVE ApplicationSpec => RestartInterrupts
  OBVIOUS
<1>1. ApplicationInit => HeldInv
  BY DEF ApplicationInit, Init, HeldInv
<1>2. IInv /\ CapInv /\ LiveOnDisk /\ HeldInv /\ [ApplicationNext]_<<vars, applicationVars>>
        => HeldInv'
  BY ApplicationKeepsHeld
<1>3. IInv /\ CapInv /\ HeldInv /\ [ApplicationNext]_<<vars, applicationVars>> =>
        [phase = "down" /\ phase' = "up" =>
           \A id \in held : Stage(id)' = "INTERRUPTED"]_<<vars, applicationVars>>
  <2> SUFFICES ASSUME IInv, CapInv, HeldInv, [ApplicationNext]_<<vars, applicationVars>>,
                      phase = "down", phase' = "up", NEW id \in held
               PROVE  Stage(id)' = "INTERRUPTED"
    OBVIOUS
  <2>1. Start
    <3>1. ~UNCHANGED <<vars, applicationVars>> /\ ~UNCHANGED vars
      BY DEF vars
    <3>2. Next
      BY <3>1, ApplicationSteps
    <3> QED
      BY <3>2, StepKinds, FlushGeneration DEF Crash, Renews, Quiet, Idle
  <2>2. partitions' = <<>> /\ interrupted' = RestoredInterruptions(disk)
    BY <2>1 DEF Start
  <2>3. PICK j \in DOMAIN disk.live : disk.live[j].partition = id
    BY DEF HeldInv, Marked
  <2>4. j \in DOMAIN interrupted' /\ interrupted'[j].partition = id
    BY <2>2, <2>3 DEF RestoredInterruptions
  <2>5. ~Current(id)'
    BY <2>2 DEF Current
  <2>6. \E i \in DOMAIN interrupted' : interrupted'[i].partition = id
    BY <2>4
  <2> QED  BY <2>5, <2>6 DEF Stage
<1> QED
  BY <1>1, <1>2, <1>3, ApplicationIsRuntime, Invariance, CapInvariance, LiveInvariance, PTL
  DEF ApplicationSpec, RestartInterrupts

-----------------------------------------------------------------------------
(* What a caller was shown of a grant only moves on.                       *)

Ranked == {"ISSUED", "ACKNOWLEDGED", "VERIFIED", "INTERRUPTED", "REVOKED"}
Gone == {"INTERRUPTED", "REVOKED"}

EffectOf(reports, id) == \E e \in reports : e.partition = id
AckOf(reports, id) == \E a \in reports : a.partition = id /\ a.accepted

\* What the stage last shown of an identity still says of it.
Truth(ps, top, verified, acknowledged, id, stage) ==
  /\ id[2] \in Nat /\ id[2] <= top
  /\ stage \in Ranked
  /\ Names(ps, id) => /\ Gives(ps, id) # {}
                      /\ stage \notin Gone
                      /\ stage = "VERIFIED" => EffectOf(verified, id)
                      /\ stage = "ACKNOWLEDGED" => AckOf(acknowledged, id)

StageInv ==
  \A id \in DOMAIN stages :
    Truth(partitions, disk.state.generation, effects, acks, id, stages[id])

\* The stage of an identity whose grant, if current, is in force.
LEMMA NextStage ==
  ASSUME NEW id
  PROVE  /\ ~Names(partitions', id) => Stage(id)' \in Gone
         /\ Names(partitions', id) /\ Gives(partitions', id) # {} =>
              Stage(id)' = IF EffectOf(effects', id) THEN "VERIFIED"
                           ELSE IF AckOf(acks', id) THEN "ACKNOWLEDGED" ELSE "ISSUED"
<1>1. (Current(id)' <=> Names(partitions', id)) /\ Authorized(id)' = Gives(partitions', id)
  BY NamesGives
<1>2. CASE ~Current(id)'
  <2>1. Stage(id)' \in Gone
    BY <1>2 DEF Stage, Gone
  <2> QED  BY <1>1, <1>2, <2>1
<1>3. CASE Current(id)' /\ Authorized(id)' # {}
  <2>1. Stage(id)' = IF EffectOf(effects', id) THEN "VERIFIED"
                     ELSE IF AckOf(acks', id) THEN "ACKNOWLEDGED" ELSE "ISSUED"
    BY <1>3 DEF Stage, EffectOf, AckOf
  <2> QED  BY <1>1, <1>3, <2>1
<1> QED
  BY <1>1, <1>2, <1>3

\* Only a quiet step leaves an identity that was shown current.
LEMMA StillCurrent ==
  ASSUME IInv, CapInv, GenerationInv, [ApplicationNext]_<<vars, applicationVars>>,
         NEW id, id[2] \in Nat, id[2] <= disk.state.generation, Names(partitions', id)
  PROVE  partitions' = partitions /\ acks \subseteq acks' /\ effects \subseteq effects'
<1>1. CASE RuntimeStep
  <2>1. Next /\ (phase' # "down" => acks' = acks /\ effects' = effects)
    BY <1>1 DEF RuntimeStep
  <2>2. ~Start /\ ~Crash
    <3>1. partitions' # <<>>  BY DEF Names
    <3> QED  BY <3>1 DEF Start, Crash
  <2>3. ~Renews
    <3> SUFFICES ASSUME Renews PROVE FALSE  OBVIOUS
    <3>1. st.generation \in Nat /\ disk.state.generation \in Nat
      BY DEF IInv, TypeOK, Counters
    <3>2. id[2] <= st.generation
      BY <3>1 DEF GenerationInv, Renews, Idle
    <3>3. \A i \in DOMAIN partitions' : partitions'[i].generation = st.generation + 1
      BY DEF Renews
    <3> QED  BY <3>1, <3>2, <3>3, LaterNamesNot
  <2>4. Flush \/ Quiet
    BY <2>1, <2>2, <2>3, StepKinds
  <2> QED
    BY <2>1, <2>4, FlushGeneration DEF Quiet
<1>2. CASE Report
  <2>1. partitions' = partitions
    BY <1>2 DEF Report, vars
  <2>2. acks \subseteq acks' /\ effects \subseteq effects'
    BY <1>2 DEF Report, RecordAcknowledgement, StoreAcknowledgement, RecordVerifiedEffect
  <2> QED  BY <2>1, <2>2
<1>3. CASE UNCHANGED <<vars, applicationVars>>
  BY <1>3 DEF vars, applicationVars
<1> QED
  BY <1>1, <1>2, <1>3, ApplicationSteps

LEMMA TruthKept ==
  ASSUME IInv, CapInv, GenerationInv, IInv', [ApplicationNext]_<<vars, applicationVars>>,
         NEW id, NEW stage,
         Truth(partitions, disk.state.generation, effects, acks, id, stage)
  PROVE  /\ Truth(partitions', disk'.state.generation, effects', acks', id, stage)
         /\ Truth(partitions', disk'.state.generation, effects', acks', id, Stage(id)')
         /\ Rank[Stage(id)'] >= Rank[stage]
<1>1. disk.state.generation <= disk'.state.generation
  BY ApplicationSteps, NextKeepsGeneration
<1>2. disk.state.generation \in Nat /\ disk'.state.generation \in Nat
  BY DEF IInv, TypeOK, Counters
<1>3. id[2] \in Nat /\ id[2] <= disk.state.generation /\ id[2] <= disk'.state.generation
  BY <1>1, <1>2 DEF Truth
<1>4. CASE ~Names(partitions', id)
  <2>1. Stage(id)' \in Gone
    BY <1>4, NextStage
  <2> QED  BY <1>3, <1>4, <2>1 DEF Truth, Gone, Ranked, Rank
<1>5. CASE Names(partitions', id)
  <2>1. partitions' = partitions /\ acks \subseteq acks' /\ effects \subseteq effects'
    BY <1>3, <1>5, StillCurrent
  <2>2. /\ Gives(partitions', id) # {} /\ stage \in {"ISSUED", "ACKNOWLEDGED", "VERIFIED"}
        /\ stage = "VERIFIED" => EffectOf(effects', id)
        /\ stage = "ACKNOWLEDGED" => AckOf(acks', id)
    BY <1>5, <2>1 DEF Truth, Gone, Ranked, EffectOf, AckOf
  <2>3. Stage(id)' = IF EffectOf(effects', id) THEN "VERIFIED"
                     ELSE IF AckOf(acks', id) THEN "ACKNOWLEDGED" ELSE "ISSUED"
    BY <1>5, <2>2, NextStage
  <2> QED  BY <1>3, <2>2, <2>3 DEF Truth, Gone, Ranked, Rank
<1> QED
  BY <1>4, <1>5

\* A grant that comes into a caller's sight.
LEMMA TruthOfGrant ==
  ASSUME CapInv', GenerationInv', IInv', Reliable, Idle', NEW id \in (InForce)'
  PROVE  Truth(partitions', disk'.state.generation, effects', acks', id, Stage(id)')
<1>1. PICK i \in Grants(partitions') : id = PartitionId(partitions'[i])
  BY DEF InForce
<1>2. Names(partitions', id) /\ Gives(partitions', id) # {}
  BY <1>1, GrantGives DEF CapInv
<1>3. UpTo(partitions', disk'.state.generation)
  BY EmptyQueued DEF GenerationInv, Idle
<1>4. id[2] \in Nat /\ id[2] <= disk'.state.generation
  BY <1>1, <1>3, IdOfPartition DEF UpTo, Grants
<1>5. Stage(id)' = IF EffectOf(effects', id) THEN "VERIFIED"
                   ELSE IF AckOf(acks', id) THEN "ACKNOWLEDGED" ELSE "ISSUED"
  BY <1>2, NextStage
<1> QED
  BY <1>2, <1>4, <1>5 DEF Truth, Gone, Ranked

LEMMA ApplicationKeepsStages ==
  ASSUME Reliable, IInv, CapInv, GenerationInv, IInv', CapInv', GenerationInv', StageInv,
         [ApplicationNext]_<<vars, applicationVars>>
  PROVE  /\ StageInv'
         /\ [\A id \in DOMAIN stages :
               Rank[stages'[id]] >= Rank[stages[id]]]_<<vars, applicationVars>>
<1>1. ASSUME NEW id \in DOMAIN stages
      PROVE  /\ Truth(partitions', disk'.state.generation, effects', acks', id, stages[id])
             /\ Truth(partitions', disk'.state.generation, effects', acks', id, Stage(id)')
             /\ Rank[Stage(id)'] >= Rank[stages[id]]
  BY TruthKept DEF StageInv
<1>2. CASE Show /\ Idle'
  <2>1. stages' = [id \in DOMAIN stages \cup (InForce)' |-> Stage(id)']
    BY <1>2 DEF Show
  <2>2. \A id \in (InForce)' :
          Truth(partitions', disk'.state.generation, effects', acks', id, Stage(id)')
    BY <1>2, TruthOfGrant
  <2> QED
    BY <1>1, <2>1, <2>2 DEF StageInv
<1>3. CASE stages' = stages
  <2>1. \A id \in DOMAIN stages : Rank[stages[id]] >= Rank[stages[id]]
    BY DEF StageInv, Truth, Ranked, Rank
  <2> QED  BY <1>1, <1>3, <2>1 DEF StageInv
<1>4. \/ Show /\ Idle'
      \/ stages' = stages
  BY DEF ApplicationNext, applicationVars, Show
<1> QED
  BY <1>2, <1>3, <1>4

\* While every append succeeds, what a caller was shown of a grant only moves on:
\* issued, acknowledged, verified, gone.  Its identity carries a generation that
\* was on disk when it was shown, so that no later assessment, of this process or
\* of one started after a crash at any point, gives the identity again
\* (application_state over assess_locked and restore_from_records).
THEOREM StagesMoveOn == Reliable => (ApplicationSpec => ApplicationNeverRegresses)
<1> SUFFICES ASSUME Reliable PROVE ApplicationSpec => ApplicationNeverRegresses
  OBVIOUS
<1>1. ApplicationInit => StageInv
  BY DEF ApplicationInit, StageInv
<1>2. IInv /\ CapInv /\ GenerationInv /\ IInv' /\ CapInv' /\ GenerationInv' /\ StageInv
        /\ [ApplicationNext]_<<vars, applicationVars>> =>
        /\ StageInv'
        /\ [\A id \in DOMAIN stages :
               Rank[stages'[id]] >= Rank[stages[id]]]_<<vars, applicationVars>>
  BY ApplicationKeepsStages
<1> QED
  BY <1>1, <1>2, ApplicationIsRuntime, Invariance, CapInvariance, GenerationInvariance, PTL
  DEF ApplicationSpec, ApplicationNeverRegresses
=============================================================================
