------------------------------ MODULE EvidenceIntake ------------------------------
(***************************************************************************)
(* The evidence path of the runtime on its own: publishers deliver bundles *)
(* in any order, late, twice or after a restart of theirs; the clock       *)
(* advances; a new topology drops what was accepted.  The state is the     *)
(* part of PartitionRuntime that ingest_evidence, advance_ticks and        *)
(* adopt_topology touch, and `accepted', the history of what ingest took.  *)
(***************************************************************************)
EXTENDS EvidenceLedger, Sequences

CONSTANTS
  Topologies,      \* sequence of rosters: generation g adopts Topologies[g]
  MaxAge,          \* policy.max_evidence_age_ticks
  Claims,          \* the [covered, links] a bundle may carry
  Publishers,      \* publisher identities
  Incarnations,    \* publisher boot identities, per publisher
  MaxSequence,     \* bound on publisher sequences
  MaxTick          \* bound on the logical clock

ASSUME IntakeAssumption ==
  /\ MaxAge \in Nat /\ MaxSequence \in Nat /\ MaxTick \in Nat
  /\ Len(Topologies) \in Nat \ {0}
  /\ \A g \in 1..Len(Topologies) : IsFiniteSet(Topologies[g])

VARIABLES
  topology,   \* adopted generation, an index into Topologies
  tick,       \* state_.tick
  ledger,     \* ledger_
  accepted    \* history: the bundles accepted so far, in order

vars == <<topology, tick, ledger, accepted>>

Roster == Topologies[topology]

Bundles == [publisher : Publishers, boot : Publishers \X Incarnations, sequence : 1..MaxSequence,
            topology : 1..Len(Topologies), observed : 0..MaxTick, validity : {1},
            covered : {c.covered : c \in Claims}, links : {c.links : c \in Claims}]

Bundle(p, i, n, g, at, claim) ==
  [publisher |-> p, boot |-> <<p, i>>, sequence |-> n, topology |-> g, observed |-> at,
   validity |-> 1, covered |-> claim.covered, links |-> claim.links]

Init ==
  /\ topology = 1
  /\ tick = 0
  /\ ledger = EmptyLedger
  /\ accepted = <<>>

IngestEvidence(b) ==
  /\ Acceptable(ledger, b, Roster, topology, MaxAge, tick)
  /\ ledger' = Accept(ledger, b)
  /\ accepted' = Append(accepted, b)
  /\ UNCHANGED <<topology, tick>>

AdvanceTicks ==
  /\ tick < MaxTick
  /\ tick' = tick + 1
  /\ UNCHANGED <<topology, ledger, accepted>>

\* A later topology generation is adopted and the dynamic state dropped.
AdoptTopology(g) ==
  /\ g > topology
  /\ topology' = g
  /\ ledger' = EmptyLedger
  /\ UNCHANGED <<tick, accepted>>

Next ==
  \/ \E p \in Publishers, i \in Incarnations, n \in 1..MaxSequence,
        g \in 1..Len(Topologies), at \in 0..MaxTick, claim \in Claims :
       IngestEvidence(Bundle(p, i, n, g, at, claim))
  \/ AdvanceTicks
  \/ \E g \in 1..Len(Topologies) : AdoptTopology(g)

Spec == Init /\ [][Next]_vars

-----------------------------------------------------------------------------
(* Properties of the ledger.                                               *)

\* The ledger holds well formed bundles, never more than max_retained_evidence
\* of them, and a cursor only for publishers it has heard (accept).
TypeOK ==
  /\ topology \in 1..Len(Topologies)
  /\ tick \in 0..MaxTick
  /\ ledger.retained \subseteq Bundles
  /\ Cardinality(ledger.retained) <= MaxRetained
  /\ DOMAIN ledger.cursors \subseteq Publishers
  /\ ledger.retired \subseteq Publishers \X Incarnations
  /\ accepted \in Seq(Bundles)

\* Whatever the network does, what the ledger took from one publisher under
\* one topology is the publisher's own order: within an incarnation the
\* sequences advance, and once a second incarnation has been heard the first
\* one never is again (EvidenceLedger::accept's cursor and retired boots).
PublisherOrder ==
  \A i, j \in 1..Len(accepted) :
    (i < j /\ accepted[i].publisher = accepted[j].publisher
           /\ accepted[i].topology = accepted[j].topology) =>
      /\ accepted[i].boot = accepted[j].boot => accepted[i].sequence < accepted[j].sequence
      /\ accepted[i].boot # accepted[j].boot =>
           \A k \in j..Len(accepted) :
             accepted[k].topology = accepted[j].topology => accepted[k].boot # accepted[i].boot

\* No bundle is counted twice, even though adopting a topology forgets every
\* cursor: a bundle observed against the old generation stays refused.
NeverAcceptedTwice ==
  \A i, j \in 1..Len(accepted) : accepted[i] = accepted[j] => i = j

-----------------------------------------------------------------------------
(* Properties of the snapshot the ledger resolves to.                      *)

Now == Evidence(Roster, topology, ledger.retained, MaxAge, tick)

\* Every reported counter equals the number of pairs it names, counted one
\* pair at a time, and the five ordered categories add up to N * (N - 1): the
\* closed forms of build_reachability_snapshot never drift from the pairwise
\* reading, for covered, uncovered, stale and contradicted sources alike.
CountersExact ==
  LET ev == Now
      counters == OrderedCounters(ev)
      resolved == [p \in OrderedPairs(Roster) |-> ResolveByTable(ev, p[1], p[2])]
      count(P(_, _)) == Cardinality({p \in DOMAIN resolved :
                                       P(resolved[p], resolved[<<p[2], p[1]>>])})
      n == Cardinality(Roster)
  IN  /\ \A value \in DOMAIN counters : counters[value] = count(LAMBDA f, r : f = value)
      /\ MapThenSumSet(LAMBDA v : counters[v], DOMAIN counters) = n * (n - 1)
      /\ OrderedAsymmetric(ev) =
           count(LAMBDA f, r : f \in {Reachable, Unreachable} /\ r = Unknown)
      /\ OrderedContradictory(ev) = count(LAMBDA f, r : f = Reachable /\ r = Unreachable)

\* A decomposition is CONFIRMED exactly when every ordered pair that crosses
\* a component boundary is proven unreachable (the cross-component accounting).
ConfirmedExact ==
  LET ev == Now
      groups == Components(Roster, Edges(ev))
  IN  Confirmed(ev, groups) <=>
        \A p \in OrderedPairs(Roster) :
          p[2] \notin Home(groups, p[1]) => ResolveByTable(ev, p[1], p[2]) = Unreachable

\* A bundle says only what holds in a true set of directed links.
Honest(b, truth) ==
  /\ \A l \in b.links : (l[3] = Reachable) <=> (<<l[1], l[2]>> \in truth)
  /\ \A p \in truth : p[1] \in b.covered => <<p[1], p[2], Reachable>> \in b.links

\* If the fresh evidence is honest about a fabric, the decomposition refines
\* that fabric's and is equal to it once CONFIRMED: missing evidence may leave
\* components apart, it never joins two that are apart, and PARTIAL is never
\* reported as clean.
HonestEvidenceIsSound ==
  LET ev == Now
      groups == Components(Roster, Edges(ev))
      confirmed == Confirmed(ev, groups)
      twoWay(truth) == {{p[1], p[2]} : p \in {q \in truth : <<q[2], q[1]>> \in truth}}
  IN  \A truth \in SUBSET OrderedPairs(Roster) :
        (\A b \in ev.fresh : Honest(b, truth)) =>
          LET fabric == Components(Roster, twoWay(truth))
          IN  /\ \A c \in groups : \E d \in fabric : c \subseteq d
              /\ confirmed => groups = fabric
=============================================================================
