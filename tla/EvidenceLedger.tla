------------------------------ MODULE EvidenceLedger ------------------------------
(***************************************************************************)
(* The live evidence table (EvidenceLedger in src/src/reachability.cpp).   *)
(* A ledger is a record                                                    *)
(*   [retained : the accepted bundles,                                     *)
(*    cursors  : publisher -> [boot, last], the incarnation and the last   *)
(*               sequence accepted from it, for the publishers seen,       *)
(*    retired  : the publisher incarnations another one has replaced].     *)
(* Byte budgets and the length bounds of a single bundle are not           *)
(* represented: they refuse like MaxRetained does.                         *)
(***************************************************************************)
EXTENDS Reachability

CONSTANT MaxRetained      \* limits.max_retained_evidence

ASSUME MaxRetainedAssumption == MaxRetained \in Nat \ {0}

EmptyLedger == [retained |-> {}, cursors |-> [p \in {} |-> 0], retired |-> {}]

\* The checks on the bundle alone: it names what it covers or observes, only
\* members of the roster, no component against itself.
WellFormed(b, roster) ==
  /\ b.validity # 0
  /\ b.links # {} \/ b.covered # {}
  /\ b.covered \subseteq roster
  /\ \A l \in b.links : {l[1], l[2]} \subseteq roster /\ l[1] # l[2]

\* A bundle of the cursor's incarnation must advance its sequence.
InOrder(ledger, b) ==
  b.publisher \in DOMAIN ledger.cursors /\ ledger.cursors[b.publisher].boot = b.boot
    => b.sequence > ledger.cursors[b.publisher].last

\* An incarnation that follows another one; the first is retired.
Replaces(ledger, b) ==
  b.publisher \in DOMAIN ledger.cursors /\ ledger.cursors[b.publisher].boot # b.boot

HasRoom(ledger, b) ==
  /\ Cardinality(ledger.retained) < MaxRetained
  /\ Replaces(ledger, b) => Cardinality(ledger.retired) < MaxRetained
  /\ b.publisher \notin DOMAIN ledger.cursors
       => Cardinality(DOMAIN ledger.cursors) < MaxRetained

\* Acceptance without the check that the bundle is of the current topology.
AcceptableAnyTopology(ledger, b, roster, topology, age, now) ==
  /\ WellFormed(b, roster)
  /\ b.observed <= now
  /\ b.boot \notin ledger.retired
  /\ InOrder(ledger, b)
  /\ HasRoom(ledger, b)
  /\ IsFresh(b, age, now)

\* Acceptance that forgets the retired incarnations.
AcceptableRetired(ledger, b, roster, topology, age, now) ==
  /\ WellFormed(b, roster)
  /\ b.topology = topology
  /\ b.observed <= now
  /\ InOrder(ledger, b)
  /\ HasRoom(ledger, b)
  /\ IsFresh(b, age, now)

Acceptable(ledger, b, roster, topology, age, now) ==
  /\ WellFormed(b, roster)
  /\ b.topology = topology
  /\ b.observed <= now
  /\ b.boot \notin ledger.retired
  /\ InOrder(ledger, b)
  /\ HasRoom(ledger, b)
  /\ IsFresh(b, age, now)

Accept(ledger, b) ==
  [retained |-> ledger.retained \cup {b},
   cursors  |-> [p \in DOMAIN ledger.cursors \cup {b.publisher} |->
                   IF p = b.publisher THEN [boot |-> b.boot, last |-> b.sequence]
                                      ELSE ledger.cursors[p]],
   retired  |-> IF Replaces(ledger, b)
                THEN ledger.retired \cup {ledger.cursors[b.publisher].boot}
                ELSE ledger.retired]
=============================================================================
