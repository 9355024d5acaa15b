-------------------------------- MODULE Lineage --------------------------------
(***************************************************************************)
(* The durable lineage store (LineageStore in src/src/lineage.cpp) and the *)
(* classification of a component set against it (build_partitions in       *)
(* src/src/partition.cpp).                                                 *)
(*                                                                         *)
(* A store is a sequence of records                                        *)
(*   [sequence, lineage, generation, members, event, parents]              *)
(* with parents the set of the non-nil ones.  A lineage identity is a      *)
(* digest over a domain word, parents and a membership digest; here it is  *)
(* the tuple of those inputs, so two identities are equal exactly when     *)
(* their inputs are.  A membership digest is the member set itself.        *)
(***************************************************************************)
EXTENDS Integers, Sequences, FiniteSets, FiniteSetsExt

CONSTANTS
  MaxLineageRecords,   \* limits.max_lineage_records
  MaxMemberEntries,    \* limits.max_lineage_member_entries
  MaxWalkNodes,        \* limits.max_lineage_walk_nodes
  MaxWalkDepth         \* limits.max_lineage_walk_depth

ASSUME LineageAssumption ==
  /\ MaxLineageRecords \in Nat
  /\ MaxMemberEntries \in Nat
  /\ MaxWalkNodes \in Nat
  /\ MaxWalkDepth \in Nat

Events == {"GENESIS", "SPLIT", "MERGE", "RETIRE"}

GenesisId(members)           == <<"genesis", members>>
SplitId(parent, members)     == <<"split", parent, members>>
DivergentId(parent, members) == <<"divergent", parent, members>>
MergeId(left, right)         == <<"merge", {left, right}>>
PendingId(owners, members)   == <<"pending-merge", owners, members>>

-----------------------------------------------------------------------------
(* The store.                                                              *)

Positions(store, l) == {i \in 1..Len(store) : store[i].lineage = l}

Recorded(store, l) == Positions(store, l) # {}
Latest(store, l)   == store[Max(Positions(store, l))]
Earliest(store, l) == store[Min(Positions(store, l))]

HighestSequence(store) == IF store = <<>> THEN 0 ELSE store[Len(store)].sequence

\* retained_member_entries_: the members of every record, counted with the record.
MemberEntries(store) == Cardinality(UNION {{i} \X store[i].members : i \in 1..Len(store)})

\* LineageStore::append, as the condition under which it stores the record.  The
\* limit on a record's own members is the topology's limit on components: no
\* partition has more.
Appendable(store, r) ==
  LET known == \E i \in Positions(store, r.lineage) : store[i].generation = r.generation
  IN  /\ Len(store) < MaxLineageRecords
      /\ MemberEntries(Append(store, r)) <= MaxMemberEntries
      /\ r.sequence > HighestSequence(store)
      /\ r.members # {}
      /\ IF r.event = "RETIRE"
         THEN known /\ Earliest(store, r.lineage).event # "RETIRE"
         ELSE ~known
      /\ IF r.event \in {"GENESIS", "RETIRE"}
         THEN r.parents = {}
         ELSE /\ r.parents # {} /\ \A p \in r.parents : Recorded(store, p)
              /\ r.event = "MERGE" => Cardinality(r.parents) = 2

\* Supersession that only a merge brings about.
SupersededByMerges(store) ==
  UNION {store[i].parents : i \in {j \in 1..Len(store) : store[j].event = "MERGE"}}

Superseded(store) == UNION {store[i].parents : i \in 1..Len(store)}

\* live_lineages: recorded, not retired, and nobody's parent.
Live(store) ==
  {l \in {store[i].lineage : i \in 1..Len(store)} :
     Latest(store, l).event # "RETIRE"} \ Superseded(store)

-----------------------------------------------------------------------------
(* Ancestry.  A record's parents are in the store before it, so the        *)
(* ancestors of the lineages at position i come from earlier positions.    *)

FirstAt(store, l) == Min(Positions(store, l))

Ancestry(store) ==
  LET up[i \in 1..Len(store)] ==
        store[i].parents \cup UNION {up[FirstAt(store, p)] : p \in store[i].parents}
  IN  up

Height(store) ==
  LET up[i \in 1..Len(store)] ==
        IF store[i].parents = {} THEN 0
        ELSE 1 + Max({up[FirstAt(store, p)] : p \in store[i].parents})
  IN  up

Ancestors(store, l) == Ancestry(store)[FirstAt(store, l)]

\* The bounded walk cannot be cut short.
WalkComplete(store, l) ==
  /\ Cardinality(Ancestors(store, l)) <= MaxWalkNodes
  /\ Height(store)[FirstAt(store, l)] <= MaxWalkDepth

\* relate: the possible answers.  Where a bound may cut a walk short, the
\* nodes visited depend on the digest order of the identities: the answer is
\* then what some visited part shows, or INDETERMINATE, never UNRELATED.
Relate(store, left, right) ==
  LET common == Ancestors(store, left) \cap Ancestors(store, right)
      exact == CASE left \in Ancestors(store, right) -> "ANCESTOR_OF"
                 [] right \in Ancestors(store, left) -> "DESCENDANT_OF"
                 [] OTHER -> IF common # {} THEN "DIVERGENT" ELSE "UNRELATED"
      cut == {"INDETERMINATE", exact} \cup (IF common # {} THEN {"DIVERGENT"} ELSE {})
  IN  IF left = right THEN {"IDENTICAL"}
      ELSE IF ~(Recorded(store, left) /\ Recorded(store, right)) THEN {"INDETERMINATE"}
      ELSE IF WalkComplete(store, left) /\ WalkComplete(store, right) THEN {exact}
      ELSE cut \ {"UNRELATED"}

-----------------------------------------------------------------------------
(* Classification of one component set.                                    *)

\* The live lineages whose recorded members the component set touches.
Owners(store, members) ==
  {l \in Live(store) : Latest(store, l).members \cap members # {}}

\* build_partitions for one group: the lineage it continues or starts, the
\* parent it was split off, and the lineages it would have to merge.
Classify(store, members) ==
  LET owners == Owners(store, members)
      owner == CHOOSE l \in owners : TRUE
      recorded == Latest(store, owner).members
      as(id, parents, pending) == [lineage |-> id, parents |-> parents, pending |-> pending]
  IN  CASE owners = {} -> as(GenesisId(members), {}, {})
        [] Cardinality(owners) = 1 /\ recorded = members -> as(owner, {}, {})
        [] Cardinality(owners) = 1 /\ recorded # members /\ members \subseteq recorded
             -> as(SplitId(owner, members), {owner}, {})
        [] Cardinality(owners) = 1 /\ ~(members \subseteq recorded)
             -> as(DivergentId(owner, members), {owner}, {})
        [] Cardinality(owners) > 1 -> as(PendingId(owners, members), {}, owners)

\* A partition identity that leaves the assessment generation out.
PartitionIdOfMembers(p) == <<p.lineage, p.members>>

\* Partitions of one assessment: PartitionId is a digest of lineage,
\* generation and membership.
PartitionId(p) == <<p.lineage, p.generation, p.members>>
=============================================================================
