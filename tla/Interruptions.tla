------------------------------ MODULE Interruptions ------------------------------
(***************************************************************************)
(* PartitionRuntime with a history of the interruptions it owes: a lineage *)
(* enters `owed' when it is interrupted and leaves it when a running       *)
(* operation (revalidate, a merge or a retirement) ends the interruption.  *)
(* A crash ends none.                                                      *)
(***************************************************************************)
EXTENDS MCPartitionRuntime

VARIABLE owed

LineagesOf(entries) == {entries[i].lineage : i \in DOMAIN entries}

Owe ==
  LET ended == IF phase = "up" /\ phase' = "up"
               THEN LineagesOf(interrupted) \ LineagesOf(interrupted') ELSE {}
  IN  owed' = (owed \cup LineagesOf(interrupted')) \ ended

HistorySpec == Init /\ owed = {} /\ [][Next /\ Owe]_<<vars, owed>>

\* An authority that existed before a restart is capped at OBSERVE_ONLY until
\* it is revalidated (or its lineage merged or retired), however many restarts
\* there are in between.
CappedUntilRevalidated ==
  [][Assessed => \A i \in DOMAIN partitions' :
       partitions'[i].lineage \in owed' => partitions'[i].class >= ObserveOnly]_<<vars, owed>>
=============================================================================
