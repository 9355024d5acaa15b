--------------------------- MODULE MCPartitionRuntime ---------------------------
(***************************************************************************)
(* Instances of PartitionRuntime for TLC.                                  *)
(***************************************************************************)
EXTENDS PartitionRuntime

MCOneTopology == <<{1, 2, 3}>>

\* Component 1 leaves.
MCTwoTopologies == <<{1, 2, 3}, {2, 3}>>

Requirement(components, weight, majority) ==
  [components |-> components, voters |-> 0, weight |-> weight, majority |-> majority, domain |-> 0]

Rules(full, degraded, confirm, multiple) ==
  [full |-> full, degraded |-> degraded, weights |-> [c \in 1..3 |-> 1], voters |-> {},
   reduced |-> {"OBSERVE", "SERVE_READS", "PUBLISH_DECISIONS"},
   readonly |-> {"OBSERVE", "SERVE_READS"}, maxAge |-> 0, multiple |-> multiple,
   downgrade |-> confirm, writeConfirmed |-> confirm, readConfirmed |-> FALSE]

\* A strict majority of the weight, and confirmed decompositions.
Majority == Rules(Requirement(1, 0, TRUE), Requirement(2, 0, FALSE), TRUE, FALSE)

\* A quorum several partitions can satisfy at once.
Anybody == Rules(Requirement(1, 1, FALSE), Requirement(1, 0, FALSE), FALSE, FALSE)

\* The same, and several may be PRIMARY.
Everybody == Rules(Requirement(1, 1, FALSE), Requirement(1, 0, FALSE), FALSE, TRUE)

MCMajority == <<Majority>>
MCEverybody == <<Everybody>>
MCAnybody == <<Anybody>>
MCTwoPolicies == <<Majority, Anybody>>

\* The complete, consistent claim of a decomposition.
Whole(groups) ==
  [covered |-> UNION groups,
   links |-> {<<p[1], p[2], Reachable>> :
                p \in {q \in (UNION groups) \X (UNION groups) :
                         q[1] # q[2] /\ \E g \in groups : {q[1], q[2]} \subseteq g}}]

MCJoined == {Whole({{1, 2, 3}})}
MCSplits == {Whole({{1, 2, 3}}), Whole({{1, 2}, {3}})}
MCShifts == {Whole({{1, 2}, {3}}), Whole({{1}, {2, 3}})}
MCMerges == {Whole({{1, 2}, {3}}), Whole({{1, 2, 3}})}
MCLeaves == {Whole({{1, 2, 3}}), Whole({{1, 2}, {3}}), Whole({{2, 3}})}
=============================================================================
