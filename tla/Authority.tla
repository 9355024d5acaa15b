------------------------------- MODULE Authority -------------------------------
(***************************************************************************)
(* The authority rules: what a policy (src/src/policy.cpp) lets a          *)
(* component set hold, and the fail-closed caps evaluate_authority in      *)
(* src/src/runtime.cpp applies to it.                                      *)
(*                                                                         *)
(* A policy is a record                                                    *)
(*   [full, degraded : quorum requirements,                                *)
(*    weights  : component -> weight, for the components it lists,         *)
(*    voters   : the listed components that vote,                          *)
(*    readonly, reduced : the READ_ONLY and DEGRADED capability sets,      *)
(*    maxAge   : max_evidence_age_ticks,                                   *)
(*    multiple : allow_multiple_authoritative_partitions,                  *)
(*    downgrade, writeConfirmed, readConfirmed : the three rules for an    *)
(*               unconfirmed decomposition]                                *)
(* and a requirement [components, voters, weight, majority, domain].       *)
(***************************************************************************)
EXTENDS Integers, FiniteSets, FiniteSetsExt

\* PartitionAuthorityClass, strongest first.
Primary     == 1
Degraded    == 2
ReadOnly    == 3
ObserveOnly == 4
Isolated    == 5

Weaker(lhs, rhs) == IF lhs >= rhs THEN lhs ELSE rhs

AllCapabilities == {"OBSERVE", "SERVE_READS", "SERVE_WRITES", "ADMIT_MUTATIONS",
                    "COMMIT_DURABILITY", "ISSUE_LEASES", "PUBLISH_DECISIONS"}

CapabilitiesForClass(policy, class) ==
  CASE class = Primary     -> AllCapabilities
    [] class = Degraded    -> policy.reduced
    [] class = ReadOnly    -> policy.readonly
    [] class = ObserveOnly -> {"OBSERVE"}
    [] OTHER               -> {}

-----------------------------------------------------------------------------
(* The quorum.                                                             *)

WeightOf(policy, members) ==
  MapThenSumSet(LAMBDA c : policy.weights[c], members \cap DOMAIN policy.weights)

\* A requirement without a domain weight gets the policy's when the policy is
\* canonicalised.
Domain(policy, requirement) ==
  IF requirement.domain = 0 THEN WeightOf(policy, DOMAIN policy.weights)
                            ELSE requirement.domain

SatisfiedBy(policy, requirement, members) ==
  LET weight == WeightOf(policy, members)
      domain == Domain(policy, requirement)
  IN  /\ Cardinality(members) >= requirement.components
      /\ Cardinality(members \cap policy.voters) >= requirement.voters
      /\ weight >= requirement.weight
      /\ requirement.majority => weight > domain \/ weight > domain - weight

QuorumClass(policy, members) ==
  CASE SatisfiedBy(policy, policy.full, members) -> Primary
    [] ~SatisfiedBy(policy, policy.full, members)
       /\ SatisfiedBy(policy, policy.degraded, members) -> Degraded
    [] OTHER -> Isolated

-----------------------------------------------------------------------------
(* The caps.                                                               *)

\* The cap of the snapshot alone, whatever is pending.
EvidenceCapIgnoringPending(policy, snapshot, pending) ==
  IF ~snapshot.fresh \/ ~snapshot.confirmed THEN ObserveOnly ELSE Primary

\* What the snapshot and a pending merge leave of a class.
EvidenceCap(policy, snapshot, pending) ==
  LET unconfirmed(rule, cap) == IF ~snapshot.confirmed /\ rule THEN {cap} ELSE {}
      caps == (IF pending # {} \/ ~snapshot.fresh THEN {ObserveOnly} ELSE {})
              \cup unconfirmed(policy.downgrade, Degraded)
              \cup unconfirmed(policy.writeConfirmed, ReadOnly)
              \cup unconfirmed(policy.readConfirmed, ObserveOnly)
  IN  Max(caps \cup {Primary})

\* The caps without the one for an interrupted lineage.
CappedIgnoringInterruption(policy, snapshot, p, isolated, interrupted) ==
  IF isolated THEN Isolated
  ELSE Weaker(QuorumClass(policy, p.members), EvidenceCap(policy, snapshot, p.pending))

\* One partition before the split-brain rule.
Capped(policy, snapshot, p, isolated, interrupted) ==
  LET class == IF isolated THEN Isolated
               ELSE Weaker(QuorumClass(policy, p.members),
                           EvidenceCap(policy, snapshot, p.pending))
  IN  IF interrupted THEN Weaker(class, ObserveOnly) ELSE class

\* The classes without the split-brain rule.
FinalClassesUnarbitrated(policy, capped) == capped

\* Split brain: more than one PRIMARY reduces every one of them.
FinalClasses(policy, capped) ==
  [i \in DOMAIN capped |->
     IF /\ ~policy.multiple /\ capped[i] = Primary
        /\ \E j \in DOMAIN capped : j # i /\ capped[j] = Primary
     THEN ObserveOnly ELSE capped[i]]
=============================================================================
