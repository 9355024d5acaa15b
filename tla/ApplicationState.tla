----------------------------- MODULE ApplicationState -----------------------------
(***************************************************************************)
(* How far an authorization has travelled (src/src/runtime.cpp, the last   *)
(* part): a subject acknowledges a grant, an independent observation       *)
(* verifies its effect, and application_state reports the stage.  Both     *)
(* tables are memory only, bounded and never pruned; they are superposed   *)
(* on PartitionRuntime, which assesses, interrupts and crashes under them. *)
(* A report the runtime refuses changes nothing but the audit log.         *)
(***************************************************************************)
EXTENDS PartitionRuntime

CONSTANTS
  ReportAttempts,  \* the attempt identities reports carry
  Reports,         \* the capability sets reports carry
  MaxRecords       \* limits.max_attempt_records, for each of the two tables

ASSUME ApplicationAssumption ==
  /\ \A report \in Reports : report \subseteq AllCapabilities
  /\ MaxRecords \in Nat

VARIABLES
  acks,     \* acknowledgements_
  effects,  \* verified_effects_
  stages,   \* history: the stage a caller was last shown of every grant
  held      \* history: the grants in force when the process last ended

applicationVars == <<acks, effects, stages, held>>

Current(id) == \E i \in DOMAIN partitions : PartitionId(partitions[i]) = id

\* partition_by_id, for an identity of the current assessment.
PartitionById(id) == partitions[CHOOSE i \in DOMAIN partitions : PartitionId(partitions[i]) = id]

Authorized(id) == IF Current(id) THEN PartitionById(id).authorized ELSE {}

-----------------------------------------------------------------------------
(* Reports.                                                                *)

SameReport(r, attempt, id) == r.attempt = attempt /\ r.partition = id

\* The acknowledgement table makes room by dropping a record it holds.
StoreAcknowledgementEvicting(a) ==
  \/ Cardinality(acks) < MaxRecords /\ acks' = acks \cup {a}
  \/ Cardinality(acks) = MaxRecords /\ \E old \in acks : acks' = (acks \ {old}) \cup {a}

\* The acknowledgement table refuses what does not fit.
StoreAcknowledgement(a) ==
  Cardinality(acks) < MaxRecords /\ acks' = acks \cup {a}

RecordAcknowledgement(attempt, id, accepted, applied) ==
  /\ Idle
  /\ Current(id) /\ Authorized(id) # {}
  /\ \A a \in acks : ~SameReport(a, attempt, id)
  /\ applied \subseteq Authorized(id)
  /\ StoreAcknowledgement([attempt |-> attempt, partition |-> id, accepted |-> accepted,
                           applied |-> applied])
  /\ UNCHANGED effects

Acknowledged(attempt, id) == \E a \in acks : SameReport(a, attempt, id) /\ a.accepted

RecordVerifiedEffect(attempt, id, confirmed) ==
  /\ Idle
  /\ Current(id)
  /\ Acknowledged(attempt, id)
  /\ confirmed \subseteq Authorized(id)
  /\ \A e \in effects : ~SameReport(e, attempt, id)
  /\ Cardinality(effects) < MaxRecords
  /\ effects' = effects \cup {[attempt |-> attempt, partition |-> id, confirmed |-> confirmed]}
  /\ UNCHANGED acks

\* application_state, for any identity a caller may ask about.
Stage(id) ==
  CASE ~Current(id) /\ \E i \in DOMAIN interrupted : interrupted[i].partition = id
         -> "INTERRUPTED"
    [] ~Current(id) /\ \A i \in DOMAIN interrupted : interrupted[i].partition # id -> "REVOKED"
    [] Current(id) /\ Authorized(id) = {} ->
         IF IsInterrupted(interrupted, PartitionById(id).lineage)
         THEN "INTERRUPTED" ELSE "NOT_APPLICABLE"
    [] OTHER ->
         IF \E e \in effects : e.partition = id THEN "VERIFIED"
         ELSE IF \E a \in acks : a.partition = id /\ a.accepted THEN "ACKNOWLEDGED"
         ELSE "ISSUED"

-----------------------------------------------------------------------------

\* The identities of the grants in force.
InForce == {PartitionId(partitions[i]) : i \in Grants(partitions)}

\* A caller that asks between two operations is shown the stage of every grant
\* it has ever been shown.
Show ==
  stages' = IF Idle'
            THEN [id \in DOMAIN stages \cup InForce' |-> Stage(id)']
            ELSE stages

Report ==
  /\ \E attempt \in ReportAttempts, id \in InForce, capabilities \in Reports :
       \/ \E accepted \in BOOLEAN : RecordAcknowledgement(attempt, id, accepted, capabilities)
       \/ RecordVerifiedEffect(attempt, id, capabilities)
  /\ UNCHANGED vars /\ UNCHANGED held

\* A step of the runtime: the tables end with the process.
RuntimeStep ==
  /\ Next
  /\ acks' = IF phase' = "down" THEN {} ELSE acks
  /\ effects' = IF phase' = "down" THEN {} ELSE effects
  /\ held' = IF phase' # "down" THEN held ELSE IF wal = <<>> THEN InForce ELSE {}

ApplicationInit == Init /\ acks = {} /\ effects = {} /\ stages = <<>> /\ held = {}

ApplicationNext == (RuntimeStep \/ Report) /\ Show

ApplicationSpec == ApplicationInit /\ [][ApplicationNext]_<<vars, applicationVars>>

-----------------------------------------------------------------------------
(* Properties.                                                             *)

\* "A verified effect is refused unless an accepted acknowledgement exists for
\* the same attempt and partition, and unless the confirmed set is inside the
\* authorized set" (README.md:172-174), as what VERIFIED means whenever it is reported:
\* through new assessments that change what a lineage may do, no grant inherits
\* the reports of an earlier one.
VerifiedIsJustified ==
  \A id \in InForce :
    Stage(id) = "VERIFIED" =>
      \E e \in effects, a \in acks :
        /\ e.partition = id /\ a.partition = id /\ a.attempt = e.attempt /\ a.accepted
        /\ (a.applied \cup e.confirmed) \subseteq Authorized(id)

Rank == [ISSUED |-> 1, ACKNOWLEDGED |-> 2, VERIFIED |-> 3, INTERRUPTED |-> 4, REVOKED |-> 4]

\* What a caller was shown of a grant only moves on: issued, acknowledged,
\* verified, gone; and a grant that is gone never comes back under its identity,
\* however many assessments, interruptions and restarts follow.
ApplicationNeverRegresses ==
  [][\A id \in DOMAIN stages : Rank[stages'[id]] >= Rank[stages[id]]]_<<vars, applicationVars>>

\* "Every authority that existed before the restart becomes INTERRUPTED: it is
\* reported, it stays observable" (README.md:247-248): the first answer of the next
\* incarnation about a grant that was in force when the process ended is
\* INTERRUPTED, not REVOKED.
RestartInterrupts ==
  [][phase = "down" /\ phase' = "up" =>
       \A id \in held : Stage(id)' = "INTERRUPTED"]_<<vars, applicationVars>>

-----------------------------------------------------------------------------
(* What the code does not ensure.                                          *)

\* A grant that was fenced is not acknowledged afterwards.  A policy change, a
\* new topology and a retirement fence the grants in force and leave them in
\* the current assessment, where record_acknowledgement finds them.
FencedNotAcknowledged ==
  [][\A a \in acks' \ acks :
       \A i \in DOMAIN fences : fences[i].partition # a.partition]_<<vars, applicationVars>>

\* The subject of a grant in force can report applying it.  The tables are
\* never pruned: once full, they refuse every later report until a restart.
ReportAccepted ==
  \A id \in InForce :
    (\A a \in acks : a.partition # id) => Cardinality(acks) < MaxRecords
=============================================================================
