------------------------------ MODULE DecisionAudit ------------------------------
(***************************************************************************)
(* The decisions of the runtime and their audit log (src/src/runtime.cpp,  *)
(* src/src/decision.cpp): who gets which identity, when a decision is      *)
(* published, which record names it, and what a restart replays.  What an  *)
(* operation decides is left open; PartitionRuntime has the grounds.       *)
(*                                                                         *)
(* As there, an operation is one action on memory and leaves its records,  *)
(* in commit order, in `wal'; the process may die between two commits.     *)
(* Appends succeed.  The first 32 bits of a boot identity, which is all    *)
(* that a decision identity carries of it, are taken to be unique.         *)
(***************************************************************************)
EXTENDS Naturals, Sequences

CONSTANTS
  MaxHistory,  \* limits.max_decision_history
  MaxBoots     \* bound of the model

ASSUME AuditAssumption == MaxHistory \in Nat \ {0} /\ MaxBoots \in Nat

VARIABLES
  serving,     \* the coordinator process runs
  boot,        \* state_.boot: the number of this incarnation
  epoch,       \* state_.epoch
  sequence,    \* state_.decision_sequence
  floor,       \* state_.attempt_sequence
  assessment,  \* assessment_.decision
  log,         \* decisions_.entries()
  dropped,     \* decisions_.dropped()
  wal,         \* the records the running operation has yet to commit
  disk         \* what a load of the durable store would replay: the decisions in
               \* order, what the lineage records name, the last epoch state

auditVars == <<serving, boot, epoch, sequence, floor, assessment, log, dropped, wal, disk>>

\* Nobody holds the runtime's mutex.
Free == serving /\ wal = <<>>

NoDecision == [id |-> <<0, 0>>, kind |-> "nil"]

-----------------------------------------------------------------------------
(* Identities, records and publication.                                    *)

\* A decision identity that is the sequence alone.
DecisionIdOfSequence(s) == <<s, 0>>

\* d<sequence>-<boot>
DecisionId(s) == <<s, boot>>

\* The n-th identity the operation takes from the sequence.
Decided(n, kind) == [id |-> DecisionId(sequence + n), kind |-> kind]

Record(type, body) == [type |-> type, body |-> body]

DecisionRecord(d) == Record("Decision", d)

\* A lineage record that is made before the decision has its identity.
LineageRecordUnassigned(d) == Record("Lineage", <<d.id[1] - 1, d.id[2]>>)

LineageRecord(d) == Record("Lineage", d.id)
EpochState(e, s, a) == Record("EpochState", [epoch |-> e, sequence |-> s, attempt |-> a])

\* A topology or a policy.
InputRecord == Record("Input", <<>>)

\* DecisionLog::append: the oldest entries make room.
Window(entries) ==
  SubSeq(entries, IF Len(entries) > MaxHistory THEN Len(entries) - MaxHistory + 1 ELSE 1,
         Len(entries))

\* finalize_decision, for the decisions of an operation in publication order;
\* the operation leaves `records' to commit.
Publish(decisions, records) ==
  LET entries == log \o decisions
  IN  /\ sequence' = sequence + Len(decisions)
      /\ log' = Window(entries)
      /\ dropped' = dropped + (Len(entries) - Len(Window(entries)))
      /\ wal' = records
      /\ UNCHANGED <<serving, boot, epoch, disk>>

\* An assessment that is denied leaves its decision; one that is made also
\* leaves the lineage it records, which names the decision, and the counters.
Outcomes == {"denied", "settled", "recorded"}

AssessRecords(d, outcome, attempt) ==
  <<DecisionRecord(d)>>
    \o (IF outcome = "recorded" THEN <<LineageRecord(d)>> ELSE <<>>)
    \o (IF outcome = "denied" THEN <<>> ELSE <<EpochState(epoch, d.id[1], attempt)>>)

Assessed(n, outcome) == Decided(n, IF outcome = "denied" THEN "denial" ELSE "assess")

-----------------------------------------------------------------------------
(* Operations.                                                             *)

\* adopt_topology, set_policy: a definition that changes something is durable
\* before its decision is.  A refusal changes nothing, nor do the reports of
\* acknowledgements and effects.
Input(changes) ==
  /\ Free
  /\ LET d == Decided(1, "input")
     IN  Publish(<<d>>, (IF changes THEN <<InputRecord>> ELSE <<>>) \o <<DecisionRecord(d)>>)
  /\ UNCHANGED <<floor, assessment>>

\* ingest_evidence: the one decision that is not durable.
Ingest ==
  /\ Free
  /\ Publish(<<Decided(1, "ingest")>>, <<>>)
  /\ UNCHANGED <<floor, assessment>>

\* assess: its decision becomes the decision of the last assessment.
Assess(outcome) ==
  /\ Free
  /\ LET d == Assessed(1, outcome)
     IN  Publish(<<d>>, AssessRecords(d, outcome, floor)) /\ assessment' = d
  /\ UNCHANGED floor

\* A governed request whose attempt is not above the floor.
RefuseAttempt(n) ==
  /\ Free /\ n <= floor
  /\ LET d == Decided(1, "request") IN Publish(<<d>>, <<DecisionRecord(d)>>)
  /\ UNCHANGED <<floor, assessment>>

\* check_attempt and record_attempt.
Admit(n) == Free /\ n > floor /\ floor' = n

\* A governed request that is admitted and then denied.
Deny(n) ==
  /\ Admit(n)
  /\ LET d == Decided(1, "request") IN Publish(<<d>>, <<DecisionRecord(d)>>)
  /\ UNCHANGED assessment

\* isolate and clear_isolation when the identity is taken first and the decision
\* is published after the assessment.
DirectPublishedLast(n, outcome) ==
  /\ Admit(n)
  /\ LET own == Decided(1, "request")
         d   == Assessed(2, outcome)
     IN  /\ Publish(<<d, own>>, AssessRecords(d, outcome, n) \o <<DecisionRecord(own)>>)
         /\ assessment' = d

\* isolate and clear_isolation: "the directive decision is appended in sequence
\* order before the assessment it triggers".
Direct(n, outcome) ==
  /\ Admit(n)
  /\ LET own == Decided(1, "request")
         d   == Assessed(2, outcome)
     IN  /\ Publish(<<own, d>>, <<DecisionRecord(own)>> \o AssessRecords(d, outcome, n))
         /\ assessment' = d

\* retire: the record that names the decision is committed first.  (A merge whose
\* record the lineage store refuses ends here too.)
RetireLineage(n) ==
  /\ Admit(n)
  /\ LET d == Decided(1, "request")
     IN  Publish(<<d>>, <<LineageRecord(d), DecisionRecord(d)>>)
  /\ UNCHANGED assessment

\* request_merge that is granted: the same, and then the assessment.
MergeLineages(n, outcome) ==
  /\ Admit(n)
  /\ LET own == Decided(1, "request")
         d   == Assessed(2, outcome)
     IN  /\ Publish(<<own, d>>, <<LineageRecord(own), DecisionRecord(own)>>
                                   \o AssessRecords(d, outcome, n))
         /\ assessment' = d

\* revalidate: the assessment first, then its own decision.
Revalidate(n, outcome) ==
  /\ Admit(n)
  /\ LET d   == Assessed(1, outcome)
         own == Decided(2, "request")
     IN  /\ Publish(<<d, own>>, AssessRecords(d, outcome, n) \o <<DecisionRecord(own)>>)
         /\ assessment' = d

-----------------------------------------------------------------------------
(* Start, commit and crash.                                                *)

AuditInit ==
  /\ serving = FALSE /\ boot = 0
  /\ epoch = 1 /\ sequence = 0 /\ floor = 0 /\ assessment = NoDecision
  /\ log = <<>> /\ dropped = 0
  /\ wal = <<>>
  /\ disk = [decisions |-> <<>>, lineage |-> {},
             state |-> [epoch |-> 1, sequence |-> 0, attempt |-> 0]]

\* The constructor: the counters are those of the last epoch state, the audit
\* log is what the journal holds, and the new epoch is committed.
Start ==
  /\ ~serving /\ boot < MaxBoots
  /\ epoch' = disk.state.epoch + 1
  /\ sequence' = disk.state.sequence
  /\ floor' = disk.state.attempt
  /\ wal' = <<EpochState(disk.state.epoch + 1, disk.state.sequence, disk.state.attempt)>>
  /\ log' = Window(disk.decisions)
  /\ dropped' = Len(disk.decisions) - Len(Window(disk.decisions))
  /\ serving' = TRUE /\ boot' = boot + 1 /\ assessment' = NoDecision
  /\ UNCHANGED disk

\* commit_record.
Flush ==
  /\ serving /\ wal # <<>>
  /\ LET r == Head(wal)
     IN  disk' = CASE r.type = "Decision"   -> [disk EXCEPT !.decisions = Append(@, r.body)]
                   [] r.type = "Lineage"    -> [disk EXCEPT !.lineage = @ \cup {r.body}]
                   [] r.type = "EpochState" -> [disk EXCEPT !.state = r.body]
                   [] r.type = "Input"      -> disk
  /\ wal' = Tail(wal)
  /\ UNCHANGED <<serving, boot, epoch, sequence, floor, assessment, log, dropped>>

\* The process dies; memory is gone.
Crash ==
  /\ serving
  /\ serving' = FALSE
  /\ epoch' = 1 /\ sequence' = 0 /\ floor' = 0 /\ assessment' = NoDecision
  /\ log' = <<>> /\ dropped' = 0 /\ wal' = <<>>
  /\ UNCHANGED <<boot, disk>>

-----------------------------------------------------------------------------
(* Properties.                                                             *)

\* A decision identity means one decision, in the audit log and on disk, over
\* any number of crashes: although the decision sequence falls back to the last
\* epoch state at every restart, no identity is given out twice.
DecisionIdsNeverReused ==
  LET decisions == disk.decisions
  IN  /\ \A i, j \in DOMAIN decisions : decisions[i].id = decisions[j].id => i = j
      /\ \A i, j \in DOMAIN log : log[i].id = log[j].id => i = j
      /\ \A i \in DOMAIN log, j \in DOMAIN decisions :
           log[i].id = decisions[j].id => log[i] = decisions[j]

\* Decisions of one incarnation are in the order of their sequences.
InOrder(decisions) ==
  \A i, j \in DOMAIN decisions :
    i < j /\ decisions[i].id[2] = decisions[j].id[2] => decisions[i].id[1] < decisions[j].id[1]

\* "The audit log is always monotonic in sequence even when one operation
\* triggers another" (README.md:564-565), within an incarnation: in the log and on disk,
\* through the assessments that requests trigger.
SequencesAdvance == InOrder(log) /\ InOrder(disk.decisions)

Explained(name) == \E i \in DOMAIN disk.decisions : disk.decisions[i].id = name

\* Whenever no operation is running, every lineage record this incarnation has
\* committed names a decision that is on disk: the audit trail explains every
\* change of lineage, although a merge and a retirement commit the lineage
\* record before the decision it names.
LineageExplained ==
  Free => \A name \in disk.lineage : name[2] = boot => Explained(name)

-----------------------------------------------------------------------------
(* What the documentation says and the code does not do.                   *)

\* The audit log is monotonic in sequence, as README.md:564-565 has it: restarts too.
AuditMonotonic == \A i, j \in DOMAIN log : i < j => log[i].id[1] < log[j].id[1]

\* Every lineage record names a decision on disk, those of an incarnation that
\* died over its commits too.
LineageAlwaysExplained == Free => \A name \in disk.lineage : Explained(name)
=============================================================================
