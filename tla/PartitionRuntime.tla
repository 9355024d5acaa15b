---------------------------- MODULE PartitionRuntime ----------------------------
(***************************************************************************)
(* The coordinator runtime (src/src/runtime.cpp) over its durable store.   *)
(*                                                                         *)
(* One mutex serialises every operation, so an operation is one action on  *)
(* memory.  What is not atomic is what it makes durable: an operation      *)
(* commits several records, one after the other, and the process may die   *)
(* between two of them.  An action therefore queues its records in `wal',  *)
(* Flush commits the first of them, and Crash may strike at any point.     *)
(* While `wal' is not empty the operation still holds the mutex and its    *)
(* caller has seen nothing of it.                                          *)
(*                                                                         *)
(* Decisions and the audit log are in DecisionAudit, reasons nowhere; nor  *)
(* are the exhaustion of a 64-bit counter and the text of an attempt.      *)
(***************************************************************************)
EXTENDS EvidenceLedger, Lineage, Authority, Sequences, SequencesExt

CONSTANTS
  Topologies,      \* rosters in generation order; a roster is a set of numbers
  Policies,        \* policies in generation order; the first is options.policy
  Claims,          \* the [covered, links] evidence may carry
  Requests,        \* the kinds of governed request clients send
  IoOutcomes,      \* whether the appends of an operation succeed: {TRUE} or BOOLEAN
  Durations,       \* isolation durations, 0 for "until cleared"
  TickSteps,       \* the clock advances by one of these
  TickModulus,     \* a tick is an unsigned integer below this (2^64 in the code)
  Validity,        \* validity_ticks of the evidence
  MaxPartitions,   \* limits.max_partitions
  MaxFences,       \* limits.max_fence_records
  MaxIsolations,   \* limits.max_revalidations_retained
  MaxEpoch, MaxTick, MaxAttempts, MaxGenerations   \* bounds of the model

ASSUME RuntimeAssumption ==
  /\ Policies \in Seq(Range(Policies)) /\ Len(Policies) > 0
  /\ Topologies \in Seq(Range(Topologies))
  /\ \A roster \in Range(Topologies) : roster \subseteq Nat /\ IsFiniteSet(roster)
  /\ Requests \subseteq {"merge", "isolate", "clear", "retire", "revalidate"}
  /\ IoOutcomes \subseteq BOOLEAN
  /\ Durations \subseteq Nat /\ TickSteps \subseteq Nat \ {0} /\ Validity \in Nat \ {0}
  /\ MaxPartitions \in Nat /\ MaxFences \in Nat /\ MaxIsolations \in Nat
  /\ TickModulus \in Nat /\ MaxTick < TickModulus
  /\ MaxEpoch \in Nat /\ MaxTick \in Nat /\ MaxAttempts \in Nat /\ MaxGenerations \in Nat

VARIABLES
  phase,        \* "down", "up", "closed", or "refused": the constructor threw
  st,           \* state_ without its live grants: the counters and the clock
  policy,       \* policy_, an index into Policies
  topology,     \* topology_, an index into Topologies, 0 while roster_set_ is false
  ledger,       \* ledger_
  store,        \* lineage_
  snapshot,     \* snapshot_: [groups, fresh, confirmed]
  partitions,   \* partitions_
  interrupted,  \* interrupted_
  isolations,   \* isolations_
  fences,       \* fences_
  wal,          \* records the running operation has yet to commit
  disk,         \* what a load of the durable store would replay
  seen          \* history: the highest counters a caller was ever shown

vars == <<phase, st, policy, topology, ledger, store, snapshot, partitions, interrupted,
          isolations, fences, wal, disk, seen>>
memory == <<policy, topology, ledger, store, snapshot, partitions, interrupted, isolations, fences>>

Idle == phase = "up" /\ wal = <<>>

NewState == [epoch |-> 1, generation |-> 0, authority |-> 0, lineage |-> 0, fence |-> 0,
             attempt |-> 0, tick |-> 0]

NoSnapshot == [groups |-> {}, fresh |-> FALSE, confirmed |-> FALSE]

-----------------------------------------------------------------------------
(* Publication: the caller sees the outcome once nothing is left to commit. *)

\* The elements of a sequence at some of its places, in order.  (SelectSeq
\* without its recursion, so that its length can be reasoned about.)
At(s, places) ==
  [k \in 1..Cardinality(places) |->
     s[CHOOSE i \in places : Cardinality({j \in places : j <= i}) = k]]

Grants(ps) == {i \in DOMAIN ps : ps[i].authorized # {}}
Granted(ps) == At(ps, Grants(ps))

Shown(s, ps) ==
  [epoch     |-> Max({seen.epoch, s.epoch}),
   attempt   |-> Max({seen.attempt, s.attempt}),
   tick      |-> Max({seen.tick, s.tick}),
   authority |-> Max({seen.authority} \cup {ps[i].authority : i \in DOMAIN ps})]

\* The operation leaves `records' to commit, or returns at once.
Return(s, ps, records) ==
  /\ wal' = records
  /\ seen' = IF records = <<>> THEN Shown(s, ps) ELSE seen

Record(type, body) == [type |-> type, body |-> body]

\* The records of a kind, in commit order.
RecordsOf(type, bodies) == [i \in DOMAIN bodies |-> Record(type, bodies[i])]

\* The marks of the live grants, those that only observe left out.
MarksOfActors(ps) ==
  LET granted == At(ps, {i \in Grants(ps) : ps[i].authorized # {"OBSERVE"}})
  IN  [i \in DOMAIN granted |-> [partition |-> PartitionId(granted[i]),
                                 lineage   |-> granted[i].lineage,
                                 authority |-> granted[i].authority]]

\* The marks of the grants that are live; never read back but by a restart.
Marks(ps) ==
  LET granted == Granted(ps)
  IN  [i \in DOMAIN granted |-> [partition |-> PartitionId(granted[i]),
                                 lineage   |-> granted[i].lineage,
                                 authority |-> granted[i].authority]]

\* An epoch state that leaves the authority sequence out.
EpochStateNoAuthority(s, ps) ==
  Record("EpochState", [state |-> [s EXCEPT !.authority = 0], live |-> Marks(ps)])

EpochState(s, ps) == Record("EpochState", [state |-> s, live |-> Marks(ps)])

-----------------------------------------------------------------------------
(* Fences.                                                                 *)

\* One fence per target [partition, authority, epoch].  f<sequence>-<boot>: a boot
\* identity is named by the epoch that is committed with it.
MakeFences(s, targets) ==
  [i \in DOMAIN targets |->
     [id |-> <<s.fence + i, s.epoch>>, partition |-> targets[i].partition,
      authority |-> targets[i].authority, epoch |-> targets[i].epoch]]

\* store_fence drops what does not fit, without a trace.
Fitting(held, new) ==
  SubSeq(new, 1, Min({Len(new), Max({MaxFences - Len(held), 0})}))

\* The targets of the fences for a sequence of partitions.
FenceTargets(ps, epoch) ==
  [i \in DOMAIN ps |-> [partition |-> PartitionId(ps[i]), authority |-> ps[i].authority,
                        epoch |-> epoch]]

-----------------------------------------------------------------------------
(* Assessment.                                                             *)

LineageRecord(sequence, p, event, parents) ==
  [sequence |-> sequence, lineage |-> p.lineage, generation |-> p.generation,
   members |-> p.members, event |-> event, parents |-> parents]

\* The sequence advances with the journal, whether the store takes the record or not.
CommitCounted(acc, r, io) ==
  [store   |-> IF io /\ Appendable(acc.store, r) THEN Append(acc.store, r) ELSE acc.store,
   last    |-> IF io THEN r.sequence ELSE acc.last,
   written |-> IF io THEN Append(acc.written, r) ELSE acc.written]

\* A record that is journalled is offered to the store, which may refuse it;
\* the sequence advances only with the store.
Commit(acc, r, io) ==
  [store   |-> IF io /\ Appendable(acc.store, r) THEN Append(acc.store, r) ELSE acc.store,
   last    |-> IF io /\ Appendable(acc.store, r) THEN r.sequence ELSE acc.last,
   written |-> IF io THEN Append(acc.written, r) ELSE acc.written]

\* Nothing to record, without the check for a record of the same membership.
SettledIfPending(lineages, p, fresh) == ~fresh \/ p.pending # {}

\* Nothing to record: no fresh evidence, a merge to decide first, or a latest
\* record of the same membership.
Settled(lineages, p, fresh) ==
  \/ ~fresh \/ p.pending # {}
  \/ Recorded(lineages, p.lineage) /\ Latest(lineages, p.lineage).members = p.members

CommitPartition(acc, p, fresh, io) ==
  LET event == IF p.parents = {} THEN "GENESIS" ELSE "SPLIT"
  IN  IF Settled(acc.store, p, fresh) THEN acc
      ELSE Commit(acc, LineageRecord(acc.last + 1, p, event, p.parents), io)

\* The lineage step of an assessment, in canonical partition order.
CommitLineage(lineages, last, ps, fresh, io) ==
  LET after[i \in 0..Len(ps)] ==
        IF i = 0 THEN [store |-> lineages, last |-> last, written |-> <<>>]
        ELSE CommitPartition(after[i - 1], ps[i], fresh, io)
  IN  after[Len(ps)]

\* The groups of a decomposition in partition_canonical_less order, by their
\* smallest member; none when there are more than the bound.
CanonicalOrder(groups) ==
  IF Cardinality(groups) > MaxPartitions THEN <<>>
  ELSE [i \in 1..Cardinality(groups) |->
          CHOOSE g \in groups : Cardinality({h \in groups : Min(h) < Min(g)}) = i - 1]

BuildPartitions(lineages, groups, generation) ==
  LET order == CanonicalOrder(groups)
  IN  [i \in DOMAIN order |->
         LET is == Classify(lineages, order[i])
         IN  [lineage |-> is.lineage, parents |-> is.parents, pending |-> is.pending,
              members |-> order[i], generation |-> generation]]

IsIsolated(directives, now, l) ==
  \E i \in DOMAIN directives : /\ directives[i].lineage = l
                               /\ directives[i].expires = 0 \/ now < directives[i].expires

IsInterrupted(entries, l) == \E i \in DOMAIN entries : entries[i].lineage = l

\* evaluate_authority, first half: the class of every partition.
Classes(s, rules, snap, built, directives, entries, restore) ==
  FinalClasses(rules,
    [i \in DOMAIN built |->
       Capped(rules, snap, built[i], IsIsolated(directives, s.tick, built[i].lineage),
              ~restore /\ IsInterrupted(entries, built[i].lineage))])

\* evaluate_authority, second half: what each partition is authorized to do
\* and, if that is anything, the next authority sequence.
EvaluateAuthority(s, rules, snap, built, directives, entries, restore) ==
  LET class == Classes(s, rules, snap, built, directives, entries, restore)
      authorized(i) == CapabilitiesForClass(rules, class[i])
      rank(i) == Cardinality({j \in DOMAIN built : j <= i /\ authorized(j) # {}})
  IN  [i \in DOMAIN built |->
         [lineage |-> built[i].lineage, parents |-> built[i].parents,
          pending |-> built[i].pending, members |-> built[i].members,
          generation |-> built[i].generation, class |-> class[i], authorized |-> authorized(i),
          authority |-> IF authorized(i) = {} THEN 0 ELSE s.authority + rank(i)]]

\* The records of an assessment when the epoch state is forgotten.
AssessmentRecordsNoEpoch(a, io) == RecordsOf("Lineage", a.written)

\* The records of an assessment, in commit order.
AssessmentRecords(a, io) ==
  RecordsOf("Lineage", a.written)
    \o (IF io THEN <<EpochState(a.state, a.partitions)>> ELSE <<>>)

\* What the evaluation and the lineage step add up to.
Outcome(s, snap, ps, done) ==
  [snapshot |-> snap, partitions |-> ps, store |-> done.store, written |-> done.written,
   state |-> [s EXCEPT !.generation = @ + 1, !.lineage = done.last,
                       !.authority = @ + Cardinality(Grants(ps))]]

\* assess_locked from the given counters, lineage store, isolations and
\* interruptions: the one outcome it has, as a set.  (A set built from one
\* value names a value that is computed once.)
Assessments(s, lineages, directives, entries, restore, io) ==
  UNION {UNION {
    {Outcome(s, snap, ps, done) :
       done \in {CommitLineage(lineages, s.lineage, ps, snap.fresh, io)}} :
       ps \in {EvaluateAuthority(s, Policies[policy], snap,
                                 BuildPartitions(lineages, snap.groups, s.generation + 1),
                                 directives, entries, restore)}} :
       snap \in {Snapshot(Topologies[topology], topology, ledger.retained,
                          Policies[policy].maxAge, s.tick)}}

\* What an assessment leaves in memory, its counters aside.
Adopt(a) == snapshot' = a.snapshot /\ partitions' = a.partitions /\ store' = a.store

\* The assessment is the last thing the operation does.
Publish(a, before, io) ==
  /\ Adopt(a)
  /\ st' = a.state
  /\ Return(a.state, a.partitions, before \o AssessmentRecords(a, io))

-----------------------------------------------------------------------------
(* Start, crash and shutdown.                                              *)

Init ==
  /\ phase = "down"
  /\ st = NewState
  /\ policy = 1 /\ topology = 0
  /\ ledger = EmptyLedger /\ store = <<>>
  /\ snapshot = NoSnapshot /\ partitions = <<>>
  /\ interrupted = <<>> /\ isolations = <<>> /\ fences = <<>>
  /\ wal = <<>>
  /\ disk = [state |-> NewState, live |-> <<>>, policy |-> 1, topology |-> 0,
             lineage |-> <<>>, fences |-> <<>>]
  /\ seen = [epoch |-> 0, attempt |-> 0, tick |-> 0, authority |-> 0]

\* The durable lineage replays without a refusal.
Consistent(lineages) ==
  \A i \in 1..Len(lineages) : Appendable(SubSeq(lineages, 1, i - 1), lineages[i])

\* The grants the last epoch state names, as interruptions of its epoch.
RestoredInterruptions(image) ==
  [i \in DOMAIN image.live |->
     [partition |-> image.live[i].partition, lineage |-> image.live[i].lineage,
      authority |-> image.live[i].authority, epoch |-> image.state.epoch]]

LastFences(all) == SubSeq(all, Max({1, Len(all) - MaxFences + 1}), Len(all))

\* A start that does not commit the new epoch.
StartRecordsNoEpoch(new, s) == RecordsOf("Fence", new)

\* What a start commits: fences for the interrupted grants, still under the
\* old boot, then the new epoch with no live grant.
StartRecords(new, s) == RecordsOf("Fence", new) \o <<EpochState(s, <<>>)>>

\* The constructor and restore_from_records, on an image it accepts.
Start ==
  /\ phase = "down" /\ disk.state.epoch < MaxEpoch /\ Consistent(disk.lineage)
  /\ LET entries == RestoredInterruptions(disk)
         kept    == LastFences(disk.fences)
         new     == MakeFences(disk.state, entries)
         s       == [disk.state EXCEPT !.fence = @ + Len(new), !.epoch = @ + 1]
         stored  == Fitting(kept, new)
     IN  /\ st' = s
         /\ interrupted' = entries
         /\ fences' = kept \o stored
         /\ Return(s, <<>>, StartRecords(stored, s))
  /\ phase' = "up"
  /\ policy' = disk.policy /\ topology' = disk.topology /\ store' = disk.lineage
  /\ ledger' = EmptyLedger /\ snapshot' = NoSnapshot /\ partitions' = <<>> /\ isolations' = <<>>
  /\ UNCHANGED disk

\* The constructor on an image it refuses: "the durable lineage is not
\* self-consistent".
Refuse ==
  /\ phase = "down" /\ ~Consistent(disk.lineage)
  /\ phase' = "refused"
  /\ UNCHANGED <<st, wal, disk, seen>> /\ UNCHANGED memory

\* The process ends, in order after close() or by being killed at any point.
Crash ==
  /\ phase \in {"up", "closed"}
  /\ phase' = "down"
  /\ st' = NewState /\ policy' = 1 /\ topology' = 0
  /\ ledger' = EmptyLedger /\ store' = <<>> /\ snapshot' = NoSnapshot /\ partitions' = <<>>
  /\ interrupted' = <<>> /\ isolations' = <<>> /\ fences' = <<>> /\ wal' = <<>>
  /\ UNCHANGED <<disk, seen>>

\* commit_record for the next record of the running operation.
Flush ==
  /\ phase = "up" /\ wal # <<>>
  /\ LET r == Head(wal)
     IN  disk' = CASE r.type = "EpochState" -> [disk EXCEPT !.state = r.body.state,
                                                             !.live = r.body.live]
                   [] r.type = "Policy"     -> [disk EXCEPT !.policy = r.body]
                   [] r.type = "Topology"   -> [disk EXCEPT !.topology = r.body]
                   [] r.type = "Lineage"    -> [disk EXCEPT !.lineage = Append(@, r.body)]
                   [] r.type = "Fence"      -> [disk EXCEPT !.fences = Append(@, r.body)]
  /\ Return(st, partitions, Tail(wal))
  /\ UNCHANGED <<phase, st>> /\ UNCHANGED memory

Close ==
  /\ Idle
  /\ phase' = "closed"
  /\ UNCHANGED <<st, wal, disk, seen>> /\ UNCHANGED memory

-----------------------------------------------------------------------------
(* Inputs.                                                                 *)

\* The sum is checked: the clock stops short of its width.
AdvanceTicks(delta) ==
  /\ Idle /\ st.tick + delta <= MaxTick
  /\ LET s == [st EXCEPT !.tick = @ + delta]
     IN  st' = s /\ Return(s, partitions, <<>>)
  /\ UNCHANGED <<phase, disk>> /\ UNCHANGED memory

\* interrupt_all_authority: every partition that holds a grant is interrupted
\* and fenced; `first' is the record already committed.
InterruptAll(first) ==
  LET granted == Granted(partitions)
      new     == MakeFences(st, FenceTargets(granted, st.epoch))
      stored  == Fitting(fences, new)
      s       == [st EXCEPT !.authority = @ + Len(granted), !.fence = @ + Len(new)]
  IN  /\ interrupted' = interrupted \o
           [i \in DOMAIN granted |->
              [partition |-> PartitionId(granted[i]), lineage |-> granted[i].lineage,
               authority |-> granted[i].authority, epoch |-> st.epoch]]
      /\ fences' = fences \o stored
      /\ st' = s
      /\ Return(s, partitions, <<first>> \o RecordsOf("Fence", stored))

\* adopt_topology for a later generation.  The partitions and the snapshot of
\* the old one stay in place.
AdoptTopology(g) ==
  /\ Idle /\ g > topology
  /\ IF topology # 0
     THEN InterruptAll(Record("Topology", g))
     ELSE /\ Return(st, partitions, <<Record("Topology", g)>>)
          /\ UNCHANGED <<interrupted, fences, st>>
  /\ topology' = g
  /\ ledger' = EmptyLedger
  /\ UNCHANGED <<phase, policy, store, snapshot, partitions, isolations, disk>>

SetPolicy(g) ==
  /\ Idle /\ g > policy
  /\ InterruptAll(Record("Policy", g))
  /\ policy' = g
  /\ UNCHANGED <<phase, topology, ledger, store, snapshot, partitions, isolations, disk>>

\* The next bundle of one publisher, observed now against this topology;
\* EvidenceIntake has the publishers that deliver late, twice or after a
\* restart.
NextBundle(claim) ==
  [publisher |-> "publisher", boot |-> 1,
   sequence |-> IF "publisher" \in DOMAIN ledger.cursors
                THEN ledger.cursors["publisher"].last + 1 ELSE 1,
   topology |-> topology, observed |-> st.tick, validity |-> Validity,
   covered |-> claim.covered, links |-> claim.links]

IngestEvidence(claim) ==
  /\ Idle /\ topology # 0
  /\ Acceptable(ledger, NextBundle(claim), Topologies[topology], topology,
                Policies[policy].maxAge, st.tick)
  /\ ledger' = Accept(ledger, NextBundle(claim))
  /\ Return(st, partitions, <<>>)
  /\ UNCHANGED <<phase, st, policy, topology, store, snapshot, partitions, interrupted,
                 isolations, fences, disk>>

-----------------------------------------------------------------------------
(* Assessment and the governed requests.                                   *)

CanAssess == topology # 0 /\ st.generation < MaxGenerations

Assess(io) ==
  /\ Idle /\ CanAssess
  /\ \E a \in Assessments(st, store, isolations, interrupted, FALSE, io) : Publish(a, <<>>, io)
  /\ UNCHANGED <<phase, policy, topology, ledger, interrupted, isolations, fences, disk>>

\* check_attempt: the token must be above the floor; record_attempt makes it
\* the floor, whatever becomes of the request.
Admits(kind, n) == Idle /\ kind \in Requests /\ n > st.attempt
Admitted(n) == [st EXCEPT !.attempt = n]

\* A request that is admitted and then denied: a wrong epoch, an unknown
\* subject, a failed check, or an append that fails.
DenyRequest(n) ==
  /\ \E kind \in Requests : Admits(kind, n)
  /\ st' = Admitted(n)
  /\ Return(st', partitions, <<>>)
  /\ UNCHANGED <<phase, disk>> /\ UNCHANGED memory

\* expires_at_tick: the sum is not checked and wraps.
ExpiresAt(duration) == IF duration = 0 THEN 0 ELSE (st.tick + duration) % TickModulus

Isolate(n, l, duration, io) ==
  /\ Admits("isolate", n) /\ CanAssess
  /\ Recorded(store, l) /\ Len(isolations) < MaxIsolations
  /\ LET directives == Append(isolations, [lineage |-> l, expires |-> ExpiresAt(duration)])
     IN  /\ isolations' = directives
         /\ \E a \in Assessments(Admitted(n), store, directives, interrupted, FALSE, io) :
              Publish(a, <<>>, io)
  /\ UNCHANGED <<phase, policy, topology, ledger, interrupted, fences, disk>>

ClearIsolation(n, l, io) ==
  /\ Admits("clear", n) /\ CanAssess
  /\ LET directives == At(isolations, {i \in DOMAIN isolations : isolations[i].lineage # l})
     IN  /\ isolations' = directives
         /\ \E a \in Assessments(Admitted(n), store, directives, interrupted, FALSE, io) :
              Publish(a, <<>>, io)
  /\ UNCHANGED <<phase, policy, topology, ledger, interrupted, fences, disk>>

\* The interruptions of other lineages.
Outside(entries, lineages) ==
  At(entries, {i \in DOMAIN entries : entries[i].lineage \notin lineages})

\* The record of a governed event: journalled first, then offered to the store.
\* When the store refuses it, the request ends there with the record on disk.
JournalledOnly(n, r) ==
  /\ ~Appendable(store, r)
  /\ st' = Admitted(n)
  /\ Return(st', partitions, <<Record("Lineage", r)>>)
  /\ UNCHANGED <<phase, disk>> /\ UNCHANGED memory

RetireRecord(l) ==
  LineageRecord(st.lineage + 1, Latest(store, l), "RETIRE", {})

\* retire: no assessment and no epoch state follow.
Retire(n, l) ==
  /\ Admits("retire", n)
  /\ Recorded(store, l) /\ Latest(store, l).event # "RETIRE"
  /\ \/ JournalledOnly(n, RetireRecord(l))
     \/ /\ Appendable(store, RetireRecord(l))
        /\ store' = Append(store, RetireRecord(l))
        /\ LET held   == At(partitions, {i \in Grants(partitions) : partitions[i].lineage = l})
               new    == MakeFences(st, FenceTargets(held, st.epoch))
               stored == Fitting(fences, new)
               s      == [Admitted(n) EXCEPT !.lineage = @ + 1, !.fence = @ + Len(new)]
           IN  /\ st' = s
               /\ fences' = fences \o stored
               /\ Return(s, partitions,
                         <<Record("Lineage", RetireRecord(l))>> \o RecordsOf("Fence", stored))
        /\ interrupted' = Outside(interrupted, {l})
        /\ UNCHANGED <<phase, policy, topology, ledger, snapshot, partitions, isolations, disk>>

MergeRecord(subject, left, right) ==
  [sequence |-> st.lineage + 1, lineage |-> MergeId(left, right), generation |-> st.generation,
   members |-> subject.members, event |-> "MERGE", parents |-> {left, right}]

\* The checks of request_merge on a subject of the current assessment.
MayMerge(subject, left, right) ==
  /\ {left, right} \subseteq subject.pending /\ left # right
  /\ snapshot.fresh /\ snapshot.confirmed
  /\ \E relation \in {"UNRELATED", "DIVERGENT"} : relation \in Relate(store, left, right)

\* request_merge: the record, the fence of the subject's grant, the end of the
\* parents' interruptions, and the assessment, whose appends may fail when the
\* merge's own have not.
RequestMerge(n, subject, left, right, io) ==
  /\ Admits("merge", n) /\ CanAssess
  /\ MayMerge(subject, left, right)
  /\ LET r == MergeRecord(subject, left, right)
     IN  \/ JournalledOnly(n, r)
         \/ /\ Appendable(store, r)
            /\ LET held    == Granted(<<subject>>)
                   new     == MakeFences(st, FenceTargets(held, st.epoch))
                   stored  == Fitting(fences, new)
                   s       == [Admitted(n) EXCEPT !.lineage = @ + 1, !.fence = @ + Len(new)]
                   entries == Outside(interrupted, {left, right})
                   before  == <<Record("Lineage", r)>> \o RecordsOf("Fence", stored)
               IN  /\ fences' = fences \o stored
                   /\ interrupted' = entries
                   /\ \E a \in Assessments(s, Append(store, r), isolations, entries, FALSE, io) :
                        Publish(a, before, io)
            /\ UNCHANGED <<phase, policy, topology, ledger, isolations, disk>>

\* The interruptions whose lineage the assessment has given authority again.
Restored(ps, e) == \E i \in DOMAIN ps : ps[i].lineage = e.lineage /\ ps[i].authorized # {}

\* The grants of an assessment that take over from an interrupted one, each with
\* the interrupted authority sequence its fence names.
Revived(ps, entries, epoch) ==
  LET back == At(ps, {i \in Grants(ps) : IsInterrupted(entries, ps[i].lineage)})
      first(p) == entries[Min({i \in DOMAIN entries : entries[i].lineage = p.lineage})]
  IN  [i \in DOMAIN back |-> [partition |-> PartitionId(back[i]),
                              authority |-> first(back[i]).authority, epoch |-> epoch]]

\* What revalidate does after its assessment: a fence for every grant restored
\* and the end of the interruptions restored.
EndInterruptions(a, io) ==
  LET new    == MakeFences(a.state, Revived(a.partitions, interrupted, a.state.epoch))
      stored == Fitting(fences, new)
      next   == [a.state EXCEPT !.fence = @ + Len(new)]
  IN  /\ fences' = fences \o stored
      /\ interrupted' = At(interrupted, {i \in DOMAIN interrupted :
                                           ~Restored(a.partitions, interrupted[i])})
      /\ st' = next
      /\ Return(next, a.partitions,
                AssessmentRecords(a, io) \o (IF io THEN RecordsOf("Fence", stored) ELSE <<>>))

\* revalidate: an assessment that lifts the interruption cap, and its outcome.
Revalidate(n, io) ==
  /\ Admits("revalidate", n) /\ CanAssess
  /\ \E a \in Assessments(Admitted(n), store, isolations, interrupted, TRUE, io) :
       Adopt(a) /\ EndInterruptions(a, io)
  /\ UNCHANGED <<phase, policy, topology, ledger, isolations, disk>>

Lineages == {store[i].lineage : i \in DOMAIN store}

Request(n) ==
  \/ DenyRequest(n)
  \/ \E l \in Lineages, d \in Durations, io \in IoOutcomes : Isolate(n, l, d, io)
  \/ \E l \in Lineages, io \in IoOutcomes : ClearIsolation(n, l, io)
  \/ \E l \in Lineages : Retire(n, l)
  \/ \E subject \in ToSet(partitions) :
       \E left, right \in subject.pending, io \in IoOutcomes :
         RequestMerge(n, subject, left, right, io)
  \/ \E io \in IoOutcomes : Revalidate(n, io)

Next ==
  \/ Start \/ Refuse \/ Crash \/ Flush \/ Close
  \/ \E d \in TickSteps : AdvanceTicks(d)
  \/ \E g \in 1..Len(Topologies) : AdoptTopology(g)
  \/ \E g \in 1..Len(Policies) : SetPolicy(g)
  \/ \E claim \in Claims : IngestEvidence(claim)
  \/ \E io \in IoOutcomes : Assess(io)
  \/ \E n \in 1..MaxAttempts : Request(n)

Spec == Init /\ [][Next]_vars

-----------------------------------------------------------------------------
(* Properties.                                                             *)

Counters == [epoch : Nat, generation : Nat, authority : Nat, lineage : Nat, fence : Nat,
             attempt : Nat, tick : Nat]

\* What the runtime holds and what its store would replay have the types the
\* code declares: in particular every partition a caller can be shown has been
\* given one of the authority classes (evaluate_authority leaves none out).
TypeOK ==
  /\ phase \in {"down", "up", "closed", "refused"}
  /\ st \in Counters
  /\ policy \in 1..Len(Policies) /\ disk.policy \in 1..Len(Policies)
  /\ topology \in 0..Len(Topologies) /\ disk.topology \in 0..Len(Topologies)
  /\ disk.state \in Counters
  /\ \A i \in DOMAIN partitions : partitions[i].class \in Primary..Isolated

\* A new assessment.
Assessed == phase' = "up" /\ partitions' # partitions /\ partitions' # <<>>

\* Split brain: unless the policy allows several authoritative partitions, no
\* assessment ever leaves two PRIMARY partitions, whatever quorums the policy
\* was given (evaluate_authority's last rule).
SingleAuthority ==
  [][Assessed /\ ~Policies[policy].multiple =>
       \A i, j \in DOMAIN partitions' :
         partitions'[i].class = Primary /\ partitions'[j].class = Primary => i = j]_vars

\* PRIMARY is given only on current grounds, read from the ledger itself and
\* not from the snapshot: some fresh bundle, every pair across a boundary
\* proven apart where the policy asks for it, a full quorum, at most one live
\* lineage under the members, and neither an isolation in force nor an
\* interruption outstanding for the lineage (the caps of evaluate_authority
\* over build_partitions, from every operation that assesses).
PrimaryJustified ==
  [][Assessed =>
       LET rules == Policies[policy]
           roster == Topologies[topology]
           ev == Evidence(roster, topology, ledger.retained, rules.maxAge, st.tick)
           apart(members) == \A s \in roster, t \in roster :
                                (s \in members) # (t \in members)
                                  => ResolveByTable(ev, s, t) = Unreachable
       IN  \A i \in DOMAIN partitions' :
             LET p == partitions'[i]
             IN  p.class = Primary =>
                   /\ ev.fresh # {}
                   /\ rules.downgrade \/ rules.writeConfirmed \/ rules.readConfirmed
                        => apart(p.members)
                   /\ SatisfiedBy(rules, rules.full, p.members)
                   /\ Cardinality(Owners(store', p.members)) <= 1
                   /\ ~IsIsolated(isolations', st.tick, p.lineage)
                   /\ ~IsInterrupted(interrupted', p.lineage)]_vars

\* No grant newer than an interruption of its lineage is above OBSERVE_ONLY:
\* after a restart, a policy change or a new topology the authority comes back
\* only by the operations that end the interruption.
InterruptedStaysCapped ==
  \A i \in DOMAIN partitions, j \in DOMAIN interrupted :
    /\ partitions[i].lineage = interrupted[j].lineage
    /\ partitions[i].authority > interrupted[j].authority
    => partitions[i].class >= ObserveOnly

\* When an operation returns, every grant in force is named by the last epoch
\* state on disk, so that a crash at any later point turns it into an
\* interruption (the commit order of assess_locked).
GrantsDurable ==
  Idle => \A i \in DOMAIN partitions :
            partitions[i].authorized # {} =>
              \E j \in DOMAIN disk.live :
                disk.live[j] = [partition |-> PartitionId(partitions[i]),
                                lineage |-> partitions[i].lineage,
                                authority |-> partitions[i].authority]

\* An authority sequence a caller was shown is never issued again, however the
\* process dies in between.
AuthorityNeverReissued ==
  [][Assessed => \A i \in DOMAIN partitions' :
                   partitions'[i].authorized # {} => partitions'[i].authority > seen.authority]_vars

\* What is left of it where appends fail, and a restart takes up a sequence that
\* was already shown: within an incarnation the sequence only rises, and an
\* assessment draws one of its own for each of its grants.  As no two incarnations
\* have one epoch (EpochNeverReused), epoch and sequence together name one grant.
GrantsNamedOnce ==
  [][phase = "up" /\ phase' = "up" =>
       /\ st'.epoch = st.epoch /\ st.authority <= st'.authority
       /\ partitions' # partitions =>
            /\ \A i \in Grants(partitions') : /\ st.authority < partitions'[i].authority
                                              /\ partitions'[i].authority <= st'.authority
            /\ \A i, j \in Grants(partitions') :
                 partitions'[i].authority = partitions'[j].authority => i = j]_vars

\* No incarnation starts under an epoch that an earlier one has served in
\* (the epoch advance is committed before the constructor returns).
EpochNeverReused ==
  [][phase = "down" /\ phase' = "up" => st'.epoch > seen.epoch]_vars

\* Two live lineages own disjoint components, unless a governed merge made one
\* of them: what build_partitions takes for the owners of a member is then
\* one lineage.
LiveLineagesDisjoint ==
  LET live == Live(store)
      of(l) == Latest(store, l)
  IN  \A l, m \in live :
        l # m /\ of(l).members \cap of(m).members # {}
          => "MERGE" \in {of(l).event, of(m).event}

\* A lineage that was retired or superseded never becomes live again, although
\* the same membership gives the same identity (the latest-record check of
\* assess_locked and the append rules).
EndedLineageStaysEnded ==
  [][phase = "up" /\ phase' = "up" =>
       Live(store') \cap (Lineages \ Live(store)) = {}]_vars

\* The same through every restart: a lineage whose end is on disk is live in no
\* store that a later incarnation loads (restore_from_records replays what the
\* operations above have committed).
EndedOnDiskStaysEnded ==
  [][LET ended == {disk.lineage[i].lineage : i \in DOMAIN disk.lineage} \ Live(disk.lineage)
     IN  Consistent(disk'.lineage) => Live(disk'.lineage) \cap ended = {}]_vars

-----------------------------------------------------------------------------
(* What the documentation says and the code does not do.                   *)

\* The runtime accepts every store it wrote itself.
NeverRefusesOwnStore == phase # "refused"

\* No record was journalled whose members were too many for the store.
Roomy(lineages) ==
  \A i \in 1..Len(lineages) : MemberEntries(SubSeq(lineages, 1, i)) <= MaxMemberEntries

\* What the code does instead: it accepts a store whose last epoch state covers
\* the sequence of the last lineage record (append refuses a sequence that is not
\* above the last, assess_locked continues from the epoch state's), unless a
\* record was refused for its members: a smaller one may then take its sequence.
CoveredStoreLoads ==
  Roomy(disk.lineage) /\ HighestSequence(disk.lineage) <= disk.state.lineage =>
    Consistent(disk.lineage)

\* A governed merge has fresh evidence at the time it is committed.
MergeNeedsFreshEvidence ==
  [][\A r \in ToSet(store') \ ToSet(store) :
       phase = "up" /\ r.event = "MERGE" =>
         Evidence(Topologies[topology], topology, ledger.retained,
                  Policies[policy].maxAge, st.tick).fresh # {}]_vars

\* A component set that spans several live lineages stays at OBSERVE_ONLY until
\* a governed merge is committed.
MergeIsGoverned ==
  [][\A p \in ToSet(partitions), q \in ToSet(partitions') :
       p.pending # {} /\ q.members = p.members /\ q.class < ObserveOnly =>
         \E r \in ToSet(store') : r.event = "MERGE" /\ r.parents \subseteq p.pending]_vars

\* Without fresh evidence no interruption ends by revalidation.
RevalidationNeedsEvidence ==
  [][phase = "up" /\ Assessed /\ Len(interrupted') < Len(interrupted) /\ store' = store
       => snapshot'.fresh]_vars

\* The clock a caller has seen never goes back.
ClockNeverRegresses == Idle => st.tick >= seen.tick

\* "isolation expires at tick ..." (runtime.cpp 1391-1392): an isolation that is
\* admitted applies to the assessment it triggers, whatever its duration.
IsolationTakesEffect ==
  [][phase = "up" /\ Len(isolations') > Len(isolations) =>
       IsIsolated(isolations', st'.tick, isolations'[Len(isolations')].lineage)]_vars

\* A fence identity, "textual and monotonic" (README.md:191), names one grant.  The
\* fences of a restart carry the boot identity of the incarnation before, and the
\* sequences that one used after its last epoch state.
FenceNamesOneGrant ==
  \A i, j \in DOMAIN fences :
    fences[i].id = fences[j].id =>
      fences[i].partition = fences[j].partition /\ fences[i].authority = fences[j].authority

\* An attempt sequence whose outcome a caller has seen is never admitted again.
AttemptNeverReplayed ==
  [][phase = "up" /\ st'.attempt > st.attempt => st'.attempt > seen.attempt]_vars

\* What the code does in place of the two: once on disk, the clock and the floor
\* of the attempts never go back, no process runs below them, and no attempt at
\* or under that floor is admitted (the epoch states of assess_locked and of
\* restore_from_records).
FloorsRise ==
  [][/\ disk.state.tick <= disk'.state.tick /\ disk.state.attempt <= disk'.state.attempt
     /\ phase' = "up" => /\ disk'.state.tick <= st'.tick
                         /\ disk'.state.attempt <= st'.attempt
     /\ phase = "up" /\ phase' = "up" /\ st'.attempt # st.attempt =>
          st'.attempt > disk.state.attempt]_vars

\* A retired lineage is closed: no later assessment grants authority on it.
RetiredHoldsNoAuthority ==
  [][Assessed => \A i \in DOMAIN partitions' :
       LET l == partitions'[i].lineage
       IN  Recorded(store', l) /\ Latest(store', l).event = "RETIRE"
             => partitions'[i].authorized = {}]_vars
=============================================================================
