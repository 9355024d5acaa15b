# Fabric Partition Manager: TLA+ models and proofs

The repository implements a coordinator that collects reachability evidence
about the components of a fabric, computes how the fabric has come apart, gives
each part an identity with a history (its lineage) and decides which part may
act (its authority). The coordinator survives crashes through a journal and a
snapshot file, and is reached over TCP.

This directory holds TLA+ models of that code, TLC configurations that check
them on small instances, and TLAPS proofs of the properties that matter most.
All line numbers refer to files of the repository.

## 1. The system

| Component | Source | State | Operations |
|---|---|---|---|
| Evidence ledger | `src/src/reachability.cpp` 835-1086 | retained bundles, a cursor for each publisher, retired publisher incarnations | accept, drop on a new topology |
| Reachability snapshot | `src/src/reachability.cpp` 25-818 | none (a function) | resolve each ordered pair, join components, count pairs |
| Partition builder | `src/src/partition.cpp` | none (a function) | classify every component set against the live lineages |
| Lineage store | `src/src/lineage.cpp` | an append-only list of records | append, live lineages, bounded ancestry walk, relate |
| Policy and authority | `src/src/policy.cpp`, `src/src/authority.cpp`, `runtime.cpp` 718-933 | none (functions) | quorum, caps, capabilities, split-brain arbitration |
| Runtime | `src/src/runtime.cpp` | counters and clock, policy, topology, ledger, lineage, partitions, interruptions, isolations, fences, attempts, acknowledgements, verified effects | start, adopt, set policy, ingest, tick, assess, merge, isolate, clear, retire, revalidate, acknowledge, verify, close |
| Decisions and audit log | `runtime.cpp` 228-297, `src/src/decision.cpp` 165-187 | the decision sequence, a bounded window, the durable records | assign an identity, publish, replay |
| Durable store | `src/src/persistence.cpp` | journal, snapshot, records, watermark | load, open, append, compact, close |
| Server threads | `src/src/service.cpp` 297-332, 647-756 | flags, session table, active_sessions | start, accept, serve, reap, stop |
| Session protocol, client | `src/src/service.cpp` 334-645, 786-954, `src/src/protocol.cpp` | handle, epoch, last sequence; the client's sequence and handle | handshake, request, answer, refuse, close |
| Codecs | `src/src/encoding.cpp`, the encode_ and decode_ functions of `protocol.cpp`, `service.cpp`, `persistence.cpp` | none (functions) | write and read nineteen payloads |
| Operator client, publisher | `apps/cli_main.cpp`, `apps/publisher_main.cpp` | a process: its script, its attempt, its results | connect, stamp, ask, exit |
| Coordinator process | `apps/coordinator_main.cpp` | one runtime and one server | start, advance the clock, stop |

How they interact. Publishers send bundles; the server hands them to the one
runtime, which puts them in the ledger. An assessment takes the snapshot of the
ledger, builds partitions over the lineage store, evaluates authority, commits
lineage records and then an epoch state to the durable store, and only then
replaces the partitions callers see. Merges, isolations, retirements and
revalidations come in as governed requests, numbered by attempt sequences; each
changes tables of the runtime and most end in an assessment. One mutex
serialises all operations of the runtime; the server's threads share the
session table under a second mutex and a counter that is only atomic. Every
operation publishes a decision, whose identity its lineage records carry; the
operator's programs judge an operation by the decision they are sent, and
subjects report how far a grant has travelled.

What is hard here: an operation that makes several records durable, one after
the other, and a process that may die between two of them; counters that are
durable only as part of a later record; identities derived from membership, so
that a set that forms again has the identity it had; tables keyed by identities
that splits and merges replace; closed-form counters over all pairs; a counter
read and written in two steps by one thread and decremented by others; a table
swept while another thread is between creating and entering a session;
responses matched to requests by position alone; tables of reports that outlive
the assessment they were made under; encoders and decoders written apart, and
run under limits that may differ; attempts numbered by a clock that restarts
with the host, against a floor that does not.

What makes each part correct is stated with the runs in section 4. The hazards
of the code, each at its line, are listed under `hazards` in `PROJECT.json`.

## 2. Modules

| Module | Models | State and actions |
|---|---|---|
| `Reachability` | build_reachability_snapshot | operators: `Evidence`, `ResolveOrdered`, `Edges`, `Components`, the counters; `ResolveByTable` and `OrderedPairs` are the reference definition over all pairs |
| `EvidenceLedger` | EvidenceLedger::accept | `Acceptable`, `Accept`; used by the two modules below it |
| `EvidenceIntake` | the ledger and the snapshot alone | `IngestEvidence`, `AdvanceTicks`, `AdoptTopology` |
| `Lineage` | lineage.cpp and the classification of partition.cpp | `Appendable`, `Live`, `Relate`, `Classify` |
| `Authority` | quorum, caps, arbitration | `QuorumClass`, `EvidenceCap`, `Capped`, `FinalClasses` |
| `PartitionRuntime` | runtime.cpp over what a load would replay | one action for each operation, `Flush`, `Crash` |
| `Interruptions` | a history of the interruptions owed | `PartitionRuntime` with one history variable |
| `ApplicationState` | acknowledgements, verified effects, application_state (runtime.cpp 1681-1836) | `PartitionRuntime` with the two tables: `Report`, `RuntimeStep` |
| `DecisionAudit` | decisions, their identities, the audit log, and the records that name them | one action for each class of operation, `Start`, `Flush`, `Crash` |
| `OperatorClient` | the CLI, the publisher and the coordinator process | processes over `DecisionAudit`: `Connect`, `Stamp`, `Read`, `Ask...`, `Receive`, `Abandon`, `Fail`, `Reaped`, `StartCoordinator`, `StopCoordinator`, `CrashCoordinator`, `Reboot` |
| `DurableLog` | the promise of the store: an append-only log a process sees all of, as long as it has its header | `Extend`, `End`, `Replace`, `Begin` |
| `DurableStore` | persistence.cpp: files as sequences of pieces | `Load`, `OpenForAppend`, `AppendRecord`, `FailAppend`, the three steps of compaction and the failure of each, `Crash` |
| `PartitionServer` | accept_loop, reap, session threads, stop | one action for each step between two atomic operations |
| `SessionProtocol` | serve, handle_request, PartitionClient | connections as two ordered streams that may break |
| `CanonicalCodec` | CanonicalWriter, CanonicalReader, the validity of identities | operators: `Write` and `Read` of a kind |
| `Payloads` | every encode_ and decode_ function of the wire and of the store | the life of one payload: `Encode`, `Cut`, `Extend`, `Alter`, `Decode` |
| `MCEvidenceIntake`, `MCPartitionRuntime`, `MCApplicationState`, `MCOperatorClient`, `MCPayloads` | the values of the small instances | |
| `SequenceFacts`, `AssessmentProofs` | lemmas about sequences, and about the operators of `Reachability` and `Authority` | section 5 |
| `PartitionRuntimeProofs`, `EvidenceIntakeProofs`, `DurableStoreProofs`, `PartitionServerProofs`, `SessionProtocolProofs`, `OperatorClientProofs` | the theorems of a module (the first: of `PartitionRuntime` and `ApplicationState`; the last: also of `DecisionAudit`) | section 5 |

### PartitionRuntime

An operation holds the runtime's mutex from beginning to end, so on memory it
is one action. Its commits are not atomic: the action leaves the records it
commits in `wal`, `Flush` moves the first of them to `disk`, and `Crash` may
come at any point. While `wal` is not empty the operation has not returned, no
other can begin, and the caller has seen nothing; the history variable `seen`
keeps the highest counters any caller was shown. With `IoOutcomes = {TRUE,
FALSE}` the appends of an operation may fail, and the action continues as the
code does.

`disk` is what a load of the store replays: the last epoch state with its live
grants, the last policy and topology, all lineage records, the fences.
`Start` is the constructor with restore_from_records; `Refuse` is the
constructor throwing because the replayed lineage is not self-consistent.
Identities derived by digest (lineages, partitions) are the data they are
derived from, so the digest is injective; everything that compares two of them
in the code compares the same data here. The boot identity in the name of a
fence is the epoch that was committed with it. A tick is an integer below
`TickModulus`: advance_ticks checks its sum, the expiry of an isolation
(`ExpiresAt`) does not and wraps.

`DenyRequest` stands for every early return of the governed requests that
records the attempt and changes nothing else. Requests are numbered in order,
as `check_attempt` demands. The decisions an operation publishes are not in the
module; they are `DecisionAudit`.

### ApplicationState

The two tables of reports are superposed on `PartitionRuntime`: a `RuntimeStep`
is any of its steps, and the tables end with the process. `Report` is an
acknowledgement or a verified effect that the runtime accepts; a refused one
changes nothing but the audit log. `Stage` is application_state. The history
variables keep the stage a caller was last shown of each grant and the grants
in force when the process last ended.

### DecisionAudit and OperatorClient

`DecisionAudit` takes the other cut through the runtime: what an operation
decides is left open, and what is kept is the order in which its decisions get
their identities, enter the audit log, and are committed around the lineage
records that name them. An assessment is denied, settled (no new lineage) or
recorded; an isolation publishes its own decision before the assessment it
triggers, a revalidation after it, and a merge or a retirement commits its
lineage record first. `Start` replays what the journal holds and takes the
counters of the last epoch state.

In `OperatorClient` an invocation of the CLI or of the publisher is a process
with a script of exchanges. An exchange is the handler's call of the runtime
and the delivery of its answer; an answer is held while the operation still
commits, and an assessment is read back in a second call of the runtime. The
attempt of a governed request is stamped from the steady clock before it is
sent. The process ends with 0, 1 or 2 as cli_main.cpp 15-18 says, or is killed
with the host. `made` and `before` are history variables. An answer that does not
fit a frame (`Oversize`: a view or a list, never a status) is not sent, as in
`SessionProtocol`: the process is `abandoned`, with its socket open, until the
coordinator ends or a reaper closes it.

### DurableStore

A file is a sequence of pieces: a header (whole or in part), records by
sequence number, a torn end. `Whole` is what load reads before the first torn
piece, `Beyond` what it replays over the snapshot. The header of a new journal
stays in the stdio buffer until the first flush (`buffered`). A kill may come at
any point, whatever `Faults` says: also before that flush, and between the
emptying of the journal and its new header, which leaves a journal that is empty
or begins with part of a header (`headless`, a history variable). `Faults` names
the writes that may fail: `header`, the one of a journal header, `write`, an
append with part of its bytes in the file, `sync`, one with all of them.

`DurableStore` with `Faults = {}` implements `DurableLog`: its log is the records
of the snapshot and those of the journal beyond it, its view is `records_`. The
code does not implement a log without a way out, and `DurableLog` says which one
there is: the header is `absent` while a file is created or replaced, a process
that ends then, or appends to a file left empty, may leave it `lost`, and from
then on no process begins. The records themselves never shrink.

### PartitionServer and SessionProtocol

`at` is the program counter of the acceptor and of each thread in stop(). The
load and the store of `active_sessions` are two actions, and so are the session
thread's last writes (`Finish`, `Decrement`). `finished` is a plain bool and the
decrement behind it is relaxed: before the decrement a reaper may read either
value (`SeenFinished`). After it the reaper reads the new value if the machine
makes stores visible in their order (`ordered`, chosen once for a behaviour), and
either value if it does not. What a session says on its socket is `SessionProtocol`, where
the runtime is a count of assessments and a list of ingested bundles. A handle
is the name of its session, since handles are random and 128 bits long. One
peer is a `PartitionClient`, which sends one request at a time; the others, in
`Raw`, pipeline frames and choose their headers. `Abandon` is the path where
the reply is larger than a frame: send_frame sends nothing and serve returns
with the socket still open.

### CanonicalCodec and Payloads

A kind is a record that names one call of the writer or the reader, with the
bound the call is given: an integer of some width, a boolean, an enumeration
with its domain_max, an identity, a text, a list with its limit and the field it
must be ordered by. `Write` appends the bytes of a value of a kind; `Read` takes
them back with every refusal of the reader, and `Decoded` also demands that
nothing is left. In `Payloads` the encoder and the decoder of each payload are
two separate lists of kinds, each in the order of its own function, so that
their agreement is what the run checks. They do not agree everywhere, and
`Unreadable` lists where: a topology or a policy that is not in order
(adopt_topology sorts a copy and commits what it was given, runtime.cpp 587), an
epoch state with more live grants than the decoder takes (persistence.cpp 360), a
decision with more fences or triggers than it takes (629, 653), and a scope that
is no identity (decision.cpp 12). `WrittenIsRead` says that these are refused and
everything else is read as it was written. The limits of the process that writes
and of the one that reads are two constants.

Left abstract: a byte has `Base` values instead of 256 (the widths of integers
and of length prefixes are those of the code), identities, digests and texts are
shorter, `Digest` is a parameter, and a scope's name is bytes that `is_valid`
tells apart. `Kept` is the reference: a value, with its lists cut where the
encoder cuts them. `merge_ack` and the authority inside a decision are decoded
by hand in the code, field by field, and are written out here in the same way.

## 3. How the modules compose

    EvidenceIntake  = EvidenceLedger + Reachability
    PartitionRuntime = EvidenceLedger + Reachability + Lineage + Authority + disk
    Interruptions   = PartitionRuntime + history
    ApplicationState = PartitionRuntime + reports
    OperatorClient  = DecisionAudit + processes, coordinator, host
    Payloads        = CanonicalCodec + two processes and the bytes between them
    DurableStore    => DurableLog          (refinement: the run Journal, and theorem StoreIsALog)

## 4. Runs

| Run | Module | Distinct states | What it shows |
|---|---|---|---|
| `EvidenceLedger` | MCEvidenceIntake | 13 thousand | bundles of one publisher are accepted in order (`PublisherOrder`) and none twice (`NeverAcceptedTwice`), through restarts of the publisher, a change of topology and a full table |
| `Snapshot` | MCEvidenceIntake | 38 thousand | the closed-form counters equal the count over all pairs (`CountersExact`), `confirmed` means every pair across a boundary is proven unreachable (`ConfirmedExact`), honest bundles never join what is apart (`HonestEvidenceIsSound`) |
| `Restart` | MCPartitionRuntime | 755 thousand | crashes between any two commits; `SingleAuthority`, `AuthorityNeverReissued`, `EpochNeverReused`, `GrantsDurable`, `InterruptedStaysCapped`, and a store loads unless its last lineage record is ahead of its last epoch state or a record had too many members (`CoveredStoreLoads`) |
| `Governance` | MCPartitionRuntime | 1.38 million | the five governed requests while a component leaves the roster and lineages split and rejoin; `PrimaryJustified`, `LiveLineagesDisjoint`, and a lineage whose end is on disk is live in nothing that loads later (`EndedOnDiskStaysEnded`) |
| `Application` | MCApplicationState | 775 thousand | reports on grants that assessments, a policy change, a revalidation and crashes replace: VERIFIED is earned by this grant (`VerifiedIsJustified`), a stage a caller was shown never goes back (`ApplicationNeverRegresses`), a restart reports what was in force as INTERRUPTED (`RestartInterrupts`) |
| `Operator` | MCOperatorClient | 1.1 million | a publisher or an operator beside another operator: `DecisionIdsNeverReused`, `SequencesAdvance`, `LineageExplained`, exit codes that say what happened (`ExitCodesAreTrue`), attempts refused only in favour of a concurrent one while the host stays up (`LaterAttemptAdvances`), and every process ends, but one whose answer did not fit a frame and whose coordinator goes on (`EveryProcessExits`) |
| `Journal` | DurableStore | 17 thousand | while writes succeed, a store killed anywhere is refused only if a kill left its journal without a header or its snapshot is too long (`RefusalHasCause`), only its last piece is torn (`TornOnlyLast`) and it implements `DurableLog` (`ImplementsLog`) |
| `Store` | DurableStore | 24 thousand | with kills anywhere, headers that cannot be written, failed syncs and a small record limit, a load that succeeds has every acknowledged record (`NoSilentLoss`) |
| `Sessions` | PartitionServer | 470 thousand | at most max_sessions threads (`LiveWithinLimit`), a bounded table where stores are seen in order (`TableBounded`), a place always left (`SlotRemains`), stop() returns (`StopTerminates`) and leaves nothing (`StoppedLeavesNothing`) |
| `Protocol` | SessionProtocol | 552 thousand | `ReplyAnswersRequest`, `ViewsAreCurrent`, `ExecutedOnce`, and `ExchangeReturns` |
| `Payloads` | MCPayloads | 22 thousand | every request, response and durable record that its encoder can be given is read as it was written, or is one of those listed in section 2, which are refused (`WrittenIsRead`), no prefix and no extension of one decodes (`PartialRefused`), and altered bytes are refused or are exactly what the encoder writes for the value they are taken for (`AcceptedIsCanonical`) |

One run ends in a counterexample. Its property is what a document of the
repository says, and the trace is what the code does.

| Run | Property | The repository says | What TLC finds |
|---|---|---|---|
| `SecondRestart` | `CappedUntilRevalidated` | README 247-249 | the epoch state a restart commits carries no grants, so a second restart forgets the interruption |

The type invariants of `PartitionRuntime` (a theorem of section 5),
`EvidenceIntake`, `DurableStore` and `SessionProtocol` are stated in the modules
and hold in the runs above; they are not among what the runs list, which is kept
for what could be wrong. The same goes for `EndedLineageStaysEnded`, the form of
`EndedOnDiskStaysEnded` for the memory of one process, and for `GrantsNamedOnce`
and `FloorsRise`, which hold with the constants of `Governance` and `FailedAppend`
(the latter also with those of `Clock` and `Attempts`); section 5 has their
proofs.

### Further counterexample configurations

These are kept beside the runs. Each is checked with
`tlc -config <name>.cfg <module>`, and each finds its property violated. Where
the first column names a run, put the property in place of the run's own.

Two of them stop a coordinator for good. In `OwnStore` the process dies between
the commit of a lineage record and the epoch state that carries its sequence
(runtime.cpp 1094-1121); the next incarnation gives that sequence to another
record, which goes to disk before lineage_.append refuses it, and the one after
throws "the durable lineage is not self-consistent". But for a record with too
many members, that the last lineage record is ahead of the last epoch state is the
only cause: `CoveredStoreLoads`, which `Restart` checks and `RefusedOnlyAhead`
proves. Two more ways lead to it: a
retirement commits no epoch state (runtime.cpp 1517-1531), so a process that
ends before the next assessment leaves the disk ahead in the same way; and a
lineage store at max_lineage_records refuses a record that has gone to disk
(lineage.cpp 117), after which the next start throws. The exception is the limit on
the members of all records (lineage.cpp 178-181): a record it refuses has gone to
disk too, but a smaller one may then be stored under the same sequence, so that the
disk is covered and is refused all the same (the run `Restart` meets this case;
without `Roomy` its property is violated). In `Scopes` a merge names no
partition: request_merge builds the scope "partition:" before it refuses the
request (runtime.cpp 1158), the decision is committed, and the next start throws
"a durable decision record could not be decoded", because an identity may not
end in a separator. A program linked with the repository's library shows the
same: one refused merge with a nil subject on a durable runtime, then a restart.

| Configuration | Module | Property | Statement it is about | What happens |
|---|---|---|---|---|
| `OwnStore` | MCPartitionRuntime | `NeverRefusesOwnStore` | README 277-280, a hard-killed coordinator is restarted against its store | a crash between a lineage record and the epoch state that carries its sequence |
| `Scopes` | MCPayloads | `CommittedReloads` | README 180-181, encoding.hpp 89-90 | the scope of a decision is not looked at when it is made (decision.cpp 9-13), and is when it is loaded |
| `WiderLimits` | MCPayloads | `CommittedReloads` | limits.hpp 20-22, "a store written under wider limits remains loadable" | the decoders refuse counts above the limits of the process that loads (persistence.cpp 232, 360, 422) |
| `Grants` | MCPayloads | `CommittedReloads` | (no promise) | an epoch state has a mark for every partition with authority; its decoder allows max_fence_records, 4096 by default |
| `Unordered` | MCPayloads | `CommittedReloads` | topology.cpp 17-19, which orders what it is given | a topology adopted with its components out of order is committed as it was given (runtime.cpp 587), and its decoder demands the order (persistence.cpp 242) |
| `FailedAppend` | MCPartitionRuntime | `GrantsDurable` | runtime.cpp 1045-1047 | the result of appending the epoch state is discarded (1121), and grants are published that no record names |
| the run `Sessions` | PartitionServer | `ActiveReturnsToZero` | tests/test_concurrency.cpp 215 | a decrement between the acceptor's load and store is overwritten |
| `FenceIds` | MCPartitionRuntime | `FenceNamesOneGrant` | README 191 | the fences of a restart carry the boot identity of the incarnation before and sequences it may have used (runtime.cpp 444-449): after a retirement and a crash one identity names two grants |
| `IsolationWrap` | MCPartitionRuntime | `IsolationTakesEffect` | runtime.cpp 1391-1392 | the expiry wraps, and the isolation has expired before its assessment |
| the run `Application` | MCApplicationState | `FencedNotAcknowledged` | (no promise) | a policy change fences the grants in force and leaves them in the assessment, where an acknowledgement finds them |
| the run `Application` | MCApplicationState | `ReportAccepted` | (no promise) | the acknowledgement table is never pruned; reports on past grants fill it |
| the run `Operator` | MCOperatorClient | `AuditMonotonic` | README 564, runtime.cpp 1394-1395 | after a restart the sequence falls back to the last epoch state, below decisions the journal holds |
| the run `Operator` | MCOperatorClient | `LineageAlwaysExplained` | (the exception of `LineageExplained`) | a crash between the lineage record of a merge or a retirement and its decision |
| the run `Operator` | MCOperatorClient | `AlwaysAdvances` | cli_main.cpp 304-305 | the steady clock starts again with the host, the durable floor does not |
| the run `Operator` | MCOperatorClient | `PrintsOwnDecision` | cli_main.cpp 6-9, 17 | fill_report replaces the decision of the operation by the one of the last assessment |
| the run `Operator` | MCOperatorClient | `FailedDidNothing` | (no promise) | the coordinator dies between carrying out a request and answering |
| `StaleMerge` | MCPartitionRuntime | `MergeNeedsFreshEvidence` | README 222 | the merge tests the freshness recorded by the last assessment, ticks may have passed |
| `UngovernedMerge` | MCPartitionRuntime | `MergeIsGoverned` | README 155-156 | what is left of a parent is recorded as a split, and the waiting set then spans one live lineage |
| `EmptyRevalidation` | MCPartitionRuntime | `RevalidationNeedsEvidence` | README 226-229 | OBSERVE_ONLY authorises observing, which counts as restored |
| `Clock` | MCPartitionRuntime | `ClockNeverRegresses` | README 194 | ticks since the last epoch state are lost |
| `Attempts` | MCPartitionRuntime | `AttemptNeverReplayed` | README 237-238, runtime.cpp 319 | retire commits no epoch state, so the floor of its attempt is lost |
| `Retired` | MCPartitionRuntime | `RetiredHoldsNoAuthority` | runtime.cpp 1502 | the partition keeps its authority until the next assessment |
| `ShortHeader` | DurableStore | `RefusedStoreIsEmpty` | README 272-273 | a kill leaves a partial header, which is refused, also after a compaction that had acknowledged records |
| `EmptyJournal` | DurableStore | `NoHeaderlessRecords` | persistence.cpp 834-836 | a kill leaves an empty journal, which is opened without a header being written |
| the run `Journal`, with `Faults = {"write"}` | DurableStore | `TornOnlyLast` | persistence.cpp 1005-1006 | after a failed write the next append follows the torn bytes |
| the run `Store` | DurableStore | `RecordsBounded` | README 332-336 | append does not look at max_journal_records; load does |
| `TwoStoppers` | PartitionServer | `JoinedByOne` | README 541-543 | two threads in stop() both join the acceptor |
| the run `Protocol` | SessionProtocol | `EveryExchangeReturns` | (the exception of `ExchangeReturns`) | a reply that does not fit a frame leaves the client waiting |

### Bounds

* `EvidenceLedger`: one publisher, two incarnations, two sequences each, two
  topologies, three places. Every pair of bundles can arrive in every order and
  the table fills.
* `Snapshot`: three components and two bundles, each with any of the claims of
  `MCManyClaims`, each fresh or stale. A pair, its reverse and a third component
  are what the closed forms tell apart.
* `Restart`: one roster of three components, a majority policy and one that
  several sets can satisfy, whole and split claims, three epochs: a crash, a
  restart, and another. Four member entries make the lineage store refuse the
  larger part of a split and take the smaller one.
* `Governance`: a roster of three that loses a component, two governed requests
  of any kind, four assessments, isolations with and without expiry, and
  `MaxFences` small enough for fences to be dropped. Five lineage records or eight
  member entries fill the lineage store.
* `Application`: one roster, two policies, three assessments, two attempt
  identities and two places in each table, so that a table fills and a lineage
  is granted, interrupted and granted again. Attempts are symmetric.
* `Operator`: two processes, two incarnations of the coordinator and one reboot
  of the host; the publisher sends two bundles; the audit window holds two
  decisions, so that it drops some. The clock and the decision sequence are
  bounded by the number of invocations.
* `Journal`, `Store`: six and four records, enough for two compactions with
  appends between them; `Store` limits a snapshot to three records.
* `Sessions`: four connections for two places, so that a connection is refused,
  and the table goes over its limit and is reaped.
* `Protocol`: a client and a raw peer, two sequences each (the handshake and a
  request for the client), two frames in transit.

* `Payloads`: nineteen payloads, each with one value that fills every field and
  those that differ from it in one field (zero, the last of an enumeration, a nil
  identity, one of the full length, lists that are empty, full, and one item
  longer than the encoder cuts or the decoder takes); two fields in the wrong order
  differ in one of these. The values are drawn from the encoder's fields, and
  max_fence_records is below max_partitions, as it is in limits.hpp, so that the
  values a decoder is too narrow for are among them; so are a nil and a full-length
  subject. The full value's bytes are cut at every length, extended by a byte, and
  altered in every position. Lists hold two items, identities four bytes.

Deadlock is checked in the server runs and in `Payloads`: a server that is stopped can start
again. It is not checked where the model's own bounds on counters, a closed
runtime, a refused store or a closed connection end a behaviour.

### Fairness

`Sessions` assumes weak fairness of the acceptor, of each session thread once
its socket is shut down or it has returned, and of each thread in stop(): they
are operating-system threads, and none of these steps waits for a peer. Peers
owe nothing: `Connect` and `Served` are not fair. `Protocol` assumes weak
fairness of a session thread that has a frame to decode and of a client blocked
in recv that has a frame or a closed connection to read. A peer never has to
send, and a connection never has to break. `Operator` assumes weak fairness of
each connected process, which is a program that waits for nothing but its
socket, and of the thread that holds the runtime's mutex while it commits.
Nobody has to invoke a program, the coordinator need not restart, and no reaper
has to come for a session whose answer was abandoned.

## 5. Proofs

Every safety property of the runs but the three of `Payloads` is also a theorem,
for every value of the constants that satisfies the named assumptions of the
modules: rosters of any size, any policies, claims, limits and bounds, any number
of processes, sessions, connections, records and crashes.

| Module | Theorem | Statement |
|---|---|---|
| `AssessmentProofs` | `OnePrimary` | the arbitration of evaluate_authority leaves at most one PRIMARY |
| `PartitionRuntimeProofs` | `TypeCorrect` | `Spec => []TypeOK` |
| | `EpochFresh` | `Spec => EpochNeverReused` |
| | `NoSplitBrain` | `Spec => SingleAuthority` |
| | `PrimaryHasGrounds` | `Spec => PrimaryJustified` |
| | `InterruptionHolds` | `Spec => []InterruptedStaysCapped` |
| | `LineagesApart` | `Spec => []LiveLineagesDisjoint` |
| | `EndedForGood` | `Spec => EndedLineageStaysEnded` |
| | `EndedThroughRestarts` | `Spec => EndedOnDiskStaysEnded` |
| | `RefusedOnlyAhead` | `Spec => []CoveredStoreLoads` |
| | `GrantsNeverReissued` | `Reliable => (Spec => AuthorityNeverReissued)` |
| | `EpochAndSequenceName` | `Spec => GrantsNamedOnce` |
| | `FloorsNeverFall` | `Spec => FloorsRise` |
| | `GrantsOnDisk` | `Reliable => (Spec => []GrantsDurable)` |
| | `VerifiedHasReports` | `ApplicationSpec => []VerifiedIsJustified` |
| | `RestartReportsInterrupted` | `Reliable => (ApplicationSpec => RestartInterrupts)` |
| | `StagesMoveOn` | `Reliable => (ApplicationSpec => ApplicationNeverRegresses)` |
| `EvidenceIntakeProofs` | `OrderKept`, `NoDuplicates` | `PublisherOrder`, `NeverAcceptedTwice` |
| | `CountersAreExact`, `ConfirmedIsProven` | `CountersExact`, `ConfirmedExact` |
| | `HonestIsSound` | `HonestEvidenceIsSound` |
| | `LedgerTypeCorrect` | the ledger keeps its type and its limit |
| `DurableStoreProofs` | `StoreIsALog` | with `Faults = {}`, `Spec => ImplementsLog` |
| | `TornIsCut` | with `Faults = {}`, `TornOnlyLast` |
| | `RefusedWithCause` | with `Faults = {}`, `RefusalHasCause` |
| | `AcknowledgedIsKept` | with `"write" \notin Faults`, `NoSilentLoss` |
| `PartitionServerProofs` | `TypeCorrect`, `ThreadsWithinLimit`, `TableWithinLimit`, `CapacityRemains`, `StopIsComplete` | `TypeOK`, `LiveWithinLimit`, `TableBounded`, `SlotRemains`, `StoppedLeavesNothing` |
| `SessionProtocolProofs` | `RepliesMatch`, `ViewsNeverStale`, `NothingExecutedTwice` | `ReplyAnswersRequest`, `ViewsAreCurrent`, `ExecutedOnce` |
| `OperatorClientProofs` | `IdsNeverReused`, `SequencesInOrder`, `LineageIsExplained` | `DecisionIdsNeverReused`, `SequencesAdvance`, `LineageExplained` |
| | `AttemptsAdvance` | `Spec => LaterAttemptAdvances` |
| | `ExitsAreTrue` | `Spec => ExitCodesAreTrue` |

`SequenceFacts` holds what the provers need about sequences that are built by
appending, selecting and cutting. Each proof that an invariant is preserved has
one lemma for each action.

### Assumptions

`Reliable` says that every append of the runtime succeeds. It is needed: the
code publishes an assessment whose epoch state was not appended, and
`FailedAppend` is that case. What holds without it is `EpochAndSequenceName`: an
authority sequence may then be issued again after a restart, but never under the
same epoch. The assumptions on `Faults` are those of the runs
`Journal` and `Store`: no write fails, or none leaves part of a record. They do
not restrict kills. Without them the properties fail, as section 4 shows for a
failed write. `TableBounded` carries its own condition, `ordered`: where a thread
may see the decrement of active_sessions and not the flag set before it, the
acceptor can pass over finished sessions and the table is not bounded by the code.
Everything else is an ASSUME of a module, evaluated by TLC
in the runs: rosters are finite sets of naturals, outcomes are Booleans,
durations and limits are naturals.

### The arguments

None of the properties is inductive. What was added, and why:

* **The runtime and its disk.** A restart takes a fresh epoch because of what is
  on disk and of what is still queued: `IInv == TypeOK /\ Shapes /\ EpochOnDisk
  /\ (Reliable => AuthorityOnDisk)`. Every epoch state queued in `wal` is a copy
  of the memory's counters; the highest epoch (authority sequence) a caller was
  shown is at most the one on disk; the memory's own is on disk unless its
  record is still queued, and the operation that queued it has not returned.
  `LiveOnDisk` says the same of the marks of the grants: the last epoch state,
  queued or on disk, names exactly those in force.
* **Floors.** `FloorInv`: a running process is not below the clock and the attempt
  floor on disk. It is kept because every queued epoch state carries those of the
  memory (`Proper`) and no step of a process lowers them (`Rises`).
  `ClockNeverRegresses` and `AttemptNeverReplayed` fail by what the last epoch
  state on disk does not have; `FloorsNeverFall` says that nothing else is lost.
* **Interruptions.** `CapInv` adds that every lineage is named by the members it
  began with or by its parents, so that two partitions of one assessment never
  have the same lineage (`Distinct`), and that the marks and interruptions that
  a restart exchanges carry authority sequences that have been issued.
* **PRIMARY.** The snapshot is confirmed by a closed form over rows, coverage
  counts and exceptions. `AssessmentProofs` shows that the closed forms count
  the pairs they stand for, over any finite evidence (`FiniteLedger`), and that
  an assessment's store has grown from the one before by records of its own
  partitions (`Grown`, `Derived`), which bounds the owners of a member.
* **Lineages.** `LineInv` relates memory to disk through images of the disk (its
  lineage records and the lineage sequence of its last epoch state). The image
  on disk, followed by the queued records one at a time (`Path`), stays
  `Loadable`: whatever replays is sane (live lineages disjoint but for merges,
  the parents of a merge ended), and whatever is covered by the epoch state
  replays, if no record had too many members (`Roomy`). At the end of the queue the
  image's records are those of the memory; or it replays no longer, for the members
  of a record or because it is ahead of the memory's counter, and then the store in
  memory is `Blocked`: ahead of the counter too, or full. Every record `Fits` the
  store but for room, members and sequence, so a blocked store refuses all that follow,
  the counter never moves again in that process, and the disk stays ahead of it.
  No record of the path revives an ended lineage (`Revives`), which gives
  `EndedThroughRestarts`.
* **Reports.** `GenerationInv` is `AuthorityOnDisk` for the assessment
  generation, which a partition's identity carries. Every step starts, ends,
  commits, assesses under a new generation, or leaves the assessment alone
  (`StepKinds`). `TableInv` then keeps each report inside what its grant
  authorizes while that is current, `HeldInv` keeps a mark on disk for each
  grant of a process that ended, and `StageInv` says what a stage that was shown
  still implies. `ApplicationIsRuntime` lifts the runtime's invariants.
* **Evidence.** `PublisherOrder` rests on the cursors (`CursorOrder`) and on the
  retired incarnations (`Followed`); the counters on `LedgerInv`, which makes
  the retained bundles a finite set of well-formed ones, and on counting lemmas
  over sets of pairs.
* **The store.** `FormInv` gives the files their form: the snapshot holds the
  records 1 to k, the journal a header, unless it is `headless`, and a run that
  starts at k + 1 or before and ends in at most one torn piece. With it every action is a step of `DurableLog` or none.
  `KeptInv`, for the faulty store, says only that a journal whose header can be
  read covers, with the snapshot, what was acknowledged.
* **The server.** `Counted` places `active_sessions` between the threads that
  run and the limit, also between the acceptor's load and its store, and bounds
  what lost decrements can leave; `Places`, `Drained`, `InHand` and `Accounted`
  say which thread owns each connection.
* **The protocol.** `InStep` lists, for each phase of a client, what may be in
  the two streams and in the server's hands: at most one of a request, its
  execution and its reply.
* **Decisions.** `AuditInv`: every identity given out is below the counter of
  this incarnation or of an earlier one, pending decisions are above the
  committed ones, log, queue and journal agree, and every lineage record names a
  decision that is on record or queued behind it. `AttemptInv`: every floor, in
  memory, queued or on disk, was the attempt of a process that has had its
  answer or has ended.
* **Exit codes.** `ExitInv` counts the script of a process from its end: behind
  what is still to be sent there is one result for each request, and it is the
  answer to the decision that was made for it. A decision whose answer has been
  received is on disk unless it is about evidence; an answer that is held or not
  yet read belongs to an operation of the incarnation the process is connected
  to, which still serves, has the decision on record, and whose last assessment
  is no earlier. Every step of another process or of the coordinator leaves this
  so (`Keeps`).

### What stays with TLC

* `StopTerminates`, `ExchangeReturns`, `EveryProcessExits`: liveness under
  fairness, which needs ENABLED.
* `WrittenIsRead`, `PartialRefused`, `AcceptedIsCanonical`: `Write` and `Read`
  are RECURSIVE over nested kinds, and the properties are inductions over them.
* The counterexamples of section 4.

## 6. Not modelled

* SHA-256 and CRC-32, the generation of random identities, the names of reason
  codes and the text of reports: data the models abstract. Two identities the code derives by digest or truncates
  (eight hex digits of a boot identity in the name of a decision or a fence)
  are taken to be distinct when their sources are.
* The limit of a lineage record's own members (lineage.cpp 164): it is
  max_components, which bounds every roster a partition is part of; it could refuse
  only in a process started with a lower limit than the one that wrote the store.
* Arithmetic at 64 bits other than the clock: counters are naturals with a
  named bound, and their exhaustion is not reached. The unchecked sums of
  weights (policy.cpp 83) are therefore outside the models.
* The reassembly of a frame from the bytes of a stream (protocol.cpp 238-296):
  `SessionProtocol` sends whole frames. It is a function of the bytes received
  so far, with no state of its own.
* The publisher and boot a client names in its handshake, which the server
  records and never reads; reuse of a client object for a second connection.
* A blocking accept after the listener became readable; the socket calls.
* The port and ready files of the coordinator, and the rounding of its clock
  loop to whole milliseconds.
* Parsing of command lines (an invocation whose arguments are refused is an
  action), synthetic fabrics, benchmarks.

## 7. Plan

Done: the evidence path, the runtime with its governed requests and the reports
on its grants, the decisions and their audit log, the store and its refinement,
the server's threads, the protocol and its payloads, the operator's programs; and
the theorems of section 5.

Next, in this order:

1. Theorems about what the code does where section 4 has a counterexample: the
   strongest statement that holds in place of each, as `RefusedOnlyAhead` is for
   `OwnStore`, `FloorsNeverFall` for `Clock` and `Attempts`, and
   `EpochAndSequenceName` for a failed append.
2. `DurableStore` under `PartitionRuntime` in place of `disk`, so that a failed
   append and a torn record meet restore_from_records.
