------------------------ MODULE OperatorClientProofs ------------------------
(***************************************************************************)
(* Proofs about DecisionAudit, in the system of OperatorClient: identities *)
(* and order of the decisions, what the lineage records name, the attempts *)
(* of governed requests and the exit codes of the operator's programs, for *)
(* any number of processes, restarts and reboots and an audit log of any   *)
(* length.                                                                 *)
(***************************************************************************)
EXTENDS OperatorClient, SequenceFacts

-----------------------------------------------------------------------------
(* The decisions.                                                          *)

Ids == Nat \X Nat

Kinds == {"input", "ingest", "assess", "denial", "request"}

Decisions == [id : Ids, kind : Kinds]

RecordTypes == {"Decision", "Lineage", "EpochState", "Input"}

\* What the fields of a record are, as far as the decisions go.
WellFormed(r) ==
  /\ r.type \in RecordTypes
  /\ r.type = "Decision" => r.body \in Decisions
  /\ r.type = "Lineage" => r.body \in Ids
  /\ r.type = "EpochState" => r.body.sequence \in Nat

Typed ==
  /\ serving \in BOOLEAN /\ boot \in Nat /\ sequence \in Nat
  /\ log \in Seq(Decisions)
  /\ IsSeq(wal) /\ \A i \in 1..Len(wal) : WellFormed(wal[i])
  /\ disk = [decisions |-> disk.decisions, lineage |-> disk.lineage, state |-> disk.state]
  /\ disk.decisions \in Seq(Decisions) /\ disk.lineage \subseteq Ids
  /\ disk.state.sequence \in Nat
  /\ ~serving => log = <<>> /\ wal = <<>>

\* The i-th record to commit is of this type.
Pending(i, type) == i \in 1..Len(wal) /\ wal[i].type = type

\* Identities that have been given out: none of an incarnation to come, none
\* above the sequence of the present one.
Given(id) == id[2] <= boot /\ (serving /\ id[2] = boot => id[1] <= sequence)

AllGiven ==
  /\ \A i \in 1..Len(log) : Given(log[i].id)
  /\ \A i \in 1..Len(disk.decisions) : Given(disk.decisions[i].id)
  /\ \A i \in 1..Len(wal) : Pending(i, "Decision") => Given(wal[i].body.id)
  /\ \A name \in disk.lineage : name[2] <= boot

\* What is to be committed is of this incarnation, in order, and above what it
\* has committed.
PendingOrder ==
  /\ \A i \in 1..Len(wal) :
       /\ Pending(i, "Decision") => wal[i].body.id[2] = boot
       /\ Pending(i, "Lineage") => wal[i].body[2] = boot
  /\ \A i, j \in 1..Len(wal) :
       i < j /\ Pending(i, "Decision") /\ Pending(j, "Decision")
         => wal[i].body.id[1] < wal[j].body.id[1]
  /\ \A i \in 1..Len(disk.decisions), j \in 1..Len(wal) :
       Pending(j, "Decision") /\ disk.decisions[i].id[2] = boot
         => disk.decisions[i].id[1] < wal[j].body.id[1]

\* The log and the journal do not differ about a decision.
Agreed ==
  /\ \A i \in 1..Len(log), j \in 1..Len(disk.decisions) :
       log[i].id = disk.decisions[j].id => log[i] = disk.decisions[j]
  /\ \A i \in 1..Len(log), j \in 1..Len(wal) :
       Pending(j, "Decision") /\ log[i].id = wal[j].body.id => log[i] = wal[j].body

\* A decision that is on disk or will be when the operation is done.
OnRecord(name) ==
  \/ \E i \in 1..Len(disk.decisions) : disk.decisions[i].id = name
  \/ \E i \in 1..Len(wal) : Pending(i, "Decision") /\ wal[i].body.id = name

\* The lineage records of an incarnation that runs.
NamesOnRecord ==
  serving =>
    /\ \A name \in disk.lineage : name[2] = boot => OnRecord(name)
    /\ \A i \in 1..Len(wal) : Pending(i, "Lineage") => OnRecord(wal[i].body)

AuditInv ==
  /\ Typed /\ AllGiven /\ PendingOrder /\ Agreed /\ NamesOnRecord
  /\ InOrder(log) /\ InOrder(disk.decisions)

-----------------------------------------------------------------------------
(* The records an operation leaves to commit.                              *)

\* The decisions of an operation have the next identities, in this order.
Fresh(decisions) ==
  /\ decisions \in Seq(Decisions)
  /\ \A k \in 1..Len(decisions) : decisions[k].id = <<sequence + k, boot>>

\* Records that hold the decisions above the lo-th, up to the hi-th, all of them
\* and in order, and name no other.
Part(decisions, r, lo, hi) ==
  /\ IsSeq(r) /\ \A i \in 1..Len(r) : WellFormed(r[i])
  /\ \A i \in 1..Len(r) : r[i].type = "Decision" =>
       \E k \in lo + 1..hi : r[i].body = decisions[k]
  /\ \A i, j \in 1..Len(r) :
       i < j /\ r[i].type = "Decision" /\ r[j].type = "Decision"
         => r[i].body.id[1] < r[j].body.id[1]
  /\ \A i \in 1..Len(r) : r[i].type = "Lineage" =>
       \E k \in 1..hi : r[i].body = decisions[k].id
  /\ \A k \in lo + 1..hi : \E i \in 1..Len(r) : r[i].type = "Decision" /\ r[i].body = decisions[k]

\* What publication keeps the invariant for.
Batch(decisions, r) ==
  /\ Fresh(decisions)
  /\ IsSeq(r) /\ \A i \in 1..Len(r) : WellFormed(r[i])
  /\ \A i \in 1..Len(r) : r[i].type = "Decision" =>
       \E k \in 1..Len(decisions) : r[i].body = decisions[k]
  /\ \A i, j \in 1..Len(r) :
       i < j /\ r[i].type = "Decision" /\ r[j].type = "Decision"
         => r[i].body.id[1] < r[j].body.id[1]
  /\ \A i \in 1..Len(r) : r[i].type = "Lineage" =>
       /\ \E k \in 1..Len(decisions) : r[i].body = decisions[k].id
       /\ \E j \in 1..Len(r) : r[j].type = "Decision" /\ r[j].body.id = r[i].body

\* A part that holds every decision will do.
LEMMA WholeIsBatch ==
  ASSUME Typed, NEW decisions, NEW r, Fresh(decisions), Part(decisions, r, 0, Len(decisions))
  PROVE  Batch(decisions, r)
<1>1. Len(decisions) \in Nat /\ 0 + 1 = 1
  BY DEF Fresh
<1>2. ASSUME NEW i \in 1..Len(r), r[i].type = "Lineage"
      PROVE  /\ \E k \in 1..Len(decisions) : r[i].body = decisions[k].id
             /\ \E j \in 1..Len(r) : r[j].type = "Decision" /\ r[j].body.id = r[i].body
  <2>1. PICK k \in 1..Len(decisions) : r[i].body = decisions[k].id
    BY <1>2 DEF Part
  <2>2. PICK j \in 1..Len(r) : r[j].type = "Decision" /\ r[j].body = decisions[k]
    BY <1>1 DEF Part
  <2> QED
    BY <2>1, <2>2
<1> QED
  BY <1>1, <1>2 DEF Batch, Part

\* Parts put together.
LEMMA PartsJoin ==
  ASSUME Typed, NEW decisions, Fresh(decisions), NEW a, NEW b,
         NEW lo \in Nat, NEW mid \in Nat, NEW hi \in Nat, lo <= mid, mid <= hi,
         hi <= Len(decisions), Part(decisions, a, lo, mid), Part(decisions, b, mid, hi)
  PROVE  Part(decisions, a \o b, lo, hi)
<1> DEFINE r == a \o b
<1>1. /\ IsSeq(r) /\ Len(a) \in Nat /\ Len(b) \in Nat /\ Len(r) = Len(a) + Len(b)
      /\ \A i \in 1..Len(a) : r[i] = a[i]
      /\ \A i \in 1..Len(b) : r[Len(a) + i] = b[i]
  BY ConcatIsSeq, ConcatElements DEF Part
<1> HIDE DEF r
<1>2. ASSUME NEW i \in 1..Len(r)
      PROVE  \/ i \in 1..Len(a) /\ r[i] = a[i]
             \/ i > Len(a) /\ i - Len(a) \in 1..Len(b) /\ r[i] = b[i - Len(a)]
  <2>1. CASE i <= Len(a)
    BY <1>1, <2>1
  <2>2. CASE i > Len(a)
    <3>1. i - Len(a) \in 1..Len(b) /\ Len(a) + (i - Len(a)) = i
      BY <1>1, <2>2
    <3> QED
      BY <1>1, <2>2, <3>1
  <2> QED
    BY <1>1, <2>1, <2>2
<1>3. \A i \in 1..Len(r) : WellFormed(r[i])
  BY <1>2 DEF Part
<1> DEFINE Holds(d, l, h) == \E k \in l + 1..h : d = decisions[k]
           Names(n, h)    == \E k \in 1..h : n = decisions[k].id
<1>a. /\ \A d : Holds(d, lo, mid) \/ Holds(d, mid, hi) => Holds(d, lo, hi)
      /\ \A n : Names(n, mid) => Names(n, hi)
  OBVIOUS
<1>b. /\ \A i \in 1..Len(a) :
           /\ a[i].type = "Decision" => Holds(a[i].body, lo, mid)
           /\ a[i].type = "Lineage" => Names(a[i].body, mid)
      /\ \A i \in 1..Len(b) :
           /\ b[i].type = "Decision" => Holds(b[i].body, mid, hi)
           /\ b[i].type = "Lineage" => Names(b[i].body, hi)
  BY DEF Part
<1> HIDE DEF Holds, Names
<1>c. ASSUME NEW i \in 1..Len(r)
      PROVE  /\ r[i].type = "Decision" => Holds(r[i].body, lo, hi)
             /\ r[i].type = "Lineage" => Names(r[i].body, hi)
  BY <1>2, <1>a, <1>b
<1>4. \A i \in 1..Len(r) : r[i].type = "Decision" =>
        \E k \in lo + 1..hi : r[i].body = decisions[k]
  BY <1>c DEF Holds
<1>5. \A i \in 1..Len(r) : r[i].type = "Lineage" =>
        \E k \in 1..hi : r[i].body = decisions[k].id
  BY <1>c DEF Names
<1>6. \A k \in lo + 1..hi : \E i \in 1..Len(r) : r[i].type = "Decision" /\ r[i].body = decisions[k]
  <2> TAKE k \in lo + 1..hi
  <2>1. CASE k <= mid
    <3>1. PICK i \in 1..Len(a) : a[i].type = "Decision" /\ a[i].body = decisions[k]
      BY <2>1 DEF Part
    <3> QED
      BY <1>1, <3>1
  <2>2. CASE k > mid
    <3>1. PICK i \in 1..Len(b) : b[i].type = "Decision" /\ b[i].body = decisions[k]
      BY <2>2 DEF Part
    <3>2. Len(a) + i \in 1..Len(r) /\ r[Len(a) + i] = b[i]
      BY <1>1
    <3> QED
      BY <3>1, <3>2
  <2> QED
    BY <2>1, <2>2
<1>7. ASSUME NEW i \in 1..Len(r), NEW j \in 1..Len(r), i < j,
             r[i].type = "Decision", r[j].type = "Decision"
      PROVE  r[i].body.id[1] < r[j].body.id[1]
  <2>1. CASE i \in 1..Len(a) /\ j \in 1..Len(a)
    BY ZenonT(30), <1>1, <1>7, <2>1 DEF Part
  <2>2. CASE i > Len(a) /\ j > Len(a)
    <3>1. /\ i - Len(a) \in 1..Len(b) /\ r[i] = b[i - Len(a)]
          /\ j - Len(a) \in 1..Len(b) /\ r[j] = b[j - Len(a)] /\ i - Len(a) < j - Len(a)
      BY <1>1, <1>2, <1>7, <2>2
    <3>2. \A m, n \in 1..Len(b) :
            m < n /\ b[m].type = "Decision" /\ b[n].type = "Decision"
              => b[m].body.id[1] < b[n].body.id[1]
      BY DEF Part
    <3> QED
      BY <1>7, <3>1, <3>2
  <2>3. CASE i \in 1..Len(a) /\ j > Len(a)
    <3>1. PICK k \in lo + 1..mid : r[i].body = decisions[k]
      BY <1>1, <1>7, <2>3, <1>b DEF Holds
    <3>2. PICK l \in mid + 1..hi : r[j].body = decisions[l]
      <4>1. j - Len(a) \in 1..Len(b) /\ r[j] = b[j - Len(a)]
        <5>1. ~(j \in 1..Len(a))
          BY <1>1, <2>3
        <5> QED
          BY <1>2, <5>1
      <4> QED
        BY <1>7, <4>1, <1>b DEF Holds
    <3>3. k \in 1..Len(decisions) /\ l \in 1..Len(decisions) /\ k < l
      BY DEF Fresh
    <3> QED
      <4>1. decisions[k].id = <<sequence + k, boot>> /\ decisions[l].id = <<sequence + l, boot>>
        BY <3>3 DEF Fresh
      <4>2. sequence + k < sequence + l
        BY <3>3 DEF Typed
      <4> QED
        BY <3>1, <3>2, <4>1, <4>2
  <2> QED
    BY <1>1, <1>7, <2>1, <2>2, <2>3
<1>8. Part(decisions, r, lo, hi)
  BY <1>1, <1>3, <1>4, <1>5, <1>6, <1>7 DEF Part
<1> QED
  BY <1>8 DEF r

LEMMA FreshTyped ==
  ASSUME NEW decisions, Fresh(decisions), NEW k \in 1..Len(decisions)
  PROVE  decisions[k] \in Decisions /\ decisions[k].id \in Ids /\ Len(decisions) \in Nat
<1>1. decisions[k] \in Decisions /\ Len(decisions) \in Nat
  BY Element DEF Fresh
<1> QED
  BY <1>1 DEF Decisions

\* Records of one kind each: a decision, a lineage record that names a decision
\* that is there, and the records that say nothing of decisions.
LEMMA DecisionPart ==
  ASSUME Typed, NEW decisions, Fresh(decisions), NEW k \in 1..Len(decisions)
  PROVE  Part(decisions, <<DecisionRecord(decisions[k])>>, k - 1, k)
<1>1. /\ IsSeq(<<DecisionRecord(decisions[k])>>) /\ decisions[k] \in Decisions
      /\ Len(decisions) \in Nat /\ k - 1 + 1 = k
  BY SingleIsSeq, Element DEF Fresh
<1> QED
  BY <1>1 DEF Part, WellFormed, DecisionRecord, Record, RecordTypes

LEMMA LineagePart ==
  ASSUME Typed, NEW decisions, Fresh(decisions), NEW k \in 1..Len(decisions)
  PROVE  Part(decisions, <<LineageRecord(decisions[k])>>, k, k)
<1>1. /\ IsSeq(<<LineageRecord(decisions[k])>>) /\ decisions[k].id \in Ids
      /\ Len(decisions) \in Nat /\ k + 1 > k
  BY SingleIsSeq, FreshTyped
<1> QED
  BY <1>1 DEF Part, WellFormed, LineageRecord, Record, RecordTypes

LEMMA SilentPart ==
  ASSUME Typed, NEW decisions, Fresh(decisions), NEW k \in Nat, NEW e, NEW s \in Nat, NEW a
  PROVE  /\ Part(decisions, <<>>, k, k)
         /\ Part(decisions, <<EpochState(e, s, a)>>, k, k)
         /\ Part(decisions, <<InputRecord>>, k, k)
<1>1. \A i \in k + 1..k : FALSE
  OBVIOUS
<1>2. Part(decisions, <<>>, k, k)
  BY <1>1, EmptyIsSeq DEF Part
<1>3. Part(decisions, <<EpochState(e, s, a)>>, k, k)
  BY <1>1, SingleIsSeq DEF Part, WellFormed, EpochState, Record, RecordTypes
<1>4. Part(decisions, <<InputRecord>>, k, k)
  BY <1>1, SingleIsSeq DEF Part, WellFormed, InputRecord, Record, RecordTypes
<1> QED
  BY <1>2, <1>3, <1>4

\* A merge and a retirement commit the lineage record first.
LEMMA LineageFirst ==
  ASSUME Typed, NEW decisions, Fresh(decisions), NEW k \in 1..Len(decisions)
  PROVE  Part(decisions, <<LineageRecord(decisions[k]), DecisionRecord(decisions[k])>>, k - 1, k)
<1> DEFINE r == <<LineageRecord(decisions[k]), DecisionRecord(decisions[k])>>
<1>1. /\ decisions[k] \in Decisions /\ decisions[k].id \in Ids
      /\ Len(decisions) \in Nat /\ k - 1 + 1 = k
  BY FreshTyped
<1>2. IsSeq(r)
  <2>1. r \in Seq({r[1], r[2]})
    OBVIOUS
  <2> QED
    BY <2>1, SeqIsSeq
<1>3. \A i \in 1..Len(r) : WellFormed(r[i])
  BY <1>1 DEF WellFormed, DecisionRecord, LineageRecord, Record, RecordTypes
<1> QED
  BY <1>1, <1>2, <1>3 DEF Part, DecisionRecord, LineageRecord, Record

\* The records of an assessment, however it ends.
LEMMA AssessPart ==
  ASSUME Typed, NEW decisions, Fresh(decisions), NEW k \in 1..Len(decisions),
         NEW outcome \in Outcomes, NEW a
  PROVE  Part(decisions, AssessRecords(decisions[k], outcome, a), k - 1, k)
<1> DEFINE d == decisions[k]
           named == IF outcome = "recorded" THEN <<LineageRecord(d)>> ELSE <<>>
           state == IF outcome = "denied" THEN <<>> ELSE <<EpochState(epoch, d.id[1], a)>>
<1>1. /\ Len(decisions) \in Nat /\ k \in Nat /\ k - 1 \in Nat /\ d.id[1] \in Nat
      /\ k - 1 <= k /\ k <= k /\ k <= Len(decisions)
  BY DEF Fresh, Typed
<1>2. Part(decisions, <<DecisionRecord(d)>>, k - 1, k)
  BY DecisionPart
<1>3. Part(decisions, named, k, k)
  BY <1>1, LineagePart, SilentPart
<1>4. Part(decisions, state, k, k)
  BY <1>1, SilentPart
<1> HIDE DEF named, state
<1>5. Part(decisions, <<DecisionRecord(d)>> \o named, k - 1, k)
  BY <1>1, <1>2, <1>3, PartsJoin
<1>6. Part(decisions, <<DecisionRecord(d)>> \o named \o state, k - 1, k)
  BY <1>1, <1>4, <1>5, PartsJoin
<1> QED
  BY <1>6 DEF AssessRecords, named, state

-----------------------------------------------------------------------------
(* Publication, commits, restarts and crashes.                             *)

\* The log keeps the end of what was published, in its order.
LEMMA WindowIsEnd ==
  ASSUME NEW S, NEW q \in Seq(S)
  PROVE  /\ Window(q) \in Seq(S)
         /\ \E off \in Nat : \A i \in 1..Len(Window(q)) :
              i + off \in 1..Len(q) /\ Window(q)[i] = q[i + off]
<1> DEFINE m == IF Len(q) > MaxHistory THEN Len(q) - MaxHistory + 1 ELSE 1
           n == Len(q)
<1>1. m \in Nat /\ n \in Nat /\ m >= 1 /\ m <= n + 1
  BY AuditAssumption
<1>2. \A i \in m..n : i \in 1..Len(q) /\ q[i] \in S
  BY <1>1
<1> HIDE DEF m
<1>3. /\ SubSeq(q, m, n) \in Seq(S)
      /\ Len(SubSeq(q, m, n)) = IF m <= n THEN n - m + 1 ELSE 0
      /\ \A i \in 1..n - m + 1 : SubSeq(q, m, n)[i] = q[m + i - 1]
  BY <1>1, <1>2, SubSeqProperties
<1>4. Len(SubSeq(q, m, n)) = n - m + 1 /\ n - m + 1 \in Nat
  BY <1>1, <1>3
<1>5. \A i \in 1..n - m + 1 : i + (m - 1) = m + i - 1 /\ i + (m - 1) \in 1..n
  BY <1>1
<1>6. \A i \in 1..n - m + 1 : SubSeq(q, m, n)[i] = q[i + (m - 1)]
  BY <1>3, <1>5
<1>7. \A i \in 1..Len(SubSeq(q, m, n)) :
        i + (m - 1) \in 1..Len(q) /\ SubSeq(q, m, n)[i] = q[i + (m - 1)]
  BY <1>4, <1>5, <1>6
<1>8. Window(q) = SubSeq(q, m, n)
  BY DEF Window, m
<1>9. m - 1 \in Nat
  BY <1>1
<1> QED
  BY <1>3, <1>7, <1>8, <1>9

\* The fields of a decision.
LEMMA DecisionTyped ==
  ASSUME NEW d \in Decisions
  PROVE  d.id \in Ids /\ d.id[1] \in Nat /\ d.id[2] \in Nat /\ d.id = <<d.id[1], d.id[2]>>
  BY DEF Decisions, Ids

\* The identities an operation takes are above all that were given out.
LEMMA FreshIsNew ==
  ASSUME Typed, serving, NEW decisions, Fresh(decisions), NEW k \in 1..Len(decisions),
         NEW id \in Ids, Given(id)
  PROVE  /\ decisions[k].id # id
         /\ id[2] = boot => id[1] < decisions[k].id[1]
         /\ decisions[k].id[2] = boot /\ decisions[k].id[1] = sequence + k
<1>1. decisions[k].id = <<sequence + k, boot>>
  BY DEF Fresh
<1>2. sequence \in Nat /\ boot \in Nat /\ k \in Nat /\ k >= 1
  BY DEF Typed, Fresh
<1>3. id[1] \in Nat /\ id[2] \in Nat
  BY DEF Ids
<1>4. id[2] = boot => id[1] < sequence + k
  BY <1>2, <1>3 DEF Given
<1> QED
  BY <1>1, <1>2, <1>3, <1>4

\* finalize_decision and the records the operation leaves.
LEMMA PublishKeeps ==
  ASSUME AuditInv, Free, NEW decisions, NEW r, Batch(decisions, r), Publish(decisions, r)
  PROVE  AuditInv'
<1> DEFINE n == Len(decisions)
           all == log \o decisions
<1>1. /\ Typed /\ AllGiven /\ PendingOrder /\ Agreed /\ NamesOnRecord
      /\ InOrder(log) /\ InOrder(disk.decisions) /\ serving /\ wal = <<>> /\ Fresh(decisions)
  BY DEF AuditInv, Free, Batch
<1>2. /\ sequence' = sequence + n /\ wal' = r /\ log' = Window(all)
      /\ serving' = serving /\ boot' = boot /\ disk' = disk
  BY DEF Publish
<1>3. /\ decisions \in Seq(Decisions) /\ n \in Nat /\ log \in Seq(Decisions) /\ Len(log) \in Nat
      /\ all \in Seq(Decisions) /\ Len(all) = Len(log) + n
      /\ \A i \in 1..Len(log) : all[i] = log[i]
      /\ \A k \in 1..n : all[Len(log) + k] = decisions[k]
  BY <1>1, SMTT(30) DEF Typed, Fresh
<1>4. ASSUME NEW i \in 1..Len(all)
      PROVE  \/ i \in 1..Len(log) /\ all[i] = log[i]
             \/ i - Len(log) \in 1..n /\ all[i] = decisions[i - Len(log)]
  <2> HIDE DEF all, n
  <2>1. CASE i <= Len(log)
    BY <1>3, <2>1
  <2>2. CASE i > Len(log)
    <3>1. i - Len(log) \in 1..n /\ Len(log) + (i - Len(log)) = i
      BY <1>3, <2>2
    <3> QED
      BY <1>3, <3>1
  <2> QED
    BY <1>3, <2>1, <2>2
<1> HIDE DEF all
<1>5. /\ log' \in Seq(Decisions)
      /\ \E off \in Nat : \A i \in 1..Len(log') : i + off \in 1..Len(all) /\ log'[i] = all[i + off]
  <2>1. all \in Seq(Decisions)
    BY <1>3
  <2>2. /\ Window(all) \in Seq(Decisions)
        /\ \E off \in Nat : \A i \in 1..Len(Window(all)) :
             i + off \in 1..Len(all) /\ Window(all)[i] = all[i + off]
    BY <2>1, WindowIsEnd
  <2> QED
    BY <1>2, <2>2
<1>6. PICK off \in Nat : \A i \in 1..Len(log') : i + off \in 1..Len(all) /\ log'[i] = all[i + off]
  BY <1>5
\* Identities.
<1>7. \A i \in 1..Len(log) : log[i] \in Decisions /\ log[i].id \in Ids /\ Given(log[i].id)
  BY <1>1, <1>3, Element, DecisionTyped DEF AllGiven
<1>8. \A i \in 1..Len(disk.decisions) :
        /\ disk.decisions[i] \in Decisions /\ disk.decisions[i].id \in Ids
        /\ Given(disk.decisions[i].id)
  BY <1>1, Element, DecisionTyped DEF AllGiven, Typed
<1>9. \A k \in 1..n : decisions[k] \in Decisions /\ decisions[k].id = <<sequence + k, boot>>
  BY <1>1, FreshTyped DEF Fresh
<1> DEFINE GivenNow(id) == id[2] <= boot /\ (id[2] = boot => id[1] <= sequence + n)
<1>10. ASSUME NEW id \in Ids, Given(id) PROVE GivenNow(id)
  <2>1. sequence \in Nat /\ id[1] \in Nat /\ n \in Nat
    BY <1>1, <1>3 DEF Typed, Ids
  <2> QED
    BY <1>1, <1>10, <2>1 DEF Given
<1>11. ASSUME NEW k \in 1..n PROVE GivenNow(decisions[k].id)
  <2>1. sequence + k <= sequence + n /\ boot \in Nat
    BY <1>1, <1>3 DEF Typed
  <2> QED
    BY <1>9, <2>1
<1> HIDE DEF GivenNow, n
<1>12. ASSUME NEW i \in 1..Len(all) PROVE GivenNow(all[i].id)
  BY <1>4, <1>7, <1>10, <1>11
\* Order.
<1>13. ASSUME NEW i \in 1..Len(all), NEW j \in 1..Len(all), i < j, all[i].id[2] = all[j].id[2]
       PROVE  all[i].id[1] < all[j].id[1]
  <2>1. CASE i \in 1..Len(log) /\ j \in 1..Len(log)
    <3>1. all[i] = log[i] /\ all[j] = log[j] /\ DOMAIN log = 1..Len(log)
      BY <1>3, <2>1
    <3> QED
      BY <1>1, <1>13, <2>1, <3>1 DEF InOrder
  <2>2. CASE i \in 1..Len(log) /\ j - Len(log) \in 1..n
    <3>1. all[i] = log[i] /\ all[j] = decisions[j - Len(log)]
      <4>1. ~(j \in 1..Len(log))
        BY <1>3, <2>2
      <4> QED
        BY <1>3, <1>4, <2>2, <4>1
    <3>2. log[i].id \in Ids /\ Given(log[i].id)
      BY <1>7, <2>2
    <3>3. j - Len(log) \in 1..Len(decisions)
      BY <2>2 DEF n
    <3>4. /\ log[i].id[2] = boot => log[i].id[1] < decisions[j - Len(log)].id[1]
          /\ decisions[j - Len(log)].id[2] = boot
      BY <1>1, <3>2, <3>3, FreshIsNew
    <3> QED
      BY <1>13, <3>1, <3>4
  <2>3. CASE i - Len(log) \in 1..n /\ j - Len(log) \in 1..n
    <3>1. sequence + (i - Len(log)) < sequence + (j - Len(log))
      <4>1. sequence \in Nat  BY <1>1 DEF Typed
      <4>2. Len(log) \in Nat /\ i \in Nat /\ j \in Nat  BY <1>3
      <4> QED  BY <4>1, <4>2, <1>13
    <3>2. all[i] = decisions[i - Len(log)] /\ all[j] = decisions[j - Len(log)]
      BY <1>3, <1>4, <2>3
    <3> QED
      BY <1>9, <2>3, <3>1, <3>2
  <2> QED
    BY <1>3, <1>4, <1>13, <2>1, <2>2, <2>3
\* The records.
<1>14. /\ IsSeq(r) /\ Len(r) \in Nat /\ \A i \in 1..Len(r) : WellFormed(r[i])
       /\ \A i \in 1..Len(r) : r[i].type = "Decision" =>
            \E k \in 1..n : r[i].body = decisions[k]
       /\ \A i, j \in 1..Len(r) :
            i < j /\ r[i].type = "Decision" /\ r[j].type = "Decision"
              => r[i].body.id[1] < r[j].body.id[1]
       /\ \A i \in 1..Len(r) : r[i].type = "Lineage" =>
            /\ \E k \in 1..n : r[i].body = decisions[k].id
            /\ \E j \in 1..Len(r) : r[j].type = "Decision" /\ r[j].body.id = r[i].body
  BY SeqElim DEF Batch, n
<1>15. Typed'
  BY <1>1, <1>2, <1>3, <1>5, <1>14 DEF Typed, WellFormed
<1>16. AllGiven'
  <2>1. \A i \in 1..Len(log') : GivenNow(log'[i].id)
    BY <1>6, <1>12
  <2>2. \A i \in 1..Len(disk.decisions) : GivenNow(disk.decisions[i].id)
    BY <1>8, <1>10
  <2>3. \A i \in 1..Len(r) : r[i].type = "Decision" => GivenNow(r[i].body.id)
    BY <1>11, <1>14
  <2> QED
    BY <1>1, <1>2, <2>1, <2>2, <2>3 DEF AllGiven, Given, GivenNow, Pending, n
<1>17. PendingOrder'
  <2>1. ASSUME NEW i \in 1..Len(r)
        PROVE  /\ r[i].type = "Decision" => r[i].body.id[2] = boot
               /\ r[i].type = "Lineage" => r[i].body[2] = boot
    BY <1>9, <1>14
  <2>2. ASSUME NEW i \in 1..Len(disk.decisions), NEW j \in 1..Len(r), r[j].type = "Decision",
               disk.decisions[i].id[2] = boot
        PROVE  disk.decisions[i].id[1] < r[j].body.id[1]
    <3>1. PICK k \in 1..Len(decisions) : r[j].body = decisions[k]
      BY <1>14, <2>2 DEF n
    <3>2. disk.decisions[i].id \in Ids /\ Given(disk.decisions[i].id)
      BY <1>8
    <3> QED
      BY <1>1, <2>2, <3>1, <3>2, FreshIsNew
  <2> QED
    BY <1>2, <1>14, <2>1, <2>2 DEF PendingOrder, Pending
<1>18. Agreed'
  <2>1. ASSUME NEW i \in 1..Len(all), NEW j \in 1..Len(disk.decisions),
               all[i].id = disk.decisions[j].id
        PROVE  all[i] = disk.decisions[j]
    <3>1. CASE i \in 1..Len(log) /\ all[i] = log[i]
      BY <1>1, <2>1, <3>1 DEF Agreed
    <3>2. CASE i - Len(log) \in 1..n /\ all[i] = decisions[i - Len(log)]
      BY <1>1, <1>8, <2>1, <3>2, FreshIsNew DEF n
    <3> QED
      BY <1>4, <3>1, <3>2
  <2>2. ASSUME NEW i \in 1..Len(all), NEW j \in 1..Len(r), r[j].type = "Decision",
               all[i].id = r[j].body.id
        PROVE  all[i] = r[j].body
    <3>1. PICK k \in 1..n : r[j].body = decisions[k]
      BY <1>14, <2>2
    <3>2. CASE i \in 1..Len(log) /\ all[i] = log[i]
      BY <1>1, <1>7, <2>2, <3>1, <3>2, FreshIsNew DEF n
    <3>3. CASE i - Len(log) \in 1..n /\ all[i] = decisions[i - Len(log)]
      <4>1. sequence + (i - Len(log)) = sequence + k
        BY <1>9, <2>2, <3>1, <3>3
      <4>2. i - Len(log) = k
        BY SMTT(30), <1>1, <1>3, <3>3, <4>1 DEF Typed
      <4> QED
        BY <3>1, <3>3, <4>2
    <3> QED
      BY <1>4, <3>2, <3>3
  <2> QED
    BY <1>2, <1>6, <2>1, <2>2 DEF Agreed, Pending
<1>19. NamesOnRecord'
  <2>1. ASSUME NEW name \in disk.lineage, name[2] = boot
        PROVE  \E i \in 1..Len(disk.decisions) : disk.decisions[i].id = name
    BY <1>1, <2>1 DEF NamesOnRecord, OnRecord, Pending
  <2>2. ASSUME NEW i \in 1..Len(r), r[i].type = "Lineage"
        PROVE  \E j \in 1..Len(r) : r[j].type = "Decision" /\ r[j].body.id = r[i].body
    BY <1>14, <2>2
  <2> QED
    BY <1>2, <2>1, <2>2 DEF NamesOnRecord, OnRecord, Pending
<1>20. InOrder(log)'
  <2>1. ASSUME NEW i \in 1..Len(log'), NEW j \in 1..Len(log'), i < j,
               log'[i].id[2] = log'[j].id[2]
        PROVE  log'[i].id[1] < log'[j].id[1]
    <3>1. i + off \in 1..Len(all) /\ j + off \in 1..Len(all) /\ i + off < j + off
      BY <1>3, <1>5, <1>6, <2>1
    <3> QED
      BY <1>6, <1>13, <2>1, <3>1
  <2>2. DOMAIN log' = 1..Len(log')
    BY <1>5
  <2> QED
    BY <2>1, <2>2 DEF InOrder
<1> QED
  BY <1>1, <1>2, <1>15, <1>16, <1>17, <1>18, <1>19, <1>20 DEF AuditInv

\* commit_record.
LEMMA FlushKeeps ==
  ASSUME AuditInv, Flush
  PROVE  AuditInv'
<1> DEFINE D == disk.decisions
           r == wal[1]
           n == Len(wal)
<1>1. /\ Typed /\ AllGiven /\ PendingOrder /\ Agreed /\ NamesOnRecord
      /\ InOrder(log) /\ InOrder(D) /\ serving /\ wal # <<>>
  BY DEF AuditInv, Flush
<1>2. /\ Head(wal) = r /\ n \in Nat /\ n >= 1 /\ 1 \in 1..n
      /\ IsSeq(Tail(wal)) /\ Len(Tail(wal)) = n - 1
      /\ \A i \in 1..n - 1 : i + 1 \in 1..n /\ Tail(wal)[i] = wal[i + 1]
  <2>1. wal \in Seq(Range(wal))
    BY <1>1 DEF Typed, IsSeq
  <2>2. /\ Head(wal) = wal[1] /\ Len(wal) \in Nat /\ Len(wal) >= 1
        /\ Tail(wal) \in Seq(Range(wal)) /\ Len(Tail(wal)) = Len(wal) - 1
        /\ \A i \in 1..Len(Tail(wal)) : i + 1 \in 1..Len(wal) /\ Tail(wal)[i] = wal[i + 1]
    BY <1>1, <2>1, Decoded
  <2>3. IsSeq(Tail(wal))
    BY <2>2, SeqIsSeq
  <2> QED
    BY <2>2, <2>3
<1>3. /\ wal' = Tail(wal) /\ serving' = serving /\ boot' = boot /\ sequence' = sequence
      /\ log' = log /\ Len(wal') = n - 1 /\ IsSeq(wal')
      /\ \A i \in 1..Len(wal') : i \in Nat /\ i + 1 \in 1..n /\ wal'[i] = wal[i + 1]
  BY <1>2 DEF Flush
<1>4. WellFormed(r) /\ \A i \in 1..Len(wal') : WellFormed(wal'[i])
  BY <1>1, <1>2, <1>3 DEF Typed
<1>5. /\ boot \in Nat /\ sequence \in Nat /\ log \in Seq(Decisions)
      /\ disk = [decisions |-> D, lineage |-> disk.lineage, state |-> disk.state]
      /\ D \in Seq(Decisions) /\ Len(D) \in Nat /\ disk.lineage \subseteq Ids
      /\ disk.state.sequence \in Nat
  BY <1>1 DEF Typed
\* What the commit does not touch.
<1>6. /\ \A i, j \in 1..Len(wal') :
           i < j /\ wal'[i].type = "Decision" /\ wal'[j].type = "Decision"
             => wal'[i].body.id[1] < wal'[j].body.id[1]
      /\ \A i \in 1..Len(wal') :
           /\ wal'[i].type = "Decision" => wal'[i].body.id[2] = boot /\ Given(wal'[i].body.id)
           /\ wal'[i].type = "Lineage" => wal'[i].body[2] = boot
      /\ \A i \in 1..Len(log), j \in 1..Len(wal') :
           wal'[j].type = "Decision" /\ log[i].id = wal'[j].body.id => log[i] = wal'[j].body
  <2>1. \A i, j \in 1..Len(wal') : i < j => i + 1 < j + 1
    BY <1>2, <1>3
  <2> QED
    BY SMTT(30), <1>1, <1>3, <2>1 DEF PendingOrder, AllGiven, Agreed, Pending
<1>7. \A i \in 1..n : i = 1 \/ \E j \in 1..Len(wal') : wal'[j] = wal[i]
  <2> TAKE i \in 1..n
  <2>1. CASE i # 1
    <3>1. i - 1 \in 1..Len(wal') /\ (i - 1) + 1 = i
      BY <1>2, <1>3, <2>1
    <3> QED
      BY <1>3, <3>1
  <2> QED
    BY <2>1
<1>8. CASE r.type = "Decision"
  <2>1. /\ disk' = [disk EXCEPT !.decisions = Append(D, r.body)] /\ r.body \in Decisions
    BY <1>2, <1>4, <1>8 DEF Flush, WellFormed
  <2>2. /\ disk'.decisions = Append(D, r.body) /\ disk'.lineage = disk.lineage
        /\ disk'.state = disk.state
        /\ disk' = [decisions |-> disk'.decisions, lineage |-> disk'.lineage,
                    state |-> disk'.state]
    BY <1>5, <2>1
  <2> DEFINE E == disk'.decisions
             m == Len(D) + 1
  <2>3. /\ E \in Seq(Decisions) /\ Len(E) = m /\ E[m] = r.body /\ m \in Nat
        /\ \A i \in 1..Len(D) : E[i] = D[i] /\ i \in 1..Len(E)
        /\ \A i \in 1..Len(E) : i \in 1..Len(D) \/ i = m
        /\ DOMAIN D = 1..Len(D) /\ DOMAIN E = 1..Len(E)
    <3>1. /\ Append(D, r.body) \in Seq(Decisions) /\ Len(Append(D, r.body)) = Len(D) + 1
          /\ \A i \in 1..Len(D) : Append(D, r.body)[i] = D[i]
          /\ Append(D, r.body)[Len(D) + 1] = r.body
      BY <1>5, <2>1, Written
    <3> QED
      BY <1>5, <2>2, <3>1
  <2> HIDE DEF E, m
  <2>4. /\ r.body.id[2] = boot /\ Given(r.body.id)
        /\ \A i \in 1..Len(D) : D[i].id[2] = boot => D[i].id[1] < r.body.id[1]
        /\ \A i \in 1..Len(log) : log[i].id = r.body.id => log[i] = r.body
    BY <1>1, <1>2, <1>8 DEF PendingOrder, AllGiven, Agreed, Pending
  <2>5. \A j \in 1..Len(wal') : wal'[j].type = "Decision" => r.body.id[1] < wal'[j].body.id[1]
    <3>1. \A j \in 1..Len(wal') : 1 < j + 1
      BY <1>3
    <3> QED
      BY <1>1, <1>2, <1>3, <1>8, <3>1 DEF PendingOrder, Pending
  <2>6. Typed'
    BY <1>1, <1>3, <1>4, <1>5, <2>2, <2>3 DEF Typed, E
  <2>7. AllGiven'
    BY <1>1, <1>3, <1>6, <2>2, <2>3, <2>4 DEF AllGiven, Given, Pending, E
  <2>8. PendingOrder'
    <3>1. \A i \in 1..Len(E), j \in 1..Len(wal') :
            wal'[j].type = "Decision" /\ E[i].id[2] = boot => E[i].id[1] < wal'[j].body.id[1]
      BY <1>1, <1>3, <2>3, <2>5 DEF PendingOrder, Pending
    <3> QED
      BY <1>3, <1>6, <3>1 DEF PendingOrder, Pending, E
  <2>9. Agreed'
    <3>1. \A i \in 1..Len(log), j \in 1..Len(E) : log[i].id = E[j].id => log[i] = E[j]
      BY <1>1, <2>3, <2>4 DEF Agreed
    <3> QED
      BY <1>3, <1>6, <3>1 DEF Agreed, Pending, E
  <2>10. ASSUME NEW name, OnRecord(name) PROVE OnRecord(name)'
    <3>1. CASE \E i \in 1..Len(D) : D[i].id = name
      <4>1. \E i \in 1..Len(E) : E[i].id = name
        BY <2>3, <3>1
      <4> QED
        BY <4>1 DEF OnRecord, E
    <3>2. CASE \E i \in 1..n : wal[i].type = "Decision" /\ wal[i].body.id = name
      <4>1. PICK i \in 1..n : wal[i].type = "Decision" /\ wal[i].body.id = name
        BY <3>2
      <4>2. CASE i = 1
        <5>1. m \in 1..Len(E) /\ E[m].id = name
          BY <2>3, <4>1, <4>2, <1>5 DEF m
        <5> QED
          BY <5>1 DEF OnRecord, E
      <4>3. CASE i # 1
        <5>1. PICK j \in 1..Len(wal') : wal'[j] = wal[i]
          BY <1>7, <4>3
        <5> QED
          BY <4>1, <5>1 DEF OnRecord, Pending
      <4> QED
        BY <4>2, <4>3
    <3> QED
      BY <2>10, <3>1, <3>2 DEF OnRecord, Pending
  <2>11. NamesOnRecord'
    BY <1>1, <1>3, <2>2, <2>10 DEF NamesOnRecord, Pending
  <2>12. InOrder(E)
    <3>1. \A i \in 1..Len(D) : i < m /\ ~(m < i)
      BY <1>5 DEF m
    <3> QED
      BY SMTT(30), <1>1, <2>3, <2>4, <3>1 DEF InOrder
  <2> QED
    BY <1>1, <1>3, <2>6, <2>7, <2>8, <2>9, <2>11, <2>12 DEF AuditInv, InOrder, E
<1>9. CASE r.type # "Decision"
  <2>1. disk'.decisions = D
    BY <1>2, <1>4, <1>5, <1>9 DEF Flush, WellFormed, RecordTypes
  <2>2. disk'.lineage = IF r.type = "Lineage" THEN disk.lineage \cup {r.body} ELSE disk.lineage
    BY <1>2, <1>4, <1>5, <1>9 DEF Flush, WellFormed, RecordTypes
  <2>3. disk'.state = IF r.type = "EpochState" THEN r.body ELSE disk.state
    BY <1>2, <1>4, <1>5, <1>9 DEF Flush, WellFormed, RecordTypes
  <2>4. disk' = [decisions |-> disk'.decisions, lineage |-> disk'.lineage, state |-> disk'.state]
    BY <1>2, <1>4, <1>5, <1>9 DEF Flush, WellFormed, RecordTypes
  <2>5. /\ r.type = "Lineage" => r.body \in Ids /\ r.body[2] = boot /\ OnRecord(r.body)
        /\ r.type = "EpochState" => r.body.sequence \in Nat
    BY <1>1, <1>2, <1>4 DEF WellFormed, PendingOrder, NamesOnRecord, Pending
  <2>6. Typed'
    BY <1>1, <1>3, <1>4, <1>5, <2>1, <2>2, <2>3, <2>4, <2>5 DEF Typed
  <2>7. AllGiven'
    BY <1>1, <1>3, <1>5, <1>6, <2>1, <2>2, <2>5 DEF AllGiven, Given, Pending
  <2>8. PendingOrder' /\ Agreed'
    BY <1>1, <1>3, <1>6, <2>1 DEF PendingOrder, Agreed, Pending
  <2>9. ASSUME NEW name, OnRecord(name) PROVE OnRecord(name)'
    BY <1>7, <1>9, <2>1, <2>9 DEF OnRecord, Pending
  <2>10. NamesOnRecord'
    BY <1>1, <1>3, <2>2, <2>5, <2>9 DEF NamesOnRecord, Pending
  <2> QED
    BY <1>1, <1>3, <2>1, <2>6, <2>7, <2>8, <2>10 DEF AuditInv, InOrder
<1> QED
  BY <1>8, <1>9

\* A crash leaves nothing in memory.
LEMMA CrashKeeps ==
  ASSUME AuditInv, Crash
  PROVE  AuditInv'
<1>1. /\ serving' = FALSE /\ sequence' = 0 /\ log' = <<>> /\ wal' = <<>>
      /\ boot' = boot /\ disk' = disk
  BY DEF Crash
<1>2. Len(log') = 0 /\ Len(wal') = 0 /\ log' \in Seq(Decisions) /\ IsSeq(wal')
  BY <1>1, Short, EmptyIsSeq
<1>3. InOrder(log)'
  BY <1>1 DEF InOrder
<1>4. Typed'
  <2>1. /\ disk' = [decisions |-> disk'.decisions, lineage |-> disk'.lineage,
                    state |-> disk'.state]
        /\ disk'.decisions \in Seq(Decisions) /\ disk'.lineage \subseteq Ids
        /\ disk'.state.sequence \in Nat /\ boot' \in Nat
    BY <1>1 DEF AuditInv, Typed
  <2>2. \A i \in 1..Len(wal') : WellFormed(wal'[i])
    BY <1>2
  <2> QED
    BY <1>1, <1>2, <2>1, <2>2 DEF Typed
<1>5. AllGiven' /\ PendingOrder' /\ Agreed' /\ NamesOnRecord'
  BY <1>1, <1>2 DEF AuditInv, AllGiven, Given, PendingOrder, Agreed, NamesOnRecord
<1>6. InOrder(disk.decisions)'
  BY <1>1 DEF AuditInv
<1> QED
  BY <1>3, <1>4, <1>5, <1>6 DEF AuditInv

\* The constructor: an incarnation of its own, and the log is the end of the
\* journal.
LEMMA StartKeeps ==
  ASSUME AuditInv, Start
  PROVE  AuditInv'
<1> DEFINE D == disk.decisions
           e == EpochState(disk.state.epoch + 1, disk.state.sequence, disk.state.attempt)
<1>1. /\ Typed /\ AllGiven /\ InOrder(D) /\ ~serving
  BY DEF AuditInv, Start
<1>2. /\ serving' = TRUE /\ boot' = boot + 1 /\ sequence' = disk.state.sequence
      /\ log' = Window(D) /\ wal' = <<e>> /\ disk' = disk /\ boot \in Nat
  BY <1>1 DEF Start, Typed
<1>3. D \in Seq(Decisions) /\ Len(D) \in Nat /\ DOMAIN D = 1..Len(D)
  BY <1>1 DEF Typed
<1>4. /\ log' \in Seq(Decisions)
      /\ \E off \in Nat : \A i \in 1..Len(log') : i + off \in 1..Len(D) /\ log'[i] = D[i + off]
  BY <1>2, <1>3, WindowIsEnd
<1>5. PICK off \in Nat : \A i \in 1..Len(log') : i + off \in 1..Len(D) /\ log'[i] = D[i + off]
  BY <1>4
<1>6. /\ \A i \in 1..Len(D) : D[i].id[2] \in Nat /\ D[i].id[2] <= boot
      /\ \A name \in disk.lineage : name[2] \in Nat /\ name[2] <= boot
  <2>1. \A i \in 1..Len(D) : D[i] \in Decisions
    BY <1>3, Element
  <2> QED
    BY <1>1, <2>1, DecisionTyped DEF AllGiven, Given, Typed, Ids
<1>7. /\ Len(wal') = 1 /\ IsSeq(wal') /\ wal'[1].type = "EpochState" /\ WellFormed(wal'[1])
      /\ \A i \in 1..Len(wal') : i = 1
  BY <1>1, <1>2, SingleIsSeq DEF EpochState, Record, WellFormed, RecordTypes, Typed
<1>8. Typed'
  BY <1>1, <1>2, <1>4, <1>7 DEF Typed, WellFormed
<1>9. AllGiven'
  <2>1. \A i \in 1..Len(log') : log'[i].id[2] \in Nat /\ log'[i].id[2] <= boot
    BY <1>5, <1>6
  <2> QED
    BY <1>2, <1>6, <1>7, <2>1 DEF AllGiven, Given, Pending
<1>10. PendingOrder' /\ NamesOnRecord'
  BY <1>2, <1>6, <1>7 DEF PendingOrder, NamesOnRecord, Pending
<1>d. \A i, j \in 1..Len(D) :
        i < j /\ D[i].id[2] = D[j].id[2] => D[i].id[1] < D[j].id[1]
  BY <1>1, <1>3 DEF InOrder
<1>11. Agreed'
  <2>1. ASSUME NEW i \in 1..Len(D), NEW j \in 1..Len(D), D[i].id = D[j].id PROVE i = j
    <3>1. \A k \in 1..Len(D) : D[k].id[1] \in Nat
      BY <1>3, Element, DecisionTyped
    <3> QED
      BY <1>3, <1>d, <2>1, <3>1, SMTT(30)
  <2>2. \A i \in 1..Len(log'), j \in 1..Len(D) : log'[i].id = D[j].id => log'[i] = D[j]
    BY <1>5, <2>1
  <2> QED
    BY <1>2, <1>7, <2>2 DEF Agreed, Pending
<1>12. InOrder(log)'
  <2>1. ASSUME NEW i \in 1..Len(log'), NEW j \in 1..Len(log'), i < j,
               log'[i].id[2] = log'[j].id[2]
        PROVE  log'[i].id[1] < log'[j].id[1]
    <3>1. i + off \in 1..Len(D) /\ j + off \in 1..Len(D) /\ i + off < j + off
      BY <1>3, <1>4, <1>5, <2>1, SMTT(30)
    <3> QED
      BY <1>5, <1>d, <2>1, <3>1
  <2>2. DOMAIN log' = 1..Len(log')
    BY <1>4
  <2> QED
    BY <2>1, <2>2 DEF InOrder
<1> QED
  BY <1>1, <1>2, <1>8, <1>9, <1>10, <1>11, <1>12 DEF AuditInv

-----------------------------------------------------------------------------
(* Operations.                                                             *)

\* The decisions of an operation take their identities in publication order.
LEMMA OneFresh ==
  ASSUME Typed, NEW k \in Kinds
  PROVE  Fresh(<<Decided(1, k)>>) /\ Len(<<Decided(1, k)>>) = 1
<1>1. Decided(1, k) \in Decisions /\ Decided(1, k).id = <<sequence + 1, boot>>
  BY DEF Decided, DecisionId, Decisions, Ids, Typed
<1> QED
  BY <1>1 DEF Fresh

LEMMA TwoFresh ==
  ASSUME Typed, NEW k \in Kinds, NEW l \in Kinds
  PROVE  LET s == <<Decided(1, k), Decided(2, l)>>
         IN  Fresh(s) /\ Len(s) = 2 /\ s[1] = Decided(1, k) /\ s[2] = Decided(2, l)
<1>1. Decided(1, k) \in Decisions /\ Decided(1, k).id = <<sequence + 1, boot>>
  BY DEF Decided, DecisionId, Decisions, Ids, Typed
<1>2. Decided(2, l) \in Decisions /\ Decided(2, l).id = <<sequence + 2, boot>>
  BY DEF Decided, DecisionId, Decisions, Ids, Typed
<1> QED
  BY <1>1, <1>2 DEF Fresh

\* The kind of an assessment's decision.
Kind(outcome) == IF outcome = "denied" THEN "denial" ELSE "assess"

LEMMA AssessedIsDecided ==
  ASSUME NEW n, NEW outcome
  PROVE  Assessed(n, outcome) = Decided(n, Kind(outcome)) /\ Kind(outcome) \in Kinds
<1>1. Kind(outcome) \in Kinds
  BY DEF Kind, Kinds
<1>2. Assessed(n, outcome) = Decided(n, Kind(outcome))
  BY Zenon DEF Assessed, Kind
<1> QED
  BY <1>1, <1>2

\* An operation that takes one decision and commits it, with no other record or
\* with what a retirement or an assessment leaves.
LEMMA OneWhole ==
  ASSUME Typed, NEW k \in Kinds
  PROVE  LET d == Decided(1, k)
             s == <<d>>
         IN
         /\ Part(s, <<DecisionRecord(d)>>, 0, 1)
         /\ Part(s, <<InputRecord>> \o <<DecisionRecord(d)>>, 0, 1)
         /\ Part(s, <<>> \o <<DecisionRecord(d)>>, 0, 1)
         /\ Part(s, <<LineageRecord(d), DecisionRecord(d)>>, 0, 1)
         /\ \A outcome \in Outcomes : \A a : Part(s, AssessRecords(d, outcome, a), 0, 1)
<1> DEFINE d == Decided(1, k)
           s == <<d>>
<1>1. Fresh(s) /\ Len(s) = 1 /\ s[1] = d
  BY OneFresh
<1> HIDE DEF s, d
<1>2. 1 \in 1..Len(s) /\ 1 - 1 = 0 /\ 0 \in Nat /\ 1 \in Nat /\ 0 <= 1 /\ 0 <= 0 /\ 1 <= Len(s)
  BY <1>1
<1>3. Part(s, <<DecisionRecord(d)>>, 0, 1)
  BY <1>1, <1>2, DecisionPart
<1>4. Part(s, <<>>, 0, 0) /\ Part(s, <<InputRecord>>, 0, 0)
  BY <1>1, <1>2, SilentPart
<1>5. /\ Part(s, <<>> \o <<DecisionRecord(d)>>, 0, 1)
      /\ Part(s, <<InputRecord>> \o <<DecisionRecord(d)>>, 0, 1)
  BY <1>1, <1>2, <1>3, <1>4, PartsJoin
<1>6. Part(s, <<LineageRecord(d), DecisionRecord(d)>>, 0, 1)
  BY <1>1, <1>2, LineageFirst
<1>7. \A outcome \in Outcomes : \A a : Part(s, AssessRecords(d, outcome, a), 0, 1)
  BY <1>1, <1>2, AssessPart
<1> QED
  BY <1>3, <1>5, <1>6, <1>7 DEF s, d

\* The same, or an operation that does not commit its decision.
LEMMA OneDecision ==
  ASSUME Typed, NEW k \in Kinds
  PROVE  LET d == Decided(1, k) IN
         /\ Batch(<<d>>, <<>>)
         /\ Batch(<<d>>, <<DecisionRecord(d)>>)
         /\ Batch(<<d>>, <<InputRecord>> \o <<DecisionRecord(d)>>)
         /\ Batch(<<d>>, <<>> \o <<DecisionRecord(d)>>)
         /\ Batch(<<d>>, <<LineageRecord(d), DecisionRecord(d)>>)
         /\ \A outcome \in Outcomes : \A a : Batch(<<d>>, AssessRecords(d, outcome, a))
<1> DEFINE d == Decided(1, k)
           s == <<d>>
<1>1. Fresh(s) /\ Len(s) = 1
  BY OneFresh
<1>2. /\ Part(s, <<DecisionRecord(d)>>, 0, 1)
      /\ Part(s, <<InputRecord>> \o <<DecisionRecord(d)>>, 0, 1)
      /\ Part(s, <<>> \o <<DecisionRecord(d)>>, 0, 1)
      /\ Part(s, <<LineageRecord(d), DecisionRecord(d)>>, 0, 1)
      /\ \A outcome \in Outcomes : \A a : Part(s, AssessRecords(d, outcome, a), 0, 1)
  BY OneWhole
<1> HIDE DEF s, d
<1>3. \A r : Part(s, r, 0, 1) => Batch(s, r)
  BY <1>1, WholeIsBatch
<1>4. Batch(s, <<>>)
  BY <1>1, EmptyIsSeq DEF Batch
<1> QED
  BY <1>2, <1>3, <1>4 DEF s, d

\* An operation that takes two, its own and that of the assessment.
LEMMA TwoWhole ==
  ASSUME Typed, NEW k \in Kinds, NEW l \in Kinds, NEW outcome \in Outcomes, NEW a
  PROVE  LET c == Decided(1, k)
             d == Decided(2, l)
             s == <<c, d>>
         IN  /\ Part(s, <<DecisionRecord(c)>> \o AssessRecords(d, outcome, a), 0, 2)
             /\ Part(s, <<LineageRecord(c), DecisionRecord(c)>>
                            \o AssessRecords(d, outcome, a), 0, 2)
             /\ Part(s, AssessRecords(c, outcome, a) \o <<DecisionRecord(d)>>, 0, 2)
<1> DEFINE c == Decided(1, k)
           d == Decided(2, l)
           s == <<c, d>>
<1>1. Fresh(s) /\ Len(s) = 2 /\ s[1] = c /\ s[2] = d
  BY TwoFresh
<1> HIDE DEF s, c, d
<1>2. /\ 1 \in 1..Len(s) /\ 2 \in 1..Len(s) /\ 1 - 1 = 0 /\ 2 - 1 = 1 /\ 0 \in Nat /\ 1 \in Nat
      /\ 2 \in Nat /\ 0 <= 1 /\ 1 <= 2 /\ 2 <= Len(s)
  BY <1>1
<1>3. Part(s, <<DecisionRecord(c)>>, 0, 1) /\ Part(s, <<DecisionRecord(d)>>, 1, 2)
  BY <1>1, <1>2, DecisionPart
<1>4. Part(s, <<LineageRecord(c), DecisionRecord(c)>>, 0, 1)
  BY <1>1, <1>2, LineageFirst
<1>5. Part(s, AssessRecords(c, outcome, a), 0, 1) /\ Part(s, AssessRecords(d, outcome, a), 1, 2)
  BY <1>1, <1>2, AssessPart
<1>6. /\ Part(s, <<DecisionRecord(c)>> \o AssessRecords(d, outcome, a), 0, 2)
      /\ Part(s, <<LineageRecord(c), DecisionRecord(c)>> \o AssessRecords(d, outcome, a), 0, 2)
      /\ Part(s, AssessRecords(c, outcome, a) \o <<DecisionRecord(d)>>, 0, 2)
  BY <1>1, <1>2, <1>3, <1>4, <1>5, PartsJoin
<1> QED
  BY <1>6 DEF s, c, d

LEMMA TwoDecisions ==
  ASSUME Typed, NEW k \in Kinds, NEW l \in Kinds, NEW outcome \in Outcomes, NEW a
  PROVE  LET c == Decided(1, k)
             d == Decided(2, l)
         IN  /\ Batch(<<c, d>>, <<DecisionRecord(c)>> \o AssessRecords(d, outcome, a))
             /\ Batch(<<c, d>>, <<LineageRecord(c), DecisionRecord(c)>>
                                   \o AssessRecords(d, outcome, a))
             /\ Batch(<<c, d>>, AssessRecords(c, outcome, a) \o <<DecisionRecord(d)>>)
<1> DEFINE c == Decided(1, k)
           d == Decided(2, l)
           s == <<c, d>>
<1>1. Fresh(s) /\ Len(s) = 2
  BY TwoFresh
<1>2. /\ Part(s, <<DecisionRecord(c)>> \o AssessRecords(d, outcome, a), 0, 2)
      /\ Part(s, <<LineageRecord(c), DecisionRecord(c)>> \o AssessRecords(d, outcome, a), 0, 2)
      /\ Part(s, AssessRecords(c, outcome, a) \o <<DecisionRecord(d)>>, 0, 2)
  BY TwoWhole
<1> HIDE DEF s, c, d
<1>3. \A r : Part(s, r, 0, 2) => Batch(s, r)
  BY <1>1, WholeIsBatch
<1> QED
  BY <1>2, <1>3 DEF s, c, d

\* Every step of the coordinator, as far as the audit goes.
AuditStep ==
  \/ \E changes \in BOOLEAN : Input(changes)
  \/ Ingest
  \/ \E outcome \in Outcomes : Assess(outcome)
  \/ \E n : RefuseAttempt(n) \/ Deny(n) \/ RetireLineage(n)
  \/ \E n : \E outcome \in Outcomes :
       Direct(n, outcome) \/ MergeLineages(n, outcome) \/ Revalidate(n, outcome)
  \/ Start \/ Flush \/ Crash

LEMMA AuditStepKeeps ==
  ASSUME AuditInv, AuditStep
  PROVE  AuditInv'
<1>0. "request" \in Kinds
  BY DEF Kinds
<1>1. Typed
  BY DEF AuditInv
<1>2. ASSUME NEW changes \in BOOLEAN, Input(changes) PROVE AuditInv'
  <2> DEFINE d == Decided(1, "input")
             r == (IF changes THEN <<InputRecord>> ELSE <<>>) \o <<DecisionRecord(d)>>
  <2>1. Free /\ Publish(<<d>>, r)
    BY <1>2 DEF Input
  <2>2. Batch(<<d>>, r)
    <3>1. "input" \in Kinds
      BY DEF Kinds
    <3> QED
      BY <1>1, <3>1, OneDecision
  <2> HIDE DEF d, r
  <2> QED
    BY <2>1, <2>2, PublishKeeps
<1>3. CASE Ingest
  <2> DEFINE d == Decided(1, "ingest")
  <2>1. Free /\ Publish(<<d>>, <<>>)
    BY <1>3 DEF Ingest
  <2>2. Batch(<<d>>, <<>>)
    <3>1. "ingest" \in Kinds
      BY DEF Kinds
    <3> QED
      BY <1>1, <3>1, OneDecision
  <2> HIDE DEF d
  <2> QED
    BY <2>1, <2>2, PublishKeeps
<1>4. ASSUME NEW outcome \in Outcomes, Assess(outcome) PROVE AuditInv'
  <2> DEFINE d == Assessed(1, outcome)
             r == AssessRecords(d, outcome, floor)
  <2>1. Free /\ Publish(<<d>>, r)
    BY <1>4 DEF Assess
  <2>2. Batch(<<d>>, r)
    BY <1>1, AssessedIsDecided, OneDecision
  <2> HIDE DEF d, r
  <2> QED
    BY <2>1, <2>2, PublishKeeps
<1>5. ASSUME NEW n, RefuseAttempt(n) \/ Deny(n) \/ RetireLineage(n) PROVE AuditInv'
  <2> DEFINE d == Decided(1, "request")
             l == <<LineageRecord(d), DecisionRecord(d)>>
  <2>1. Free /\ (Publish(<<d>>, <<DecisionRecord(d)>>) \/ Publish(<<d>>, l))
    BY <1>5 DEF RefuseAttempt, Deny, RetireLineage, Admit
  <2>2. Batch(<<d>>, <<DecisionRecord(d)>>) /\ Batch(<<d>>, l)
    BY <1>0, <1>1, OneDecision
  <2> HIDE DEF d, l
  <2> QED
    BY <2>1, <2>2, PublishKeeps
<1>6. ASSUME NEW n, NEW outcome \in Outcomes,
             Direct(n, outcome) \/ MergeLineages(n, outcome) \/ Revalidate(n, outcome)
      PROVE  AuditInv'
  <2>1. CASE Direct(n, outcome) \/ MergeLineages(n, outcome)
    <3> DEFINE own == Decided(1, "request")
               d == Assessed(2, outcome)
               r == <<DecisionRecord(own)>> \o AssessRecords(d, outcome, n)
               l == <<LineageRecord(own), DecisionRecord(own)>> \o AssessRecords(d, outcome, n)
    <3>1. Free /\ (Publish(<<own, d>>, r) \/ Publish(<<own, d>>, l))
      BY <2>1 DEF Direct, MergeLineages, Admit
    <3>2. d = Decided(2, Kind(outcome)) /\ Kind(outcome) \in Kinds
      BY AssessedIsDecided
    <3>3. Batch(<<own, d>>, r) /\ Batch(<<own, d>>, l)
      BY <1>0, <1>1, <3>2, TwoDecisions
    <3> HIDE DEF own, d, r, l
    <3> QED
      BY <3>1, <3>3, PublishKeeps
  <2>2. CASE Revalidate(n, outcome)
    <3> DEFINE d == Assessed(1, outcome)
               own == Decided(2, "request")
               r == AssessRecords(d, outcome, n) \o <<DecisionRecord(own)>>
    <3>1. Free /\ Publish(<<d, own>>, r)
      BY <2>2 DEF Revalidate, Admit
    <3>2. d = Decided(1, Kind(outcome)) /\ Kind(outcome) \in Kinds
      BY AssessedIsDecided
    <3>3. Batch(<<d, own>>, r)
      BY <1>0, <1>1, <3>2, TwoDecisions
    <3> HIDE DEF own, d, r
    <3> QED
      BY <3>1, <3>3, PublishKeeps
  <2> QED
    BY <1>6, <2>1, <2>2
<1>7. CASE Start \/ Flush \/ Crash
  BY <1>7, StartKeeps, FlushKeeps, CrashKeeps
<1> QED
  BY <1>2, <1>3, <1>4, <1>5, <1>6, <1>7 DEF AuditStep

\* The handlers of the server and the coordinator process.
LEMMA HandlersAreAudited ==
  ASSUME [Next]_vars
  PROVE  AuditStep \/ UNCHANGED auditVars
<1>1. ASSUME NEW p \in Processes, AskTopology(p) \/ AskPublish(p) \/ AskAssess(p)
      PROVE  AuditStep
  BY <1>1 DEF AskTopology, AskPublish, AskAssess, AuditStep
<1>2. ASSUME NEW p \in Processes, AskGoverned(p) PROVE AuditStep
  BY <1>2 DEF AskGoverned, AuditStep
<1>3. ASSUME NEW p \in Processes,
             \/ Usage(p) \/ Unreachable(p) \/ Stamp(p) \/ Read(p) \/ ReadBack(p)
             \/ Receive(p) \/ Fail(p) \/ Abandon(p) \/ Reaped(p)
             \/ \E command \in Commands[p], named \in NamedEpochs : Connect(p, command, named)
      PROVE  UNCHANGED auditVars
  BY <1>3 DEF Usage, Unreachable, Stamp, Read, ReadBack, Receive, Fail, Abandon, Reaped, Connect
<1>4. ASSUME StartCoordinator \/ Commit \/ StopCoordinator \/ CrashCoordinator \/ Reboot
      PROVE  AuditStep \/ UNCHANGED auditVars
  BY <1>4
  DEF StartCoordinator, Commit, StopCoordinator, CrashCoordinator, Reboot, AuditStep
<1>5. CASE UNCHANGED vars
  BY <1>5 DEF vars
<1> QED
  BY <1>1, <1>2, <1>3, <1>4, <1>5 DEF Next, ProcessStep

LEMMA AuditInit0 == Init => AuditInv
<1> SUFFICES ASSUME Init PROVE AuditInv
  OBVIOUS
<1>1. /\ serving = FALSE /\ boot = 0 /\ sequence = 0 /\ log = <<>> /\ wal = <<>>
      /\ disk = [decisions |-> <<>>, lineage |-> {},
                 state |-> [epoch |-> 1, sequence |-> 0, attempt |-> 0]]
  BY DEF Init, AuditInit
<1>2. /\ disk.decisions = <<>> /\ disk.lineage = {} /\ disk.state.sequence = 0
      /\ disk = [decisions |-> disk.decisions, lineage |-> disk.lineage, state |-> disk.state]
  BY <1>1
<1>3. Len(log) = 0 /\ Len(wal) = 0 /\ log \in Seq(Decisions) /\ IsSeq(wal)
  BY <1>1, Short, EmptyIsSeq
<1>4. Len(disk.decisions) = 0 /\ disk.decisions \in Seq(Decisions)
  BY <1>2, Short
<1>5. \A i \in 1..0 : FALSE
  OBVIOUS
<1>6. Typed
  BY <1>1, <1>2, <1>3, <1>4, <1>5 DEF Typed
<1>7. AllGiven /\ PendingOrder /\ Agreed /\ NamesOnRecord
  BY <1>1, <1>2, <1>3, <1>4, <1>5 DEF AllGiven, PendingOrder, Agreed, NamesOnRecord
<1>8. InOrder(log) /\ InOrder(disk.decisions)
  BY <1>1, <1>2 DEF InOrder
<1> QED
  BY <1>6, <1>7, <1>8 DEF AuditInv

LEMMA AuditStuttering ==
  ASSUME AuditInv, UNCHANGED auditVars
  PROVE  AuditInv'
<1>1. /\ serving' = serving /\ boot' = boot /\ sequence' = sequence /\ log' = log
      /\ wal' = wal /\ disk' = disk
  BY DEF auditVars
<1> QED
  BY <1>1
  DEF AuditInv, Typed, AllGiven, Given, PendingOrder, Pending, Agreed, NamesOnRecord, OnRecord,
      InOrder, WellFormed

LEMMA AuditInductive == Spec => []AuditInv
<1>1. ASSUME AuditInv, [Next]_vars PROVE AuditInv'
  BY <1>1, HandlersAreAudited, AuditStepKeeps, AuditStuttering
<1> QED
  BY <1>1, AuditInit0, PTL DEF Spec

\* Two decisions of one incarnation in order have different identities.
LEMMA OrderSeparates ==
  ASSUME NEW q \in Seq(Decisions), InOrder(q)
  PROVE  \A i, j \in DOMAIN q : q[i].id = q[j].id => i = j
<1>1. DOMAIN q = 1..Len(q) /\ Len(q) \in Nat
  OBVIOUS
<1>2. \A i \in 1..Len(q) : q[i].id[1] \in Nat
  BY Element, DecisionTyped
<1> SUFFICES ASSUME NEW i \in 1..Len(q), NEW j \in 1..Len(q), q[i].id = q[j].id
             PROVE  i = j
  BY <1>1
<1>3. ~(i < j) /\ ~(j < i)
  BY <1>1, <1>2 DEF InOrder
<1> QED
  BY <1>1, <1>3

\* A decision identity means one decision, in the audit log and in the journal,
\* over any number of crashes and restarts (finalize_decision, commit_record and
\* the constructor of the runtime), although the sequence falls back to the
\* last epoch state at every restart: the boot identity in it keeps the
\* incarnations apart, and within one the sequence never falls back.
THEOREM IdsNeverReused == Spec => []DecisionIdsNeverReused
<1>1. AuditInv => DecisionIdsNeverReused
  <2> SUFFICES ASSUME AuditInv PROVE DecisionIdsNeverReused
    OBVIOUS
  <2>1. /\ log \in Seq(Decisions) /\ disk.decisions \in Seq(Decisions)
        /\ InOrder(log) /\ InOrder(disk.decisions) /\ Agreed
        /\ DOMAIN log = 1..Len(log) /\ DOMAIN disk.decisions = 1..Len(disk.decisions)
    BY DEF AuditInv, Typed
  <2>2. \A i, j \in DOMAIN log : log[i].id = log[j].id => i = j
    BY <2>1, OrderSeparates
  <2>3. \A i, j \in DOMAIN disk.decisions : disk.decisions[i].id = disk.decisions[j].id => i = j
    BY <2>1, OrderSeparates
  <2> QED
    BY <2>1, <2>2, <2>3 DEF DecisionIdsNeverReused, Agreed
<1> QED
  BY <1>1, AuditInductive, PTL

\* Within an incarnation the audit log and the journal are in sequence order,
\* whatever requests trigger which assessments (request_merge, isolate,
\* clear_isolation and revalidate) and wherever the process dies.
THEOREM SequencesInOrder == Spec => []SequencesAdvance
<1>1. AuditInv => SequencesAdvance
  BY DEF AuditInv, SequencesAdvance
<1> QED
  BY <1>1, AuditInductive, PTL

\* Whenever no operation runs, every lineage record that this incarnation has
\* committed names a decision in the journal, although retire and request_merge
\* commit the record first.
THEOREM LineageIsExplained == Spec => []LineageExplained
<1>1. AuditInv => LineageExplained
  <2> SUFFICES ASSUME AuditInv, Free, NEW name \in disk.lineage, name[2] = boot
               PROVE  Explained(name)
    BY DEF LineageExplained
  <2>1. OnRecord(name) /\ Len(wal) = 0 /\ DOMAIN disk.decisions = 1..Len(disk.decisions)
    BY DEF AuditInv, NamesOnRecord, Free, Typed
  <2>2. \A i \in 1..Len(wal) : FALSE
    BY <2>1
  <2> QED
    BY <2>1, <2>2 DEF OnRecord, Explained
<1> QED
  BY <1>1, AuditInductive, PTL

-----------------------------------------------------------------------------
(* The attempts of governed requests.                                      *)

\* The fields of a process.
Shaped(r) ==
  DOMAIN r = {"pc", "command", "session", "attempt", "todo", "reply", "results", "exit",
              "made", "before"}

\* A process: a governed request is the only one of its kind in a script, and
\* nothing was decided for the process before it.
Local(r) ==
  /\ Shaped(r)
  /\ r.pc \in {"ready", "run", "waiting", "abandoned", "done"}
  /\ r.attempt \in Nat /\ IsSeq(r.made) /\ IsSeq(r.todo)
  /\ r.pc = "ready" => r.attempt = 0 /\ r.made = <<>>
  /\ r.pc \in {"run", "waiting"} => r.todo # <<>>
  /\ \A i \in 1..Len(r.todo) :
       IF r.command = "govern" THEN r.todo[i] \in {"query", "govern"} ELSE r.todo[i] # "govern"
  /\ \A i, j \in 1..Len(r.todo) : r.todo[i] = "govern" /\ r.todo[j] = "govern" => i = j
  /\ \A i \in 1..Len(r.todo) :
       r.todo[i] = "govern" =>
         /\ r.pc = "run" => r.made = <<>>
         /\ r.pc = "waiting" => i = 1

\* A process that has had its decision, or has ended, or never will hear of it.
Spent(r) == r.made # <<>> \/ r.pc \in {"done", "abandoned"}

\* While the host is up an attempt is a reading of its clock, later than those
\* of the processes that had ended before.
InTime ==
  reboots = 0 =>
    \A p \in Processes :
      /\ proc[p].attempt <= clock
      /\ \A q \in proc[p].before :
           /\ q \in Processes /\ proc[q].pc = "done" /\ proc[q].attempt < clock
           /\ proc[p].attempt # 0 => proc[q].attempt < proc[p].attempt

\* No floor, in memory, on disk or on its way there, is above the attempts that
\* processes have spent.
Reached(n) ==
  /\ n \in Nat
  /\ n = 0 \/ \E q \in Processes : Spent(proc[q]) /\ n <= proc[q].attempt

Floors ==
  reboots = 0 =>
    /\ Reached(floor) /\ Reached(disk.state.attempt)
    /\ \A i \in 1..Len(wal) : Pending(i, "EpochState") => Reached(wal[i].body.attempt)

AttemptInv ==
  /\ clock \in Nat \ {0} /\ reboots \in Nat /\ DOMAIN proc = Processes
  /\ \A p \in Processes : Local(proc[p])
  /\ InTime /\ Floors

CommandNames == {"status", "assess", "publish", "topology", "govern", "publisher"}

\* The script with n exchanges left, counted from its end: the request of a
\* command is the last but one, those of the publisher are the last.
Left(command, n) ==
  IF command = "publisher"
  THEN IF n <= PublishCount THEN "publish"
       ELSE IF n = PublishCount + 2 THEN "topology" ELSE "query"
  ELSE IF n = 2 /\ command # "status" THEN command ELSE "query"

\* Three sequences put together.
LEMMA ThreeJoined ==
  ASSUME NEW a, NEW b, NEW c, IsSeq(a), IsSeq(b), IsSeq(c)
  PROVE  LET s == (a \o b) \o c IN
         /\ IsSeq(s) /\ Len(a) \in Nat /\ Len(b) \in Nat /\ Len(c) \in Nat
         /\ Len(s) = Len(a) + Len(b) + Len(c)
         /\ \A i \in 1..Len(a) : s[i] = a[i]
         /\ \A i \in 1..Len(b) : s[Len(a) + i] = b[i]
         /\ \A i \in 1..Len(c) : s[Len(a) + Len(b) + i] = c[i]
<1> DEFINE ab == a \o b
<1>1. /\ IsSeq(ab) /\ Len(a) \in Nat /\ Len(b) \in Nat /\ Len(ab) = Len(a) + Len(b)
      /\ \A i \in 1..Len(a) : ab[i] = a[i]
      /\ \A i \in 1..Len(b) : ab[Len(a) + i] = b[i]
  BY ConcatIsSeq, ConcatElements
<1> HIDE DEF ab
<1> DEFINE s == ab \o c
<1>2. /\ IsSeq(s) /\ Len(c) \in Nat /\ Len(s) = Len(ab) + Len(c)
      /\ \A i \in 1..Len(ab) : s[i] = ab[i]
      /\ \A i \in 1..Len(c) : s[Len(ab) + i] = c[i]
  <2>1. IsSeq(ab) /\ IsSeq(c)
    BY <1>1
  <2>2. IsSeq(s)
    BY <2>1, ConcatIsSeq
  <2>3. /\ Len(c) \in Nat /\ Len(s) = Len(ab) + Len(c)
        /\ \A i \in 1..Len(ab) : s[i] = ab[i]
        /\ \A i \in 1..Len(c) : s[Len(ab) + i] = c[i]
    BY <2>1, ConcatElements
  <2> QED
    BY <2>2, <2>3
<1> HIDE DEF s
<1>3. ASSUME NEW i \in 1..Len(a) PROVE s[i] = a[i]
  BY <1>1, <1>2
<1>4. ASSUME NEW i \in 1..Len(b) PROVE s[Len(a) + i] = b[i]
  <2>1. Len(a) + i \in 1..Len(ab)
    BY <1>1
  <2> QED
    BY <1>1, <1>2, <2>1
<1>5. IsSeq(s) /\ Len(s) = Len(a) + Len(b) + Len(c)
  BY <1>1, <1>2
<1>6. \A i \in 1..Len(c) : s[Len(a) + Len(b) + i] = c[i]
  BY <1>1, <1>2
<1> QED
  BY <1>1, <1>2, <1>3, <1>4, <1>5, <1>6 DEF s, ab

LEMMA ScriptLeft ==
  ASSUME NEW p \in Processes, NEW command \in Commands[p], NEW named
  PROVE  LET s == Script(command, named)
             n == Len(s)
         IN
         /\ command \in CommandNames /\ IsSeq(s)
         /\ IF command = "publisher" THEN n = PublishCount + 3 ELSE n \in {2, 3}
         /\ \A i \in 1..n : s[i] = Left(command, n - i + 1)
<1> DEFINE s == Script(command, named)
           a == IF named = 0 \/ command = "publisher" THEN <<"query">> ELSE <<>>
           b == Body(command)
           c == IF command = "publisher" THEN <<>> ELSE <<"query">>
           n == Len(s)
<1>1. command \in CommandNames /\ PublishCount \in Nat \ {0}
  BY OperatorAssumption DEF CommandNames
<1>2. s = (a \o b) \o c
  BY DEF Script
<1>3. CASE command # "publisher"
  <2> DEFINE x == IF command = "status" THEN "query" ELSE command
  <2>1. b = <<x>>
    BY <1>1, <1>3 DEF Body, CommandNames
  <2>2. /\ Len(a) \in {0, 1} /\ IsSeq(a) /\ \A i \in 1..Len(a) : a[i] = "query"
        /\ IsSeq(c) /\ Len(c) = 1 /\ c[1] = "query"
    BY <1>3, SingleIsSeq, EmptyIsSeq
  <2> HIDE DEF a, b, c
  <2>3. IsSeq(b) /\ Len(b) = 1 /\ b[1] = x
    BY <2>1, SingleIsSeq
  <2> HIDE DEF s
  <2>4. /\ IsSeq(s) /\ Len(s) = Len(a) + 1 + 1
        /\ \A i \in 1..Len(a) : s[i] = a[i]
        /\ \A i \in 1..1 : s[Len(a) + i] = b[i]
        /\ \A i \in 1..1 : s[Len(a) + 1 + i] = c[i]
    <3>1. IsSeq(a) /\ IsSeq(b) /\ IsSeq(c)
      BY <2>2, <2>3
    <3>2. /\ IsSeq(s) /\ Len(s) = Len(a) + Len(b) + Len(c)
          /\ \A i \in 1..Len(a) : s[i] = a[i]
          /\ \A i \in 1..Len(b) : s[Len(a) + i] = b[i]
          /\ \A i \in 1..Len(c) : s[Len(a) + Len(b) + i] = c[i]
      BY <1>2, <3>1, ThreeJoined
    <3> QED
      BY <2>2, <2>3, <3>2
  <2>5. s[Len(a) + 1] = x /\ s[Len(a) + 2] = "query"
    <3>1. 1 \in 1..1 /\ Len(a) + 1 + 1 = Len(a) + 2
      BY <2>2
    <3> QED
      BY <2>2, <2>3, <2>4, <3>1
  <2>6. n \in {2, 3} /\ n = Len(a) + 2
    BY <2>2, <2>4
  <2> HIDE DEF n
  <2>7. ASSUME NEW i \in 1..n PROVE s[i] = Left(command, n - i + 1)
    <3>1. CASE i = Len(a) + 1
      <4>1. n - i + 1 = 2
        BY <2>2, <2>6, <3>1
      <4> QED
        BY <1>3, <2>5, <3>1, <4>1 DEF Left
    <3>2. CASE i # Len(a) + 1
      <4>1. n - i + 1 # 2 /\ (i \in 1..Len(a) \/ i = Len(a) + 2)
        BY <2>2, <2>6, <3>2
      <4>2. s[i] = "query"
        BY <2>2, <2>4, <2>5, <4>1
      <4> QED
        BY <1>3, <4>1, <4>2 DEF Left
    <3> QED
      BY <3>1, <3>2
  <2> QED
    BY <1>1, <1>3, <2>4, <2>6, <2>7 DEF n, s
<1>4. CASE command = "publisher"
  <2> DEFINE f == [i \in 1..PublishCount |-> "publish"]
             t == <<"topology", "query">>
             u == <<"query">>
  <2>1. a = u /\ c = <<>> /\ b = t \o f
    BY <1>4 DEF Body
  <2>2. /\ IsSeq(u) /\ Len(u) = 1 /\ u[1] = "query" /\ IsSeq(<<>>) /\ Len(<<>>) = 0
    BY SingleIsSeq, EmptyIsSeq
  <2>3. IsSeq(t) /\ Len(t) = 2 /\ t[1] = "topology" /\ t[2] = "query"
    <3>1. t \in Seq({"topology", "query"})
      OBVIOUS
    <3> QED
      BY <3>1, SeqIsSeq
  <2>4. IsSeq(f) /\ Len(f) = PublishCount /\ \A i \in 1..PublishCount : f[i] = "publish"
    <3>1. f \in Seq({"publish"}) /\ Len(f) = PublishCount
      BY <1>1
    <3> QED
      BY <3>1, SeqIsSeq
  <2> HIDE DEF a, b, c, f, t, u
  <2>5. /\ IsSeq(b) /\ Len(b) = 2 + PublishCount
        /\ \A i \in 1..2 : b[i] = t[i]
        /\ \A i \in 1..PublishCount : b[2 + i] = "publish"
    <3>0. IsSeq(t) /\ IsSeq(f)
      BY <2>3, <2>4
    <3>1. IsSeq(b) /\ Len(b) = Len(t) + Len(f)
      BY <2>1, <3>0, ConcatIsSeq, ConcatElements
    <3>2. /\ \A i \in 1..Len(t) : b[i] = t[i]
          /\ \A i \in 1..Len(f) : b[Len(t) + i] = f[i]
      BY <2>1, <3>0, ConcatElements
    <3> QED
      BY <2>3, <2>4, <3>1, <3>2
  <2> HIDE DEF s
  <2>6. /\ IsSeq(s) /\ Len(s) = 1 + Len(b) + 0
        /\ \A i \in 1..1 : s[i] = u[i]
        /\ \A i \in 1..Len(b) : s[1 + i] = b[i]
    <3>0. Len(a) = 1 /\ Len(c) = 0
      BY <2>1, <2>2
    <3>1. IsSeq(a) /\ IsSeq(b) /\ IsSeq(c)
      BY <2>1, <2>2, <2>5
    <3>2. /\ IsSeq(s) /\ Len(s) = Len(a) + Len(b) + Len(c)
          /\ \A i \in 1..Len(a) : s[i] = a[i]
          /\ \A i \in 1..Len(b) : s[Len(a) + i] = b[i]
      BY <1>2, <3>1, ThreeJoined
    <3> QED
      BY <2>1, <3>0, <3>2
  <2>7. n = PublishCount + 3
    BY <1>1, <2>5, <2>6
  <2> HIDE DEF n
  <2>8. ASSUME NEW i \in 1..n PROVE s[i] = Left(command, n - i + 1)
    <3>1. CASE i = 1
      <4>1. s[1] = "query"
        BY <2>2, <2>6
      <4>2. ~(n - i + 1 <= PublishCount) /\ n - i + 1 # PublishCount + 2
        BY <1>1, <2>7, <3>1
      <4> QED
        BY <1>4, <3>1, <4>1, <4>2 DEF Left
    <3>2. CASE i = 2
      <4>1. s[2] = "topology"
        <5>1. 1 \in 1..Len(b) /\ 1 + 1 = 2 /\ 1 \in 1..2
          BY <1>1, <2>5
        <5> QED
          BY <2>3, <2>5, <2>6, <5>1
      <4>2. ~(n - i + 1 <= PublishCount) /\ n - i + 1 = PublishCount + 2
        BY <1>1, <2>7, <3>2
      <4> QED
        BY <1>4, <3>2, <4>1, <4>2 DEF Left
    <3>3. CASE i = 3
      <4>1. s[3] = "query"
        <5>1. 2 \in 1..Len(b) /\ 1 + 2 = 3 /\ 2 \in 1..2
          BY <1>1, <2>5
        <5> QED
          BY <2>3, <2>5, <2>6, <5>1
      <4>2. ~(n - i + 1 <= PublishCount) /\ n - i + 1 # PublishCount + 2
        BY <1>1, <2>7, <3>3
      <4> QED
        BY <1>4, <3>3, <4>1, <4>2 DEF Left
    <3>4. CASE i > 3
      <4>1. /\ i - 3 \in 1..PublishCount /\ i - 1 \in 1..Len(b)
            /\ 2 + (i - 3) = i - 1 /\ 1 + (i - 1) = i
        BY <1>1, <2>5, <2>7, <3>4
      <4>2. s[i] = "publish"
        BY <2>5, <2>6, <4>1
      <4>3. n - i + 1 <= PublishCount
        BY <1>1, <2>7, <3>4
      <4> QED
        BY <1>4, <4>2, <4>3 DEF Left
    <3> QED
      BY <1>1, <2>7, <3>1, <3>2, <3>3, <3>4
  <2> QED
    BY <1>1, <1>4, <2>6, <2>7, <2>8 DEF n, s
<1> QED
  BY <1>3, <1>4

\* The scripts: a governed request comes once, and only among queries.
LEMMA ScriptShape ==
  ASSUME NEW p \in Processes, NEW command \in Commands[p], NEW named
  PROVE  LET s == Script(command, named) IN
         /\ IsSeq(s) /\ s # <<>>
         /\ \A i \in 1..Len(s) :
              IF command = "govern" THEN s[i] \in {"query", "govern"} ELSE s[i] # "govern"
         /\ \A i, j \in 1..Len(s) : s[i] = "govern" /\ s[j] = "govern" => i = j
<1> DEFINE s == Script(command, named)
           n == Len(s)
<1>1. /\ command \in CommandNames /\ IsSeq(s)
      /\ IF command = "publisher" THEN n = PublishCount + 3 ELSE n \in {2, 3}
      /\ \A i \in 1..n : s[i] = Left(command, n - i + 1)
  BY ScriptLeft
<1>2. n \in Nat \ {0} /\ Len(<<>>) = 0
  BY <1>1, OperatorAssumption
<1> HIDE DEF s
<1>3. s # <<>>
  BY <1>2
<1> HIDE DEF n
<1>4. \A i \in 1..n :
        IF command = "govern" THEN s[i] \in {"query", "govern"} ELSE s[i] # "govern"
  BY <1>1 DEF Left, CommandNames
<1>5. ASSUME NEW i \in 1..n, s[i] = "govern" PROVE i = n - 1
  <2>1. Left(command, n - i + 1) = "govern"
    BY <1>1, <1>5
  <2>2. n - i + 1 = 2
    BY <2>1 DEF Left
  <2> QED
    BY <1>2, <2>2
<1> QED
  BY <1>1, <1>3, <1>4, <1>5 DEF n, s

\* What a step may do to a process r, which is s after it.
Evolves(r, s) ==
  /\ Spent(r) => Spent(s) /\ s.attempt = r.attempt
  /\ r.pc = "done" => s.pc = "done"
  /\ s.attempt = r.attempt \/ (s.attempt = clock /\ s.before = r.before)
  /\ \/ s.before \in {{}, r.before}
     \/ s.before = Ended /\ s.attempt = 0 /\ clock' = clock + 1

\* The step is not a refusal of the process's attempt.
Calm(r, s) == Len(s.made) <= Len(r.made) \/ s.made[Len(s.made)].verdict # "regressed"

Goes(r, s) == Local(s) /\ Evolves(r, s) /\ Calm(r, s)

LEMMA StaysPut ==
  ASSUME NEW r, Local(r)
  PROVE  Goes(r, r)
<1>1. Len(r.made) \in Nat
  BY SeqElim DEF Local
<1> QED
  BY <1>1 DEF Goes, Evolves, Calm

\* The process ends.
LEMMA Exits0 ==
  ASSUME NEW r, Local(r), NEW code
  PROVE  Goes(r, Exit(r, code))
<1> DEFINE s == Exit(r, code)
<1>1. /\ Shaped(s) /\ s.pc = "done" /\ s.attempt = r.attempt /\ s.todo = <<>> /\ s.made = <<>>
      /\ s.before = {} /\ s.command = "none"
  BY DEF Exit, NewProcess, Shaped
<1> HIDE DEF s
<1>2. r.attempt \in Nat /\ Len(r.made) \in Nat
  BY SeqElim DEF Local
<1>3. Len(s.todo) = 0 /\ Len(s.made) = 0
  BY <1>1
<1>4. \A i \in 1..Len(s.todo) : FALSE
  BY <1>3
<1>5. Local(s)
  BY <1>1, <1>2, <1>4, EmptyIsSeq DEF Local
<1>6. Evolves(r, s) /\ Calm(r, s)
  BY <1>1, <1>2, <1>3 DEF Evolves, Calm, Spent
<1> QED
  BY <1>5, <1>6 DEF Goes, s

\* The process after its answer was abandoned.
Stranded(r) == [NewProcess EXCEPT !.pc = "abandoned", !.session = boot, !.attempt = r.attempt]

\* The answer to the process is abandoned.
LEMMA Strands ==
  ASSUME NEW r, Local(r), r.pc # "done"
  PROVE  Goes(r, Stranded(r)) /\ Stranded(r).pc = "abandoned"
<1> DEFINE s == Stranded(r)
<1>1. /\ Shaped(s) /\ s.pc = "abandoned" /\ s.attempt = r.attempt /\ s.todo = <<>>
      /\ s.made = <<>> /\ s.before = {} /\ s.command = "none"
  BY DEF Stranded, NewProcess, Shaped
<1> HIDE DEF s
<1>2. r.attempt \in Nat /\ Len(r.made) \in Nat
  BY SeqElim DEF Local
<1>3. Len(s.todo) = 0 /\ Len(s.made) = 0
  BY <1>1
<1>4. \A i \in 1..Len(s.todo) : FALSE
  BY <1>3
<1>5. Local(s)
  BY <1>1, <1>2, <1>4, EmptyIsSeq DEF Local
<1>6. Evolves(r, s) /\ Calm(r, s)
  BY <1>1, <1>2, <1>3 DEF Evolves, Calm, Spent
<1> QED
  BY <1>1, <1>5, <1>6 DEF Goes, s

\* An answer is made, sent or lost.
LEMMA Replied ==
  ASSUME NEW r, Local(r), NEW x
  PROVE  Goes(r, [r EXCEPT !.reply = x])
<1> DEFINE s == [r EXCEPT !.reply = x]
<1>0. Shaped(r) /\ IsSeq(r.made)
  BY DEF Local
<1>1. /\ Shaped(s) /\ s.pc = r.pc /\ s.command = r.command /\ s.attempt = r.attempt
      /\ s.todo = r.todo /\ s.made = r.made /\ s.before = r.before /\ Len(r.made) \in Nat
  BY <1>0, SeqElim DEF Shaped
<1> HIDE DEF s
<1>2. Local(s)
  BY <1>1 DEF Local
<1>3. Evolves(r, s) /\ Calm(r, s)
  BY <1>1 DEF Evolves, Calm, Spent
<1> QED
  BY <1>2, <1>3 DEF Goes, s

\* The runtime decides on a request.
Waits(r, d, x) == [r EXCEPT !.pc = "waiting", !.made = Append(r.made, d), !.reply = x]

LEMMA Asked ==
  ASSUME NEW r, Local(r), r.pc = "run", Head(r.todo) # "query", NEW d, NEW x
  PROVE  LET s == Waits(r, d, x) IN
         /\ Local(s) /\ Evolves(r, s) /\ Spent(s) /\ s.attempt = r.attempt
         /\ s.made[Len(s.made)] = d
<1> DEFINE s == Waits(r, d, x)
           m == Append(r.made, d)
<1>0. Shaped(r)
  BY DEF Local
<1>1. /\ Shaped(s) /\ s.pc = "waiting" /\ s.command = r.command /\ s.attempt = r.attempt
      /\ s.todo = r.todo /\ s.made = m /\ s.before = r.before
  BY <1>0 DEF Shaped, Waits
<1> HIDE DEF s
<1>2. IsSeq(m) /\ m # <<>> /\ m[Len(m)] = d
  BY AppendIsSeq, AppendElements DEF Local
<1> HIDE DEF m
<1>3. \A i \in 1..Len(r.todo) : r.todo[i] = "govern" => i = 1
  <2>1. IsSeq(r.todo) /\ r.todo # <<>>
    BY DEF Local
  <2>2. 1 \in 1..Len(r.todo) /\ r.todo[1] # "query"
    BY <2>1, TailElements
  <2> QED
    BY <2>2 DEF Local
<1>4. Local(s)
  BY <1>1, <1>2, <1>3 DEF Local
<1>5. Evolves(r, s) /\ Spent(s)
  BY <1>1, <1>2 DEF Evolves, Spent
<1> QED
  BY <1>1, <1>2, <1>4, <1>5 DEF s

\* The process goes on with its script.
LEMMA Moved ==
  ASSUME NEW r, Local(r), r.pc \in {"run", "waiting"}, r.pc = "run" => Head(r.todo) = "query",
         Tail(r.todo) # <<>>, NEW y
  PROVE  Goes(r, [r EXCEPT !.pc = "run", !.todo = Tail(@), !.reply = Unsent, !.results = y])
<1> DEFINE s == [r EXCEPT !.pc = "run", !.todo = Tail(@), !.reply = Unsent, !.results = y]
           t == Tail(r.todo)
<1>0. Shaped(r) /\ IsSeq(r.made)
  BY DEF Local
<1>1. /\ Shaped(s) /\ s.pc = "run" /\ s.command = r.command /\ s.attempt = r.attempt
      /\ s.todo = t /\ s.made = r.made /\ s.before = r.before /\ Len(r.made) \in Nat
  BY <1>0, SeqElim DEF Shaped
<1> HIDE DEF s
<1>2. IsSeq(r.todo) /\ r.todo # <<>>
  BY DEF Local
<1>3. /\ IsSeq(t) /\ Len(r.todo) \in Nat
      /\ \A i \in 1..Len(t) : i \in Nat /\ i + 1 \in 1..Len(r.todo) /\ t[i] = r.todo[i + 1]
  BY <1>2, TailElements
<1>4. t # <<>>
  OBVIOUS
<1> HIDE DEF t
<1>5. \A i \in 1..Len(t) :
        IF r.command = "govern" THEN t[i] \in {"query", "govern"} ELSE t[i] # "govern"
  BY <1>3 DEF Local
<1>6. \A i, j \in 1..Len(t) : t[i] = "govern" /\ t[j] = "govern" => i = j
  <2> SUFFICES ASSUME NEW i \in 1..Len(t), NEW j \in 1..Len(t), t[i] = "govern", t[j] = "govern"
               PROVE  i = j
    OBVIOUS
  <2>1. i + 1 = j + 1
    BY <1>3 DEF Local
  <2> QED
    BY <1>3, <2>1
<1>7. \A i \in 1..Len(t) : t[i] = "govern" => r.made = <<>>
  <2> SUFFICES ASSUME NEW i \in 1..Len(t), t[i] = "govern" PROVE r.made = <<>>
    OBVIOUS
  <2>1. i + 1 \in 1..Len(r.todo) /\ r.todo[i + 1] = "govern" /\ i + 1 # 1
    BY <1>3
  <2> QED
    BY <2>1 DEF Local
<1>8. Local(s)
  BY <1>1, <1>3, <1>4, <1>5, <1>6, <1>7 DEF Local
<1>9. Evolves(r, s) /\ Calm(r, s)
  BY <1>1 DEF Evolves, Calm, Spent
<1> QED
  BY <1>8, <1>9 DEF Goes, s

\* make_attempt, before anything was decided for the process.
LEMMA Stamped ==
  ASSUME NEW r, Local(r), r.pc = "run", Head(r.todo) = "govern", clock \in Nat
  PROVE  Goes(r, [r EXCEPT !.attempt = clock])
<1> DEFINE s == [r EXCEPT !.attempt = clock]
<1>0. Shaped(r) /\ IsSeq(r.made) /\ IsSeq(r.todo) /\ r.todo # <<>>
  BY DEF Local
<1>1. /\ Shaped(s) /\ s.pc = r.pc /\ s.command = r.command /\ s.attempt = clock
      /\ s.todo = r.todo /\ s.made = r.made /\ s.before = r.before /\ Len(r.made) \in Nat
  BY <1>0, SeqElim DEF Shaped
<1> HIDE DEF s
<1>2. 1 \in 1..Len(r.todo) /\ r.todo[1] = "govern"
  BY <1>0, TailElements
<1>3. r.made = <<>>
  BY <1>2 DEF Local
<1>4. Local(s)
  BY <1>1 DEF Local
<1>5. Evolves(r, s) /\ Calm(r, s)
  BY <1>1, <1>3 DEF Evolves, Calm, Spent
<1> QED
  BY <1>4, <1>5 DEF Goes, s

\* The process connects, and knows who had ended.
LEMMA Began ==
  ASSUME NEW r, Local(r), r.pc = "ready", NEW p \in Processes, NEW command \in Commands[p],
         NEW named, NEW x, clock' = clock + 1
  PROVE  Goes(r, [r EXCEPT !.pc = "run", !.command = command, !.session = x,
                           !.todo = Script(command, named), !.before = Ended])
<1> DEFINE t == Script(command, named)
           s == [r EXCEPT !.pc = "run", !.command = command, !.session = x,
                          !.todo = t, !.before = Ended]
<1>0. Shaped(r) /\ IsSeq(r.made) /\ r.made = <<>> /\ r.attempt = 0
  BY DEF Local
<1>1. /\ IsSeq(t) /\ t # <<>>
      /\ \A i \in 1..Len(t) :
           IF command = "govern" THEN t[i] \in {"query", "govern"} ELSE t[i] # "govern"
      /\ \A i, j \in 1..Len(t) : t[i] = "govern" /\ t[j] = "govern" => i = j
  BY ScriptShape
<1> HIDE DEF t
<1>2. /\ Shaped(s) /\ s.pc = "run" /\ s.command = command /\ s.attempt = 0
      /\ s.todo = t /\ s.made = r.made /\ s.before = Ended /\ Len(r.made) \in Nat
  BY <1>0, SeqElim DEF Shaped
<1> HIDE DEF s
<1>3. Local(s)
  BY <1>0, <1>1, <1>2 DEF Local
<1>4. Evolves(r, s) /\ Calm(r, s)
  BY <1>0, <1>2 DEF Evolves, Calm, Spent
<1> QED
  BY <1>3, <1>4 DEF Goes, s, t

\* What a step does to the processes: only a refusal of its attempt is a
\* refusal of its attempt.
Refused(p) ==
  /\ Doing(p, "govern") /\ proc[p].attempt # 0
  /\ RefuseAttempt(proc[p].attempt)

LEMMA OneGoes ==
  ASSUME AttemptInv, NEW p \in Processes, NEW s, proc' = [proc EXCEPT ![p] = s],
         Local(s), Evolves(proc[p], s), Calm(proc[p], s) \/ Refused(p)
  PROVE  /\ DOMAIN proc' = Processes /\ proc'[p] = s
         /\ \A q \in Processes : /\ Local(proc'[q]) /\ Evolves(proc[q], proc'[q])
                                 /\ Calm(proc[q], proc'[q]) \/ Refused(q)
<1>1. DOMAIN proc = Processes
  BY DEF AttemptInv
<1>2. proc'[p] = s /\ DOMAIN proc' = Processes
  BY <1>1
<1>3. ASSUME NEW q \in Processes, q # p PROVE proc'[q] = proc[q]
  BY <1>1, <1>3
<1>4. ASSUME NEW q \in Processes, q # p PROVE Goes(proc[q], proc'[q])
  BY <1>3, <1>4, StaysPut DEF AttemptInv
<1>5. ASSUME NEW q \in Processes
      PROVE  /\ Local(proc'[q]) /\ Evolves(proc[q], proc'[q])
             /\ Calm(proc[q], proc'[q]) \/ Refused(q)
  <2>1. CASE q = p
    BY <1>2, <2>1
  <2>2. CASE q # p
    BY <1>4, <2>2 DEF Goes
  <2> QED
    BY <2>1, <2>2
<1> QED
  BY <1>2, <1>5

LEMMA AllGo ==
  ASSUME AttemptInv, DOMAIN proc' = Processes,
         \A q \in Processes : Goes(proc[q], proc'[q])
  PROVE  /\ DOMAIN proc' = Processes
         /\ \A q \in Processes : /\ Local(proc'[q]) /\ Evolves(proc[q], proc'[q])
                                 /\ Calm(proc[q], proc'[q]) \/ Refused(q)
  BY DEF Goes

\* A request that was decided on.
LEMMA AnswerGoes ==
  ASSUME AttemptInv, NEW p \in Processes, NEW n, NEW verdict, NEW state,
         Answer(p, n, verdict, state),
         proc[p].pc = "run", Head(proc[p].todo) # "query", verdict # "regressed" \/ Refused(p)
  PROVE  /\ DOMAIN proc' = Processes /\ Spent(proc'[p]) /\ proc'[p].attempt = proc[p].attempt
         /\ \A q \in Processes : /\ Local(proc'[q]) /\ Evolves(proc[q], proc'[q])
                                 /\ Calm(proc[q], proc'[q]) \/ Refused(q)
<1> DEFINE d == Answered(Decided(n, "any"), verdict)
           x == [decision |-> d, state |-> state]
           s == Waits(proc[p], d, x)
<1>1. proc' = [proc EXCEPT ![p] = s]
  BY DEF Answer, Waits
<1>2. d.verdict = verdict
  BY DEF Answered
<1>3. Local(proc[p])
  BY DEF AttemptInv
<1> HIDE DEF d, x
<1>4. /\ Local(s) /\ Evolves(proc[p], s) /\ Spent(s) /\ s.attempt = proc[p].attempt
      /\ s.made[Len(s.made)] = d
  BY <1>3, Asked
<1> HIDE DEF s
<1>5. Calm(proc[p], s) \/ Refused(p)
  BY <1>2, <1>4 DEF Calm
<1> QED
  BY <1>1, <1>4, <1>5, OneGoes

\* The process goes on with its script, or ends with it.
LEMMA ProceedGoes ==
  ASSUME AttemptInv, NEW p \in Processes, NEW d, Proceed(p, d),
         proc[p].pc \in {"run", "waiting"}, proc[p].pc = "run" => Head(proc[p].todo) = "query"
  PROVE  /\ DOMAIN proc' = Processes
         /\ \A q \in Processes : /\ Local(proc'[q]) /\ Evolves(proc[q], proc'[q])
                                 /\ Calm(proc[q], proc'[q]) \/ Refused(q)
<1> DEFINE request == Head(proc[p].todo)
           y == IF request = "query" THEN proc[p].results ELSE Append(proc[p].results, d)
           r == [proc[p] EXCEPT !.pc = "run", !.todo = Tail(@), !.reply = Unsent, !.results = y]
           code == IF AllAccepted(r.results) THEN "0" ELSE "1"
           s == IF Over(r, request, d) THEN Exit(r, code) ELSE r
<1>1. proc' = [proc EXCEPT ![p] = s]
  BY DEF Proceed
<1>2. Local(proc[p]) /\ Shaped(proc[p])
  BY DEF AttemptInv, Local
<1> HIDE DEF y
<1>3. r.todo = Tail(proc[p].todo) /\ r.attempt = proc[p].attempt
  BY <1>2 DEF Shaped
<1> HIDE DEF code
<1>4. Goes(proc[p], s)
  <2>1. CASE Over(r, request, d)
    <3>1. Exit(r, code) = Exit(proc[p], code)
      BY <1>3 DEF Exit
    <3>2. Goes(proc[p], Exit(proc[p], code))
      BY <1>2, Exits0
    <3> QED
      BY <2>1, <3>1, <3>2
  <2>2. CASE ~Over(r, request, d)
    <3>1. Tail(proc[p].todo) # <<>>
      BY <1>3, <2>2 DEF Over
    <3>2. Goes(proc[p], r)
      BY <1>2, <3>1, Moved
    <3> QED
      BY <2>2, <3>2
  <2> QED
    BY <2>1, <2>2
<1> HIDE DEF s
<1> QED
  BY <1>1, <1>4, OneGoes DEF Goes

ProcessesGo ==
  /\ DOMAIN proc' = Processes
  /\ \A q \in Processes : /\ Local(proc'[q]) /\ Evolves(proc[q], proc'[q])
                          /\ Calm(proc[q], proc'[q]) \/ Refused(q)

LEMMA StepsGo ==
  ASSUME AttemptInv, [Next]_vars
  PROVE  ProcessesGo
<1>1. DOMAIN proc = Processes /\ clock \in Nat /\ \A q \in Processes : Local(proc[q])
  BY DEF AttemptInv
<1>2. ASSUME NEW p \in Processes, Usage(p) \/ Unreachable(p) \/ Fail(p) \/ Reaped(p)
      PROVE  ProcessesGo
  <2>1. PICK code : proc' = [proc EXCEPT ![p] = Exit(proc[p], code)]
    BY <1>2 DEF Usage, Unreachable, Fail, Reaped
  <2>2. Goes(proc[p], Exit(proc[p], code))
    BY <1>1, Exits0
  <2> QED
    BY <2>1, <2>2, OneGoes DEF Goes, ProcessesGo
<1>3. ASSUME NEW p \in Processes, NEW command \in Commands[p], NEW named \in NamedEpochs,
             Connect(p, command, named)
      PROVE  ProcessesGo
  <2> DEFINE s == [proc[p] EXCEPT !.pc = "run", !.command = command, !.session = boot,
                                  !.todo = Script(command, named), !.before = Ended]
             x == IF named \in {0, epoch} THEN s ELSE Exit(proc[p], "2")
  <2>1. proc' = [proc EXCEPT ![p] = x] /\ proc[p].pc = "ready" /\ clock' = clock + 1
    BY <1>3 DEF Connect
  <2>2. Goes(proc[p], s)
    BY <1>1, <2>1, Began
  <2>3. Goes(proc[p], Exit(proc[p], "2"))
    BY <1>1, Exits0
  <2> HIDE DEF s
  <2>4. Goes(proc[p], x)
    BY <2>2, <2>3
  <2> HIDE DEF x
  <2> QED
    BY <2>1, <2>4, OneGoes DEF Goes, ProcessesGo
<1>4. ASSUME NEW p \in Processes, Stamp(p)
      PROVE  ProcessesGo
  <2> DEFINE s == [proc[p] EXCEPT !.attempt = clock]
  <2>1. /\ proc' = [proc EXCEPT ![p] = s]
        /\ proc[p].pc = "run" /\ Head(proc[p].todo) = "govern"
    BY <1>4 DEF Stamp, MakeAttempt, Doing
  <2>2. Goes(proc[p], s)
    BY <1>1, <2>1, Stamped
  <2> HIDE DEF s
  <2> QED
    BY <2>1, <2>2, OneGoes DEF Goes, ProcessesGo
<1>5. ASSUME NEW p \in Processes, Read(p) \/ Receive(p)
      PROVE  ProcessesGo
  BY <1>5, ProceedGoes DEF Read, Receive, Doing, ProcessesGo
<1>6. ASSUME NEW p \in Processes, ReadBack(p)
      PROVE  ProcessesGo
  <2>1. PICK x : proc' = [proc EXCEPT ![p] = [proc[p] EXCEPT !.reply = x]]
    BY <1>6 DEF ReadBack
  <2>2. Goes(proc[p], [proc[p] EXCEPT !.reply = x])
    BY <1>1, Replied
  <2> QED
    BY <2>1, <2>2, OneGoes DEF Goes, ProcessesGo
<1>7. ASSUME NEW p \in Processes, AskTopology(p) \/ AskPublish(p) \/ AskAssess(p)
      PROVE  ProcessesGo
  <2>1. PICK verdict, state : Answer(p, 1, verdict, state) /\ verdict # "regressed"
    BY <1>7 DEF AskTopology, AskPublish, AskAssess
  <2>2. proc[p].pc = "run" /\ Head(proc[p].todo) # "query"
    BY <1>7 DEF AskTopology, AskPublish, AskAssess, Doing
  <2> QED
    BY <2>1, <2>2, AnswerGoes DEF ProcessesGo
<1>8. ASSUME NEW p \in Processes, AskGoverned(p)
      PROVE  ProcessesGo
  <2>1. PICK n, verdict : Answer(p, n, verdict, "held") /\ (verdict # "regressed" \/ Refused(p))
    BY <1>8 DEF AskGoverned, Refused
  <2>2. proc[p].pc = "run" /\ Head(proc[p].todo) # "query"
    BY <1>8 DEF AskGoverned, Doing
  <2> QED
    BY <2>1, <2>2, AnswerGoes DEF ProcessesGo
<1>9. ASSUME StartCoordinator \/ StopCoordinator \/ UNCHANGED vars
      PROVE  ProcessesGo
  <2>1. proc' = proc
    BY <1>9 DEF StartCoordinator, StopCoordinator, vars
  <2> QED
    BY <1>1, <2>1, StaysPut, AllGo DEF ProcessesGo
<1>10. ASSUME Commit \/ CrashCoordinator
       PROVE  ProcessesGo
  <2>1. /\ DOMAIN proc' = Processes
        /\ \A q \in Processes : \/ proc'[q] = proc[q]
                                \/ \E x : proc'[q] = [proc[q] EXCEPT !.reply = x]
    BY <1>10 DEF Commit, CrashCoordinator
  <2>2. \A q \in Processes : Goes(proc[q], proc'[q])
    BY <1>1, <2>1, StaysPut, Replied
  <2> QED
    BY <2>1, <2>2, AllGo DEF ProcessesGo
<1>11. ASSUME Reboot
       PROVE  ProcessesGo
  <2>1. /\ DOMAIN proc' = Processes
        /\ \A q \in Processes : proc'[q] = proc[q] \/ proc'[q] = Exit(proc[q], "killed")
    BY <1>11 DEF Reboot
  <2>2. \A q \in Processes : Goes(proc[q], proc'[q])
    BY <1>1, <2>1, StaysPut, Exits0
  <2> QED
    BY <2>1, <2>2, AllGo DEF ProcessesGo
<1>12. ASSUME NEW p \in Processes, Abandon(p)
       PROVE  ProcessesGo
  <2>1. proc' = [proc EXCEPT ![p] = Stranded(proc[p])] /\ proc[p].pc # "done"
    BY <1>12 DEF Abandon, Stranded, Oversize
  <2>2. Goes(proc[p], Stranded(proc[p]))
    BY <1>1, <2>1, Strands
  <2> QED
    BY <2>1, <2>2, OneGoes DEF Goes, ProcessesGo
<1> QED
  BY <1>2, <1>3, <1>4, <1>5, <1>6, <1>7, <1>8, <1>9, <1>10, <1>11, <1>12 DEF Next, ProcessStep

\* The clock and the reboots.
LEMMA ClockGoes ==
  ASSUME AttemptInv, [Next]_vars
  PROVE  /\ clock' \in Nat \ {0} /\ reboots' \in Nat
         /\ reboots' = 0 => reboots = 0 /\ clock' >= clock
<1>1. clock \in Nat \ {0} /\ reboots \in Nat
  BY DEF AttemptInv
<1>2. \/ clock' \in {clock, clock + 1} /\ reboots' = reboots
      \/ clock' = 1 /\ reboots' = reboots + 1
  <2>1. ASSUME NEW p \in Processes,
               \/ Usage(p) \/ Unreachable(p) \/ Fail(p) \/ Stamp(p) \/ ReadBack(p)
               \/ Abandon(p) \/ Reaped(p)
        PROVE  clock' \in {clock, clock + 1} /\ reboots' = reboots
    BY <2>1 DEF Usage, Unreachable, Fail, Stamp, ReadBack, Abandon, Reaped
  <2>2. ASSUME NEW p \in Processes, Read(p) \/ Receive(p)
        PROVE  clock' = clock /\ reboots' = reboots
    BY <2>2 DEF Read, Receive
  <2>3. ASSUME NEW p \in Processes,
               AskTopology(p) \/ AskPublish(p) \/ AskAssess(p) \/ AskGoverned(p)
        PROVE  clock' = clock /\ reboots' = reboots
    BY <2>3 DEF AskTopology, AskPublish, AskAssess, AskGoverned, Answer
  <2>4. ASSUME NEW p \in Processes, NEW command, NEW named, Connect(p, command, named)
        PROVE  clock' = clock + 1 /\ reboots' = reboots
    BY <2>4 DEF Connect
  <2>5. ASSUME StartCoordinator \/ StopCoordinator \/ Commit \/ CrashCoordinator \/ UNCHANGED vars
        PROVE  clock' = clock /\ reboots' = reboots
    BY <2>5 DEF StartCoordinator, StopCoordinator, Commit, CrashCoordinator, vars
  <2>6. ASSUME Reboot PROVE clock' = 1 /\ reboots' = reboots + 1
    BY <2>6 DEF Reboot
  <2> QED
    BY <2>1, <2>2, <2>3, <2>4, <2>5, <2>6 DEF Next, ProcessStep
<1> QED
  BY <1>1, <1>2

LEMMA TimeKept ==
  ASSUME AttemptInv, [Next]_vars
  PROVE  InTime'
<1> SUFFICES ASSUME reboots' = 0, NEW p \in Processes
             PROVE  /\ proc'[p].attempt <= clock'
                    /\ \A q \in proc'[p].before :
                         /\ q \in Processes /\ proc'[q].pc = "done" /\ proc'[q].attempt < clock'
                         /\ proc'[p].attempt # 0 => proc'[q].attempt < proc'[p].attempt
  BY DEF InTime
<1>1. /\ clock \in Nat /\ clock' \in Nat /\ clock' >= clock /\ reboots = 0
      /\ \A q \in Processes : /\ proc[q].attempt \in Nat /\ proc'[q].attempt \in Nat
                              /\ Evolves(proc[q], proc'[q])
  BY ClockGoes, StepsGo DEF AttemptInv, ProcessesGo, Local
<1>2. \A r \in Processes :
        /\ proc[r].attempt <= clock
        /\ \A q \in proc[r].before :
             /\ q \in Processes /\ proc[q].pc = "done" /\ proc[q].attempt < clock
             /\ proc[r].attempt # 0 => proc[q].attempt < proc[r].attempt
  BY <1>1 DEF AttemptInv, InTime
<1>3. \A q \in Processes :
        proc[q].pc = "done" => proc'[q].pc = "done" /\ proc'[q].attempt = proc[q].attempt
  BY <1>1 DEF Evolves, Spent
<1>4. proc'[p].attempt \in {proc[p].attempt, clock}
  BY <1>1 DEF Evolves
<1>5. proc'[p].attempt <= clock'
  BY <1>1, <1>2, <1>4
<1>6. ASSUME NEW q \in proc'[p].before
      PROVE  /\ q \in Processes /\ proc'[q].pc = "done" /\ proc'[q].attempt < clock'
             /\ proc'[p].attempt # 0 => proc'[q].attempt < proc'[p].attempt
  <2>1. CASE q \in proc[p].before
    BY <1>1, <1>2, <1>3, <1>4, <2>1
  <2>2. CASE q \notin proc[p].before
    <3>1. q \in Ended /\ proc'[p].attempt = 0 /\ clock' = clock + 1
      BY <1>1, <1>6, <2>2 DEF Evolves
    <3> QED
      BY <1>1, <1>2, <1>3, <3>1 DEF Ended
  <2> QED
    BY <2>1, <2>2
<1> QED
  BY <1>5, <1>6

\* The same of the state after a step.
ReachedNext(n) ==
  /\ n \in Nat
  /\ n = 0 \/ \E q \in Processes : Spent(proc'[q]) /\ n <= proc'[q].attempt

\* What was reached stays reached.
LEMMA ReachedKept ==
  ASSUME ProcessesGo, NEW n, Reached(n)
  PROVE  ReachedNext(n)
<1>1. CASE n = 0
  BY <1>1 DEF ReachedNext
<1>2. CASE n # 0
  <2>1. PICK q \in Processes : Spent(proc[q]) /\ n <= proc[q].attempt
    BY <1>2 DEF Reached
  <2>2. Spent(proc'[q]) /\ proc'[q].attempt = proc[q].attempt
    BY <2>1 DEF ProcessesGo, Evolves
  <2>3. Spent(proc'[q]) /\ n <= proc'[q].attempt /\ n \in Nat
    BY <2>1, <2>2 DEF Reached
  <2> QED
    BY <2>3 DEF ReachedNext
<1> QED
  BY <1>1, <1>2

\* The epoch states among the records carry this floor.
Carries(r, a) == IsSeq(r) /\ \A x \in Range(r) : x.type = "EpochState" => x.body.attempt = a

LEMMA CarriesJoin ==
  ASSUME NEW r, NEW t, NEW a, Carries(r, a), Carries(t, a)
  PROVE  Carries(r \o t, a)
  BY ConcatIsSeq DEF Carries

LEMMA CarriesOne ==
  ASSUME NEW a
  PROVE  /\ Carries(<<>>, a) /\ Carries(<<InputRecord>>, a)
         /\ \A d : Carries(<<DecisionRecord(d)>>, a) /\ Carries(<<LineageRecord(d)>>, a)
         /\ \A e, s : Carries(<<EpochState(e, s, a)>>, a)
         /\ \A d : Carries(<<LineageRecord(d), DecisionRecord(d)>>, a)
<1>1. Carries(<<>>, a)
  BY EmptyIsSeq DEF Carries
<1>2. Carries(<<InputRecord>>, a)
  BY SingleIsSeq DEF Carries, InputRecord, Record
<1>3. ASSUME NEW d PROVE Carries(<<DecisionRecord(d)>>, a) /\ Carries(<<LineageRecord(d)>>, a)
  BY SingleIsSeq DEF Carries, DecisionRecord, LineageRecord, Record
<1>4. ASSUME NEW e, NEW s PROVE Carries(<<EpochState(e, s, a)>>, a)
  BY SingleIsSeq DEF Carries, EpochState, Record
<1>5. ASSUME NEW d PROVE Carries(<<LineageRecord(d), DecisionRecord(d)>>, a)
  <2> DEFINE t == <<LineageRecord(d), DecisionRecord(d)>>
  <2>1. t \in Seq({t[1], t[2]}) /\ t[1].type = "Lineage" /\ t[2].type = "Decision"
    BY DEF DecisionRecord, LineageRecord, Record
  <2>2. IsSeq(t)
    BY <2>1, SeqIsSeq
  <2>3. \A x \in Range(t) : x \in {t[1], t[2]}
    BY DEF Range
  <2> HIDE DEF t
  <2>4. Carries(t, a)
    BY <2>1, <2>2, <2>3 DEF Carries
  <2> QED
    BY <2>4 DEF t
<1> QED
  BY <1>1, <1>2, <1>3, <1>4, <1>5

LEMMA AssessCarries ==
  ASSUME NEW d, NEW outcome, NEW a
  PROVE  Carries(AssessRecords(d, outcome, a), a)
<1> DEFINE l == IF outcome = "recorded" THEN <<LineageRecord(d)>> ELSE <<>>
           e == IF outcome = "denied" THEN <<>> ELSE <<EpochState(epoch, d.id[1], a)>>
<1>1. Carries(<<DecisionRecord(d)>>, a) /\ Carries(l, a) /\ Carries(e, a)
  BY CarriesOne
<1> HIDE DEF l, e
<1>2. Carries(<<DecisionRecord(d)>> \o l, a)
  BY <1>1, CarriesJoin
<1>3. Carries((<<DecisionRecord(d)>> \o l) \o e, a)
  BY <1>1, <1>2, CarriesJoin
<1> QED
  BY <1>3 DEF AssessRecords, l, e

\* Operations: the new floor is the attempt that was admitted, if any.
LEMMA UngovernedFloor ==
  ASSUME \/ \E changes \in BOOLEAN : Input(changes)
         \/ Ingest
         \/ \E outcome \in Outcomes : Assess(outcome)
         \/ \E n : RefuseAttempt(n)
  PROVE  floor' = floor /\ disk' = disk /\ Carries(wal', floor)
<1>1. ASSUME NEW changes \in BOOLEAN, Input(changes)
      PROVE  floor' = floor /\ disk' = disk /\ Carries(wal', floor)
  <2> DEFINE i == IF changes THEN <<InputRecord>> ELSE <<>>
             d == DecisionRecord(Decided(1, "input"))
  <2>1. Carries(i, floor) /\ Carries(<<d>>, floor)
    BY CarriesOne
  <2>2. floor' = floor /\ disk' = disk /\ wal' = i \o <<d>>
    BY <1>1 DEF Input, Publish
  <2> HIDE DEF i, d
  <2> QED
    BY <2>1, <2>2, CarriesJoin
<1>2. CASE Ingest
  BY <1>2, CarriesOne DEF Ingest, Publish
<1>3. ASSUME NEW outcome \in Outcomes, Assess(outcome)
      PROVE  floor' = floor /\ disk' = disk /\ Carries(wal', floor)
  BY <1>3, AssessCarries DEF Assess, Publish
<1>4. ASSUME NEW n, RefuseAttempt(n)
      PROVE  floor' = floor /\ disk' = disk /\ Carries(wal', floor)
  BY <1>4, CarriesOne DEF RefuseAttempt, Publish
<1> QED
  BY <1>1, <1>2, <1>3, <1>4

LEMMA GovernedFloor ==
  ASSUME NEW n,
         \/ Deny(n) \/ RetireLineage(n)
         \/ \E outcome \in Outcomes :
              Direct(n, outcome) \/ MergeLineages(n, outcome) \/ Revalidate(n, outcome)
  PROVE  floor' = n /\ disk' = disk /\ Carries(wal', n)
<1>1. CASE Deny(n) \/ RetireLineage(n)
  BY <1>1, CarriesOne DEF Deny, RetireLineage, Admit, Publish
<1>2. ASSUME NEW outcome \in Outcomes,
             Direct(n, outcome) \/ MergeLineages(n, outcome) \/ Revalidate(n, outcome)
      PROVE  floor' = n /\ disk' = disk /\ Carries(wal', n)
  <2>1. floor' = n /\ disk' = disk
    BY <1>2 DEF Direct, MergeLineages, Revalidate, Admit, Publish
  <2>2. PICK c, d :
          \/ wal' = <<DecisionRecord(c)>> \o AssessRecords(d, outcome, n)
          \/ wal' = <<LineageRecord(c), DecisionRecord(c)>> \o AssessRecords(d, outcome, n)
          \/ wal' = AssessRecords(d, outcome, n) \o <<DecisionRecord(c)>>
    BY <1>2 DEF Direct, MergeLineages, Revalidate, Publish
  <2>3. /\ Carries(AssessRecords(d, outcome, n), n) /\ Carries(<<DecisionRecord(c)>>, n)
        /\ Carries(<<LineageRecord(c), DecisionRecord(c)>>, n)
    BY CarriesOne, AssessCarries
  <2> QED
    BY <2>1, <2>2, <2>3, CarriesJoin
<1> QED
  BY <1>1, <1>2

LEMMA FloorsFollow ==
  ASSUME AttemptInv, ProcessesGo, reboots = 0, reboots' = 0, NEW a, ReachedNext(a),
         floor' = a, disk' = disk, Carries(wal', a)
  PROVE  Floors'
<1>1. Reached(disk.state.attempt)
  BY DEF AttemptInv, Floors
<1>2. ReachedNext(disk.state.attempt)
  BY <1>1, ReachedKept
<1>3. \A i \in 1..Len(wal') : wal'[i].type = "EpochState" => wal'[i].body.attempt = a
  BY ElementInRange DEF Carries
<1> QED
  BY <1>2, <1>3 DEF Floors, Reached, ReachedNext, Pending

LEMMA FloorsStay ==
  ASSUME AttemptInv, ProcessesGo, UNCHANGED auditVars, reboots' = 0 => reboots = 0
  PROVE  Floors'
<1> SUFFICES ASSUME reboots' = 0
             PROVE  Floors'
  BY DEF Floors
<1>1. floor' = floor /\ disk' = disk /\ wal' = wal
  BY DEF auditVars
<1>2. /\ Reached(floor) /\ Reached(disk.state.attempt)
      /\ \A i \in 1..Len(wal) : Pending(i, "EpochState") => Reached(wal[i].body.attempt)
  BY DEF AttemptInv, Floors
<1>3. /\ ReachedNext(floor) /\ ReachedNext(disk.state.attempt)
      /\ \A i \in 1..Len(wal) : Pending(i, "EpochState") => ReachedNext(wal[i].body.attempt)
  BY <1>2, ReachedKept
<1> QED
  BY <1>1, <1>3 DEF Floors, Reached, ReachedNext, Pending

LEMMA FloorsKept ==
  ASSUME AuditInv, AttemptInv, [Next]_vars
  PROVE  Floors'
<1> SUFFICES ASSUME reboots' = 0
             PROVE  Floors'
  BY DEF Floors
<1>1. ProcessesGo /\ reboots = 0
  BY StepsGo, ClockGoes
<1>2. /\ Reached(floor) /\ Reached(disk.state.attempt)
      /\ \A i \in 1..Len(wal) : wal[i].type = "EpochState" => Reached(wal[i].body.attempt)
  BY <1>1 DEF AttemptInv, Floors, Pending
<1>3. /\ ReachedNext(floor) /\ ReachedNext(disk.state.attempt)
      /\ \A i \in 1..Len(wal) : wal[i].type = "EpochState" => ReachedNext(wal[i].body.attempt)
  BY <1>1, <1>2, ReachedKept
<1>4. ASSUME \/ \E changes \in BOOLEAN : Input(changes)
             \/ Ingest
             \/ \E outcome \in Outcomes : Assess(outcome)
             \/ \E n : RefuseAttempt(n)
      PROVE  Floors'
  BY <1>1, <1>3, <1>4, UngovernedFloor, FloorsFollow
<1>5. ASSUME NEW p \in Processes, AskTopology(p) \/ AskPublish(p) \/ AskAssess(p)
      PROVE  Floors'
  BY <1>4, <1>5 DEF AskTopology, AskPublish, AskAssess
<1>6. ASSUME NEW p \in Processes, AskGoverned(p)
      PROVE  Floors'
  <2> DEFINE n == proc[p].attempt
  <2>1. CASE RefuseAttempt(n)
    BY <1>4, <2>1
  <2>2. CASE ~RefuseAttempt(n)
    <3>1. \/ Deny(n) \/ RetireLineage(n)
          \/ \E outcome \in Outcomes :
               Direct(n, outcome) \/ MergeLineages(n, outcome) \/ Revalidate(n, outcome)
      BY <1>6, <2>2 DEF AskGoverned
    <3>2. PICK k, verdict : Answer(p, k, verdict, "held") /\ (verdict # "regressed" \/ Refused(p))
      BY <1>6 DEF AskGoverned, Refused
    <3>3. Spent(proc'[p]) /\ proc'[p].attempt = n
      <4>1. proc[p].pc = "run" /\ Head(proc[p].todo) # "query"
        BY <1>6 DEF AskGoverned, Doing
      <4> QED
        BY <3>2, <4>1, AnswerGoes
    <3>4. n \in Nat
      BY DEF AttemptInv, Local
    <3>5. ReachedNext(n)
      BY <3>3, <3>4 DEF ReachedNext
    <3> HIDE DEF n
    <3>6. floor' = n /\ disk' = disk /\ Carries(wal', n)
      BY <3>1, GovernedFloor
    <3> QED
      BY <1>1, <3>5, <3>6, FloorsFollow
  <2> QED
    BY <2>1, <2>2
<1>7. CASE StartCoordinator
  <2> DEFINE a == disk.state.attempt
             e == EpochState(disk.state.epoch + 1, disk.state.sequence, a)
  <2>1. floor' = a /\ disk' = disk /\ wal' = <<e>>
    BY <1>7 DEF StartCoordinator, Start
  <2>2. Carries(<<e>>, a)
    BY CarriesOne
  <2> HIDE DEF e
  <2> QED
    BY <1>1, <1>3, <2>1, <2>2, FloorsFollow
<1>8. CASE Crash
  <2>1. floor' = 0 /\ disk' = disk /\ wal' = <<>>
    BY <1>8 DEF Crash
  <2>2. Carries(<<>>, 0) /\ ReachedNext(0)
    BY CarriesOne DEF ReachedNext
  <2> QED
    BY <1>1, <2>1, <2>2, FloorsFollow
<1>9. CASE Flush
  <2>1. /\ floor' = floor /\ wal' = Tail(wal) /\ wal # <<>> /\ IsSeq(wal)
        /\ disk = [decisions |-> disk.decisions, lineage |-> disk.lineage, state |-> disk.state]
    BY <1>9 DEF Flush, AuditInv, Typed
  <2>2. /\ Head(wal) = wal[1] /\ 1 \in 1..Len(wal)
        /\ \A i \in 1..Len(Tail(wal)) : i + 1 \in 1..Len(wal) /\ Tail(wal)[i] = wal[i + 1]
    BY <2>1, TailElements
  <2>3. WellFormed(wal[1])
    BY <2>2 DEF AuditInv, Typed
  <2>4. disk'.state = IF wal[1].type = "EpochState" THEN wal[1].body ELSE disk.state
    BY <1>9, <2>1, <2>2, <2>3 DEF Flush, WellFormed, RecordTypes
  <2>5. ReachedNext(disk'.state.attempt)
    BY <1>3, <2>2, <2>4
  <2>6. \A i \in 1..Len(wal') : wal'[i].type = "EpochState" => ReachedNext(wal'[i].body.attempt)
    BY <1>3, <2>1, <2>2
  <2> QED
    BY <1>3, <2>1, <2>5, <2>6 DEF Floors, Reached, ReachedNext, Pending
<1>10. CASE UNCHANGED auditVars
  BY <1>1, <1>10, FloorsStay
<1>11. ASSUME NEW p \in Processes,
             \/ Usage(p) \/ Unreachable(p) \/ Stamp(p) \/ Read(p) \/ ReadBack(p)
             \/ Receive(p) \/ Fail(p) \/ Abandon(p) \/ Reaped(p)
             \/ \E command \in Commands[p], named \in NamedEpochs : Connect(p, command, named)
      PROVE  UNCHANGED auditVars
  BY <1>11 DEF Usage, Unreachable, Stamp, Read, ReadBack, Receive, Fail, Abandon, Reaped, Connect
<1>12. CASE Commit \/ StopCoordinator \/ CrashCoordinator \/ Reboot
  BY <1>8, <1>9, <1>10, <1>12 DEF Commit, StopCoordinator, CrashCoordinator, Reboot
<1>13. CASE UNCHANGED vars
  BY <1>10, <1>13 DEF vars
<1> QED
  BY <1>5, <1>6, <1>7, <1>10, <1>11, <1>12, <1>13 DEF Next, ProcessStep

LEMMA AttemptInit == Init => AttemptInv
<1> SUFFICES ASSUME Init PROVE AttemptInv
  OBVIOUS
<1>1. /\ clock = 1 /\ reboots = 0 /\ proc = [p \in Processes |-> NewProcess]
      /\ floor = 0 /\ wal = <<>> /\ disk.state.attempt = 0
  BY DEF Init, AuditInit
<1> DEFINE r == NewProcess
<1>2. /\ Shaped(r) /\ r.pc = "ready" /\ r.attempt = 0 /\ r.todo = <<>> /\ r.made = <<>>
      /\ r.before = {} /\ r.command = "none"
  BY DEF NewProcess, Shaped
<1> HIDE DEF r
<1>3. Len(r.todo) = 0 /\ \A i \in 1..0 : FALSE
  BY <1>2
<1>4. Local(r)
  BY <1>2, <1>3, EmptyIsSeq DEF Local
<1>5. DOMAIN proc = Processes /\ \A p \in Processes : proc[p] = r
  BY <1>1 DEF r
<1>6. InTime
  BY <1>1, <1>2, <1>5 DEF InTime
<1>7. Len(wal) = 0
  BY <1>1
<1>8. Floors
  BY <1>1, <1>3, <1>7 DEF Floors, Reached
<1> QED
  BY <1>1, <1>4, <1>5, <1>6, <1>8 DEF AttemptInv

LEMMA AttemptInductive == Spec => []AttemptInv
<1>1. ASSUME AuditInv, AttemptInv, [Next]_vars PROVE AttemptInv'
  BY <1>1, StepsGo, ClockGoes, TimeKept, FloorsKept DEF AttemptInv, ProcessesGo
<1> QED
  BY <1>1, AttemptInit, AuditInductive, PTL DEF Spec

\* While the host stays up, an attempt (make_attempt of the CLI) is refused by
\* check_attempt only in favour of an invocation that ran at the same time,
\* whatever becomes of the coordinator: every floor that memory, the journal or
\* a pending record holds was the attempt of a process that has had its
\* decision or has ended, and those that ended before are earlier.
THEOREM AttemptsAdvance == Spec => LaterAttemptAdvances
<1> DEFINE A == \A p \in Processes : reboots = 0 /\ Regresses(p) => Overtaken(p)
<1>1. ASSUME AttemptInv, [Next]_vars PROVE A
  <2> SUFFICES ASSUME NEW p \in Processes, reboots = 0, Regresses(p)
               PROVE  Overtaken(p)
    OBVIOUS
  <2>1. ProcessesGo
    BY <1>1, StepsGo
  <2>2. Refused(p)
    <3>1. Len(proc[p].made) \in Nat /\ Len(proc'[p].made) \in Nat
      BY <1>1, <2>1, SeqElim DEF AttemptInv, ProcessesGo, Local
    <3>2. ~Calm(proc[p], proc'[p])
      BY <3>1 DEF Calm, Regresses
    <3> QED
      BY <2>1, <3>2 DEF ProcessesGo
  <2>3. /\ proc[p].pc = "run" /\ Head(proc[p].todo) = "govern" /\ proc[p].attempt # 0
        /\ proc[p].attempt <= floor /\ proc[p].attempt \in Nat /\ Reached(floor) /\ Local(proc[p])
    BY <1>1, <2>2 DEF Refused, Doing, RefuseAttempt, AttemptInv, Floors, Local
  <2>4. PICK q \in Processes : Spent(proc[q]) /\ floor <= proc[q].attempt
    BY <2>3 DEF Reached
  <2>5. proc[q].attempt \in Nat /\ floor \in Nat
    BY <1>1, <2>3 DEF AttemptInv, Local, Reached
  <2>6. proc[q].attempt >= proc[p].attempt
    BY <2>3, <2>4, <2>5
  <2>7. ~Spent(proc[p])
    <3>1. IsSeq(proc[p].todo) /\ proc[p].todo # <<>>
      BY <2>3 DEF Local
    <3>2. 1 \in 1..Len(proc[p].todo) /\ proc[p].todo[1] = "govern"
      BY <2>3, <3>1, TailElements
    <3>3. proc[p].made = <<>>
      BY <2>3, <3>2 DEF Local
    <3> QED
      BY <2>3, <3>3 DEF Spent
  <2>8. q \notin proc[p].before
    BY <1>1, <2>3, <2>5, <2>6 DEF AttemptInv, InTime
  <2> QED
    BY <2>4, <2>6, <2>7, <2>8 DEF Overtaken
<1>2. ASSUME AttemptInv, [Next]_vars PROVE [A]_vars
  BY <1>1, <1>2
<1> HIDE DEF A
<1>3. Spec => [][A]_vars
  BY <1>2, AttemptInductive, PTL DEF Spec
<1> QED
  BY <1>3 DEF LaterAttemptAdvances, A
-----------------------------------------------------------------------------
(* The exit codes.                                                         *)

\* How many requests a process has behind it with n exchanges left.
Behind(command, n) ==
  IF command = "publisher"
  THEN IF n <= PublishCount THEN PublishCount + 1 - n
       ELSE IF n = PublishCount + 1 THEN 1 ELSE 0
  ELSE IF n <= 1 /\ command # "status" THEN 1 ELSE 0

\* The i-th request of a command.
Wanted(command, i) ==
  IF command = "publisher" THEN IF i = 1 THEN "topology" ELSE "publish" ELSE command

Judgements == {"granted", "refused", "regressed"}

\* `d' is an answer to the i-th decision made for r: that decision, or an
\* assessment no earlier.
Answers(r, i, d) ==
  /\ d.verdict \in Judgements
  /\ IF r.command = "assess" THEN d.id[2] = r.session /\ d.id[1] >= r.made[i].id[1]
     ELSE d = r.made[i]

Waiting(r, state) == r.pc = "waiting" /\ r.reply.state = state

\* A process and its script: there is one result for each request behind it,
\* which is an answer to the decision made on that request.
Scripted(r) ==
  LET n == Len(r.todo) IN
  /\ r.command \in CommandNames /\ IsSeq(r.results)
  /\ \A i \in 1..n : r.todo[i] = Left(r.command, n - i + 1)
  /\ Len(r.results) = Behind(r.command, n)
  /\ r.pc = "run" => Len(r.made) = Len(r.results) /\ r.reply = Unsent
  /\ r.pc = "waiting" => Len(r.made) = Len(r.results) + 1 /\ Left(r.command, n) # "query"
  /\ \A i \in 1..Len(r.made) : r.made[i].id \in Ids /\ r.made[i].id[2] = r.session
  /\ \A i \in 1..Len(r.results) : Answers(r, i, r.results[i])
  /\ DOMAIN r.reply = {"decision", "state"}
  /\ Waiting(r, "held") \/ Waiting(r, "sent") => Answers(r, Len(r.made), r.reply.decision)
  /\ Waiting(r, "held") => r.command # "assess"
  /\ Waiting(r, "unread") => r.command = "assess"

OnDisk(name) == \E i \in 1..Len(disk.decisions) : disk.decisions[i].id = name

\* The identity of the last decision made for a process.
LastMade(r) == r.made[Len(r.made)].id

\* What the runtime and the disk have of the decisions made for a process: those
\* that were answered are on disk, unless they are about evidence.
Backed(r) ==
  /\ \A i \in 1..Len(r.made) : Given(r.made[i].id)
  /\ \A i \in 1..Len(r.results) : Wanted(r.command, i) # "publish" => OnDisk(r.made[i].id)
  /\ Waiting(r, "sent") /\ Wanted(r.command, Len(r.made)) # "publish" => OnDisk(LastMade(r))
  /\ Waiting(r, "held") \/ Waiting(r, "unread") =>
       serving /\ r.session = boot /\ OnRecord(LastMade(r))
  /\ Waiting(r, "unread") => assessment.id[2] = boot /\ assessment.id[1] >= LastMade(r)[1]

Accounted(r) ==
  /\ r.pc = "ready" => r = NewProcess
  /\ r.pc \in {"run", "waiting"} => Scripted(r) /\ Backed(r)

ExitInv == \A p \in Processes : Accounted(proc[p])

\* The last assessment gives way to a later one.
Supersedes ==
  assessment'.id \in Ids /\ assessment'.id[2] = boot /\ assessment'.id[1] > sequence

\* What a step of the coordinator leaves of what it has told anyone: identities
\* stay given, decisions on disk stay there, and while it runs those that are to
\* be committed still are, and the last assessment only gives way to a later one.
Keeps ==
  /\ \A name : OnDisk(name) => OnDisk(name)'
  /\ \A name \in Ids : Given(name) => Given(name)'
  /\ serving /\ serving' =>
       /\ boot' = boot
       /\ \A name : OnRecord(name) => OnRecord(name)'
       /\ assessment' = assessment \/ Supersedes

LEMMA PublishTells ==
  ASSUME AuditInv, Free, NEW decisions, NEW r, Fresh(decisions), Publish(decisions, r),
         assessment' = assessment \/ Supersedes
  PROVE  Keeps
<1>1. /\ sequence \in Nat /\ boot \in Nat /\ Len(decisions) \in Nat /\ serving
      /\ Len(wal) = 0
  BY DEF AuditInv, Typed, Fresh, Free
<1>2. sequence' = sequence + Len(decisions) /\ serving' = serving /\ boot' = boot /\ disk' = disk
  BY DEF Publish
<1>3. \A name : OnDisk(name) => OnDisk(name)' /\ OnRecord(name)'
  BY <1>2 DEF OnDisk, OnRecord
<1>4. \A name : OnRecord(name) => OnDisk(name)
  BY <1>1 DEF OnDisk, OnRecord
<1>5. \A name \in Ids : Given(name) => Given(name)'
  BY <1>1, <1>2 DEF Given, Ids
<1> QED
  BY <1>2, <1>3, <1>4, <1>5 DEF Keeps

LEMMA FlushTells ==
  ASSUME AuditInv, Flush
  PROVE  Keeps /\ (wal' = <<>> => \A name : OnRecord(name) => OnDisk(name)')
<1>1. /\ IsSeq(wal) /\ wal # <<>> /\ disk.decisions \in Seq(Decisions) /\ Typed
      /\ disk = [decisions |-> disk.decisions, lineage |-> disk.lineage, state |-> disk.state]
  BY DEF AuditInv, Typed, Flush
<1> DEFINE h == Head(wal)
           t == Tail(wal)
<1>2. /\ h = wal[1] /\ Len(wal) \in Nat /\ Len(wal) >= 1 /\ Len(t) = Len(wal) - 1
      /\ \A i \in 1..Len(t) : i + 1 \in 1..Len(wal) /\ t[i] = wal[i + 1]
  BY <1>1, TailElements
<1>3. WellFormed(h)
  BY <1>1, <1>2 DEF Typed
<1>4. /\ disk' = CASE h.type = "Decision"   -> [disk EXCEPT !.decisions = Append(@, h.body)]
                   [] h.type = "Lineage"    -> [disk EXCEPT !.lineage = @ \cup {h.body}]
                   [] h.type = "EpochState" -> [disk EXCEPT !.state = h.body]
                   [] h.type = "Input"      -> disk
      /\ wal' = t
      /\ UNCHANGED <<serving, boot, sequence, assessment>>
  BY DEF Flush
<1> HIDE DEF h, t
<1>5. /\ h.type = "Decision" => disk'.decisions = Append(disk.decisions, h.body)
      /\ h.type # "Decision" => disk'.decisions = disk.decisions
  BY <1>1, <1>3, <1>4 DEF WellFormed, RecordTypes
<1>6. \A name : OnDisk(name) => OnDisk(name)'
  <2>1. CASE h.type # "Decision"
    BY <1>5, <2>1 DEF OnDisk
  <2>2. CASE h.type = "Decision"
    <3>1. h.body \in Decisions
      BY <1>3, <2>2 DEF WellFormed
    <3>2. /\ Len(disk.decisions) \in Nat /\ Len(disk'.decisions) = Len(disk.decisions) + 1
          /\ \A i \in 1..Len(disk.decisions) : disk'.decisions[i] = disk.decisions[i]
      BY <1>1, <1>5, <2>2, <3>1, Written
    <3> QED
      BY <3>2 DEF OnDisk
  <2> QED
    BY <2>1, <2>2
<1>7. ASSUME NEW name, h.type = "Decision", name = h.body.id PROVE OnDisk(name)'
  <2>1. h.body \in Decisions
    BY <1>3, <1>7 DEF WellFormed
  <2>2. /\ Len(disk.decisions) \in Nat /\ Len(disk'.decisions) = Len(disk.decisions) + 1
        /\ disk'.decisions[Len(disk.decisions) + 1] = h.body
    BY <1>1, <1>5, <1>7, <2>1, Written
  <2> QED
    BY <1>7, <2>2 DEF OnDisk
<1>8. ASSUME NEW name, OnRecord(name)
      PROVE  OnDisk(name)' \/ \E i \in 1..Len(t) : t[i].type = "Decision" /\ t[i].body.id = name
  <2>1. CASE OnDisk(name)
    BY <1>6, <2>1
  <2>2. CASE ~OnDisk(name)
    <3>1. PICK i \in 1..Len(wal) : wal[i].type = "Decision" /\ wal[i].body.id = name
      BY <1>8, <2>2 DEF OnRecord, OnDisk, Pending
    <3>2. CASE i = 1
      BY <1>2, <1>7, <3>1, <3>2
    <3>3. CASE i # 1
      <4>1. i - 1 \in 1..Len(t) /\ (i - 1) + 1 = i
        BY <1>2, <3>3
      <4> QED
        BY <1>2, <3>1, <4>1
    <3> QED
      BY <3>2, <3>3
  <2> QED
    BY <2>1, <2>2
<1>9. \A name : OnRecord(name) => OnRecord(name)'
  BY <1>4, <1>8 DEF OnRecord, OnDisk, Pending
<1>10. wal' = <<>> => \A name : OnRecord(name) => OnDisk(name)'
  <2>1. wal' = <<>> => Len(t) = 0
    BY <1>4
  <2> QED
    BY <1>8, <2>1
<1>11. \A name \in Ids : Given(name) => Given(name)'
  BY <1>4 DEF Given
<1> QED
  BY <1>4, <1>6, <1>9, <1>10, <1>11 DEF Keeps

LEMMA CrashTells ==
  ASSUME Crash \/ UNCHANGED auditVars
  PROVE  Keeps
<1>1. CASE Crash
  BY <1>1 DEF Crash, Keeps, OnDisk, Given
<1>2. CASE UNCHANGED auditVars
  BY <1>2 DEF auditVars, Keeps, OnDisk, Given, OnRecord, Pending
<1> QED
  BY <1>1, <1>2

LEMMA StartTells ==
  ASSUME AuditInv, Start
  PROVE  Keeps
<1>1. boot \in Nat /\ ~serving /\ boot' = boot + 1 /\ disk' = disk
  BY DEF Start, AuditInv, Typed
<1> QED
  BY <1>1 DEF Keeps, OnDisk, Given, Ids

\* The n-th decision of an operation has its identity, and is to be committed.
Issued(n) ==
  /\ Keeps /\ serving /\ serving' /\ boot' = boot
  /\ \A name : name = <<sequence + n, boot>> => name \in Ids /\ Given(name)'

Committed(n) == Issued(n) /\ \A name : name = <<sequence + n, boot>> => OnRecord(name)'

LEMMA PublishIssues ==
  ASSUME AuditInv, Free, NEW decisions, NEW r, Fresh(decisions), Publish(decisions, r),
         assessment' = assessment \/ Supersedes,
         NEW n \in 1..Len(decisions)
  PROVE  /\ Issued(n)
         /\ Part(decisions, r, 0, Len(decisions)) => Committed(n)
<1>1. Keeps
  BY PublishTells
<1>2. sequence \in Nat /\ boot \in Nat /\ Len(decisions) \in Nat /\ serving
  BY DEF AuditInv, Typed, Fresh, Free
<1>3. /\ sequence' = sequence + Len(decisions) /\ serving' = serving /\ boot' = boot
      /\ wal' = r
  BY DEF Publish
<1>4. Issued(n)
  BY <1>1, <1>2, <1>3 DEF Issued, Given, Ids
<1>5. ASSUME Part(decisions, r, 0, Len(decisions)), NEW name, name = <<sequence + n, boot>>
      PROVE  OnRecord(name)'
  <2>1. n \in 0 + 1..Len(decisions) /\ decisions[n].id = name
    BY <1>2, <1>5 DEF Fresh
  <2>2. PICK i \in 1..Len(r) : r[i].type = "Decision" /\ r[i].body = decisions[n]
    BY <1>5, <2>1 DEF Part
  <2> QED
    BY <1>3, <2>1, <2>2 DEF OnRecord, Pending
<1> QED
  BY <1>4, <1>5 DEF Committed

\* An operation of one decision.
LEMMA OneIssued ==
  ASSUME AuditInv, Free, NEW k \in Kinds, NEW r, Publish(<<Decided(1, k)>>, r),
         assessment' = assessment \/ assessment' = Decided(1, k)
  PROVE  /\ Issued(1)
         /\ Part(<<Decided(1, k)>>, r, 0, 1) => Committed(1)
<1> DEFINE d == Decided(1, k)
           s == <<d>>
<1>1. Typed /\ sequence \in Nat /\ boot \in Nat
  BY DEF AuditInv, Typed
<1>2. Fresh(s) /\ Len(s) = 1
  BY <1>1, OneFresh
<1>3. d.id \in Ids /\ d.id[2] = boot /\ d.id[1] > sequence
  BY <1>1 DEF Decided, DecisionId, Ids
<1>4. assessment' = assessment \/ Supersedes
  BY <1>3 DEF Supersedes
<1>5. Publish(s, r)
  OBVIOUS
<1> HIDE DEF d, s
<1>6. 1 \in 1..Len(s)
  BY <1>2
<1>7. /\ Issued(1)
      /\ Part(s, r, 0, Len(s)) => Committed(1)
  BY <1>2, <1>4, <1>5, <1>6, PublishIssues
<1> QED
  BY <1>2, <1>7 DEF s, d

\* An operation of two decisions, one of which is of an assessment.
LEMMA TwoIssued ==
  ASSUME AuditInv, Free, NEW k \in Kinds, NEW l \in Kinds, NEW r,
         Publish(<<Decided(1, k), Decided(2, l)>>, r),
         assessment' = Decided(1, k) \/ assessment' = Decided(2, l),
         Part(<<Decided(1, k), Decided(2, l)>>, r, 0, 2)
  PROVE  Committed(1) /\ Committed(2)
<1> DEFINE c == Decided(1, k)
           d == Decided(2, l)
           s == <<c, d>>
<1>1. Typed /\ sequence \in Nat /\ boot \in Nat
  BY DEF AuditInv, Typed
<1>2. Fresh(s) /\ Len(s) = 2
  BY <1>1, TwoFresh
<1>3. /\ c.id \in Ids /\ c.id[2] = boot /\ c.id[1] > sequence
      /\ d.id \in Ids /\ d.id[2] = boot /\ d.id[1] > sequence
  BY <1>1 DEF Decided, DecisionId, Ids
<1>4. Supersedes
  BY <1>3 DEF Supersedes
<1>5. Publish(s, r) /\ Part(s, r, 0, 2)
  OBVIOUS
<1> HIDE DEF c, d, s
<1>6. 1 \in 1..Len(s) /\ 2 \in 1..Len(s) /\ Part(s, r, 0, Len(s))
  BY <1>2, <1>5
<1> QED
  BY <1>2, <1>4, <1>5, <1>6, PublishIssues

\* What the handlers have the runtime decide, and how they answer.
LEMMA TopologyIssued ==
  ASSUME AuditInv, NEW p \in Processes, AskTopology(p)
  PROVE  Committed(1) /\ \E verdict \in Judgements : Answer(p, 1, verdict, "held")
<1>1. PICK verdict \in {"granted", "refused"}, changes \in BOOLEAN :
        Input(changes) /\ Answer(p, 1, verdict, "held")
  BY DEF AskTopology
<1> DEFINE d == Decided(1, "input")
           r == (IF changes THEN <<InputRecord>> ELSE <<>>) \o <<DecisionRecord(d)>>
<1>2. Free /\ Publish(<<d>>, r) /\ assessment' = assessment
  BY <1>1 DEF Input
<1>3. "input" \in Kinds /\ Typed
  BY DEF Kinds, AuditInv
<1>4. Part(<<d>>, r, 0, 1)
  BY <1>3, OneWhole
<1> HIDE DEF r
<1>5. Committed(1)
  BY <1>2, <1>3, <1>4, OneIssued
<1> QED
  BY <1>1, <1>5 DEF Judgements

LEMMA PublicationIssued ==
  ASSUME AuditInv, NEW p \in Processes, AskPublish(p)
  PROVE  Issued(1) /\ \E verdict \in Judgements : Answer(p, 1, verdict, "sent")
<1>1. PICK verdict \in {"granted", "refused"} : Ingest /\ Answer(p, 1, verdict, "sent")
  BY DEF AskPublish
<1>2. Free /\ Publish(<<Decided(1, "ingest")>>, <<>>) /\ assessment' = assessment
  BY <1>1 DEF Ingest
<1>3. "ingest" \in Kinds
  BY DEF Kinds
<1>4. Issued(1)
  BY <1>2, <1>3, OneIssued
<1> QED
  BY <1>1, <1>4 DEF Judgements

LEMMA AssessmentIssued ==
  ASSUME AuditInv, NEW p \in Processes, AskAssess(p)
  PROVE  /\ Committed(1) /\ Answer(p, 1, "assessed", "unread")
         /\ assessment'.id = <<sequence + 1, boot>>
<1>1. PICK outcome \in Outcomes : Assess(outcome)
  BY DEF AskAssess
<1> DEFINE k == Kind(outcome)
           d == Decided(1, k)
           r == AssessRecords(d, outcome, floor)
<1>2. Assessed(1, outcome) = d /\ k \in Kinds
  BY AssessedIsDecided
<1>3. Free /\ Publish(<<d>>, r) /\ assessment' = d
  BY <1>1, <1>2 DEF Assess
<1>4. Part(<<d>>, r, 0, 1)
  BY <1>2, OneWhole DEF AuditInv
<1> HIDE DEF r, k
<1>5. Committed(1)
  BY <1>2, <1>3, <1>4, OneIssued
<1>6. d.id = <<sequence + 1, boot>>
  BY DEF Decided, DecisionId
<1> QED
  BY <1>3, <1>5, <1>6 DEF AskAssess

LEMMA GovernedIssued ==
  ASSUME AuditInv, NEW p \in Processes, AskGoverned(p)
  PROVE  \E n \in {1, 2}, verdict \in Judgements : Committed(n) /\ Answer(p, n, verdict, "held")
<1> DEFINE a == proc[p].attempt
           own == Decided(1, "request")
<1>0. "request" \in Kinds /\ Typed
  BY DEF Kinds, AuditInv
<1>1. CASE /\ RefuseAttempt(a) \/ Deny(a) \/ RetireLineage(a)
           /\ \E verdict \in Judgements : Answer(p, 1, verdict, "held")
  <2>1. /\ Free /\ assessment' = assessment
        /\ \/ Publish(<<own>>, <<DecisionRecord(own)>>)
           \/ Publish(<<own>>, <<LineageRecord(own), DecisionRecord(own)>>)
    BY <1>1 DEF RefuseAttempt, Deny, RetireLineage, Admit
  <2>2. /\ Part(<<own>>, <<DecisionRecord(own)>>, 0, 1)
        /\ Part(<<own>>, <<LineageRecord(own), DecisionRecord(own)>>, 0, 1)
    BY <1>0, OneWhole
  <2>3. Committed(1)
    BY <1>0, <2>1, <2>2, OneIssued
  <2> QED
    BY <1>1, <2>3
<1>2. ASSUME NEW outcome \in Outcomes,
             Direct(a, outcome) \/ MergeLineages(a, outcome)
      PROVE  Committed(1)
  <2> DEFINE k == Kind(outcome)
             d == Decided(2, k)
             r == <<DecisionRecord(own)>> \o AssessRecords(d, outcome, a)
             l == <<LineageRecord(own), DecisionRecord(own)>> \o AssessRecords(d, outcome, a)
  <2>1. Assessed(2, outcome) = d /\ k \in Kinds
    BY AssessedIsDecided
  <2>2. Free /\ assessment' = d /\ (Publish(<<own, d>>, r) \/ Publish(<<own, d>>, l))
    BY <1>2, <2>1 DEF Direct, MergeLineages, Admit
  <2>3. Part(<<own, d>>, r, 0, 2) /\ Part(<<own, d>>, l, 0, 2)
    BY <1>0, <2>1, TwoWhole
  <2> HIDE DEF r, l, k
  <2> QED
    BY <1>0, <2>1, <2>2, <2>3, TwoIssued
<1>3. ASSUME NEW outcome \in Outcomes, Revalidate(a, outcome)
      PROVE  Committed(2)
  <2> DEFINE k == Kind(outcome)
             d == Decided(1, k)
             last == Decided(2, "request")
             r == AssessRecords(d, outcome, a) \o <<DecisionRecord(last)>>
  <2>1. Assessed(1, outcome) = d /\ k \in Kinds
    BY AssessedIsDecided
  <2>2. Free /\ assessment' = d /\ Publish(<<d, last>>, r)
    BY <1>3, <2>1 DEF Revalidate, Admit
  <2>3. Part(<<d, last>>, r, 0, 2)
    BY <1>0, <2>1, TwoWhole
  <2> HIDE DEF r, k
  <2> QED
    BY <1>0, <2>1, <2>2, <2>3, TwoIssued
<1>4. \/ /\ RefuseAttempt(a) \/ Deny(a) \/ RetireLineage(a)
         /\ \E verdict \in Judgements : Answer(p, 1, verdict, "held")
      \/ /\ \E outcome \in Outcomes : Direct(a, outcome) \/ MergeLineages(a, outcome)
         /\ \E verdict \in Judgements : Answer(p, 1, verdict, "held")
      \/ /\ \E outcome \in Outcomes : Revalidate(a, outcome)
         /\ \E verdict \in Judgements : Answer(p, 2, verdict, "held")
  BY DEF AskGoverned, Judgements
<1> HIDE DEF a, own
<1> QED
  BY <1>1, <1>2, <1>3, <1>4 DEF Judgements

\* An exchange of the script: a query leaves the count of requests as it is,
\* any other is the next request.
LEMMA ScriptCount ==
  ASSUME NEW command \in CommandNames, NEW n \in Nat \ {0}
  PROVE  /\ Behind(command, n) \in Nat
         /\ Left(command, n) = "query" => Behind(command, n - 1) = Behind(command, n)
         /\ Left(command, n) # "query" =>
              /\ Behind(command, n - 1) = Behind(command, n) + 1
              /\ Wanted(command, Behind(command, n) + 1) = Left(command, n)
         /\ Left(command, n) = "assess" <=> command = "assess" /\ n = 2
<1>1. PublishCount \in Nat \ {0}
  BY OperatorAssumption
<1>2. CASE command = "publisher"
  <2>1. CASE n <= PublishCount
    BY <1>1, <1>2, <2>1 DEF Behind, Left, Wanted
  <2>2. CASE n = PublishCount + 1
    BY <1>1, <1>2, <2>2 DEF Behind, Left, Wanted
  <2>3. CASE n = PublishCount + 2
    BY <1>1, <1>2, <2>3 DEF Behind, Left, Wanted
  <2>4. CASE n > PublishCount + 2
    BY <1>1, <1>2, <2>4 DEF Behind, Left, Wanted
  <2> QED
    BY <1>1, <2>1, <2>2, <2>3, <2>4
<1>3. CASE command # "publisher"
  <2>1. command # "query"
    BY DEF CommandNames
  <2>2. CASE n <= 2
    BY <1>3, <2>1, <2>2 DEF Behind, Left, Wanted
  <2>3. CASE n > 2
    BY <1>3, <2>1, <2>3 DEF Behind, Left, Wanted
  <2> QED
    BY <2>2, <2>3
<1> QED
  BY <1>2, <1>3

\* The counts of a process at work, and its next exchange.
LEMMA AtWork ==
  ASSUME NEW r, Local(r), Scripted(r), r.pc \in {"run", "waiting"}
  PROVE  /\ Len(r.todo) \in Nat \ {0} /\ Len(r.made) \in Nat /\ Len(r.results) \in Nat
         /\ Head(r.todo) = Left(r.command, Len(r.todo))
         /\ r.pc = "waiting" => Len(r.made) \in 1..Len(r.made)
         /\ \A i \in 1..Len(r.results) : i \in 1..Len(r.made)
<1>1. IsSeq(r.todo) /\ r.todo # <<>> /\ IsSeq(r.made) /\ IsSeq(r.results)
  BY DEF Local, Scripted
<1>2. /\ Len(r.todo) \in Nat /\ Len(r.todo) >= 1 /\ Head(r.todo) = r.todo[1]
      /\ Len(r.made) \in Nat /\ Len(r.results) \in Nat
  BY <1>1, TailElements, SeqElim
<1>3. 1 \in 1..Len(r.todo) /\ Len(r.todo) - 1 + 1 = Len(r.todo)
  BY <1>2
<1>4. r.todo[1] = Left(r.command, Len(r.todo))
  BY <1>3 DEF Scripted
<1>5. Len(r.made) = Len(r.results) \/ Len(r.made) = Len(r.results) + 1
  BY DEF Scripted
<1>6. r.pc = "waiting" => Len(r.made) = Len(r.results) + 1
  BY DEF Scripted
<1> QED
  BY <1>2, <1>4, <1>5, <1>6

\* A process that the step leaves alone.
LEMMA Unmoved ==
  ASSUME AuditInv, NEW r, Local(r), Accounted(r), Keeps,
         Waiting(r, "held") \/ Waiting(r, "unread") => serving'
  PROVE  Accounted(r)'
<1> SUFFICES ASSUME r.pc \in {"run", "waiting"}, Scripted(r), Backed(r)
             PROVE  Backed(r)'
  BY DEF Accounted
<1>1. \A i \in 1..Len(r.made) : r.made[i].id \in Ids /\ r.made[i].id[2] = r.session
  BY DEF Scripted
<1>2. /\ r.pc = "waiting" => Len(r.made) \in 1..Len(r.made)
      /\ \A i \in 1..Len(r.results) : i \in 1..Len(r.made)
  BY AtWork
<1>3. \A i \in 1..Len(r.made) : Given(r.made[i].id)'
  BY <1>1 DEF Keeps, Backed
<1>4. \A i \in 1..Len(r.results) : Wanted(r.command, i) # "publish" => OnDisk(r.made[i].id)'
  BY DEF Keeps, Backed
<1>5. Waiting(r, "sent") /\ Wanted(r.command, Len(r.made)) # "publish" => OnDisk(LastMade(r))'
  BY DEF Keeps, Backed
<1>6. Waiting(r, "held") \/ Waiting(r, "unread") =>
        serving' /\ r.session = boot' /\ OnRecord(LastMade(r))'
  BY DEF Keeps, Backed
<1>7. ASSUME Waiting(r, "unread")
      PROVE  assessment'.id[2] = boot' /\ assessment'.id[1] >= LastMade(r)[1]
  <2>1. /\ serving /\ boot' = boot /\ r.session = boot
        /\ assessment.id[2] = boot /\ assessment.id[1] >= LastMade(r)[1]
        /\ assessment' = assessment \/ Supersedes
    BY <1>6, <1>7 DEF Keeps, Backed
  <2>2. LastMade(r) \in Ids /\ LastMade(r)[2] = boot /\ Given(LastMade(r))
    BY <1>1, <1>2, <1>7, <2>1 DEF LastMade, Waiting, Backed
  <2>3. LastMade(r)[1] <= sequence /\ LastMade(r)[1] \in Nat /\ sequence \in Nat
    BY <2>1, <2>2 DEF Given, Ids, AuditInv, Typed
  <2>4. CASE assessment' = assessment
    BY <2>1, <2>4
  <2>5. CASE Supersedes
    <3>1. /\ assessment'.id[1] \in Nat /\ assessment'.id[1] > sequence
          /\ assessment'.id[2] = boot
      BY <2>5 DEF Supersedes, Ids
    <3> QED
      BY <2>1, <2>3, <3>1
  <2> QED
    BY <2>1, <2>4, <2>5
<1> QED
  BY <1>3, <1>4, <1>5, <1>6, <1>7 DEF Backed

\* The process goes on to wait for the answer to its request.
LEMMA Waited ==
  ASSUME AuditInv, NEW r, Local(r), Scripted(r), Backed(r), r.pc = "run",
         Head(r.todo) # "query", Keeps,
         NEW d, d.id \in Ids, d.id[2] = r.session, Given(d.id)',
         NEW state \in {"held", "unread", "sent"},
         state # "unread" => d.verdict \in Judgements /\ Head(r.todo) # "assess",
         state = "unread" => Head(r.todo) = "assess" /\ assessment'.id = d.id,
         state # "sent" => serving' /\ r.session = boot' /\ OnRecord(d.id)',
         state = "sent" => Head(r.todo) = "publish"
  PROVE  Accounted(Waits(r, d, [decision |-> d, state |-> state]))'
<1> DEFINE x == [decision |-> d, state |-> state]
           s == Waits(r, d, x)
           m == Append(r.made, d)
           n == Len(r.todo)
<1>0. Shaped(r) /\ IsSeq(r.made)
  BY DEF Local
<1>1. /\ s.pc = "waiting" /\ s.command = r.command /\ s.session = r.session
      /\ s.todo = r.todo /\ s.made = m /\ s.results = r.results /\ s.reply = x
  BY <1>0 DEF Shaped, Waits
<1>2. /\ n \in Nat \ {0} /\ Len(r.made) \in Nat /\ Len(r.results) \in Nat
      /\ Head(r.todo) = Left(r.command, n)
  BY AtWork
<1>3. /\ Len(m) = Len(r.made) + 1 /\ m[Len(m)] = d
      /\ \A i \in 1..Len(r.made) : m[i] = r.made[i]
  BY <1>0, AppendElements, AppendPrefix
<1>4. x.decision = d /\ x.state = state /\ DOMAIN x = {"decision", "state"}
  OBVIOUS
<1> HIDE DEF s, x, m, n
<1>5. /\ r.command \in CommandNames /\ IsSeq(r.results)
      /\ \A i \in 1..n : r.todo[i] = Left(r.command, n - i + 1)
      /\ Len(r.results) = Behind(r.command, n) /\ Len(r.made) = Len(r.results)
      /\ \A i \in 1..Len(r.made) : r.made[i].id \in Ids /\ r.made[i].id[2] = r.session
      /\ \A i \in 1..Len(r.results) : Answers(r, i, r.results[i])
  BY DEF Scripted, n
<1>6. \A i \in 1..Len(m) : i \in 1..Len(r.made) \/ i = Len(m)
  BY <1>2, <1>3
<1>7. /\ r.command = "assess" => Head(r.todo) = "assess"
      /\ Head(r.todo) = "assess" => r.command = "assess"
      /\ Wanted(r.command, Len(m)) = Head(r.todo)
  <2>1. /\ Wanted(r.command, Behind(r.command, n) + 1) = Left(r.command, n)
        /\ Left(r.command, n) = "assess" <=> r.command = "assess" /\ n = 2
    BY <1>2, <1>5, ScriptCount
  <2>2. r.command = "assess" => n = 2
    BY <1>2 DEF Left
  <2> QED
    BY <1>2, <1>3, <1>5, <2>1, <2>2
<1>8. \A i \in 1..Len(m) : m[i].id \in Ids /\ m[i].id[2] = r.session
  BY <1>3, <1>5, <1>6
<1>9. \A i \in 1..Len(r.results) : Answers(s, i, r.results[i])
  BY <1>1, <1>3, <1>5 DEF Answers
<1>10. state # "unread" => Answers(s, Len(m), d) /\ r.command # "assess"
  BY <1>1, <1>3, <1>7 DEF Answers
<1>11. Scripted(s)
  BY <1>1, <1>2, <1>3, <1>4, <1>5, <1>7, <1>8, <1>9, <1>10 DEF Scripted, Waiting, n
<1>12. \A i \in 1..Len(m) : Given(m[i].id)'
  BY <1>3, <1>5, <1>6 DEF Keeps, Backed
<1>13. \A i \in 1..Len(r.results) : Wanted(r.command, i) # "publish" => OnDisk(m[i].id)'
  BY <1>3, <1>5 DEF Keeps, Backed
<1>14. LastMade(s) = d.id
  BY <1>1, <1>3 DEF LastMade
<1>15. state = "unread" => assessment'.id[2] = boot' /\ assessment'.id[1] >= d.id[1]
  <2>1. d.id[1] \in Nat
    BY DEF Ids
  <2> QED
    BY <2>1
<1>16. /\ \A i \in 1..Len(s.made) : Given(s.made[i].id)'
       /\ \A i \in 1..Len(s.results) :
            Wanted(s.command, i) # "publish" => OnDisk(s.made[i].id)'
       /\ Waiting(s, "sent") => Wanted(s.command, Len(s.made)) = "publish"
       /\ Waiting(s, "held") \/ Waiting(s, "unread") =>
            serving' /\ s.session = boot' /\ OnRecord(LastMade(s))'
       /\ Waiting(s, "unread") =>
            assessment'.id[2] = boot' /\ assessment'.id[1] >= LastMade(s)[1]
  BY <1>1, <1>4, <1>7, <1>12, <1>13, <1>14, <1>15 DEF Waiting
<1>17. Backed(s)'
  BY <1>16 DEF Backed
<1> QED
  BY <1>1, <1>11, <1>17 DEF Accounted, s, x

\* The process has an answer and goes on with its script.
Resumes(r, y) == [r EXCEPT !.pc = "run", !.todo = Tail(@), !.reply = Unsent, !.results = y]

\* The results with the answer to the first exchange of the script.
HasAnswer(r, y) ==
  \/ r.pc = "run" /\ Head(r.todo) = "query" /\ y = r.results
  \/ Waiting(r, "sent") /\ Head(r.todo) # "query" /\ y = Append(r.results, r.reply.decision)

LEMMA Resumed ==
  ASSUME NEW r, Local(r), Scripted(r), Backed(r), NEW y, HasAnswer(r, y)
  PROVE  Accounted(Resumes(r, y)) /\ IsSeq(y)
<1> DEFINE s == Resumes(r, y)
           t == Tail(r.todo)
           n == Len(r.todo)
<1>0. Shaped(r) /\ IsSeq(r.made) /\ r.pc \in {"run", "waiting"}
  BY DEF Local, HasAnswer, Waiting
<1>1. /\ s.pc = "run" /\ s.command = r.command /\ s.session = r.session
      /\ s.todo = t /\ s.made = r.made /\ s.results = y /\ s.reply = Unsent
  BY <1>0 DEF Shaped, Resumes
<1>2. /\ n \in Nat \ {0} /\ Len(r.made) \in Nat /\ Len(r.results) \in Nat
      /\ Head(r.todo) = Left(r.command, n)
      /\ \A i \in 1..Len(r.results) : i \in 1..Len(r.made)
      /\ r.pc = "waiting" => Len(r.made) \in 1..Len(r.made)
  BY <1>0, AtWork
<1>3. /\ Len(t) = n - 1
      /\ \A i \in 1..Len(t) : i \in Nat /\ i + 1 \in 1..n /\ t[i] = r.todo[i + 1]
  <2>1. IsSeq(r.todo) /\ r.todo # <<>>
    BY <1>0 DEF Local
  <2> QED
    BY <2>1, TailElements
<1> HIDE DEF s, t, n
<1>4. /\ r.command \in CommandNames /\ IsSeq(r.results)
      /\ \A i \in 1..n : r.todo[i] = Left(r.command, n - i + 1)
      /\ Len(r.results) = Behind(r.command, n)
      /\ \A i \in 1..Len(r.made) : r.made[i].id \in Ids /\ r.made[i].id[2] = r.session
      /\ \A i \in 1..Len(r.results) : Answers(r, i, r.results[i])
  BY DEF Scripted, n
<1>5. \A i \in 1..Len(t) : t[i] = Left(r.command, Len(t) - i + 1)
  <2> SUFFICES ASSUME NEW i \in 1..Len(t) PROVE t[i] = Left(r.command, Len(t) - i + 1)
    OBVIOUS
  <2>1. i \in Nat /\ i + 1 \in 1..n /\ t[i] = r.todo[i + 1]
    BY <1>3
  <2>2. n - (i + 1) + 1 = Len(t) - i + 1
    BY <1>2, <1>3, <2>1
  <2> QED
    BY <1>4, <2>1, <2>2
<1>6. /\ IsSeq(y) /\ Len(y) = Len(r.made) /\ Len(y) = Behind(r.command, Len(t))
      /\ \A i \in 1..Len(y) : Answers(r, i, y[i])
      /\ \A i \in 1..Len(y) : Wanted(r.command, i) # "publish" => OnDisk(r.made[i].id)
  <2>1. CASE r.pc = "run" /\ Head(r.todo) = "query" /\ y = r.results
    <3>1. Behind(r.command, n - 1) = Behind(r.command, n)
      BY <1>2, <1>4, <2>1, ScriptCount
    <3>2. Len(r.made) = Len(r.results)
      BY <2>1 DEF Scripted
    <3> QED
      BY <1>3, <1>4, <2>1, <3>1, <3>2 DEF Backed
  <2>2. CASE Waiting(r, "sent") /\ Head(r.todo) # "query"
               /\ y = Append(r.results, r.reply.decision)
    <3>1. Behind(r.command, n - 1) = Behind(r.command, n) + 1
      BY <1>2, <1>4, <2>2, ScriptCount
    <3>2. Len(r.made) = Len(r.results) + 1 /\ Answers(r, Len(r.made), r.reply.decision)
      BY <2>2 DEF Scripted, Waiting
    <3>3. /\ IsSeq(y) /\ Len(y) = Len(r.results) + 1 /\ y[Len(y)] = r.reply.decision
          /\ \A i \in 1..Len(r.results) : y[i] = r.results[i]
      BY <1>4, <2>2, AppendIsSeq, AppendElements, AppendPrefix
    <3>4. \A i \in 1..Len(y) : i \in 1..Len(r.results) \/ i = Len(y)
      BY <1>2, <3>3
    <3>5. Len(y) = Len(r.made) /\ Len(y) = Behind(r.command, Len(t))
      BY <1>3, <1>4, <3>1, <3>2, <3>3
    <3>6. \A i \in 1..Len(y) : Answers(r, i, y[i])
      BY <1>4, <3>2, <3>3, <3>4, <3>5
    <3>7. Wanted(r.command, Len(r.made)) # "publish" => OnDisk(r.made[Len(r.made)].id)
      BY <2>2 DEF Backed, LastMade
    <3>8. \A i \in 1..Len(r.results) :
            Wanted(r.command, i) # "publish" => OnDisk(r.made[i].id)
      BY DEF Backed
    <3>9. ASSUME NEW i \in 1..Len(y), Wanted(r.command, i) # "publish"
          PROVE  OnDisk(r.made[i].id)
      <4>1. CASE i \in 1..Len(r.results)
        BY <3>8, <3>9, <4>1
      <4>2. CASE i = Len(y)
        BY <3>5, <3>7, <3>9, <4>2
      <4> QED
        BY <3>4, <4>1, <4>2
    <3> QED
      BY <3>3, <3>5, <3>6, <3>9
  <2> QED
    BY <2>1, <2>2 DEF HasAnswer
<1>7. \A i \in 1..Len(y) : Answers(s, i, y[i])
  BY <1>1, <1>6 DEF Answers
<1>8. DOMAIN Unsent = {"decision", "state"}
  BY DEF Unsent
<1>9. Scripted(s)
  BY <1>1, <1>4, <1>5, <1>6, <1>7, <1>8 DEF Scripted, Waiting
<1>10. \A i \in 1..Len(r.made) : Given(r.made[i].id)
  BY DEF Backed
<1>11. /\ \A i \in 1..Len(s.made) : Given(s.made[i].id)
       /\ \A i \in 1..Len(s.results) : Wanted(s.command, i) # "publish" => OnDisk(s.made[i].id)
       /\ s.pc # "waiting"
  BY <1>1, <1>6, <1>10
<1>12. Backed(s)
  BY <1>11 DEF Backed, Waiting
<1> QED
  BY <1>1, <1>6, <1>9, <1>12 DEF Accounted, s

\* The answer of an assessment is read back, and is what the CLI judges.
LEMMA Reread ==
  ASSUME NEW r, Local(r), Scripted(r), Backed(r), Waiting(r, "unread"), AuditInv, Free,
         NEW verdict \in {"granted", "refused"}
  PROVE  Accounted([r EXCEPT !.reply = [decision |-> Answered(assessment, verdict),
                                        state |-> "sent"]])
<1> DEFINE d == Answered(assessment, verdict)
           x == [decision |-> d, state |-> "sent"]
           s == [r EXCEPT !.reply = x]
<1>0. Shaped(r) /\ r.pc = "waiting"
  BY DEF Local, Waiting
<1>1. /\ s.pc = "waiting" /\ s.command = r.command /\ s.session = r.session
      /\ s.todo = r.todo /\ s.made = r.made /\ s.results = r.results /\ s.reply = x
  BY <1>0 DEF Shaped
<1>2. x.decision = d /\ x.state = "sent" /\ DOMAIN x = {"decision", "state"}
  OBVIOUS
<1>3. d.id = assessment.id /\ d.verdict = verdict
  BY DEF Answered
<1> HIDE DEF s, x, d
<1>4. r.command = "assess" /\ Len(r.made) \in 1..Len(r.made)
  BY <1>0, AtWork DEF Scripted
<1>5. /\ r.session = boot /\ OnRecord(LastMade(r))
      /\ assessment.id[2] = boot /\ assessment.id[1] >= LastMade(r)[1]
  BY DEF Backed
<1>6. Answers(s, Len(s.made), s.reply.decision)
  BY <1>1, <1>2, <1>3, <1>4, <1>5 DEF Answers, Judgements, LastMade
<1>7. \A i \in 1..Len(r.results) : Answers(s, i, r.results[i])
  BY <1>1 DEF Answers, Scripted
<1>8. Scripted(s)
  BY <1>0, <1>1, <1>2, <1>6, <1>7 DEF Scripted, Waiting
<1>9. OnDisk(LastMade(s))
  <2>1. Len(wal) = 0
    BY DEF Free
  <2> QED
    BY <1>1, <1>5, <2>1 DEF OnRecord, OnDisk, LastMade
<1>10. Backed(s)
  BY <1>1, <1>2, <1>9 DEF Backed, Waiting
<1> QED
  BY <1>1, <1>8, <1>10 DEF Accounted, s, x, d

\* The last record of the operation is on disk, and its answer is sent.
LEMMA Delivered ==
  ASSUME NEW r, Local(r), Scripted(r), Backed(r)', Waiting(r, "held"), OnDisk(LastMade(r))'
  PROVE  Accounted([r EXCEPT !.reply.state = "sent"])'
<1> DEFINE s == [r EXCEPT !.reply.state = "sent"]
<1>0. Shaped(r) /\ r.pc = "waiting" /\ DOMAIN r.reply = {"decision", "state"}
  BY DEF Local, Waiting, Scripted
<1>1. /\ s.pc = "waiting" /\ s.command = r.command /\ s.session = r.session
      /\ s.todo = r.todo /\ s.made = r.made /\ s.results = r.results
      /\ s.reply = [r.reply EXCEPT !.state = "sent"]
  BY <1>0 DEF Shaped
<1>2. /\ s.reply.decision = r.reply.decision /\ s.reply.state = "sent"
      /\ DOMAIN s.reply = {"decision", "state"}
  BY <1>0, <1>1
<1> HIDE DEF s
<1>3. Answers(s, Len(s.made), s.reply.decision)
  BY <1>1, <1>2 DEF Answers, Scripted
<1>4. \A i \in 1..Len(r.results) : Answers(s, i, r.results[i])
  BY <1>1 DEF Answers, Scripted
<1>5. Scripted(s)
  BY <1>0, <1>1, <1>2, <1>3, <1>4 DEF Scripted, Waiting
<1>6. OnDisk(LastMade(s))'
  BY <1>1 DEF LastMade
<1>7. Backed(s)'
  BY <1>1, <1>2, <1>6 DEF Backed, Waiting
<1> QED
  BY <1>1, <1>5, <1>7 DEF Accounted, s

\* An answer that was not sent is lost.
LEMMA Lost ==
  ASSUME NEW r, Local(r), Scripted(r), Backed(r), r.pc = "waiting"
  PROVE  Accounted([r EXCEPT !.reply = Unsent])
<1> DEFINE s == [r EXCEPT !.reply = Unsent]
<1>0. Shaped(r)
  BY DEF Local
<1>1. /\ s.pc = "waiting" /\ s.command = r.command /\ s.session = r.session
      /\ s.todo = r.todo /\ s.made = r.made /\ s.results = r.results /\ s.reply = Unsent
  BY <1>0 DEF Shaped
<1>2. Unsent.state = "none" /\ DOMAIN Unsent = {"decision", "state"}
  BY DEF Unsent
<1> HIDE DEF s
<1>3. \A i \in 1..Len(r.results) : Answers(s, i, r.results[i])
  BY <1>1 DEF Answers, Scripted
<1>4. Scripted(s)
  BY <1>1, <1>2, <1>3 DEF Scripted, Waiting
<1>5. Backed(s)
  BY <1>1, <1>2 DEF Backed, Waiting
<1> QED
  BY <1>1, <1>4, <1>5 DEF Accounted, s

\* The process begins.
LEMMA Opened ==
  ASSUME NEW r, Accounted(r), r.pc = "ready", NEW p \in Processes,
         NEW command \in Commands[p], NEW named, NEW x, NEW y
  PROVE  Accounted([r EXCEPT !.pc = "run", !.command = command, !.session = x,
                             !.todo = Script(command, named), !.before = y])
<1> DEFINE t == Script(command, named)
           n == Len(t)
           s == [r EXCEPT !.pc = "run", !.command = command, !.session = x,
                          !.todo = t, !.before = y]
<1>0. r = NewProcess
  BY DEF Accounted
<1>1. /\ command \in CommandNames /\ IsSeq(t)
      /\ IF command = "publisher" THEN n = PublishCount + 3 ELSE n \in {2, 3}
      /\ \A i \in 1..n : t[i] = Left(command, n - i + 1)
  BY ScriptLeft
<1> HIDE DEF t
<1>2. /\ s.pc = "run" /\ s.command = command /\ s.session = x /\ s.todo = t
      /\ s.made = <<>> /\ s.results = <<>> /\ s.reply = Unsent
  BY <1>0 DEF NewProcess
<1> HIDE DEF s
<1>3. Behind(command, n) = 0
  BY <1>1, OperatorAssumption DEF Behind
<1>4. Len(<<>>) = 0 /\ IsSeq(<<>>) /\ DOMAIN Unsent = {"decision", "state"}
  BY EmptyIsSeq DEF Unsent
<1>5. Scripted(s)
  BY <1>1, <1>2, <1>3, <1>4 DEF Scripted, Waiting
<1>6. Backed(s)
  BY <1>2, <1>4 DEF Backed, Waiting
<1> QED
  BY <1>2, <1>5, <1>6 DEF Accounted, s, t

\* The processes that a step leaves alone while the coordinator keeps running.
LEMMA OthersUnmoved ==
  ASSUME AuditInv, AttemptInv, ExitInv, Keeps, serving => serving', NEW q \in Processes, NEW r,
         r = proc[q]
  PROVE  Accounted(r)'
<1>1. Local(r) /\ Accounted(r)
  BY DEF AttemptInv, ExitInv
<1>2. Waiting(r, "held") \/ Waiting(r, "unread") => serving
  BY <1>1 DEF Accounted, Backed, Waiting
<1> QED
  BY <1>1, <1>2, Unmoved

LEMMA OneAccounted ==
  ASSUME AuditInv, AttemptInv, ExitInv, Keeps, serving => serving', NEW p \in Processes, NEW s,
         proc' = [proc EXCEPT ![p] = s], Accounted(s)'
  PROVE  ExitInv'
<1>1. DOMAIN proc = Processes
  BY DEF AttemptInv
<1>2. ASSUME NEW q \in Processes PROVE Accounted(proc[q])'
  <2>1. CASE q = p
    <3>1. proc'[q] = s
      BY <1>1, <2>1
    <3> QED
      BY <3>1
  <2>2. CASE q # p
    <3>1. proc'[q] = proc[q]
      BY <1>1, <2>2
    <3>2. \A r : r = proc[q] => Accounted(r)'
      BY OthersUnmoved
    <3> QED
      BY <3>1, <3>2
  <2> QED
    BY <2>1, <2>2
<1> QED
  BY <1>2 DEF ExitInv

\* The same for a step that leaves the coordinator alone.
LEMMA OneMoves ==
  ASSUME AuditInv, AttemptInv, ExitInv, UNCHANGED auditVars, NEW p \in Processes, NEW s,
         proc' = [proc EXCEPT ![p] = s], Accounted(s), Local(s)
  PROVE  ExitInv'
<1>1. Keeps /\ serving' = serving
  BY CrashTells DEF auditVars
<1>2. Waiting(s, "held") \/ Waiting(s, "unread") => serving'
  BY <1>1 DEF Accounted, Backed, Waiting
<1>3. Accounted(s)'
  BY <1>1, <1>2, Unmoved
<1> QED
  BY <1>1, <1>3, OneAccounted

\* A process that has ended owes nothing.
LEMMA EndedAccounted ==
  ASSUME NEW r, NEW code
  PROVE  Accounted(Exit(r, code)) /\ Exit(r, code).pc = "done" /\ Exit(r, code).exit = code
<1>1. Exit(r, code).pc = "done" /\ Exit(r, code).exit = code
  BY DEF Exit, NewProcess
<1> QED
  BY <1>1 DEF Accounted

\* A request is decided on.
LEMMA AnswerAccounted ==
  ASSUME AuditInv, AttemptInv, ExitInv, NEW p \in Processes, NEW n, NEW verdict,
         NEW state \in {"held", "unread", "sent"}, Answer(p, n, verdict, state), Issued(n),
         Connected(p), proc[p].pc = "run", Head(proc[p].todo) # "query",
         state # "unread" => verdict \in Judgements /\ Head(proc[p].todo) # "assess",
         state = "unread" =>
           Head(proc[p].todo) = "assess" /\ assessment'.id = <<sequence + n, boot>>,
         state # "sent" => Committed(n),
         state = "sent" => Head(proc[p].todo) = "publish"
  PROVE  ExitInv'
<1> DEFINE d == Answered(Decided(n, "any"), verdict)
           x == [decision |-> d, state |-> state]
<1>1. proc' = [proc EXCEPT ![p] = Waits(proc[p], d, x)]
  BY DEF Answer, Waits
<1>2. d.id = <<sequence + n, boot>> /\ d.verdict = verdict
  BY DEF Answered, Decided, DecisionId
<1>3. Keeps /\ serving' /\ boot' = boot /\ proc[p].session = boot
  BY DEF Issued, Connected
<1>4. /\ Local(proc[p]) /\ Scripted(proc[p]) /\ Backed(proc[p])
  BY DEF AttemptInv, ExitInv, Accounted
<1>5. PICK e : e = d
  OBVIOUS
<1>6. /\ e.id = <<sequence + n, boot>> /\ e.id \in Ids /\ e.id[2] = boot /\ e.verdict = verdict
      /\ proc' = [proc EXCEPT ![p] = Waits(proc[p], e, [decision |-> e, state |-> state])]
  BY <1>1, <1>2, <1>5, SMTT(30) DEF Issued
<1> HIDE DEF d, x
<1>7. Given(e.id)' /\ (state # "sent" => OnRecord(e.id)')
  BY <1>6 DEF Issued, Committed
<1>8. \A r : r = proc[p] => Accounted(Waits(r, e, [decision |-> e, state |-> state]))'
  <2> SUFFICES ASSUME NEW r, r = proc[p]
               PROVE  Accounted(Waits(r, e, [decision |-> e, state |-> state]))'
    OBVIOUS
  <2>1. /\ Local(r) /\ Scripted(r) /\ Backed(r) /\ r.pc = "run" /\ r.session = boot
        /\ Head(r.todo) = Head(proc[p].todo)
    BY <1>3, <1>4
  <2> QED
    BY <1>3, <1>6, <1>7, <2>1, Waited
<1> QED
  <2>1. PICK r : r = proc[p]
    OBVIOUS
  <2>2. PICK s : s = Waits(r, e, [decision |-> e, state |-> state])
    OBVIOUS
  <2>3. proc' = [proc EXCEPT ![p] = s] /\ Accounted(s)'
    BY <1>6, <1>8, <2>1, <2>2
  <2> QED
    BY <1>3, <2>3, OneAccounted

\* An answer is received: the process goes on, or ends with what it has.
LEMMA ProceedIs ==
  ASSUME AttemptInv, ExitInv, NEW p \in Processes, Read(p) \/ Receive(p)
  PROVE  \E y, d :
           LET r == Resumes(proc[p], y)
               over == Over(r, Head(proc[p].todo), d)
           IN  /\ HasAnswer(proc[p], y) /\ (proc[p].pc = "waiting" => d = proc[p].reply.decision)
               /\ proc[p].pc = "run" => d = NoAnswer
               /\ Local(proc[p]) /\ Scripted(proc[p]) /\ Backed(proc[p])
               /\ r.results = y /\ r.todo = Tail(proc[p].todo) /\ r.command = proc[p].command
               /\ proc' = [proc EXCEPT ![p] =
                             IF over THEN Exit(r, IF AllAccepted(y) THEN "0" ELSE "1") ELSE r]
<1> DEFINE request == Head(proc[p].todo)
           Y(d) == IF request = "query" THEN proc[p].results ELSE Append(proc[p].results, d)
           R(d) == Resumes(proc[p], Y(d))
<1>1. proc[p].pc \in {"run", "waiting"}
  BY DEF Read, Receive, Doing
<1>2. Local(proc[p]) /\ Scripted(proc[p]) /\ Backed(proc[p]) /\ Shaped(proc[p])
  BY <1>1 DEF AttemptInv, ExitInv, Accounted, Local
<1>3. ASSUME NEW d, Proceed(p, d)
      PROVE  /\ R(d).results = Y(d) /\ R(d).todo = Tail(proc[p].todo)
             /\ R(d).command = proc[p].command
             /\ proc' = [proc EXCEPT ![p] =
                           IF Over(R(d), request, d)
                           THEN Exit(R(d), IF AllAccepted(Y(d)) THEN "0" ELSE "1") ELSE R(d)]
  <2>1. /\ R(d).results = Y(d) /\ R(d).todo = Tail(proc[p].todo)
        /\ R(d).command = proc[p].command
    BY <1>2 DEF Shaped, Resumes
  <2>2. R(d) = [proc[p] EXCEPT !.pc = "run", !.todo = Tail(@), !.reply = Unsent,
                               !.results = IF request = "query" THEN @ ELSE Append(@, d)]
    BY <1>2 DEF Shaped, Resumes
  <2>3. proc' = [proc EXCEPT ![p] =
                  IF Over(R(d), request, d)
                  THEN Exit(R(d), IF AllAccepted(R(d).results) THEN "0" ELSE "1") ELSE R(d)]
    BY <1>3, <2>2, Zenon DEF Proceed
  <2> QED
    BY <2>1, <2>3
<1>4. CASE Read(p)
  <2>1. Proceed(p, NoAnswer) /\ proc[p].pc = "run" /\ request = "query"
    BY <1>4 DEF Read, Doing
  <2>2. HasAnswer(proc[p], Y(NoAnswer))
    BY <2>1 DEF HasAnswer
  <2> HIDE DEF Y, R, request
  <2> QED
    BY <1>2, <1>3, <2>1, <2>2 DEF R, request
<1>5. CASE Receive(p)
  <2> DEFINE d == proc[p].reply.decision
  <2>1. Proceed(p, d) /\ Waiting(proc[p], "sent")
    BY <1>5 DEF Receive, Waiting
  <2>2. request # "query"
    <3>1. Head(proc[p].todo) = Left(proc[p].command, Len(proc[p].todo))
      BY <1>1, <1>2, AtWork
    <3> QED
      BY <1>2, <2>1, <3>1 DEF Scripted, Waiting
  <2>3. HasAnswer(proc[p], Y(d)) /\ proc[p].pc = "waiting"
    BY <2>1, <2>2 DEF HasAnswer, Waiting
  <2> HIDE DEF Y, R, request
  <2> QED
    BY <1>2, <1>3, <2>1, <2>3 DEF R, request
<1> QED
  BY <1>4, <1>5

LEMMA ProceedAccounted ==
  ASSUME AuditInv, AttemptInv, ExitInv, NEW p \in Processes, Read(p) \/ Receive(p), ProcessesGo
  PROVE  ExitInv'
<1>1. UNCHANGED auditVars /\ DOMAIN proc = Processes
  BY DEF Read, Receive, AttemptInv
<1>2. PICK s : /\ proc' = [proc EXCEPT ![p] = s]
               /\ \/ \E r, code : s = Exit(r, code)
                  \/ \E y : s = Resumes(proc[p], y) /\ HasAnswer(proc[p], y)
               /\ Local(proc[p]) /\ Scripted(proc[p]) /\ Backed(proc[p])
  BY ProceedIs
<1>3. Accounted(s)
  <2>1. CASE \E r, code : s = Exit(r, code)
    BY <2>1, EndedAccounted
  <2>2. ASSUME NEW y, s = Resumes(proc[p], y), HasAnswer(proc[p], y) PROVE Accounted(s)
    BY <1>2, <2>2, Resumed
  <2> QED
    BY <1>2, <2>1, <2>2
<1>4. Local(s)
  <2>1. proc'[p] = s
    BY <1>1, <1>2
  <2> QED
    BY <2>1 DEF ProcessesGo
<1> QED
  BY <1>1, <1>2, <1>3, <1>4, OneMoves

\* Every step keeps the accounts of every process.
LEMMA StepsAccounted ==
  ASSUME AuditInv, AttemptInv, ExitInv, [Next]_vars
  PROVE  ExitInv'
<1>1. /\ DOMAIN proc = Processes
      /\ \A q \in Processes : Local(proc[q]) /\ Accounted(proc[q])
  BY DEF AttemptInv, ExitInv
<1>2. ProcessesGo
  BY StepsGo
<1>3. ASSUME NEW p \in Processes, NEW s, proc' = [proc EXCEPT ![p] = s] PROVE Local(s)
  <2>1. proc'[p] = s
    BY <1>1, <1>3
  <2> QED
    BY <1>2, <2>1 DEF ProcessesGo
<1>4. ASSUME NEW p \in Processes, Usage(p) \/ Unreachable(p) \/ Fail(p) \/ Reaped(p)
      PROVE  ExitInv'
  <2>1. PICK s : proc' = [proc EXCEPT ![p] = s] /\ \E code : s = Exit(proc[p], code)
    BY <1>4 DEF Usage, Unreachable, Fail, Reaped
  <2>2. UNCHANGED auditVars
    BY <1>4 DEF Usage, Unreachable, Fail, Reaped
  <2>3. Accounted(s) /\ Local(s)
    BY <1>3, <2>1, EndedAccounted
  <2> QED
    BY <2>1, <2>2, <2>3, OneMoves
<1>5. ASSUME NEW p \in Processes, NEW command \in Commands[p], NEW named \in NamedEpochs,
             Connect(p, command, named)
      PROVE  ExitInv'
  <2> DEFINE o == [proc[p] EXCEPT !.pc = "run", !.command = command, !.session = boot,
                                  !.todo = Script(command, named), !.before = Ended]
  <2>1. PICK s : proc' = [proc EXCEPT ![p] = s] /\ (s = o \/ s = Exit(proc[p], "2"))
    BY <1>5 DEF Connect
  <2>2. UNCHANGED auditVars /\ proc[p].pc = "ready"
    BY <1>5 DEF Connect
  <2>3. Accounted(o)
    BY <1>1, <2>2, Opened
  <2> HIDE DEF o
  <2>4. Accounted(s) /\ Local(s)
    BY <1>3, <2>1, <2>3, EndedAccounted
  <2> QED
    BY <2>1, <2>2, <2>4, OneMoves
<1>6. ASSUME NEW p \in Processes, Stamp(p)
      PROVE  ExitInv'
  <2>1. PICK s : proc' = [proc EXCEPT ![p] = s] /\ s = [proc[p] EXCEPT !.attempt = MakeAttempt]
    BY <1>6 DEF Stamp
  <2>2. UNCHANGED auditVars /\ proc[p].pc = "run" /\ Shaped(proc[p])
    BY <1>1, <1>6 DEF Stamp, Doing, Local
  <2>3. /\ s.pc = "run" /\ s.command = proc[p].command /\ s.session = proc[p].session
        /\ s.todo = proc[p].todo /\ s.made = proc[p].made /\ s.results = proc[p].results
        /\ s.reply = proc[p].reply
    BY <2>1, <2>2 DEF Shaped
  <2>4. Scripted(proc[p]) /\ Backed(proc[p])
    BY <1>1, <2>2 DEF Accounted
  <2>5. \A i, d : Answers(proc[p], i, d) <=> Answers(s, i, d)
    BY <2>3 DEF Answers
  <2>6. Scripted(s)
    BY <2>2, <2>3, <2>4, <2>5 DEF Scripted, Waiting
  <2>7. Backed(s)
    BY <2>2, <2>3, <2>4 DEF Backed, Waiting
  <2>8. Accounted(s) /\ Local(s)
    BY <1>3, <2>1, <2>3, <2>6, <2>7 DEF Accounted
  <2> QED
    BY <2>1, <2>2, <2>8, OneMoves
<1>7. ASSUME NEW p \in Processes, Read(p) \/ Receive(p)
      PROVE  ExitInv'
  BY <1>2, <1>7, ProceedAccounted
<1>8. ASSUME NEW p \in Processes, ReadBack(p)
      PROVE  ExitInv'
  <2>1. PICK verdict \in {"granted", "refused"} :
          proc' = [proc EXCEPT ![p].reply = [decision |-> Answered(assessment, verdict),
                                             state |-> "sent"]]
    BY <1>8 DEF ReadBack
  <2> DEFINE o == [proc[p] EXCEPT !.reply = [decision |-> Answered(assessment, verdict),
                                             state |-> "sent"]]
  <2>2. UNCHANGED auditVars /\ Waiting(proc[p], "unread") /\ Free
    BY <1>8 DEF ReadBack, Waiting
  <2>3. Scripted(proc[p]) /\ Backed(proc[p]) /\ Local(proc[p])
    BY <1>1, <2>2 DEF Accounted, Waiting
  <2>4. Accounted(o)
    BY <2>2, <2>3, Reread
  <2>5. proc' = [proc EXCEPT ![p] = o]
    BY <2>1
  <2> HIDE DEF o
  <2>6. Local(o)
    BY <1>3, <2>5
  <2> QED
    BY <2>2, <2>4, <2>5, <2>6, OneMoves
<1>9. ASSUME NEW p \in Processes, AskTopology(p) \/ AskGoverned(p)
      PROVE  ExitInv'
  <2>1. PICK n \in {1, 2}, verdict \in Judgements : Committed(n) /\ Answer(p, n, verdict, "held")
    BY <1>9, TopologyIssued, GovernedIssued
  <2>2. /\ Connected(p) /\ proc[p].pc = "run" /\ Head(proc[p].todo) \in {"topology", "govern"}
    BY <1>9 DEF AskTopology, AskGoverned, Doing
  <2> QED
    BY <2>1, <2>2, AnswerAccounted DEF Committed
<1>10. ASSUME NEW p \in Processes, AskPublish(p)
       PROVE  ExitInv'
  <2>1. PICK verdict \in Judgements : Issued(1) /\ Answer(p, 1, verdict, "sent")
    BY <1>10, PublicationIssued
  <2>2. Connected(p) /\ proc[p].pc = "run" /\ Head(proc[p].todo) = "publish"
    BY <1>10 DEF AskPublish, Doing
  <2> QED
    BY <2>1, <2>2, AnswerAccounted
<1>11. ASSUME NEW p \in Processes, AskAssess(p)
       PROVE  ExitInv'
  <2>1. /\ Committed(1) /\ Answer(p, 1, "assessed", "unread")
        /\ assessment'.id = <<sequence + 1, boot>>
    BY <1>11, AssessmentIssued
  <2>2. Connected(p) /\ proc[p].pc = "run" /\ Head(proc[p].todo) = "assess"
    BY <1>11 DEF AskAssess, Doing
  <2> QED
    BY <2>1, <2>2, AnswerAccounted DEF Committed
<1>12. CASE StartCoordinator \/ StopCoordinator \/ UNCHANGED vars
  <2>1. proc' = proc /\ (Start \/ Crash \/ UNCHANGED auditVars)
    BY <1>12 DEF StartCoordinator, StopCoordinator, vars
  <2>2. Keeps
    BY <2>1, StartTells, CrashTells
  <2>3. ASSUME NEW q \in Processes, NEW r, r = proc[q] PROVE Accounted(r)'
    <3>1. Local(r) /\ Accounted(r)
      BY <1>1, <2>3
    <3>2. Waiting(r, "held") \/ Waiting(r, "unread") => serving
      BY <3>1 DEF Accounted, Backed, Waiting
    <3>3. Waiting(r, "held") \/ Waiting(r, "unread") => serving'
      <4>1. CASE StopCoordinator
        BY <2>3, <4>1 DEF StopCoordinator, Waiting
      <4>2. CASE StartCoordinator
        BY <3>2, <4>2 DEF StartCoordinator, Start
      <4>3. CASE UNCHANGED vars
        <5>1. serving' = serving
          BY <4>3 DEF vars, auditVars
        <5> QED
          BY <3>2, <5>1
      <4> QED
        BY <1>12, <4>1, <4>2, <4>3
    <3> QED
      BY <2>2, <3>1, <3>3, Unmoved
  <2> QED
    BY <2>1, <2>3 DEF ExitInv
<1>13. CASE Commit
  <2>1. Flush /\ serving /\ serving' = serving
    BY <1>13 DEF Commit, Flush
  <2>2. Keeps /\ (wal' = <<>> => \A name : OnRecord(name) => OnDisk(name)')
    BY <2>1, FlushTells
  <2>3. ASSUME NEW q \in Processes PROVE Accounted(proc[q])'
    <3>1. PICK r : r = proc[q]
      OBVIOUS
    <3>2. Accounted(r)' /\ Local(r) /\ Accounted(r)
      BY <1>1, <2>1, <2>2, <3>1, OthersUnmoved
    <3>3. CASE wal' = <<>> /\ r.reply.state = "held"
      <4>1. proc'[q] = [r EXCEPT !.reply.state = "sent"]
        BY <1>13, <3>1, <3>3 DEF Commit
      <4>2. CASE r.pc = "waiting"
        <5>1. /\ Scripted(r) /\ Backed(r)' /\ Waiting(r, "held") /\ OnRecord(LastMade(r))
          BY <3>2, <3>3, <4>2 DEF Accounted, Waiting, Backed
        <5>2. OnDisk(LastMade(r))'
          BY <2>2, <3>3, <5>1
        <5> QED
          BY <3>2, <4>1, <5>1, <5>2, Delivered
      <4>3. CASE r.pc \in {"done", "abandoned"}
        <5>1. proc'[q].pc \in {"done", "abandoned"}
          BY <3>2, <4>1, <4>3 DEF Local, Shaped
        <5> QED
          BY <5>1 DEF Accounted
      <4>4. r.pc \notin {"ready", "run"}
        BY <3>2, <3>3 DEF Accounted, Scripted, NewProcess, Unsent
      <4> QED
        BY <3>2, <4>2, <4>3, <4>4 DEF Local
    <3>4. CASE ~(wal' = <<>> /\ r.reply.state = "held")
      <4>1. proc'[q] = r
        BY <1>13, <3>1, <3>4 DEF Commit
      <4> QED
        BY <3>2, <4>1
    <3> QED
      BY <3>3, <3>4
  <2> QED
    BY <2>3 DEF ExitInv
<1>14. CASE CrashCoordinator
  <2>1. Keeps /\ serving' = FALSE
    BY <1>14, CrashTells DEF CrashCoordinator, Crash
  <2>2. ASSUME NEW q \in Processes PROVE Accounted(proc[q])'
    <3>1. PICK r : r = proc[q]
      OBVIOUS
    <3>2. Local(r) /\ Accounted(r)
      BY <1>1, <3>1
    <3>3. CASE r.reply.state \in {"held", "unread"}
      <4> DEFINE s == [r EXCEPT !.reply = Unsent]
      <4>1. proc'[q] = s
        BY <1>14, <3>1, <3>3 DEF CrashCoordinator
      <4>2. CASE r.pc = "waiting"
        <5>1. Accounted(s)
          BY <3>2, <4>2, Lost DEF Accounted
        <5>2. Local(s)
          BY <1>2, <4>1 DEF ProcessesGo
        <5>3. s.reply = Unsent /\ Unsent.state = "none"
          BY <3>2 DEF Local, Shaped, Unsent
        <5> HIDE DEF s
        <5>4. Accounted(s)'
          BY <2>1, <5>1, <5>2, <5>3, Unmoved DEF Waiting
        <5> QED
          BY <4>1, <5>4
      <4>3. CASE r.pc \in {"done", "abandoned"}
        <5>1. proc'[q].pc \in {"done", "abandoned"}
          BY <3>2, <4>1, <4>3 DEF Local, Shaped
        <5> QED
          BY <5>1 DEF Accounted
      <4>4. r.pc \notin {"ready", "run"}
        BY <3>2, <3>3 DEF Accounted, Scripted, NewProcess, Unsent
      <4> QED
        BY <3>2, <4>2, <4>3, <4>4 DEF Local
    <3>4. CASE ~(r.reply.state \in {"held", "unread"})
      <4>1. proc'[q] = r
        BY <1>14, <3>1, <3>4 DEF CrashCoordinator
      <4>2. Accounted(r)'
        BY <2>1, <3>2, <3>4, Unmoved DEF Waiting
      <4> QED
        BY <4>1, <4>2
    <3> QED
      BY <3>3, <3>4
  <2> QED
    BY <2>2 DEF ExitInv
<1>15. CASE Reboot
  <2>1. ASSUME NEW q \in Processes PROVE Accounted(proc[q])'
    <3>1. \/ proc'[q] = proc[q] /\ proc[q].pc \in {"ready", "done"}
          \/ proc'[q] = Exit(proc[q], "killed")
      BY <1>15 DEF Reboot
    <3>2. CASE proc'[q] = Exit(proc[q], "killed")
      <4>1. proc'[q].pc = "done"
        BY <3>2, EndedAccounted
      <4> QED
        BY <4>1 DEF Accounted
    <3>3. CASE proc'[q] = proc[q] /\ proc[q].pc \in {"ready", "done"}
      BY <1>1, <3>3 DEF Accounted
    <3> QED
      BY <3>1, <3>2, <3>3
  <2> QED
    BY <2>1 DEF ExitInv
<1>16. ASSUME NEW p \in Processes, Abandon(p)
       PROVE  ExitInv'
  <2>1. PICK s : proc' = [proc EXCEPT ![p] = s] /\ s = Stranded(proc[p])
    BY <1>16 DEF Abandon, Stranded
  <2>2. UNCHANGED auditVars /\ proc[p].pc # "done"
    BY <1>16 DEF Abandon, Oversize
  <2>3. s.pc = "abandoned" /\ Local(s)
    BY <1>1, <1>3, <2>1, <2>2, Strands
  <2>4. Accounted(s)
    BY <2>3 DEF Accounted
  <2> QED
    BY <2>1, <2>2, <2>3, <2>4, OneMoves
<1> QED
  BY <1>4, <1>5, <1>6, <1>7, <1>8, <1>9, <1>10, <1>11, <1>12, <1>13, <1>14, <1>15, <1>16
  DEF Next, ProcessStep

LEMMA ExitInit == Init => ExitInv
<1> SUFFICES ASSUME Init, NEW p \in Processes PROVE Accounted(proc[p])
  BY DEF ExitInv
<1>1. proc[p] = NewProcess /\ NewProcess.pc = "ready"
  BY DEF Init, NewProcess
<1> QED
  BY <1>1 DEF Accounted

LEMMA ExitInductive == Spec => [](AuditInv /\ AttemptInv /\ ExitInv)
<1>1. ASSUME AuditInv, AttemptInv, ExitInv, [Next]_vars PROVE ExitInv'
  BY <1>1, StepsAccounted
<1> QED
  BY <1>1, ExitInit, AuditInductive, AttemptInductive, PTL DEF Spec

\* A process that ends with 0 or 1 has had an answer to its last exchange.
LEMMA OnlyAnswersDecide ==
  ASSUME AttemptInv, [Next]_vars, NEW p \in Processes, Exits(p, "0") \/ Exits(p, "1")
  PROVE  Read(p) \/ Receive(p)
<1>1. DOMAIN proc = Processes
  BY DEF AttemptInv
<1>2. /\ proc[p].pc # "done" /\ proc'[p].pc = "done" /\ proc'[p].exit \notin {"2", "killed"}
  BY DEF Exits
<1>3. ASSUME NEW q \in Processes, q # p, NEW s, proc' = [proc EXCEPT ![q] = s] PROVE FALSE
  BY <1>1, <1>2, <1>3
<1>4. ASSUME NEW s, proc' = [proc EXCEPT ![p] = s]
      PROVE  s.pc = "done" /\ s.exit \notin {"2", "killed"}
  BY <1>1, <1>2, <1>4
<1>5. \A r, code : Exit(r, code).exit = code
  BY DEF Exit, NewProcess
<1>6. proc' # proc
  BY <1>2
<1>7. ASSUME NEW q \in Processes,
             Usage(q) \/ Unreachable(q) \/ Fail(q) \/ Reaped(q)
      PROVE  FALSE
  <2>1. proc' = [proc EXCEPT ![q] = Exit(proc[q], "2")]
    BY <1>7 DEF Usage, Unreachable, Fail, Reaped
  <2> QED
    BY <1>3, <1>4, <1>5, <2>1
<1>8. Local(proc[p]) /\ Shaped(proc[p])
  BY DEF AttemptInv, Local
<1>9. ASSUME NEW q \in Processes, NEW command, NEW named, Connect(q, command, named)
      PROVE  FALSE
  <2> DEFINE o == [proc[q] EXCEPT !.pc = "run", !.command = command, !.session = boot,
                                  !.todo = Script(command, named), !.before = Ended]
  <2>1. PICK s : proc' = [proc EXCEPT ![q] = s] /\ (s = o \/ s = Exit(proc[q], "2"))
    BY <1>9 DEF Connect
  <2>2. q = p
    BY <1>3, <2>1
  <2>3. o.pc = "run"
    BY <1>8, <2>2 DEF Shaped
  <2> HIDE DEF o
  <2>4. proc' = [proc EXCEPT ![p] = s]
    BY <2>1, <2>2
  <2>5. s.pc = "done" /\ s.exit # "2"
    BY <1>4, <2>4
  <2> QED
    BY <1>5, <2>1, <2>3, <2>5
<1>10. ASSUME NEW q \in Processes,
              Stamp(q) \/ ReadBack(q) \/ \E n, verdict, state : Answer(q, n, verdict, state)
       PROVE  FALSE
  <2>1. PICK s : /\ proc' = [proc EXCEPT ![q] = s]
                 /\ \/ \E x : s = [proc[q] EXCEPT !.attempt = x]
                    \/ \E x : s = [proc[q] EXCEPT !.reply = x]
                    \/ \E d, x : s = Waits(proc[q], d, x)
    <3>1. CASE Stamp(q)
      BY <3>1 DEF Stamp
    <3>2. CASE ReadBack(q)
      BY <3>2 DEF ReadBack
    <3>3. ASSUME NEW n, NEW verdict, NEW state, Answer(q, n, verdict, state)
          PROVE  \E d, x : proc' = [proc EXCEPT ![q] = Waits(proc[q], d, x)]
      <4> DEFINE d == Answered(Decided(n, "any"), verdict)
                 x == [decision |-> d, state |-> state]
      <4>1. proc' = [proc EXCEPT ![q] = Waits(proc[q], d, x)]
        BY <3>3 DEF Answer, Waits
      <4> HIDE DEF d, x
      <4> QED
        BY <4>1
    <3> QED
      BY <1>10, <3>1, <3>2, <3>3
  <2>2. q = p
    BY <1>3, <2>1
  <2>3. s.pc \in {proc[p].pc, "waiting"}
    BY <1>8, <2>1, <2>2 DEF Shaped, Waits
  <2> QED
    BY <1>2, <1>4, <2>1, <2>2, <2>3
<1>11. ASSUME NEW q \in Processes,
              AskTopology(q) \/ AskPublish(q) \/ AskAssess(q) \/ AskGoverned(q)
       PROVE  FALSE
  <2>1. \E n, verdict, state : Answer(q, n, verdict, state)
    BY <1>11 DEF AskTopology, AskPublish, AskAssess, AskGoverned
  <2> QED
    BY <1>10, <2>1
<1>12. ASSUME NEW q \in Processes, q # p, Read(q) \/ Receive(q) PROVE FALSE
  <2>1. PICK s : proc' = [proc EXCEPT ![q] = s]
    BY <1>12 DEF Read, Receive, Proceed
  <2> QED
    BY <1>3, <1>12, <2>1
<1>13. ~(StartCoordinator \/ StopCoordinator \/ UNCHANGED vars)
  BY <1>6 DEF StartCoordinator, StopCoordinator, vars
<1>14. ~(Commit \/ CrashCoordinator)
  <2>1. SUFFICES ASSUME Commit \/ CrashCoordinator PROVE proc'[p].pc = proc[p].pc
    BY <1>2
  <2>2. PICK s : proc'[p] = s /\ (s = proc[p] \/ \E x : s = [proc[p] EXCEPT !.reply = x])
    BY <2>1 DEF Commit, CrashCoordinator
  <2> QED
    BY <1>8, <2>2 DEF Shaped
<1>15. ~Reboot
  <2>1. SUFFICES ASSUME Reboot PROVE FALSE
    OBVIOUS
  <2>2. proc'[p] = proc[p] \/ proc'[p] = Exit(proc[p], "killed")
    BY <2>1 DEF Reboot
  <2> QED
    BY <1>2, <1>5, <2>2
<1>16. ASSUME NEW q \in Processes, Abandon(q) PROVE FALSE
  <2>1. proc' = [proc EXCEPT ![q] = Stranded(proc[q])]
    BY <1>16 DEF Abandon, Stranded
  <2>2. Stranded(proc[q]).pc = "abandoned"
    BY DEF Stranded, NewProcess
  <2> QED
    BY <1>3, <1>4, <2>1, <2>2
<1> QED
  BY <1>7, <1>9, <1>10, <1>11, <1>12, <1>13, <1>14, <1>15, <1>16 DEF Next, ProcessStep

\* The requests of a command, as many as its script has.
LEMMA RequestsAre ==
  ASSUME NEW command \in CommandNames
  PROVE  LET requests == Requests(command) IN
         /\ Len(requests) = Behind(command, 0) /\ Len(requests) \in Nat
         /\ \A i \in 1..Len(requests) : requests[i] = Wanted(command, i)
<1> DEFINE requests == Requests(command)
<1>0. PublishCount \in Nat \ {0}
  BY OperatorAssumption
<1>1. CASE command = "status"
  <2>1. requests = <<>> /\ Len(<<>>) = 0
    BY <1>1 DEF Requests
  <2> HIDE DEF requests
  <2>2. Len(requests) = 0 /\ Behind(command, 0) = 0
    BY <1>1, <2>1 DEF Behind
  <2> QED
    BY <2>2 DEF requests
<1>2. CASE command \notin {"status", "publisher"}
  <2>1. requests = <<command>>
    BY <1>2 DEF Requests
  <2> HIDE DEF requests
  <2>2. Len(requests) = 1 /\ requests[1] = command
    BY <2>1
  <2>3. Behind(command, 0) = 1 /\ Wanted(command, 1) = command
    BY <1>2 DEF Behind, Wanted
  <2> QED
    BY <2>2, <2>3 DEF requests
<1>3. CASE command = "publisher"
  <2> DEFINE f == [i \in 1..PublishCount |-> "publish"]
             t == <<"topology">>
  <2>1. requests = t \o f
    BY <1>3 DEF Requests
  <2>2. IsSeq(t) /\ Len(t) = 1 /\ t[1] = "topology"
    BY SingleIsSeq
  <2>3. IsSeq(f) /\ Len(f) = PublishCount /\ \A i \in 1..PublishCount : f[i] = "publish"
    <3>1. f \in Seq({"publish"}) /\ Len(f) = PublishCount
      BY <1>0
    <3> QED
      BY <3>1, SeqIsSeq
  <2> HIDE DEF f, t, requests
  <2>4. /\ Len(requests) = Len(t) + Len(f)
        /\ \A i \in 1..Len(t) : requests[i] = t[i]
        /\ \A i \in 1..Len(f) : requests[Len(t) + i] = f[i]
    <3>1. IsSeq(t) /\ IsSeq(f)
      BY <2>2, <2>3
    <3> QED
      BY <2>1, <3>1, ConcatElements
  <2>5. Len(requests) = PublishCount + 1 /\ Behind(command, 0) = PublishCount + 1
    BY <1>0, <1>3, <2>2, <2>3, <2>4 DEF Behind
  <2>6. ASSUME NEW i \in 1..Len(requests) PROVE requests[i] = Wanted(command, i)
    <3>1. CASE i = 1
      BY <1>3, <2>2, <2>4, <3>1 DEF Wanted
    <3>2. CASE i # 1
      <4>1. i - 1 \in 1..PublishCount /\ 1 + (i - 1) = i
        BY <1>0, <2>5, <3>2
      <4>2. requests[i] = "publish"
        BY <2>2, <2>3, <2>4, <4>1
      <4> QED
        BY <1>3, <3>2, <4>2 DEF Wanted
    <3> QED
      BY <3>1, <3>2
  <2> QED
    BY <1>0, <2>5, <2>6 DEF requests
<1> QED
  BY <1>1, <1>2, <1>3

\* What a process has received is its results and the last answer.
LEMMA ReceivedAre ==
  ASSUME NEW r, Local(r), Scripted(r), NEW y, HasAnswer(r, y), IsSeq(y)
  PROVE  LET received == {r.results[i] : i \in DOMAIN r.results} \cup {r.reply.decision} IN
         /\ \A k \in 1..Len(y) : y[k] \in received
         /\ \A d \in received \ {NoAnswer} : \E k \in 1..Len(y) : d = y[k]
<1> DEFINE received == {r.results[i] : i \in DOMAIN r.results} \cup {r.reply.decision}
<1>0. IsSeq(r.results) /\ DOMAIN r.results = 1..Len(r.results) /\ Len(r.results) \in Nat
  BY SeqElim DEF Scripted
<1>1. CASE r.pc = "run" /\ y = r.results
  <2>1. r.reply.decision = NoAnswer
    BY <1>1 DEF Scripted, Unsent
  <2> QED
    BY <1>0, <1>1, <2>1
<1>2. CASE y = Append(r.results, r.reply.decision)
  <2>1. /\ Len(y) = Len(r.results) + 1 /\ y[Len(y)] = r.reply.decision
        /\ \A i \in 1..Len(r.results) : y[i] = r.results[i]
    BY <1>0, <1>2, AppendElements, AppendPrefix
  <2>2. ASSUME NEW k \in 1..Len(y) PROVE y[k] \in received
    <3>1. k \in 1..Len(r.results) \/ k = Len(y)
      BY <1>0, <2>1
    <3> QED
      BY <1>0, <2>1, <3>1
  <2>3. ASSUME NEW d \in received PROVE \E k \in 1..Len(y) : d = y[k]
    <3>1. CASE d = r.reply.decision
      <4>1. Len(y) \in 1..Len(y)
        BY <1>0, <2>1
      <4> QED
        BY <2>1, <3>1, <4>1
    <3>2. ASSUME NEW i \in 1..Len(r.results), d = r.results[i]
          PROVE  \E k \in 1..Len(y) : d = y[k]
      <4>1. i \in 1..Len(y)
        BY <1>0, <2>1
      <4> QED
        BY <2>1, <3>2, <4>1
    <3> QED
      BY <1>0, <3>1, <3>2
  <2> QED
    BY <2>2, <2>3
<1> QED
  BY <1>1, <1>2 DEF HasAnswer

\* The exit codes of the CLI and of the publisher mean what their header says
\* (cli_main.cpp 15-18), however many processes run, whatever becomes of the
\* coordinator and of the host: with 0 every request of the command was decided
\* once, in the incarnation the process was connected to, and granted, and the
\* decision is on disk unless it is about evidence; with 1 one was refused.
THEOREM ExitsAreTrue == Spec => ExitCodesAreTrue
<1> DEFINE Requested(p) == Requests(proc[p].command)
           Received(p) == {proc[p].results[i] : i \in DOMAIN proc[p].results}
                            \cup {proc[p].reply.decision}
           Zero(p) ==
             /\ Len(proc[p].made) = Len(Requested(p))
             /\ \A i \in DOMAIN proc[p].made :
                  /\ proc[p].made[i].id[2] = proc[p].session
                  /\ Requested(p)[i] # "publish" => Durable(proc[p].made[i])
                  /\ IF Requested(p)[i] # "assess" THEN proc[p].made[i].verdict = "granted"
                     ELSE \A d \in Received(p) \ {NoAnswer} :
                            /\ d.verdict = "granted" /\ d.id[2] = proc[p].session
                            /\ d.id[1] >= proc[p].made[i].id[1]
           One(p) == \E d \in Received(p) : d.verdict \in {"refused", "regressed"}
<1>1. ASSUME AuditInv, AttemptInv, ExitInv, [Next]_vars,
             NEW p \in Processes, NEW code \in {"0", "1"}, Exits(p, code)
      PROVE  (code = "0" => Zero(p)) /\ (code = "1" => One(p))
  <2>1. Read(p) \/ Receive(p)
    BY <1>1, OnlyAnswersDecide
  <2>2. PICK y, d :
          LET r == Resumes(proc[p], y)
              over == Over(r, Head(proc[p].todo), d)
          IN  /\ HasAnswer(proc[p], y) /\ (proc[p].pc = "waiting" => d = proc[p].reply.decision)
              /\ proc[p].pc = "run" => d = NoAnswer
              /\ Local(proc[p]) /\ Scripted(proc[p]) /\ Backed(proc[p])
              /\ r.results = y /\ r.todo = Tail(proc[p].todo) /\ r.command = proc[p].command
              /\ proc' = [proc EXCEPT ![p] =
                            IF over THEN Exit(r, IF AllAccepted(y) THEN "0" ELSE "1") ELSE r]
    BY <1>1, <2>1, ProceedIs
  <2> DEFINE r == proc[p]
             s == Resumes(r, y)
             over == Over(s, Head(r.todo), d)
  <2>3. /\ HasAnswer(r, y) /\ (r.pc = "waiting" => d = r.reply.decision)
        /\ Local(r) /\ Scripted(r) /\ Backed(r)
        /\ s.results = y /\ s.todo = Tail(r.todo) /\ s.command = r.command
        /\ Shaped(r)
    BY <2>2 DEF Local
  <2>4. /\ s.pc = "run" /\ s.made = r.made /\ s.session = r.session
    BY <2>3 DEF Shaped, Resumes
  <2>5. proc'[p] = IF over THEN Exit(s, IF AllAccepted(y) THEN "0" ELSE "1") ELSE s
    BY <1>1, <2>2 DEF AttemptInv
  <2> HIDE DEF s, over
  <2>6. over
    BY <1>1, <2>4, <2>5 DEF Exits
  <2>7. code = IF AllAccepted(y) THEN "0" ELSE "1"
    <3>1. proc'[p].exit = IF AllAccepted(y) THEN "0" ELSE "1"
      BY <2>5, <2>6, EndedAccounted
    <3> QED
      BY <1>1, <3>1 DEF Exits
  <2>8. Accounted(s) /\ IsSeq(y)
    BY <2>3, Resumed DEF s
  <2>9. /\ r.command \in CommandNames /\ Len(y) = Behind(r.command, Len(s.todo))
        /\ Len(r.made) = Len(y) /\ Len(y) \in Nat /\ DOMAIN y = 1..Len(y)
        /\ \A i \in 1..Len(y) : r.made[i].id \in Ids /\ r.made[i].id[2] = r.session
        /\ \A i \in 1..Len(y) : Answers(s, i, y[i])
        /\ \A i \in 1..Len(y) : Wanted(r.command, i) # "publish" => OnDisk(r.made[i].id)
    <3>1. Scripted(s) /\ Backed(s)
      BY <2>4, <2>8 DEF Accounted
    <3>2. Len(y) \in Nat /\ DOMAIN y = 1..Len(y)
      BY <2>8, SeqElim
    <3>3. Len(r.made) = Len(y)
      BY <2>3, <2>4, <3>1 DEF Scripted
    <3> QED
      BY <2>3, <2>4, <3>1, <3>2, <3>3 DEF Scripted, Backed
  <2>10. \A i \in 1..Len(y) : Answers(r, i, y[i])
    BY <2>3, <2>4, <2>9 DEF Answers
  <2>11. /\ \A k \in 1..Len(y) : y[k] \in Received(p)
         /\ \A e \in Received(p) \ {NoAnswer} : \E k \in 1..Len(y) : e = y[k]
    BY <2>3, <2>8, ReceivedAre
  <2>12. CASE code = "1"
    <3>1. PICK k \in 1..Len(y) : y[k].verdict # "granted"
      BY <2>7, <2>9, <2>12 DEF AllAccepted
    <3>2. y[k].verdict \in {"refused", "regressed"}
      BY <2>10, <3>1 DEF Answers, Judgements
    <3> QED
      BY <2>11, <2>12, <3>2
  <2>13. CASE code = "0"
    <3>1. \A k \in 1..Len(y) : y[k].verdict = "granted"
      BY <2>7, <2>9, <2>13 DEF AllAccepted
    <3>2. s.todo = <<>>
      <4>1. SUFFICES ASSUME r.command = "publisher", Head(r.todo) = "topology",
                            d.verdict # "granted"
                     PROVE  FALSE
        BY <2>3, <2>6 DEF Over, over
      <4>2. Waiting(r, "sent") /\ y = Append(r.results, d)
        BY <2>3, <4>1 DEF HasAnswer, Waiting
      <4>3. Len(y) \in 1..Len(y) /\ y[Len(y)] = d
        <5>1. IsSeq(r.results)
          BY <2>3 DEF Scripted
        <5>2. Len(y) = Len(r.results) + 1 /\ Len(r.results) \in Nat /\ y[Len(y)] = d
          BY <4>2, <5>1, AppendElements
        <5> QED
          BY <5>2
      <4> QED
        BY <3>1, <4>1, <4>3
    <3>3. Len(y) = Behind(r.command, 0)
      <4>1. Len(s.todo) = 0
        BY <3>2
      <4> QED
        BY <2>9, <4>1
    <3>4. /\ Len(Requested(p)) = Len(y)
          /\ \A i \in 1..Len(y) : Requested(p)[i] = Wanted(r.command, i)
      BY <2>9, <3>3, RequestsAre
    <3>5. DOMAIN r.made = 1..Len(y)
      BY <2>3, <2>9, SeqElim DEF Local
    <3>6. \A i \in 1..Len(y) : Wanted(r.command, i) = "assess" <=> r.command = "assess"
      BY DEF Wanted
    <3>7. ASSUME NEW i \in 1..Len(y) PROVE OnDisk(r.made[i].id) => Durable(r.made[i])
      <4>1. \A k \in 1..Len(disk.decisions) : k \in DOMAIN disk.decisions
        BY <1>1 DEF AuditInv, Typed
      <4> QED
        BY <4>1 DEF OnDisk, Durable
    <3>8. ASSUME NEW i \in 1..Len(y), r.command = "assess", NEW e \in Received(p) \ {NoAnswer}
          PROVE  e.verdict = "granted" /\ e.id[2] = r.session /\ e.id[1] >= r.made[i].id[1]
      <4>1. Len(y) = 1
        BY <3>3, <3>8 DEF Behind
      <4>2. PICK k \in 1..Len(y) : e = y[k]
        BY <2>11, <3>8
      <4>3. k = i
        BY <4>1
      <4> QED
        BY <2>10, <3>1, <3>8, <4>2, <4>3 DEF Answers
    <3>9. ASSUME NEW i \in 1..Len(y), r.command # "assess" PROVE r.made[i].verdict = "granted"
      BY <2>10, <3>1, <3>9 DEF Answers
    <3> HIDE DEF Requested, Received
    <3>10. ASSUME NEW i \in 1..Len(y)
           PROVE  /\ r.made[i].id[2] = r.session
                  /\ Requested(p)[i] # "publish" => Durable(r.made[i])
                  /\ IF Requested(p)[i] # "assess" THEN r.made[i].verdict = "granted"
                     ELSE \A e \in Received(p) \ {NoAnswer} :
                            /\ e.verdict = "granted" /\ e.id[2] = r.session
                            /\ e.id[1] >= r.made[i].id[1]
      BY <2>9, <3>4, <3>6, <3>7, <3>8, <3>9
    <3>11. Zero(p)
      BY <2>9, <3>4, <3>5, <3>10
    <3> QED
      BY <2>13, <3>11
  <2> QED
    BY <1>1, <2>12, <2>13
<1>2. ASSUME AuditInv, AttemptInv, ExitInv, [Next]_vars, NEW p \in Processes
      PROVE  ExitIsTrue(p)
  <2>1. (Exits(p, "0") => Zero(p)) /\ (Exits(p, "1") => One(p))
    BY <1>1, <1>2
  <2> QED
    BY <2>1 DEF ExitIsTrue
<1>3. ASSUME AuditInv, AttemptInv, ExitInv, [Next]_vars
      PROVE  [\A p \in Processes : ExitIsTrue(p)]_vars
  BY <1>2, <1>3
<1> QED
  BY <1>3, ExitInductive, PTL DEF Spec, ExitCodesAreTrue
=============================================================================
