------------------------ MODULE SessionProtocolProofs ------------------------
(***************************************************************************)
(* Proofs about SessionProtocol, for any number of connections, of clients *)
(* and of raw peers, and whatever the bounds of the model are.             *)
(***************************************************************************)
EXTENDS SessionProtocol, SequenceFacts

Frames ==
  [type : Types, handle : Sessions \cup {Nobody}, epoch : Epochs, sequence : Nat, since : Nat]

ReplyTypes == {"welcome", "refused", "answer", "error"}
Replies == [type : ReplyTypes, of : Types, sequence : Nat, since : Nat, view : Nat]

SessionPhases == {"new", "established", "assessed", "abandoned", "closed"}
SessionRecords == [phase : SessionPhases, last : Nat, frame : Seq(Frames)]

ClientPhases == {"off", "greeting", "ready", "waiting", "done"}
ClientRecords == [phase : ClientPhases, sequence : Nat, handle : Sessions \cup {Nobody}]

Executions == [session : Sessions, sequence : Nat]

\* The state has its type, with sequences of any size.
Typed ==
  /\ session \in [Sessions -> SessionRecords]
  /\ inbox \in [Sessions -> Seq(Frames)]
  /\ outbox \in [Sessions -> Seq(Replies)]
  /\ client \in [Sessions -> ClientRecords]
  /\ assessments \in Nat
  /\ ingested \in Seq(Executions)

\* last_sequence covers everything a session has had executed.
Covered ==
  \A i \in 1..Len(ingested) :
    ingested[i].sequence <= session[ingested[i].session].last

-----------------------------------------------------------------------------
(* The state of one connection.                                            *)

\* The Assess a session has in hand passed the checks of serve and has been
\* assessed for.
AssessInHand(s) ==
  session[s].phase = "assessed" =>
    /\ Len(session[s].frame) = 1
    /\ session[s].frame[1].type = "assess"
    /\ session[s].frame[1].sequence > session[s].last
    /\ session[s].frame[1].since < assessments

\* What is on the wire was sent no later than now.
SentBefore(s) == \A i \in 1..Len(inbox[s]) : inbox[s][i].since <= assessments

\* An answer shows a state no older than its request.
Current(r) ==
  /\ r.type = "answer" /\ r.of = "query" => r.view >= r.since
  /\ r.type = "answer" /\ r.of = "assess" => r.view > r.since

ViewsCurrent(s) == \A i \in 1..Len(outbox[s]) : Current(outbox[s][i])

\* The one request of the client is on its way, or its one answer is.
Asked(s) ==
  /\ Len(inbox[s]) = 1 /\ outbox[s] = <<>>
  /\ inbox[s][1].sequence = client[s].sequence /\ inbox[s][1].type # "goodbye"

Answering(s) == Len(outbox[s]) = 1 /\ outbox[s][1].sequence = client[s].sequence

\* The goodbye that serve will accept without an answer.
Farewell(s) ==
  /\ Len(inbox[s]) = 1
  /\ inbox[s][1].type = "goodbye" /\ Bound(s, inbox[s][1])

\* How the two ends of a client's connection keep in step.
InStep(s) ==
  /\ session[s].last <= client[s].sequence
  /\ client[s].phase = "off" =>
       /\ session[s].phase \in {"new", "closed"} /\ client[s].sequence = 0
       /\ inbox[s] = <<>> /\ outbox[s] = <<>>
  /\ client[s].phase \in {"ready", "waiting"} => client[s].handle = s
  /\ client[s].phase \in {"ready", "done"} =>
       session[s].phase \in {"established", "closed"} /\ outbox[s] = <<>>
  /\ client[s].phase = "ready" /\ session[s].phase = "established" => inbox[s] = <<>>
  /\ client[s].phase = "done" /\ session[s].phase = "established" =>
       inbox[s] = <<>> \/ Farewell(s)
  /\ client[s].phase \in {"greeting", "waiting"} =>
       \/ session[s].phase = "closed" /\ (outbox[s] = <<>> \/ Answering(s))
       \/ session[s].phase \in {"new", "established"} /\ Asked(s)
       \/ session[s].phase = "established" /\ inbox[s] = <<>> /\ Answering(s)
       \/ /\ session[s].phase = "assessed" /\ inbox[s] = <<>> /\ outbox[s] = <<>>
          /\ session[s].frame[1].sequence = client[s].sequence
       \/ session[s].phase = "abandoned" /\ inbox[s] = <<>> /\ outbox[s] = <<>>

Connection(s) ==
  AssessInHand(s) /\ SentBefore(s) /\ ViewsCurrent(s) /\ (s \notin Raw => InStep(s))

IInv ==
  /\ Typed
  /\ \A s \in Sessions : Connection(s)
  /\ Covered /\ ExecutedOnce

-----------------------------------------------------------------------------
(* Records.                                                                *)

\* What the server may do to the record of a session keeps its type.
LEMMA SessionChanged ==
  ASSUME NEW r \in SessionRecords, NEW p \in SessionPhases, NEW n \in Nat, NEW q \in Seq(Frames)
  PROVE  /\ [r EXCEPT !.phase = p] \in SessionRecords
         /\ [r EXCEPT !.phase = p, !.frame = q] \in SessionRecords
         /\ [r EXCEPT !.phase = p, !.last = n, !.frame = q] \in SessionRecords
  BY DEF SessionRecords

\* What a client may do to its side keeps its type.
LEMMA ClientChanged ==
  ASSUME NEW r \in ClientRecords, NEW p \in ClientPhases, NEW n \in Nat,
         NEW h \in Sessions \cup {Nobody}
  PROVE  /\ [r EXCEPT !.phase = p] \in ClientRecords
         /\ [r EXCEPT !.phase = p, !.sequence = n] \in ClientRecords
         /\ [r EXCEPT !.phase = p, !.handle = h] \in ClientRecords
  BY DEF ClientRecords

\* Headers have their type, and are stamped with the present.
LEMMA FrameTyped ==
  ASSUME Typed, NEW type \in Types, NEW handle \in Sessions \cup {Nobody},
         NEW epoch \in Epochs, NEW n \in Nat
  PROVE  /\ Frame(type, handle, epoch, n) \in Frames
         /\ Frame(type, handle, epoch, n).since = assessments
         /\ Frame(type, handle, epoch, n).sequence = n
         /\ Frame(type, handle, epoch, n).type = type
         /\ Frame(type, handle, epoch, n).handle = handle
         /\ Frame(type, handle, epoch, n).epoch = epoch
  BY DEF Frame, Frames, Typed

\* A raw peer's frames do too.
LEMMA RawFrameTyped ==
  ASSUME Typed, NEW s \in Sessions, NEW f \in RawFrames(s)
  PROVE  f \in Frames /\ f.since = assessments
<1>1. \A n \in 1..MaxSequence : n \in Nat
  BY SessionAssumption
<1>2. CASE f \in {Frame("hello", Nobody, e, 1) : e \in {"current", "other"}}
  BY <1>2, FrameTyped DEF Types, Epochs
<1>3. CASE f \in {Frame(t, s, "current", n) : t \in {"assess", "publish"}, n \in 1..MaxSequence}
  BY <1>1, <1>3, FrameTyped DEF Types, Requests, Epochs
<1>4. CASE f \in {Frame("publish", Nobody, "current", 1), Frame("publish", s, "other", 1)}
  BY <1>4, FrameTyped DEF Types, Requests, Epochs
<1> QED
  BY <1>2, <1>3, <1>4 DEF RawFrames

\* An answer takes over the sequence and the stamp of the frame it answers.
LEMMA ReplyTyped ==
  ASSUME NEW type \in ReplyTypes, NEW f \in Frames, NEW view \in Nat
  PROVE  /\ Reply(type, f, view) \in Replies
         /\ Reply(type, f, view).sequence = f.sequence
         /\ Reply(type, f, view).type = type /\ Reply(type, f, view).of = f.type
         /\ Reply(type, f, view).since = f.since /\ Reply(type, f, view).view = view
  BY DEF Reply, Replies, Frames

-----------------------------------------------------------------------------
(* A step on one connection.                                               *)

\* The step takes place on connection s alone.
Only(s) ==
  /\ \A t \in Sessions \ {s} :
       /\ session'[t] = session[t] /\ inbox'[t] = inbox[t]
       /\ outbox'[t] = outbox[t] /\ client'[t] = client[t]
  /\ assessments' >= assessments

\* A connection that a step does not touch keeps its invariant, although the
\* runtime it shares may have assessed meanwhile.
LEMMA Untouched ==
  ASSUME IInv, Typed', NEW s \in Sessions, Only(s), NEW t \in Sessions \ {s}
  PROVE  Connection(t)'
<1>1. Connection(t) /\ assessments \in Nat /\ assessments' \in Nat /\ assessments' >= assessments
  BY DEF IInv, Typed, Only
<1>2. AssessInHand(t)'
  <2>1. session[t].frame \in Seq(Frames) /\ session'[t] = session[t]
    BY DEF IInv, Typed, SessionRecords, Only
  <2>2. Len(session[t].frame) = 1 => session[t].frame[1] \in Frames
    BY <2>1, Element
  <2>3. Len(session[t].frame) = 1 => session[t].frame[1].since \in Nat
    BY <2>2 DEF Frames
  <2> QED
    BY <1>1, <2>1, <2>3 DEF Connection, AssessInHand
<1>3. SentBefore(t)'
  <2>1. inbox[t] \in Seq(Frames) /\ inbox'[t] = inbox[t]
    BY DEF IInv, Typed, Only
  <2>2. \A i \in 1..Len(inbox[t]) : inbox[t][i] \in Frames
    BY <2>1, Element
  <2>3. \A i \in 1..Len(inbox[t]) : inbox[t][i].since \in Nat
    BY <2>2 DEF Frames
  <2> QED
    BY <1>1, <2>1, <2>3 DEF Connection, SentBefore
<1>4. ViewsCurrent(t)'
  BY <1>1 DEF Connection, ViewsCurrent, Only
<1>5. t \notin Raw => InStep(t)'
  BY <1>1 DEF Connection, InStep, Asked, Answering, Farewell, Bound, Only
<1> QED
  BY <1>2, <1>3, <1>4, <1>5 DEF Connection

\* A step that executes nothing and does not lower last_sequence.
LEMMA Executes ==
  ASSUME IInv, Typed', NEW s \in Sessions, Only(s),
         ingested' = ingested, session'[s].last >= session[s].last
  PROVE  Covered' /\ ExecutedOnce'
<1>1. ExecutedOnce'
  BY DEF IInv, ExecutedOnce
<1>2. ASSUME NEW i \in 1..Len(ingested)
      PROVE  ingested[i].sequence <= session'[ingested[i].session].last
  <2>0. ingested \in Seq(Executions)
    BY DEF IInv, Typed
  <2>5. ingested[i] \in Executions
    BY <2>0, Element
  <2>1. ingested[i].session \in Sessions /\ ingested[i].sequence \in Nat
    BY <2>5 DEF Executions
  <2>2. session[ingested[i].session].last \in Nat /\ session'[ingested[i].session].last \in Nat
    BY <2>1 DEF IInv, Typed, SessionRecords
  <2>3. session[ingested[i].session].last <= session'[ingested[i].session].last
    BY <2>1, <2>2 DEF Only
  <2>4. ingested[i].sequence <= session[ingested[i].session].last
    BY DEF IInv, Covered
  <2> QED
    BY <2>1, <2>2, <2>3, <2>4
<1> QED
  BY <1>1, <1>2 DEF Covered

\* A step on one connection keeps the invariant when it keeps the types, the
\* invariant of that connection, what was executed and last_sequence.
LEMMA OneConnection ==
  ASSUME IInv, Typed', NEW s \in Sessions, Only(s), Connection(s)',
         ingested' = ingested, session'[s].last >= session[s].last
  PROVE  IInv'
<1>1. \A t \in Sessions : Connection(t)'
  BY Untouched
<1> QED
  BY <1>1, Executes DEF IInv

\* What is left on the wire once a frame has been decoded, or all is dropped.
LEMMA WireAfterRead ==
  ASSUME IInv, NEW s \in Sessions, assessments' \in Nat, assessments' >= assessments,
         \/ inbox'[s] = inbox[s]
         \/ inbox'[s] = <<>>
         \/ inbox[s] # <<>> /\ inbox'[s] = Tail(inbox[s])
  PROVE  SentBefore(s)'
<1>1. inbox[s] \in Seq(Frames) /\ assessments \in Nat
  BY DEF IInv, Typed
<1>2. ASSUME NEW i \in 1..Len(inbox[s]) PROVE inbox[s][i].since <= assessments'
  <2>1. inbox[s][i] \in Frames
    BY <1>1, Element
  <2>2. inbox[s][i].since \in Nat /\ inbox[s][i].since <= assessments
    BY <2>1 DEF Frames, IInv, Connection, SentBefore
  <2> QED
    BY <1>1, <2>2
<1>3. CASE inbox'[s] = inbox[s]
  BY <1>2, <1>3 DEF SentBefore
<1>4. CASE inbox'[s] = <<>>
  BY <1>4 DEF SentBefore
<1>5. CASE inbox[s] # <<>> /\ inbox'[s] = Tail(inbox[s])
  BY <1>1, <1>2, <1>5, Decoded DEF SentBefore
<1> QED
  BY <1>3, <1>4, <1>5

\* What a peer has to read once a current answer has been written, or the first
\* one has been read, or all is dropped.
LEMMA ViewsAfter ==
  ASSUME IInv, NEW s \in Sessions,
         \/ outbox'[s] = outbox[s]
         \/ outbox'[s] = <<>>
         \/ outbox[s] # <<>> /\ outbox'[s] = Tail(outbox[s])
         \/ \E r \in Replies : Current(r) /\ outbox'[s] = Append(outbox[s], r)
  PROVE  ViewsCurrent(s)'
<1>1. outbox[s] \in Seq(Replies) /\ \A i \in 1..Len(outbox[s]) : Current(outbox[s][i])
  BY DEF IInv, Typed, Connection, ViewsCurrent
<1>2. CASE outbox'[s] = outbox[s]
  BY <1>1, <1>2 DEF ViewsCurrent, Current
<1>3. CASE outbox'[s] = <<>>
  BY <1>3 DEF ViewsCurrent, Current
<1>4. CASE outbox[s] # <<>> /\ outbox'[s] = Tail(outbox[s])
  BY <1>1, <1>4, Decoded DEF ViewsCurrent, Current
<1>5. ASSUME NEW r \in Replies, Current(r), outbox'[s] = Append(outbox[s], r)
      PROVE  ViewsCurrent(s)'
  <2> SUFFICES ASSUME NEW i \in 1..Len(outbox'[s]) PROVE Current(outbox'[s][i])
    BY DEF ViewsCurrent, Current
  <2>1. \/ i \in 1..Len(outbox[s]) /\ outbox'[s][i] = outbox[s][i]
        \/ outbox'[s][i] = r
    BY <1>1, <1>5, Written
  <2> QED
    BY <1>1, <1>5, <2>1
<1> QED
  BY <1>2, <1>3, <1>4, <1>5

-----------------------------------------------------------------------------
(* The steps of the peers.                                                 *)

\* A peer that puts a frame on the wire, and changes no more than its own side.
LEMMA Sends ==
  ASSUME IInv, NEW s \in Sessions, NEW f \in Frames, f.since = assessments,
         inbox' = [inbox EXCEPT ![s] = Append(@, f)],
         UNCHANGED <<session, outbox, assessments, ingested>>,
         client' \in [Sessions -> ClientRecords],
         \A t \in Sessions \ {s} : client'[t] = client[t],
         s \notin Raw => InStep(s)'
  PROVE  IInv'
<1>1. inbox[s] \in Seq(Frames) /\ inbox'[s] = Append(inbox[s], f)
  BY DEF IInv, Typed
<1>2. Append(inbox[s], f) \in Seq(Frames)
  BY <1>1, Written
<1>3. Typed' /\ Only(s)
  <2>1. inbox' \in [Sessions -> Seq(Frames)]
    BY <1>2 DEF IInv, Typed
  <2>2. Typed'
    BY <2>1 DEF IInv, Typed
  <2>3. Only(s)
    BY DEF IInv, Typed, Only
  <2> QED
    BY <2>2, <2>3
<1>4. SentBefore(s)'
  <2> SUFFICES ASSUME NEW i \in 1..Len(inbox'[s]) PROVE inbox'[s][i].since <= assessments
    BY DEF SentBefore
  <2>1. \/ i \in 1..Len(inbox[s]) /\ inbox'[s][i] = inbox[s][i]
        \/ inbox'[s][i] = f
    BY <1>1, Written
  <2> QED
    BY <2>1 DEF IInv, Typed, Connection, SentBefore
<1>5. AssessInHand(s)' /\ ViewsCurrent(s)'
  BY DEF IInv, Connection, AssessInHand, ViewsCurrent, Current
<1>6. session'[s].last >= session[s].last
  BY DEF IInv, Typed, SessionRecords
<1> QED
  BY <1>3, <1>4, <1>5, <1>6, OneConnection DEF Connection

\* The hello of a client.
LEMMA ConnectClientKeeps ==
  ASSUME IInv, NEW s \in Sessions, NEW e \in Epochs, ConnectClient(s, e)
  PROVE  IInv'
<1> DEFINE f == Frame("hello", Nobody, e, 1)
<1>1. f \in Frames /\ f.since = assessments /\ f.sequence = 1 /\ f.type = "hello"
  <2>1. Typed /\ "hello" \in Types /\ Nobody \in Sessions \cup {Nobody} /\ 1 \in Nat
    BY DEF IInv, Types
  <2> QED
    BY <2>1, FrameTyped
<1> HIDE DEF f
<1>2. client[s] \in ClientRecords /\ session[s] \in SessionRecords /\ inbox[s] \in Seq(Frames)
  BY DEF IInv, Typed
<1>3. /\ client' = [client EXCEPT ![s] = [client[s] EXCEPT !.phase = "greeting", !.sequence = 1]]
      /\ inbox' = [inbox EXCEPT ![s] = Append(@, f)]
      /\ s \notin Raw /\ client[s].phase = "off" /\ session[s].phase # "closed"
      /\ UNCHANGED <<session, outbox, assessments, ingested>>
  BY DEF ConnectClient, f
<1>4. [client[s] EXCEPT !.phase = "greeting", !.sequence = 1] \in ClientRecords
  BY <1>2, ClientChanged DEF ClientPhases
<1>5. /\ client' \in [Sessions -> ClientRecords]
      /\ \A t \in Sessions \ {s} : client'[t] = client[t]
      /\ client'[s].phase = "greeting" /\ client'[s].sequence = 1
  BY <1>2, <1>3, <1>4 DEF IInv, Typed, ClientRecords
<1>6. InStep(s)
  BY <1>3 DEF IInv, Connection
<1>7. inbox'[s] = Append(inbox[s], f) /\ inbox[s] = <<>>
  BY <1>3, <1>6 DEF IInv, Typed, InStep
<1>8. Len(inbox'[s]) = 1 /\ inbox'[s][1] = f
  BY <1>1, <1>2, <1>7, Written
<1>9. InStep(s)'
  BY <1>1, <1>2, <1>3, <1>5, <1>6, <1>8 DEF InStep, Asked, SessionRecords
<1> QED
  BY <1>1, <1>3, <1>5, <1>9, Sends

\* A request of a client that is connected.
LEMMA SendRequestKeeps ==
  ASSUME IInv, NEW s \in Sessions, NEW t \in Requests, SendRequest(s, t)
  PROVE  IInv'
<1>1. client[s] \in ClientRecords /\ session[s] \in SessionRecords /\ inbox[s] \in Seq(Frames)
  BY DEF IInv, Typed
<1> DEFINE n == client[s].sequence + 1
           f == Frame(t, client[s].handle, "current", n)
<1>2. n \in Nat /\ client[s].sequence \in Nat /\ client[s].handle \in Sessions \cup {Nobody}
  BY <1>1 DEF ClientRecords
<1>3. f \in Frames /\ f.since = assessments /\ f.sequence = n /\ f.type = t
  <2>1. Typed /\ t \in Types /\ "current" \in Epochs
    BY DEF IInv, Types, Epochs
  <2> HIDE DEF n
  <2> QED
    BY <1>2, <2>1, FrameTyped
<1>4. /\ client' = [client EXCEPT ![s] = [client[s] EXCEPT !.phase = "waiting", !.sequence = n]]
      /\ inbox' = [inbox EXCEPT ![s] = Append(@, f)]
      /\ client[s].phase = "ready"
      /\ UNCHANGED <<session, outbox, assessments, ingested>>
  BY DEF SendRequest
<1> HIDE DEF f
<1>5. [client[s] EXCEPT !.phase = "waiting", !.sequence = n] \in ClientRecords
  BY <1>1, <1>2, ClientChanged DEF ClientPhases
<1>6. /\ client' \in [Sessions -> ClientRecords]
      /\ \A u \in Sessions \ {s} : client'[u] = client[u]
      /\ client'[s].phase = "waiting" /\ client'[s].sequence = n
      /\ client'[s].handle = client[s].handle
  BY <1>1, <1>4, <1>5 DEF IInv, Typed, ClientRecords
<1>7. inbox'[s] = Append(inbox[s], f)
  BY <1>4 DEF IInv, Typed
<1>8. ASSUME s \notin Raw PROVE InStep(s)'
  <2>1. InStep(s) /\ session[s].last \in Nat
    BY <1>1, <1>8 DEF IInv, Connection, SessionRecords
  <2>2. inbox[s] = <<>> => Len(inbox'[s]) = 1 /\ inbox'[s][1] = f
    BY <1>1, <1>3, <1>7, Written
  <2>3. f.type # "goodbye"
    BY <1>3 DEF Requests
  <2> QED
    BY <1>2, <1>3, <1>4, <1>6, <2>1, <2>2, <2>3 DEF InStep, Asked
<1> QED
  BY <1>3, <1>4, <1>6, <1>8, Sends

\* The goodbye of a client.
LEMMA CloseClientKeeps ==
  ASSUME IInv, NEW s \in Sessions, CloseClient(s)
  PROVE  IInv'
<1>1. client[s] \in ClientRecords /\ session[s] \in SessionRecords /\ inbox[s] \in Seq(Frames)
  BY DEF IInv, Typed
<1> DEFINE n == client[s].sequence + 1
           f == Frame("goodbye", client[s].handle, "current", n)
<1>2. n \in Nat /\ client[s].sequence \in Nat /\ client[s].handle \in Sessions \cup {Nobody}
  BY <1>1 DEF ClientRecords
<1>3. /\ f \in Frames /\ f.since = assessments /\ f.sequence = n /\ f.type = "goodbye"
      /\ f.handle = client[s].handle /\ f.epoch = "current"
  <2>1. Typed /\ "goodbye" \in Types /\ "current" \in Epochs
    BY DEF IInv, Types, Epochs
  <2> HIDE DEF n
  <2> QED
    BY <1>2, <2>1, FrameTyped
<1>4. /\ client' = [client EXCEPT ![s] = [client[s] EXCEPT !.phase = "done"]]
      /\ inbox' = [inbox EXCEPT ![s] = Append(@, f)]
      /\ client[s].phase = "ready"
      /\ UNCHANGED <<session, outbox, assessments, ingested>>
  BY DEF CloseClient
<1> HIDE DEF f
<1>5. [client[s] EXCEPT !.phase = "done"] \in ClientRecords
  BY <1>1, ClientChanged DEF ClientPhases, ClientRecords
<1>6. /\ client' \in [Sessions -> ClientRecords]
      /\ \A u \in Sessions \ {s} : client'[u] = client[u]
      /\ client'[s].phase = "done" /\ client'[s].sequence = client[s].sequence
  BY <1>1, <1>4, <1>5 DEF IInv, Typed, ClientRecords
<1>7. inbox'[s] = Append(inbox[s], f)
  BY <1>4 DEF IInv, Typed
<1>8. ASSUME s \notin Raw PROVE InStep(s)'
  <2>1. InStep(s) /\ session[s].last \in Nat
    BY <1>1, <1>8 DEF IInv, Connection, SessionRecords
  <2>2. inbox[s] = <<>> => Len(inbox'[s]) = 1 /\ inbox'[s][1] = f
    BY <1>1, <1>3, <1>7, Written
  <2> QED
    BY <1>2, <1>3, <1>4, <1>6, <2>1, <2>2 DEF InStep, Farewell, Bound
<1> QED
  BY <1>3, <1>4, <1>6, <1>8, Sends

\* A raw peer sends, or reads.
LEMMA SendRawKeeps ==
  ASSUME IInv, NEW s \in Sessions, NEW f \in RawFrames(s), SendRaw(s, f)
  PROVE  IInv'
<1>1. f \in Frames /\ f.since = assessments
  BY RawFrameTyped DEF IInv
<1>2. client' \in [Sessions -> ClientRecords] /\ client' = client /\ s \in Raw
  BY DEF SendRaw, IInv, Typed
<1>3. /\ inbox' = [inbox EXCEPT ![s] = Append(@, f)]
      /\ UNCHANGED <<session, outbox, assessments, ingested>>
  BY DEF SendRaw
<1> QED
  BY <1>1, <1>2, <1>3, Sends

LEMMA ReadRawKeeps ==
  ASSUME IInv, NEW s \in Sessions, ReadRaw(s)
  PROVE  IInv'
<1>1. outbox[s] \in Seq(Replies) /\ outbox[s] # <<>> /\ s \in Raw /\ assessments \in Nat
  BY DEF ReadRaw, IInv, Typed
<1>2. Tail(outbox[s]) \in Seq(Replies) /\ outbox' = [outbox EXCEPT ![s] = Tail(outbox[s])]
  BY <1>1, Decoded DEF ReadRaw
<1>3. Typed'
  BY <1>2 DEF ReadRaw, IInv, Typed
<1>4. Only(s) /\ outbox'[s] = Tail(outbox[s])
  BY <1>1, <1>2 DEF ReadRaw, IInv, Typed, Only
<1>5. ViewsCurrent(s)'
  BY <1>1, <1>4, ViewsAfter
<1>6. AssessInHand(s)' /\ SentBefore(s)'
  BY DEF ReadRaw, IInv, Connection, AssessInHand, SentBefore
<1>7. session'[s].last >= session[s].last /\ ingested' = ingested
  BY DEF ReadRaw, IInv, Typed, SessionRecords
<1> QED
  BY <1>1, <1>3, <1>4, <1>5, <1>6, <1>7, OneConnection DEF Connection

\* A client reads the one frame there is.
LEMMA ReceiveKeeps ==
  ASSUME IInv, NEW s \in Sessions, Receive(s)
  PROVE  IInv'
<1>1. outbox[s] \in Seq(Replies) /\ outbox[s] # <<>> /\ client[s] \in ClientRecords
  BY DEF Receive, IInv, Typed
<1>2. Tail(outbox[s]) \in Seq(Replies) /\ outbox' = [outbox EXCEPT ![s] = Tail(outbox[s])]
  BY <1>1, Decoded DEF Receive
<1> DEFINE r == CASE Head(outbox[s]).type = "welcome" ->
                       [client[s] EXCEPT !.phase = "ready", !.handle = s]
                  [] client[s].phase = "waiting" -> [client[s] EXCEPT !.phase = "ready"]
                  [] OTHER -> [client[s] EXCEPT !.phase = "done"]
<1>3. client' = [client EXCEPT ![s] = r]
  BY DEF Receive
<1>4. /\ r \in ClientRecords /\ r.sequence = client[s].sequence
      /\ \/ r.phase = "ready" /\ r.handle = s
         \/ r.phase = "ready" /\ r.handle = client[s].handle /\ client[s].phase = "waiting"
         \/ r.phase = "done"
  <2> DEFINE welcomed == [client[s] EXCEPT !.phase = "ready", !.handle = s]
             answered == [client[s] EXCEPT !.phase = "ready"]
             refused  == [client[s] EXCEPT !.phase = "done"]
  <2>1. \/ r = welcomed
        \/ r = answered /\ client[s].phase = "waiting"
        \/ r = refused
    OBVIOUS
  <2>2. /\ {welcomed, answered, refused} \subseteq ClientRecords
        /\ \A c \in {welcomed, answered, refused} : c.sequence = client[s].sequence
        /\ welcomed.phase = "ready" /\ welcomed.handle = s
        /\ answered.phase = "ready" /\ answered.handle = client[s].handle
        /\ refused.phase = "done"
    BY <1>1 DEF ClientRecords, ClientPhases
  <2> HIDE DEF r, welcomed, answered, refused
  <2> QED
    BY <2>1, <2>2
<1> HIDE DEF r
<1>5. Typed'
  <2>1. client' \in [Sessions -> ClientRecords]
    BY <1>3, <1>4 DEF IInv, Typed
  <2>2. outbox' \in [Sessions -> Seq(Replies)]
    BY <1>2 DEF IInv, Typed
  <2> QED
    BY <2>1, <2>2 DEF Receive, IInv, Typed
<1>6. Only(s) /\ outbox'[s] = Tail(outbox[s]) /\ client'[s] = r
  BY <1>2, <1>3 DEF Receive, IInv, Typed, Only
<1>7. ViewsCurrent(s)'
  BY <1>1, <1>6, ViewsAfter
<1>8. AssessInHand(s)' /\ SentBefore(s)'
  BY DEF Receive, IInv, Connection, AssessInHand, SentBefore
<1>9. session'[s].last >= session[s].last /\ ingested' = ingested
  BY DEF Receive, IInv, Typed, SessionRecords
<1>10. ASSUME s \notin Raw PROVE InStep(s)'
  <2>1. InStep(s) /\ client[s].phase \in {"greeting", "waiting"}
    BY <1>10 DEF IInv, Connection, Receive
  <2>2. /\ session[s].phase \in {"established", "closed"} /\ Len(outbox[s]) = 1
        /\ session[s].phase = "established" => inbox[s] = <<>>
    BY <1>1, <2>1 DEF InStep, Asked, Answering
  <2>3. outbox'[s] = <<>>
    BY <1>1, <1>6, <2>2, Decoded
  <2>4. session' = session /\ inbox' = inbox
    BY DEF Receive
  <2> QED
    BY <1>4, <1>6, <2>1, <2>2, <2>3, <2>4 DEF InStep
<1> QED
  BY <1>5, <1>6, <1>7, <1>8, <1>9, <1>10, OneConnection DEF Connection

\* A client finds the connection closed.
LEMMA ReceiveNothingKeeps ==
  ASSUME IInv, NEW s \in Sessions, ReceiveNothing(s)
  PROVE  IInv'
<1> DEFINE p == IF client[s].phase = "greeting" THEN "done" ELSE "ready"
           r == [client[s] EXCEPT !.phase = p]
<1>1. client' = [client EXCEPT ![s] = r] /\ client[s] \in ClientRecords
  BY DEF ReceiveNothing, IInv, Typed
<1>2. r \in ClientRecords /\ r.phase = p /\ r.handle = client[s].handle
                          /\ r.sequence = client[s].sequence
  BY <1>1 DEF ClientRecords, ClientPhases
<1> HIDE DEF r
<1>3. Typed'
  BY <1>1, <1>2 DEF ReceiveNothing, IInv, Typed
<1>4. Only(s) /\ client'[s] = r
  BY <1>1 DEF ReceiveNothing, IInv, Typed, Only
<1>5. AssessInHand(s)' /\ SentBefore(s)' /\ ViewsCurrent(s)'
  BY DEF ReceiveNothing, IInv, Connection, AssessInHand, SentBefore, ViewsCurrent, Current
<1>6. session'[s].last >= session[s].last /\ ingested' = ingested
  BY DEF ReceiveNothing, IInv, Typed, SessionRecords
<1>7. ASSUME s \notin Raw PROVE InStep(s)'
  BY <1>2, <1>4, <1>7 DEF ReceiveNothing, IInv, Connection, InStep
<1> QED
  BY <1>3, <1>4, <1>5, <1>6, <1>7, OneConnection DEF Connection

-----------------------------------------------------------------------------
(* The steps of serve.                                                     *)

\* The frame at the head of a stream.
LEMMA FirstFrame ==
  ASSUME IInv, NEW s \in Sessions, inbox[s] # <<>>
  PROVE  /\ Head(inbox[s]) \in Frames /\ Head(inbox[s]) = inbox[s][1]
         /\ Head(inbox[s]).sequence \in Nat /\ Head(inbox[s]).since \in Nat
         /\ Head(inbox[s]).since <= assessments
         /\ Tail(inbox[s]) \in Seq(Frames)
         /\ Len(inbox[s]) = 1 => Tail(inbox[s]) = <<>>
<1>1. inbox[s] \in Seq(Frames)
  BY DEF IInv, Typed
<1>2. /\ Head(inbox[s]) \in Frames /\ Head(inbox[s]) = inbox[s][1] /\ 1 \in 1..Len(inbox[s])
      /\ Tail(inbox[s]) \in Seq(Frames)
      /\ Len(inbox[s]) = 1 => Tail(inbox[s]) = <<>>
  BY <1>1, Decoded
<1>3. Head(inbox[s]).sequence \in Nat /\ Head(inbox[s]).since \in Nat
  BY <1>2 DEF Frames
<1>4. Head(inbox[s]).since <= assessments
  BY <1>2 DEF IInv, Connection, SentBefore
<1> QED
  BY <1>2, <1>3, <1>4

\* A frame that serve decodes for a client is the request the client waits on,
\* or the goodbye of a client that has gone.
LEMMA Decodes ==
  ASSUME IInv, NEW s \in Sessions \ Raw, Decoding(s)
  PROVE  /\ InStep(s) /\ inbox[s] # <<>> /\ Head(inbox[s]) = inbox[s][1]
         /\ \/ client[s].phase \in {"greeting", "waiting"} /\ Asked(s)
            \/ client[s].phase = "done" /\ session[s].phase = "established" /\ Farewell(s)
<1>1. InStep(s) /\ inbox[s] # <<>> /\ session[s].phase \in {"new", "established"}
  BY DEF IInv, Connection, Decoding
<1>2. client[s].phase \in ClientPhases
  BY DEF IInv, Typed, ClientRecords
<1>3. Head(inbox[s]) = inbox[s][1]
  BY <1>1, FirstFrame
<1> QED
  BY <1>1, <1>2, <1>3 DEF InStep, ClientPhases

\* The record of a session that serve has left.
LEMMA Closed ==
  ASSUME IInv, NEW s \in Sessions
  PROVE  Close(s) \in SessionRecords /\ Close(s).phase = "closed" /\ Close(s).last = session[s].last
<1>1. session[s] \in SessionRecords /\ "closed" \in SessionPhases
  BY DEF IInv, Typed, SessionPhases
<1>2. <<>> \in Seq(Frames)
  BY Short
<1>3. Close(s) \in SessionRecords
  BY <1>1, <1>2, SessionChanged DEF Close, SessionRecords
<1> QED
  BY <1>1, <1>3 DEF Close, SessionRecords

\* fail_session answers the request the client waits on, once.
LEMMA FailSessionKeeps ==
  ASSUME IInv, NEW s \in Sessions, Decoding(s), FailSession(s),
         s \notin Raw => client[s].phase \in {"greeting", "waiting"} /\ Asked(s)
  PROVE  IInv'
<1> DEFINE f == Head(inbox[s])
           r == Reply("error", f, 0)
<1>1. inbox[s] # <<>> /\ f \in Frames /\ f = inbox[s][1] /\ outbox[s] \in Seq(Replies)
  BY FirstFrame DEF Decoding, IInv, Typed
<1> HIDE DEF f
<1>2. r \in Replies /\ r.sequence = f.sequence /\ Current(r)
  BY <1>1, ReplyTyped DEF ReplyTypes, Current
<1>3. /\ session' = [session EXCEPT ![s] = Close(s)]
      /\ inbox' = [inbox EXCEPT ![s] = <<>>]
      /\ outbox' = [outbox EXCEPT ![s] = Append(@, r)]
      /\ UNCHANGED <<client, assessments, ingested>>
  BY DEF FailSession, f
<1> HIDE DEF r
<1>4. Close(s) \in SessionRecords /\ Close(s).phase = "closed" /\ Close(s).last = session[s].last
  BY Closed
<1>5. <<>> \in Seq(Frames) /\ Append(outbox[s], r) \in Seq(Replies)
  BY <1>1, <1>2, Short, Written
<1>6. Typed'
  BY <1>3, <1>4, <1>5 DEF IInv, Typed
<1>7. /\ session'[s] = Close(s) /\ inbox'[s] = <<>> /\ outbox'[s] = Append(outbox[s], r)
      /\ client'[s] = client[s] /\ assessments' = assessments /\ assessments \in Nat
  BY <1>3 DEF IInv, Typed
<1>8. Only(s)
  BY <1>3, <1>7 DEF IInv, Typed, Only
<1>9. SentBefore(s)'
  BY <1>7, WireAfterRead
<1>10. ViewsCurrent(s)'
  BY <1>2, <1>7, ViewsAfter
<1>11. AssessInHand(s)'
  BY <1>4, <1>7 DEF AssessInHand
<1>12. ASSUME s \notin Raw PROVE InStep(s)'
  <2>1. InStep(s) /\ Asked(s) /\ client[s].phase \in {"greeting", "waiting"}
    BY <1>12 DEF IInv, Connection
  <2>2. Len(outbox'[s]) = 1 /\ outbox'[s][1] = r
    BY <1>1, <1>2, <1>7, <2>1, Written DEF Asked
  <2> QED
    BY <1>1, <1>2, <1>4, <1>7, <2>1, <2>2 DEF InStep, Asked, Answering
<1>13. session'[s].last >= session[s].last
  BY <1>4, <1>7 DEF SessionRecords
<1> QED
  BY <1>3, <1>6, <1>8, <1>9, <1>10, <1>11, <1>12, <1>13, OneConnection DEF Connection

LEMMA RefusalsKeep ==
  ASSUME IInv, NEW s \in Sessions, RefuseFirst(s) \/ RefuseFrame(s) \/ RefuseUnsupported(s)
  PROVE  IInv'
<1>1. Decoding(s) /\ FailSession(s)
  BY DEF RefuseFirst, RefuseFrame, RefuseUnsupported
<1>2. ASSUME s \notin Raw PROVE client[s].phase \in {"greeting", "waiting"} /\ Asked(s)
  BY <1>1, <1>2, Decodes DEF RefuseFirst, RefuseFrame, RefuseUnsupported, Farewell
<1> QED
  BY <1>1, <1>2, FailSessionKeeps

\* The handshake.
LEMMA ServeHelloKeeps ==
  ASSUME IInv, NEW s \in Sessions, ServeHello(s)
  PROVE  IInv'
<1> DEFINE f == Head(inbox[s])
           welcome == f.epoch # "other"
           r == Reply(IF welcome THEN "welcome" ELSE "refused", f, 0)
           n == IF welcome THEN [session[s] EXCEPT !.phase = "established"] ELSE Close(s)
           q == IF welcome THEN Tail(inbox[s]) ELSE <<>>
<1>1. /\ inbox[s] # <<>> /\ f \in Frames /\ f = inbox[s][1] /\ f.type = "hello"
      /\ outbox[s] \in Seq(Replies) /\ session[s] \in SessionRecords /\ session[s].phase = "new"
      /\ Tail(inbox[s]) \in Seq(Frames)
      /\ Len(inbox[s]) = 1 => Tail(inbox[s]) = <<>>
  BY FirstFrame DEF ServeHello, Decoding, IInv, Typed
<1>2. /\ session' = [session EXCEPT ![s] = n]
      /\ inbox' = [inbox EXCEPT ![s] = q]
      /\ outbox' = [outbox EXCEPT ![s] = Append(@, r)]
      /\ UNCHANGED <<client, assessments, ingested>>
  BY DEF ServeHello
<1> HIDE DEF f
<1>3. r \in Replies /\ r.sequence = f.sequence /\ Current(r)
  BY <1>1, ReplyTyped DEF ReplyTypes, Current
<1>4. n \in SessionRecords /\ n.phase \in {"established", "closed"} /\ n.last = session[s].last
  BY <1>1, Closed DEF SessionRecords, SessionPhases
<1>5. q \in Seq(Frames) /\ (q = Tail(inbox[s]) \/ q = <<>>)
  BY <1>1, Short
<1>6. Append(outbox[s], r) \in Seq(Replies)
  BY <1>1, <1>3, Written
<1> HIDE DEF r, n, q, welcome
<1>7. Typed'
  BY <1>2, <1>4, <1>5, <1>6 DEF IInv, Typed
<1>8. /\ session'[s] = n /\ inbox'[s] = q /\ outbox'[s] = Append(outbox[s], r)
      /\ client'[s] = client[s] /\ assessments' = assessments /\ assessments \in Nat
  BY <1>2 DEF IInv, Typed
<1>9. Only(s)
  BY <1>2, <1>8 DEF IInv, Typed, Only
<1>10. SentBefore(s)'
  <2>1. inbox'[s] = <<>> \/ (inbox[s] # <<>> /\ inbox'[s] = Tail(inbox[s]))
    BY <1>1, <1>5, <1>8
  <2>2. assessments' \in Nat /\ assessments' >= assessments
    BY <1>8
  <2> QED
    BY <2>1, <2>2, WireAfterRead
<1>11. ViewsCurrent(s)'
  BY <1>3, <1>8, ViewsAfter
<1>12. AssessInHand(s)'
  BY <1>4, <1>8 DEF AssessInHand
<1>13. ASSUME s \notin Raw PROVE InStep(s)'
  <2>1. InStep(s) /\ Asked(s) /\ client[s].phase \in {"greeting", "waiting"}
    BY <1>1, <1>13, Decodes DEF ServeHello
  <2>2. Len(outbox'[s]) = 1 /\ outbox'[s][1] = r
    BY <1>1, <1>3, <1>8, <2>1, Written DEF Asked
  <2>3. inbox'[s] = <<>>
    BY <1>1, <1>5, <1>8, <2>1 DEF Asked
  <2> QED
    BY <1>1, <1>3, <1>4, <1>8, <2>1, <2>2, <2>3 DEF InStep, Asked, Answering
<1>14. session'[s].last >= session[s].last
  BY <1>4, <1>8 DEF SessionRecords
<1> QED
  BY <1>2, <1>7, <1>9, <1>10, <1>11, <1>12, <1>13, <1>14, OneConnection DEF Connection

\* A session ends without a word: a goodbye, or a connection that breaks.
LEMMA Leaves ==
  ASSUME IInv, NEW s \in Sessions,
         session' = [session EXCEPT ![s] = Close(s)],
         inbox' = [inbox EXCEPT ![s] = <<>>],
         UNCHANGED <<client, assessments, ingested>>,
         outbox' = [outbox EXCEPT ![s] = <<>>] \/ outbox' = outbox,
         s \notin Raw => outbox'[s] = <<>>
  PROVE  IInv'
<1>1. Close(s) \in SessionRecords /\ Close(s).phase = "closed" /\ Close(s).last = session[s].last
  BY Closed
<1>2. <<>> \in Seq(Frames) /\ <<>> \in Seq(Replies)
  BY Short
<1>3. Typed'
  BY <1>1, <1>2 DEF IInv, Typed
<1>4. /\ session'[s] = Close(s) /\ inbox'[s] = <<>> /\ client'[s] = client[s]
      /\ outbox'[s] = <<>> \/ outbox'[s] = outbox[s]
      /\ assessments' = assessments /\ assessments \in Nat
  BY DEF IInv, Typed
<1>5. Only(s)
  BY <1>4 DEF IInv, Typed, Only
<1>6. SentBefore(s)' /\ ViewsCurrent(s)'
  BY <1>4, WireAfterRead, ViewsAfter
<1>7. AssessInHand(s)'
  BY <1>1, <1>4 DEF AssessInHand
<1>8. ASSUME s \notin Raw PROVE InStep(s)'
  BY <1>1, <1>4, <1>8 DEF IInv, Connection, InStep
<1>9. session'[s].last >= session[s].last
  BY <1>1, <1>4 DEF SessionRecords
<1> QED
  BY <1>3, <1>5, <1>6, <1>7, <1>8, <1>9, OneConnection DEF Connection

LEMMA ServeGoodbyeKeeps ==
  ASSUME IInv, NEW s \in Sessions, ServeGoodbye(s)
  PROVE  IInv'
<1>1. /\ session' = [session EXCEPT ![s] = Close(s)] /\ inbox' = [inbox EXCEPT ![s] = <<>>]
      /\ UNCHANGED <<outbox, client, assessments, ingested>>
  BY DEF ServeGoodbye
<1>2. ASSUME s \notin Raw PROVE outbox[s] = <<>>
  <2>1. InStep(s) /\ client[s].phase = "done"
    BY <1>2, Decodes DEF ServeGoodbye, Asked
  <2> QED
    BY <2>1 DEF InStep
<1> QED
  BY <1>1, <1>2, Leaves

LEMMA BreakKeeps ==
  ASSUME IInv, NEW s \in Sessions, Break(s)
  PROVE  IInv'
<1>1. outbox'[s] = <<>>
  BY DEF Break, IInv, Typed
<1> QED
  BY <1>1, Leaves DEF Break

\* A frame that passes the checks of serve and is handled.
LEMMA Handles ==
  ASSUME IInv, NEW s \in Sessions, NEW types, Handling(s, types)
  PROVE  /\ session[s].phase = "established" /\ inbox[s] # <<>> /\ Decoding(s)
         /\ Head(inbox[s]) \in Frames /\ Head(inbox[s]).type \in types
         /\ Head(inbox[s]).sequence > session[s].last /\ Head(inbox[s]).since <= assessments
         /\ inbox' \in [Sessions -> Seq(Frames)] /\ inbox'[s] = Tail(inbox[s])
         /\ \A t \in Sessions \ {s} : inbox'[t] = inbox[t]
<1>1. /\ session[s].phase = "established" /\ inbox[s] # <<>> /\ Decoding(s)
      /\ Head(inbox[s]).type \in types /\ Head(inbox[s]).sequence > session[s].last
      /\ inbox' = [inbox EXCEPT ![s] = Tail(inbox[s])]
  BY DEF Handling, Decoding, Bound
<1>2. /\ Head(inbox[s]) \in Frames /\ Head(inbox[s]).since <= assessments
      /\ Tail(inbox[s]) \in Seq(Frames)
  BY <1>1, FirstFrame
<1> QED
  BY <1>1, <1>2 DEF IInv, Typed

\* For a client it is the request the client waits on, and the only one.
LEMMA HandlesRequest ==
  ASSUME IInv, NEW s \in Sessions \ Raw, NEW types, Handling(s, types), "goodbye" \notin types
  PROVE  /\ InStep(s) /\ client[s].phase \in {"greeting", "waiting"} /\ outbox[s] = <<>>
         /\ Head(inbox[s]).sequence = client[s].sequence /\ inbox'[s] = <<>>
<1>1. Decoding(s) /\ inbox[s] # <<>> /\ Head(inbox[s]).type \in types /\ inbox'[s] = Tail(inbox[s])
  BY Handles
<1>2. Head(inbox[s]) = inbox[s][1] /\ (Len(inbox[s]) = 1 => Tail(inbox[s]) = <<>>)
  BY <1>1, FirstFrame
<1>3. InStep(s) /\ client[s].phase \in {"greeting", "waiting"} /\ Asked(s)
  BY <1>1, <1>2, Decodes DEF Farewell
<1> QED
  BY <1>1, <1>2, <1>3 DEF Asked

\* A frame in hand is answered: the effect on everything but the wire it came
\* from and what was executed.
LEMMA Answers ==
  ASSUME IInv, NEW s \in Sessions, NEW f \in Frames, NEW view \in Nat, Answer(s, f, view),
         f.sequence > session[s].last,
         f.type = "query" => view >= f.since, f.type = "assess" => view > f.since
  PROVE  /\ session' \in [Sessions -> SessionRecords] /\ outbox' \in [Sessions -> Seq(Replies)]
         /\ session'[s].phase = "established" /\ session'[s].last = f.sequence
         /\ session'[s].last >= session[s].last
         /\ \A t \in Sessions \ {s} : session'[t] = session[t] /\ outbox'[t] = outbox[t]
         /\ ViewsCurrent(s)' /\ AssessInHand(s)'
         /\ outbox[s] = <<>> => Len(outbox'[s]) = 1 /\ outbox'[s][1].sequence = f.sequence
<1> DEFINE r == Reply("answer", f, view)
           n == [session[s] EXCEPT !.phase = "established", !.last = f.sequence, !.frame = <<>>]
<1>1. r \in Replies /\ r.sequence = f.sequence /\ Current(r)
  BY ReplyTyped DEF ReplyTypes, Current
<1>2. session' = [session EXCEPT ![s] = n] /\ outbox' = [outbox EXCEPT ![s] = Append(@, r)]
  BY DEF Answer
<1> HIDE DEF r
<1>3. session[s] \in SessionRecords /\ f.sequence \in Nat /\ outbox[s] \in Seq(Replies)
  BY DEF IInv, Typed, Frames
<1>4. <<>> \in Seq(Frames) /\ Append(outbox[s], r) \in Seq(Replies)
  BY <1>1, <1>3, Short, Written
<1>5. n \in SessionRecords
  BY <1>3, <1>4, SessionChanged DEF SessionPhases
<1>6. n.phase = "established" /\ n.last = f.sequence
  BY <1>3 DEF SessionRecords
<1> HIDE DEF n
<1>7. session' \in [Sessions -> SessionRecords] /\ outbox' \in [Sessions -> Seq(Replies)]
  BY <1>2, <1>4, <1>5 DEF IInv, Typed
<1>8. /\ session'[s] = n /\ outbox'[s] = Append(outbox[s], r)
      /\ \A t \in Sessions \ {s} : session'[t] = session[t] /\ outbox'[t] = outbox[t]
  BY <1>2 DEF IInv, Typed
<1>9. ViewsCurrent(s)'
  BY <1>1, <1>8, ViewsAfter
<1>10. AssessInHand(s)'
  BY <1>6, <1>8 DEF AssessInHand
<1>11. outbox[s] = <<>> => Len(outbox'[s]) = 1 /\ outbox'[s][1] = r
  BY <1>1, <1>3, <1>8, Written
<1>12. n.last >= session[s].last
  BY <1>3, <1>6 DEF SessionRecords
<1> QED
  BY <1>1, <1>6, <1>7, <1>8, <1>9, <1>10, <1>11, <1>12

\* serve abandons the session over an answer that does not fit a frame.
LEMMA Abandons ==
  ASSUME IInv, NEW s \in Sessions, Abandon(s)
  PROVE  /\ session' \in [Sessions -> SessionRecords] /\ outbox' = outbox
         /\ session'[s].phase = "abandoned" /\ session'[s].last = session[s].last
         /\ \A t \in Sessions \ {s} : session'[t] = session[t]
         /\ ViewsCurrent(s)' /\ AssessInHand(s)'
<1> DEFINE n == [session[s] EXCEPT !.phase = "abandoned", !.frame = <<>>]
<1>1. session' = [session EXCEPT ![s] = n] /\ outbox' = outbox
  BY DEF Abandon
<1>2. session[s] \in SessionRecords /\ session[s].last \in Nat
  BY DEF IInv, Typed, SessionRecords
<1>3. <<>> \in Seq(Frames)
  BY Short
<1>4. n \in SessionRecords
  BY <1>2, <1>3, SessionChanged DEF SessionPhases
<1>5. n.phase = "abandoned" /\ n.last = session[s].last
  BY <1>2 DEF SessionRecords
<1> HIDE DEF n
<1>6. /\ session' \in [Sessions -> SessionRecords] /\ session'[s] = n
      /\ \A t \in Sessions \ {s} : session'[t] = session[t]
  BY <1>1, <1>4 DEF IInv, Typed
<1>7. ViewsCurrent(s)'
  BY <1>1, ViewsAfter
<1>8. AssessInHand(s)'
  BY <1>5, <1>6 DEF AssessInHand
<1> QED
  BY <1>1, <1>5, <1>6, <1>7, <1>8

\* An operation that is one call of the runtime, or a query, and its answer.
LEMMA AnswerKeeps ==
  ASSUME IInv, NEW s \in Sessions, NEW types, Handling(s, types), "goodbye" \notin types,
         assessments' \in {assessments, assessments + 1}, client' = client,
         ingested' \in Seq(Executions), NEW view \in Nat,
         Answer(s, Head(inbox[s]), view),
         Head(inbox[s]).type = "query" => view >= Head(inbox[s]).since,
         "assess" \notin types
  PROVE  /\ Typed' /\ Only(s) /\ Connection(s)'
         /\ session'[s].last = Head(inbox[s]).sequence /\ session'[s].last >= session[s].last
<1> DEFINE f == Head(inbox[s])
<1>1. /\ session[s].phase = "established" /\ inbox[s] # <<>>
      /\ f \in Frames /\ f.type \in types /\ f.sequence > session[s].last
      /\ inbox' \in [Sessions -> Seq(Frames)] /\ inbox'[s] = Tail(inbox[s])
      /\ \A t \in Sessions \ {s} : inbox'[t] = inbox[t]
  BY Handles
<1>2. assessments \in Nat /\ assessments' \in Nat /\ assessments' >= assessments
  BY DEF IInv, Typed
<1>3. /\ session' \in [Sessions -> SessionRecords] /\ outbox' \in [Sessions -> Seq(Replies)]
      /\ session'[s].phase = "established" /\ session'[s].last = f.sequence
      /\ session'[s].last >= session[s].last
      /\ \A t \in Sessions \ {s} : session'[t] = session[t] /\ outbox'[t] = outbox[t]
      /\ ViewsCurrent(s)' /\ AssessInHand(s)'
      /\ outbox[s] = <<>> => Len(outbox'[s]) = 1 /\ outbox'[s][1].sequence = f.sequence
  <2>1. f.type # "assess"
    BY <1>1
  <2> HIDE DEF f
  <2> QED
    BY <1>1, <2>1, Answers DEF f
<1>4. Typed'
  BY <1>1, <1>2, <1>3 DEF IInv, Typed
<1>5. Only(s)
  BY <1>1, <1>2, <1>3 DEF Only
<1>6. SentBefore(s)'
  BY <1>1, <1>2, WireAfterRead
<1>7. ASSUME s \notin Raw PROVE InStep(s)'
  <2>1. /\ InStep(s) /\ client[s].phase \in {"greeting", "waiting"} /\ outbox[s] = <<>>
        /\ f.sequence = client[s].sequence /\ inbox'[s] = <<>>
    BY <1>7, HandlesRequest
  <2>2. client[s].sequence \in Nat
    BY DEF IInv, Typed, ClientRecords
  <2> HIDE DEF f
  <2> QED
    BY <1>3, <2>1, <2>2 DEF InStep, Answering
<1> QED
  BY <1>3, <1>4, <1>5, <1>6, <1>7 DEF Connection

LEMMA ServeOperationKeeps ==
  ASSUME IInv, NEW s \in Sessions, ServeOperation(s)
  PROVE  IInv'
<1>1. Handling(s, {"operate"}) /\ Head(inbox[s]).type = "operate"
  BY Handles DEF ServeOperation
<1>2. ingested' = ingested /\ ingested' \in Seq(Executions) /\ client' = client
  BY DEF ServeOperation, IInv, Typed
<1>3. /\ Typed' /\ Only(s) /\ Connection(s)' /\ session'[s].last >= session[s].last
  BY <1>1, <1>2, AnswerKeeps DEF ServeOperation
<1> QED
  BY <1>2, <1>3, OneConnection

\* A bundle is handed to the runtime: its sequence is above every one its
\* session has had executed.
LEMMA ServePublishKeeps ==
  ASSUME IInv, NEW s \in Sessions, ServePublish(s)
  PROVE  IInv'
<1> DEFINE f == Head(inbox[s])
           x == [session |-> s, sequence |-> f.sequence]
<1>1. Handling(s, {"publish"}) /\ f.type = "publish" /\ f \in Frames /\ f.sequence > session[s].last
  BY Handles DEF ServePublish
<1>2. x \in Executions /\ x.session = s /\ x.sequence = f.sequence /\ f.sequence \in Nat
  BY <1>1 DEF Executions, Frames
<1>3. ingested' = Append(ingested, x) /\ client' = client /\ assessments' = assessments
  BY DEF ServePublish
<1>4. ingested \in Seq(Executions)
  BY DEF IInv, Typed
<1>5. Answer(s, f, 0)
  BY DEF ServePublish
<1> HIDE DEF x
<1>6. /\ ingested' \in Seq(Executions)
      /\ Len(ingested') = Len(ingested) + 1 /\ Len(ingested) \in Nat
      /\ \A i \in 1..Len(ingested) : ingested'[i] = ingested[i]
      /\ ingested'[Len(ingested) + 1] = x
  BY <1>2, <1>3, <1>4, Written
<1>7. /\ Typed' /\ Only(s) /\ Connection(s)'
      /\ session'[s].last = f.sequence /\ session'[s].last >= session[s].last
  BY <1>1, <1>3, <1>5, <1>6, AnswerKeeps
<1> HIDE DEF f
<1>8. ASSUME NEW i \in 1..Len(ingested)
      PROVE  /\ ingested[i].session \in Sessions /\ ingested[i].sequence \in Nat
             /\ ingested[i].sequence <= session[ingested[i].session].last
             /\ ingested[i].sequence <= session'[ingested[i].session].last
  <2>1. ingested[i] \in Executions
    BY <1>4, Element
  <2>2. ingested[i].session \in Sessions /\ ingested[i].sequence \in Nat
    BY <2>1 DEF Executions
  <2>3. session[ingested[i].session].last \in Nat /\ session'[ingested[i].session].last \in Nat
    BY <1>7, <2>2 DEF IInv, Typed, SessionRecords
  <2>4. ingested[i].sequence <= session[ingested[i].session].last
    BY DEF IInv, Covered
  <2>5. session[ingested[i].session].last <= session'[ingested[i].session].last
    BY <1>7, <2>2, <2>3 DEF Only
  <2> QED
    BY <2>2, <2>3, <2>4, <2>5
<1>9. \A i \in 1..Len(ingested') : i \in 1..Len(ingested) \/ i = Len(ingested) + 1
  BY <1>6
<1>10. Covered'
  BY <1>2, <1>6, <1>7, <1>8, <1>9 DEF Covered
<1>11. ExecutedOnce'
  <2> SUFFICES ASSUME NEW i \in 1..Len(ingested'), NEW j \in 1..Len(ingested'), i < j,
                      ingested'[i].session = ingested'[j].session
               PROVE  ingested'[i].sequence < ingested'[j].sequence
    BY <1>6 DEF ExecutedOnce
  <2>1. i \in 1..Len(ingested)
    BY <1>6
  <2>2. CASE j \in 1..Len(ingested)
    BY <1>4, <1>6, <2>1, <2>2 DEF IInv, ExecutedOnce
  <2>3. CASE j = Len(ingested) + 1
    <3>1. session[s].last \in Nat
      BY DEF IInv, Typed, SessionRecords
    <3>2. ingested[i].session = s /\ ingested'[j].sequence = f.sequence
      BY <1>2, <1>6, <2>1, <2>3
    <3> QED
      BY <1>1, <1>2, <1>6, <1>8, <2>1, <3>1, <3>2
  <2> QED
    BY <1>9, <2>2, <2>3
<1>12. \A t \in Sessions : Connection(t)'
  BY <1>7, Untouched
<1> QED
  BY <1>7, <1>10, <1>11, <1>12 DEF IInv

\* A query is answered from the present, or abandoned.
LEMMA ServeQueryKeeps ==
  ASSUME IInv, NEW s \in Sessions, ServeQuery(s)
  PROVE  IInv'
<1> DEFINE f == Head(inbox[s])
<1>1. /\ Handling(s, {"query"}) /\ f.type = "query" /\ f.since <= assessments
      /\ inbox[s] # <<>>
      /\ inbox' \in [Sessions -> Seq(Frames)] /\ inbox'[s] = Tail(inbox[s])
      /\ \A t \in Sessions \ {s} : inbox'[t] = inbox[t]
  BY Handles DEF ServeQuery
<1>2. /\ ingested' = ingested /\ ingested' \in Seq(Executions) /\ client' = client
      /\ assessments' = assessments /\ assessments \in Nat
  BY DEF ServeQuery, IInv, Typed
<1>3. CASE Answer(s, f, assessments)
  <2>1. assessments >= f.since
    <3>1. f.since \in Nat
      BY <1>1, FirstFrame
    <3> QED
      BY <1>1, <1>2, <3>1
  <2>2. /\ Typed' /\ Only(s) /\ Connection(s)' /\ session'[s].last >= session[s].last
    BY <1>1, <1>2, <1>3, <2>1, AnswerKeeps
  <2> QED
    BY <1>2, <2>2, OneConnection
<1>4. CASE Abandon(s)
  <2>1. /\ session' \in [Sessions -> SessionRecords] /\ outbox' = outbox
        /\ session'[s].phase = "abandoned" /\ session'[s].last = session[s].last
        /\ \A t \in Sessions \ {s} : session'[t] = session[t]
        /\ ViewsCurrent(s)' /\ AssessInHand(s)'
    BY <1>4, Abandons
  <2>2. Typed'
    BY <1>1, <1>2, <2>1 DEF IInv, Typed
  <2>3. Only(s)
    BY <1>1, <1>2, <2>1 DEF Only
  <2>4. SentBefore(s)'
    BY <1>1, <1>2, WireAfterRead
  <2>5. ASSUME s \notin Raw PROVE InStep(s)'
    <3>1. /\ InStep(s) /\ client[s].phase \in {"greeting", "waiting"} /\ outbox[s] = <<>>
          /\ inbox'[s] = <<>>
      BY <1>1, <2>5, HandlesRequest
    <3> QED
      BY <1>2, <2>1, <3>1 DEF InStep
  <2>6. session'[s].last >= session[s].last
    BY <2>1 DEF IInv, Typed, SessionRecords
  <2> QED
    BY <1>2, <2>1, <2>2, <2>3, <2>4, <2>5, <2>6, OneConnection DEF Connection
<1> QED
  BY <1>3, <1>4 DEF ServeQuery

\* The assessment of an Assess: the frame stays in hand.
LEMMA ServeAssessKeeps ==
  ASSUME IInv, NEW s \in Sessions, ServeAssess(s)
  PROVE  IInv'
<1> DEFINE f == Head(inbox[s])
           n == [session[s] EXCEPT !.phase = "assessed", !.frame = <<f>>]
<1>1. /\ Handling(s, {"assess"}) /\ f.type = "assess" /\ f \in Frames
      /\ f.sequence > session[s].last /\ f.since <= assessments /\ inbox[s] # <<>>
      /\ inbox' \in [Sessions -> Seq(Frames)] /\ inbox'[s] = Tail(inbox[s])
      /\ \A t \in Sessions \ {s} : inbox'[t] = inbox[t]
  BY Handles DEF ServeAssess
<1>2. /\ session' = [session EXCEPT ![s] = n] /\ assessments' = assessments + 1
      /\ UNCHANGED <<outbox, client, ingested>>
  BY DEF ServeAssess
<1>3. session[s] \in SessionRecords /\ assessments \in Nat
  BY DEF IInv, Typed
<1>4. f.sequence \in Nat /\ f.since \in Nat
  BY <1>1, FirstFrame
<1> HIDE DEF f
<1>5. <<f>> \in Seq(Frames) /\ Len(<<f>>) = 1 /\ <<f>>[1] = f
  BY <1>1, Short
<1>6. n \in SessionRecords
  BY ZenonT(30), <1>3, <1>5, SessionChanged DEF SessionPhases, SessionRecords
<1>7. n.phase = "assessed" /\ n.last = session[s].last /\ n.frame = <<f>>
  BY <1>3 DEF SessionRecords
<1> HIDE DEF n
<1>8. session' \in [Sessions -> SessionRecords] /\ session'[s] = n
      /\ \A t \in Sessions \ {s} : session'[t] = session[t]
  BY <1>2, <1>6 DEF IInv, Typed
<1>9. Typed'
  BY <1>1, <1>2, <1>3, <1>8 DEF IInv, Typed
<1>10. assessments' \in Nat /\ assessments' >= assessments /\ f.since < assessments'
  BY <1>1, <1>2, <1>3, <1>4
<1>11. Only(s)
  BY <1>1, <1>2, <1>8, <1>10 DEF Only
<1>12. SentBefore(s)' /\ ViewsCurrent(s)'
  BY <1>1, <1>2, <1>10, WireAfterRead, ViewsAfter
<1>13. AssessInHand(s)'
  BY <1>1, <1>5, <1>7, <1>8, <1>10 DEF AssessInHand
<1>14. ASSUME s \notin Raw PROVE InStep(s)'
  <2>1. /\ InStep(s) /\ client[s].phase \in {"greeting", "waiting"} /\ outbox[s] = <<>>
        /\ f.sequence = client[s].sequence /\ inbox'[s] = <<>>
    BY <1>1, <1>14, HandlesRequest DEF f
  <2> QED
    BY <1>2, <1>5, <1>7, <1>8, <2>1 DEF InStep
<1>15. session'[s].last >= session[s].last
  BY <1>3, <1>7, <1>8 DEF SessionRecords
<1> QED
  BY <1>2, <1>9, <1>11, <1>12, <1>13, <1>14, <1>15, OneConnection DEF Connection

\* The view an Assess is answered with, or its abandonment.
LEMMA ViewAssessmentKeeps ==
  ASSUME IInv, NEW s \in Sessions, ViewAssessment(s)
  PROVE  IInv'
<1> DEFINE f == Head(session[s].frame)
<1>1. /\ session[s].phase = "assessed" /\ session[s].frame \in Seq(Frames)
      /\ UNCHANGED <<inbox, client, assessments, ingested>>
  BY DEF ViewAssessment, IInv, Typed, SessionRecords
<1>2. AssessInHand(s) /\ assessments \in Nat
  BY DEF IInv, Connection, Typed
<1>3. Len(session[s].frame) = 1 /\ session[s].frame # <<>>
  BY <1>1, <1>2, Short DEF AssessInHand
<1>4. f \in Frames /\ f = session[s].frame[1]
  BY <1>1, <1>3, Decoded
<1> HIDE DEF f
<1>5. f.type = "assess" /\ f.sequence > session[s].last /\ f.since < assessments
  BY <1>1, <1>2, <1>4 DEF AssessInHand
<1>6. ASSUME s \notin Raw
      PROVE  /\ InStep(s) /\ client[s].phase \in {"greeting", "waiting"}
             /\ inbox[s] = <<>> /\ outbox[s] = <<>> /\ f.sequence = client[s].sequence
  <2>1. InStep(s) /\ client[s].phase \in ClientPhases
    BY <1>6 DEF IInv, Connection, Typed, ClientRecords
  <2> QED
    BY <1>1, <1>4, <2>1 DEF InStep, ClientPhases
<1>7. SentBefore(s)'
  BY <1>1, <1>2, WireAfterRead
<1>8. CASE Answer(s, f, assessments)
  <2>1. /\ session' \in [Sessions -> SessionRecords] /\ outbox' \in [Sessions -> Seq(Replies)]
        /\ session'[s].phase = "established" /\ session'[s].last = f.sequence
        /\ session'[s].last >= session[s].last
        /\ \A t \in Sessions \ {s} : session'[t] = session[t] /\ outbox'[t] = outbox[t]
        /\ ViewsCurrent(s)' /\ AssessInHand(s)'
        /\ outbox[s] = <<>> => Len(outbox'[s]) = 1 /\ outbox'[s][1].sequence = f.sequence
    <3>1. f.since \in Nat
      BY <1>4 DEF Frames
    <3>2. assessments > f.since /\ f.type # "query"
      BY <1>2, <1>5, <3>1
    <3> QED
      BY <1>2, <1>4, <1>5, <1>8, <3>2, Answers
  <2>2. Typed'
    BY <1>1, <2>1 DEF IInv, Typed
  <2>3. Only(s)
    BY <1>1, <1>2, <2>1 DEF Only
  <2>4. ASSUME s \notin Raw PROVE InStep(s)'
    <3>1. client[s].sequence \in Nat
      BY DEF IInv, Typed, ClientRecords
    <3> QED
      BY <1>1, <1>6, <2>1, <2>4, <3>1 DEF InStep, Answering
  <2> QED
    BY <1>1, <1>7, <2>1, <2>2, <2>3, <2>4, OneConnection DEF Connection
<1>9. CASE Abandon(s)
  <2>1. /\ session' \in [Sessions -> SessionRecords] /\ outbox' = outbox
        /\ session'[s].phase = "abandoned" /\ session'[s].last = session[s].last
        /\ \A t \in Sessions \ {s} : session'[t] = session[t]
        /\ ViewsCurrent(s)' /\ AssessInHand(s)'
    BY <1>9, Abandons
  <2>2. Typed'
    BY <1>1, <2>1 DEF IInv, Typed
  <2>3. Only(s)
    BY <1>1, <1>2, <2>1 DEF Only
  <2>4. ASSUME s \notin Raw PROVE InStep(s)'
    BY <1>1, <1>6, <2>1, <2>4 DEF InStep
  <2>5. session'[s].last >= session[s].last
    BY <2>1 DEF IInv, Typed, SessionRecords
  <2> QED
    BY <1>1, <1>7, <2>1, <2>2, <2>3, <2>4, <2>5, OneConnection DEF Connection
<1> QED
  BY <1>8, <1>9 DEF ViewAssessment, f

-----------------------------------------------------------------------------
(* The invariant and what follows from it.                                 *)

LEMMA InitIInv == Init => IInv
<1> SUFFICES ASSUME Init PROVE IInv
  OBVIOUS
<1>1. <<>> \in Seq(Frames) /\ <<>> \in Seq(Replies) /\ <<>> \in Seq(Executions) /\ Len(<<>>) = 0
  BY Short
<1>2. /\ [phase |-> "new", last |-> 0, frame |-> <<>>] \in SessionRecords
      /\ [phase |-> "off", sequence |-> 0, handle |-> Nobody] \in ClientRecords
  BY <1>1 DEF SessionRecords, ClientRecords, SessionPhases, ClientPhases
<1>3. Typed
  BY <1>1, <1>2 DEF Init, Typed
<1>4. ASSUME NEW s \in Sessions PROVE Connection(s)
  BY <1>1 DEF Init, Connection, AssessInHand, SentBefore, ViewsCurrent, InStep
<1>5. Covered /\ ExecutedOnce
  BY <1>1 DEF Init, Covered, ExecutedOnce
<1> QED
  BY <1>3, <1>4, <1>5 DEF IInv

LEMMA StepIInv == IInv /\ [Next]_vars => IInv'
<1> SUFFICES ASSUME IInv, [Next]_vars PROVE IInv'
  OBVIOUS
<1>1. CASE UNCHANGED vars
  <2>1. \A s \in Sessions : Connection(s)'
    BY <1>1 DEF IInv, vars, Connection, AssessInHand, SentBefore, ViewsCurrent, Current,
       InStep, Asked, Answering, Farewell, Bound
  <2> QED
    BY <1>1, <2>1 DEF IInv, vars, Typed, Covered, ExecutedOnce
<1>2. ASSUME NEW s \in Sessions, ServeStep(s) PROVE IInv'
  BY <1>2, ServeHelloKeeps, RefusalsKeep, ServeGoodbyeKeeps, ServePublishKeeps,
     ServeOperationKeeps, ServeQueryKeeps, ServeAssessKeeps, ViewAssessmentKeeps
     DEF ServeStep
<1>3. ASSUME NEW s \in Sessions, ReadStep(s) \/ Break(s) \/ CloseClient(s) \/ ReadRaw(s)
      PROVE  IInv'
  BY <1>3, ReceiveKeeps, ReceiveNothingKeeps, BreakKeeps, CloseClientKeeps, ReadRawKeeps
     DEF ReadStep
<1> QED
  BY <1>1, <1>2, <1>3, ConnectClientKeeps, SendRequestKeeps, SendRawKeeps DEF Next

LEMMA Invariance == Spec => []IInv
  BY InitIInv, StepIInv, PTL DEF Spec

\* Request and response of PartitionClient never get out of step, although the
\* response header names nothing of the request: for any number of concurrent
\* sessions and peers that ignore the protocol.
THEOREM RepliesMatch == Spec => []ReplyAnswersRequest
<1>1. ASSUME IInv PROVE ReplyAnswersRequest
  <2> SUFFICES ASSUME NEW s \in Sessions \ Raw, NEW i \in DOMAIN outbox[s]
               PROVE  /\ i = 1 /\ client[s].phase \in {"greeting", "waiting"}
                      /\ outbox[s][i].sequence = client[s].sequence
    BY DEF ReplyAnswersRequest
  <2>1. InStep(s) /\ outbox[s] \in Seq(Replies) /\ client[s].phase \in ClientPhases
    BY <1>1 DEF IInv, Connection, Typed, ClientRecords
  <2>2. i \in 1..Len(outbox[s]) /\ outbox[s] # <<>>
    BY <2>1
  <2>3. client[s].phase \in {"greeting", "waiting"} /\ Answering(s)
    BY <2>1, <2>2 DEF InStep, ClientPhases, Asked
  <2> QED
    BY <2>2, <2>3 DEF Answering
<1> QED
  BY <1>1, Invariance, PTL

\* The view a client is sent is never older than its request, whatever the other
\* sessions make the runtime do between the calls of one handler.
THEOREM ViewsNeverStale == Spec => []ViewsAreCurrent
<1>1. ASSUME IInv PROVE ViewsAreCurrent
  <2>1. \A s \in Sessions : DOMAIN outbox[s] = 1..Len(outbox[s]) /\ ViewsCurrent(s)
    BY <1>1 DEF IInv, Connection, Typed
  <2> QED
    BY <2>1 DEF ViewsAreCurrent, ViewsCurrent, Current
<1> QED
  BY <1>1, Invariance, PTL

\* last_sequence makes the execution of a session's bundles a strictly advancing
\* one, whatever a peer repeats or pipelines.
THEOREM NothingExecutedTwice == Spec => []ExecutedOnce
  BY Invariance, PTL DEF IInv
=============================================================================
