--------------------------- MODULE SessionProtocol ---------------------------
(***************************************************************************)
(* What a connection carries: PartitionClient's request/response exchange, *)
(* the server's serve loop with its handshake and its binding checks, and  *)
(* the handlers' calls of the one shared runtime, each of which takes the  *)
(* runtime's lock by itself.  A connection is an ordered pair of streams   *)
(* that may break.  Peers in Raw speak the protocol without the client's   *)
(* discipline: they pipeline frames and put any value in a header.         *)
(***************************************************************************)
EXTENDS Naturals, Sequences, FiniteSets

CONSTANTS
  Sessions,        \* connections; a session's handle is its own name
  Raw,             \* the connections not driven by a PartitionClient
  Nobody,          \* the zero handle, which no session has
  MaxSequence,     \* bound on frame sequences
  MaxInFlight      \* bound on the frames in transit from and to a raw peer

ASSUME SessionAssumption ==
  /\ Raw \subseteq Sessions
  /\ Nobody \notin Sessions
  /\ MaxSequence \in Nat /\ MaxInFlight \in Nat

VARIABLES
  session,      \* the server's record of each session, and its thread's place
  inbox,        \* the frames the peer has sent and serve has not decoded
  outbox,       \* the frames serve has sent and the peer has not read
  client,       \* each peer's side of the connection
  assessments,  \* how often the runtime has assessed; each time, and when it
                \* refuses to, it replaces the assessment a view is made from
  ingested      \* the bundles handed to the runtime, and by which session

vars == <<session, inbox, outbox, client, assessments, ingested>>

\* One frame for each class of MessageType the server tells apart; "operate"
\* stands for the operations, "query" for the reads, "junk" for a frame that
\* does not decode or whose payload does not.
Requests == {"publish", "assess", "operate", "query", "junk"}
Types == Requests \cup {"hello", "goodbye"}
Epochs == {"zero", "current", "other"}

\* Beside its header a frame keeps, for the properties, the number of assessments
\* made when it was sent.
Frame(type, handle, epoch, sequence) ==
  [type |-> type, handle |-> handle, epoch |-> epoch, sequence |-> sequence,
   since |-> assessments]

Reply(type, frame, view) ==
  [type |-> type, of |-> frame.type, sequence |-> frame.sequence,
   since |-> frame.since, view |-> view]

Init ==
  /\ session = [s \in Sessions |-> [phase |-> "new", last |-> 0, frame |-> <<>>]]
  /\ inbox = [s \in Sessions |-> <<>>]
  /\ outbox = [s \in Sessions |-> <<>>]
  /\ client = [s \in Sessions |-> [phase |-> "off", sequence |-> 0, handle |-> Nobody]]
  /\ assessments = 0
  /\ ingested = <<>>

-----------------------------------------------------------------------------
(* PartitionClient.                                                        *)

\* connect: the hello goes out with a zero handle and a zero epoch in its
\* header, and the epoch the caller expects (or zero) in its payload.
ConnectClient(s, expected) ==
  /\ s \notin Raw
  /\ client[s].phase = "off" /\ session[s].phase # "closed"
  /\ inbox' = [inbox EXCEPT ![s] = Append(@, Frame("hello", Nobody, expected, 1))]
  /\ client' = [client EXCEPT ![s] = [@ EXCEPT !.phase = "greeting", !.sequence = 1]]
  /\ UNCHANGED <<session, outbox, assessments, ingested>>

\* exchange: one frame out, then the wait for one frame back.
SendRequest(s, type) ==
  /\ client[s].phase = "ready" /\ client[s].sequence < MaxSequence
  /\ LET n == client[s].sequence + 1
     IN  /\ client' = [client EXCEPT ![s] = [@ EXCEPT !.phase = "waiting", !.sequence = n]]
         /\ inbox' = [inbox EXCEPT ![s] =
                        Append(@, Frame(type, client[s].handle, "current", n))]
  /\ UNCHANGED <<session, outbox, assessments, ingested>>

\* The first complete frame is the answer: nothing correlates it with the
\* request but its place in the stream.
Receive(s) ==
  /\ client[s].phase \in {"greeting", "waiting"} /\ outbox[s] # <<>>
  /\ outbox' = [outbox EXCEPT ![s] = Tail(@)]
  /\ client' = [client EXCEPT ![s] =
                  CASE Head(outbox[s]).type = "welcome" ->
                         [@ EXCEPT !.phase = "ready", !.handle = s]
                    [] @.phase = "waiting" -> [@ EXCEPT !.phase = "ready"]
                    [] OTHER -> [@ EXCEPT !.phase = "done"]]
  /\ UNCHANGED <<session, inbox, assessments, ingested>>

\* The peer closed: a failed handshake closes the socket, a failed request
\* returns an error and leaves the client connected.
ReceiveNothing(s) ==
  /\ client[s].phase \in {"greeting", "waiting"}
  /\ outbox[s] = <<>> /\ session[s].phase = "closed"
  /\ client' = [client EXCEPT ![s].phase = IF @ = "greeting" THEN "done" ELSE "ready"]
  /\ UNCHANGED <<session, inbox, outbox, assessments, ingested>>

CloseClient(s) ==
  /\ client[s].phase = "ready"
  /\ inbox' = [inbox EXCEPT ![s] =
                 Append(@, Frame("goodbye", client[s].handle, "current",
                                 client[s].sequence + 1))]
  /\ client' = [client EXCEPT ![s].phase = "done"]
  /\ UNCHANGED <<session, outbox, assessments, ingested>>

-----------------------------------------------------------------------------
(* A raw peer: it sends what it likes and reads when it likes.             *)

SendRaw(s, frame) ==
  /\ s \in Raw /\ session[s].phase # "closed"
  /\ Len(inbox[s]) + Len(outbox[s]) < MaxInFlight
  /\ inbox' = [inbox EXCEPT ![s] = Append(@, frame)]
  /\ UNCHANGED <<session, outbox, client, assessments, ingested>>

ReadRaw(s) ==
  /\ s \in Raw /\ outbox[s] # <<>>
  /\ outbox' = [outbox EXCEPT ![s] = Tail(@)]
  /\ UNCHANGED <<session, inbox, client, assessments, ingested>>

-----------------------------------------------------------------------------
(* serve.                                                                  *)

\* A session thread is at the head of its loop, with a frame to decode.
Decoding(s) == session[s].phase \in {"new", "established"} /\ inbox[s] # <<>>

Close(s) == [session[s] EXCEPT !.phase = "closed", !.frame = <<>>]

\* fail_session: a PROTOCOL_ERROR frame, the socket shut down, serve returns.
FailSession(s) ==
  /\ session' = [session EXCEPT ![s] = Close(s)]
  /\ inbox' = [inbox EXCEPT ![s] = <<>>]
  /\ outbox' = [outbox EXCEPT ![s] = Append(@, Reply("error", Head(inbox[s]), 0))]
  /\ UNCHANGED <<client, assessments, ingested>>

\* The first frame must be a hello that decodes; the epoch it expects must be
\* zero or the runtime's.
ServeHello(s) ==
  LET f == Head(inbox[s])
      welcome == f.epoch # "other"
  IN  /\ session[s].phase = "new" /\ Decoding(s) /\ f.type = "hello"
      /\ session' = [session EXCEPT ![s] =
                       IF welcome THEN [@ EXCEPT !.phase = "established"] ELSE Close(s)]
      /\ inbox' = [inbox EXCEPT ![s] = IF welcome THEN Tail(@) ELSE <<>>]
      /\ outbox' = [outbox EXCEPT ![s] =
                      Append(@, Reply(IF welcome THEN "welcome" ELSE "refused", f, 0))]
      /\ UNCHANGED <<client, assessments, ingested>>

RefuseFirst(s) ==
  /\ session[s].phase = "new" /\ Decoding(s) /\ Head(inbox[s]).type # "hello"
  /\ FailSession(s)

BoundUnordered(s, f) ==
  /\ f.handle = s
  /\ f.epoch = "current"

\* The checks every later frame passes: handle, epoch, advancing sequence.
Bound(s, f) ==
  /\ f.handle = s
  /\ f.epoch = "current"
  /\ f.sequence > session[s].last

RefuseFrame(s) ==
  /\ session[s].phase = "established" /\ Decoding(s)
  /\ ~Bound(s, Head(inbox[s]))
  /\ FailSession(s)

IgnoreUnsupported(s) ==
  /\ session[s].phase = "established" /\ Decoding(s)
  /\ Bound(s, Head(inbox[s]))
  /\ Head(inbox[s]).type \in {"junk", "hello"}
  /\ inbox' = [inbox EXCEPT ![s] = Tail(@)]
  /\ UNCHANGED <<session, outbox, client, assessments, ingested>>

RefuseAndAnswer(s) ==
  /\ session[s].phase = "established" /\ Decoding(s)
  /\ Bound(s, Head(inbox[s]))
  /\ Head(inbox[s]).type \in {"junk", "hello"}
  /\ inbox' = [inbox EXCEPT ![s] = Tail(@)]
  /\ outbox' = [outbox EXCEPT ![s] = @ \o <<Reply("error", Head(inbox[s]), 0),
                                            Reply("answer", Head(inbox[s]), 0)>>]
  /\ session' = [session EXCEPT ![s].last = Head(inbox[s]).sequence]
  /\ UNCHANGED <<client, assessments, ingested>>

\* A bound frame of a type (or with a payload) that handle_request does not
\* support; the sequence it carried has been accepted.
RefuseUnsupported(s) ==
  /\ session[s].phase = "established" /\ Decoding(s)
  /\ Bound(s, Head(inbox[s]))
  /\ Head(inbox[s]).type \in {"junk", "hello"}
  /\ FailSession(s)

ServeGoodbye(s) ==
  /\ session[s].phase = "established" /\ Decoding(s)
  /\ Bound(s, Head(inbox[s])) /\ Head(inbox[s]).type = "goodbye"
  /\ session' = [session EXCEPT ![s] = Close(s)]
  /\ inbox' = [inbox EXCEPT ![s] = <<>>]
  /\ UNCHANGED <<outbox, client, assessments, ingested>>

\* A frame of the given types reaches handle_request.
Handling(s, types) ==
  /\ session[s].phase = "established" /\ Decoding(s)
  /\ Bound(s, Head(inbox[s])) /\ Head(inbox[s]).type \in types
  /\ inbox' = [inbox EXCEPT ![s] = Tail(@)]

\* The frame is answered and serve goes round.
Answer(s, frame, view) ==
  /\ outbox' = [outbox EXCEPT ![s] = Append(@, Reply("answer", frame, view))]
  /\ session' = [session EXCEPT ![s] = [@ EXCEPT !.phase = "established",
                                                 !.last = frame.sequence, !.frame = <<>>]]

\* The reply is larger than a frame may be: send_frame sends nothing, and serve
\* returns without a word and without shutting the socket down.
Abandon(s) ==
  /\ session' = [session EXCEPT ![s] = [@ EXCEPT !.phase = "abandoned", !.frame = <<>>]]
  /\ UNCHANGED outbox

\* PublishEvidence: the bundle goes to the runtime as the payload has it.
ServePublish(s) ==
  /\ Handling(s, {"publish"})
  /\ Answer(s, Head(inbox[s]), 0)
  /\ ingested' = Append(ingested, [session |-> s, sequence |-> Head(inbox[s]).sequence])
  /\ UNCHANGED <<client, assessments>>

\* The other operations are one call each; some of them assess.
ServeOperation(s) ==
  /\ Handling(s, {"operate"})
  /\ Answer(s, Head(inbox[s]), 0)
  /\ assessments' \in {assessments, assessments + 1}
  /\ UNCHANGED <<client, ingested>>

ServeQuery(s) ==
  /\ Handling(s, {"query"})
  /\ Answer(s, Head(inbox[s]), assessments) \/ Abandon(s)
  /\ UNCHANGED <<client, assessments, ingested>>

AssessLater(s) ==
  /\ Handling(s, {"assess"})
  /\ session' = [session EXCEPT ![s] = [@ EXCEPT !.phase = "assessed",
                                                 !.frame = <<Head(inbox[s])>>]]
  /\ UNCHANGED <<outbox, client, assessments, ingested>>

\* Assess is several calls: the assessment, whose result is discarded ...
ServeAssess(s) ==
  /\ Handling(s, {"assess"})
  /\ assessments' = assessments + 1
  /\ session' = [session EXCEPT ![s] = [@ EXCEPT !.phase = "assessed",
                                                 !.frame = <<Head(inbox[s])>>]]
  /\ UNCHANGED <<outbox, client, ingested>>

\* ... and the reads of last_assessment and status, whose epoch and boot never
\* change, that make the view.
ViewAssessment(s) ==
  /\ session[s].phase = "assessed"
  /\ Answer(s, Head(session[s].frame), assessments) \/ Abandon(s)
  /\ UNCHANGED <<inbox, client, assessments, ingested>>

\* The connection breaks, or stop() or a reaper shuts it down: serve returns if
\* it had not, and what was on the wire is lost.
Break(s) ==
  /\ session[s].phase \in {"new", "established", "abandoned"}
  /\ session' = [session EXCEPT ![s] = Close(s)]
  /\ inbox' = [inbox EXCEPT ![s] = <<>>]
  /\ outbox' = [outbox EXCEPT ![s] = <<>>]
  /\ UNCHANGED <<client, assessments, ingested>>

-----------------------------------------------------------------------------
\* A hello, a request of any sequence, or a request whose header is wrong in
\* one field.
RawFrames(s) ==
  {Frame("hello", Nobody, e, 1) : e \in {"current", "other"}}
    \cup {Frame(t, s, "current", n) : t \in {"assess", "publish"}, n \in 1..MaxSequence}
    \cup {Frame("publish", Nobody, "current", 1), Frame("publish", s, "other", 1)}

ServeStep(s) ==
  \/ ServeHello(s) \/ RefuseFirst(s) \/ RefuseFrame(s) \/ RefuseUnsupported(s)
  \/ ServeGoodbye(s) \/ ServePublish(s) \/ ServeOperation(s) \/ ServeQuery(s)
  \/ ServeAssess(s) \/ ViewAssessment(s)

ReadStep(s) == Receive(s) \/ ReceiveNothing(s)

Next ==
  \E s \in Sessions :
    \/ ServeStep(s) \/ ReadStep(s) \/ Break(s) \/ CloseClient(s) \/ ReadRaw(s)
    \/ \E e \in Epochs : ConnectClient(s, e)
    \/ \E t \in Requests : SendRequest(s, t)
    \/ \E f \in RawFrames(s) : SendRaw(s, f)

Spec == Init /\ [][Next]_vars

\* A session thread with a frame to decode decodes it, and a client blocked in
\* recv returns once there is a frame or the connection is gone.
FairSpec ==
  /\ Spec
  /\ \A s \in Sessions : WF_vars(ServeStep(s)) /\ WF_vars(ReadStep(s))

-----------------------------------------------------------------------------
(* Properties.                                                             *)

\* The state of every connection has its type.
TypeOK ==
  /\ \A s \in Sessions :
       /\ session[s].phase \in {"new", "established", "assessed", "abandoned", "closed"}
       /\ session[s].last \in 0..MaxSequence
       /\ Len(session[s].frame) = (IF session[s].phase = "assessed" THEN 1 ELSE 0)
       /\ \A i \in DOMAIN inbox[s] : inbox[s][i].type \in Types
       /\ \A i \in DOMAIN outbox[s] :
            outbox[s][i].type \in {"welcome", "refused", "answer", "error"}
       /\ client[s].phase \in {"off", "greeting", "ready", "waiting", "done"}
       /\ client[s].sequence \in 0..MaxSequence
  /\ assessments \in Nat
  /\ \A i \in DOMAIN ingested : ingested[i].session \in Sessions

\* The response header carries nothing that names the request, yet a client
\* never has an answer to anything but the request it is waiting for: exchange
\* and serve keep the two streams in step.
ReplyAnswersRequest ==
  \A s \in Sessions \ Raw : \A i \in DOMAIN outbox[s] :
    /\ i = 1
    /\ client[s].phase \in {"greeting", "waiting"}
    /\ outbox[s][i].sequence = client[s].sequence

\* A view sent to a client is never older than the state its request was sent
\* in, and the view an Assess returns includes an assessment made after that,
\* whatever other sessions do between the handler's calls (handle_request).
ViewsAreCurrent ==
  \A s \in Sessions : \A i \in DOMAIN outbox[s] :
    LET r == outbox[s][i]
    IN  /\ r.type = "answer" /\ r.of = "query" => r.view >= r.since
        /\ r.type = "answer" /\ r.of = "assess" => r.view > r.since

\* No frame a peer repeats or pipelines is executed twice, or out of order,
\* within its session (serve's check of last_sequence).
ExecutedOnce ==
  \A i, j \in DOMAIN ingested :
    i < j /\ ingested[i].session = ingested[j].session
      => ingested[i].sequence < ingested[j].sequence

\* A client's exchange returns: its request is answered, refused or fails,
\* unless serve abandoned the session over a reply that does not fit a frame
\* (exchange and serve; the client has no timeout of its own).
ExchangeReturns ==
  \A s \in Sessions \ Raw :
    client[s].phase \in {"greeting", "waiting"} ~>
      \/ client[s].phase \in {"ready", "done"}
      \/ session[s].phase = "abandoned"

\* Without that exception: every exchange returns (exchange and serve).
EveryExchangeReturns ==
  \A s \in Sessions \ Raw :
    client[s].phase \in {"greeting", "waiting"} ~> client[s].phase \in {"ready", "done"}
=============================================================================
