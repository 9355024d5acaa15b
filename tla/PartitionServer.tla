--------------------------- MODULE PartitionServer ---------------------------
(***************************************************************************)
(* The threads of PartitionServer (service.cpp): the acceptor that admits  *)
(* connections and reaps finished sessions, one thread for each session,   *)
(* and the threads that call stop().  active_sessions is read and written  *)
(* by the acceptor in two separate atomic operations while the session     *)
(* threads decrement it.  What a session says on its socket is the subject *)
(* of SessionProtocol; here serve() simply returns.                        *)
(***************************************************************************)
EXTENDS Naturals, FiniteSets

CONSTANTS
  Connections,   \* the connections peers make
  Stoppers,      \* the threads that call stop()
  Acceptor,      \* the acceptor thread
  MaxSessions    \* limits.max_sessions

ASSUME ServerAssumption ==
  /\ MaxSessions \in Nat \ {0}
  /\ Acceptor \notin Stoppers

VARIABLES
  ordered,       \* whether a thread that sees a decrement sees the store before it
  started,       \* the flag started
  stopping,      \* the flag stopping
  at,            \* where the acceptor and each caller of stop() is
  backlog,       \* connections the listener holds and nobody has accepted
  fresh,         \* the connection the acceptor is admitting, or none: a set
  loaded,        \* the value of active_sessions the acceptor has read
  active,        \* the counter active_sessions
  thread,        \* how far the thread of each session has come
  table,         \* the connections whose session is in the vector sessions
  reclaimed,     \* the sessions each reaper has taken out and has yet to join
  shut,          \* the connections whose socket the server has shut down
  closed         \* the connections whose descriptor the server has closed

admission == <<backlog, fresh, loaded>>
flags == <<ordered, started, stopping>>
sockets == <<shut, closed>>
vars == <<flags, at, admission, active, thread, table, reclaimed, sockets>>

Reapers == Stoppers \cup {Acceptor}
Live == {c \in Connections : thread[c] \in {"serving", "returned", "finished"}}
Ended == {c \in Connections : thread[c] = "ended"}
Goto(r, place) == at' = [at EXCEPT ![r] = place]

Init ==
  /\ ordered \in BOOLEAN
  /\ started = FALSE /\ stopping = FALSE
  /\ at = [r \in Reapers |-> IF r = Acceptor THEN "none" ELSE "out"]
  /\ backlog = {} /\ fresh = {} /\ loaded = 0 /\ active = 0
  /\ thread = [c \in Connections |-> "none"]
  /\ table = {} /\ reclaimed = [r \in Reapers |-> {}]
  /\ shut = {} /\ closed = {}

-----------------------------------------------------------------------------
(* start, and the peers that connect while the listener is open.           *)

Start ==
  /\ started = FALSE
  /\ \A s \in Stoppers : at[s] = "out"
  /\ started' = TRUE
  /\ Goto(Acceptor, "head")
  /\ UNCHANGED <<ordered, stopping, admission, active, thread, table, reclaimed, sockets>>

Connect(c) ==
  /\ started
  /\ thread[c] = "none" /\ c \notin backlog \cup fresh \cup closed
  /\ backlog' = backlog \cup {c}
  /\ UNCHANGED <<flags, at, fresh, loaded, active, thread, table, reclaimed, sockets>>

-----------------------------------------------------------------------------
(* accept_loop.                                                            *)

CheckStop ==
  /\ at[Acceptor] = "head"
  /\ Goto(Acceptor, IF stopping THEN "reapAll" ELSE "waiting")
  /\ UNCHANGED <<flags, admission, active, thread, table, reclaimed, sockets>>

\* The poll times out, or accept_from fails.
NothingAccepted ==
  /\ at[Acceptor] = "waiting"
  /\ Goto(Acceptor, "head")
  /\ UNCHANGED <<flags, admission, active, thread, table, reclaimed, sockets>>

Accept(c) ==
  /\ at[Acceptor] = "waiting"
  /\ c \in backlog
  /\ backlog' = backlog \ {c}
  /\ fresh' = {c}
  /\ Goto(Acceptor, "load")
  /\ UNCHANGED <<flags, loaded, active, thread, table, reclaimed, sockets>>

FullOffByOne(n) == n > MaxSessions

Full(n) == n >= MaxSessions

\* The counter is read: at the limit the connection is refused.
LoadActive ==
  /\ at[Acceptor] = "load"
  /\ \/ /\ Full(active)
        /\ shut' = shut \cup fresh
        /\ closed' = closed \cup fresh
        /\ fresh' = {}
        /\ Goto(Acceptor, "head")
        /\ UNCHANGED loaded
     \/ /\ ~Full(active)
        /\ loaded' = active
        /\ Goto(Acceptor, "store")
        /\ UNCHANGED <<fresh, sockets>>
  /\ UNCHANGED <<flags, backlog, active, thread, table, reclaimed>>

StoreUnchanged ==
  /\ at[Acceptor] = "store"
  /\ active' = loaded
  /\ loaded' = 0
  /\ Goto(Acceptor, "spawn")
  /\ UNCHANGED <<flags, backlog, fresh, thread, table, reclaimed, sockets>>

\* The counter is stored, whatever the session threads did to it in between.
StoreActive ==
  /\ at[Acceptor] = "store"
  /\ active' = loaded + 1
  /\ loaded' = 0
  /\ Goto(Acceptor, "spawn")
  /\ UNCHANGED <<flags, backlog, fresh, thread, table, reclaimed, sockets>>

Spawn ==
  /\ at[Acceptor] = "spawn"
  /\ thread' = [c \in Connections |-> IF c \in fresh THEN "serving" ELSE thread[c]]
  /\ Goto(Acceptor, "table")
  /\ UNCHANGED <<flags, admission, active, table, reclaimed, sockets>>

OverfullLate(t) == Cardinality(t) > MaxSessions + 1

Overfull(t) == Cardinality(t) > MaxSessions

Tabulate ==
  /\ at[Acceptor] = "table"
  /\ table' = table \cup fresh
  /\ fresh' = {}
  /\ Goto(Acceptor, IF Overfull(table') THEN "reap" ELSE "head")
  /\ UNCHANGED <<flags, backlog, loaded, active, thread, reclaimed, sockets>>

-----------------------------------------------------------------------------
(* reap.  The flag finished is an unsynchronised bool, and the decrement    *)
(* that follows its assignment is relaxed.  Until the decrement the reaper  *)
(* may read either value; after it, on a machine that makes stores visible  *)
(* in their order, the new one, and on any other still either.              *)

SeenFinished ==
  LET sure == IF ordered THEN table \cap Ended ELSE {}
      racing == {c \in table : thread[c] \in {"finished", "ended"}}
  IN  {sure \cup seen : seen \in SUBSET racing}

ReclaimUnreleased(r, taken) ==
  /\ table' = table \ taken
  /\ reclaimed' = [reclaimed EXCEPT ![r] = @ \cup taken]
  /\ UNCHANGED shut

Reclaim(r, taken) ==
  /\ table' = table \ taken
  /\ reclaimed' = [reclaimed EXCEPT ![r] = @ \cup taken]
  /\ shut' = shut \cup taken

ReapFinished ==
  /\ at[Acceptor] = "reap"
  /\ \E taken \in SeenFinished : Reclaim(Acceptor, taken)
  /\ Goto(Acceptor, "join")
  /\ UNCHANGED <<flags, admission, active, thread, closed>>

\* reap(true): the acceptor on its way out, and the caller of stop().
ReapAll(r) ==
  /\ at[r] = "reapAll"
  /\ Reclaim(r, table)
  /\ Goto(r, "joinAll")
  /\ UNCHANGED <<flags, admission, active, thread, closed>>

\* One reclaimed session is joined and its descriptor closed.
JoinSession(r, c) ==
  /\ c \in reclaimed[r] \cap Ended
  /\ reclaimed' = [reclaimed EXCEPT ![r] = @ \ {c}]
  /\ closed' = closed \cup {c}
  /\ UNCHANGED <<flags, at, admission, active, thread, table, shut>>

AcceptorReaped ==
  /\ at[Acceptor] \in {"join", "joinAll"}
  /\ reclaimed[Acceptor] = {}
  /\ Goto(Acceptor, IF at[Acceptor] = "join" THEN "head" ELSE "ended")
  /\ UNCHANGED <<flags, admission, active, thread, table, reclaimed, sockets>>

-----------------------------------------------------------------------------
(* A session thread: serve returns, then the thread's last three writes.   *)

\* The peer closes, says goodbye or fails the protocol (and is shut down),
\* or the loop sees the stop flag.
Served(c, failed) ==
  /\ thread[c] = "serving"
  /\ thread' = [thread EXCEPT ![c] = "returned"]
  /\ shut' = shut \cup (IF failed THEN {c} ELSE {})
  /\ UNCHANGED <<flags, at, admission, active, table, reclaimed, closed>>

\* A blocked read or write returns because the socket was shut down.
Released(c) ==
  /\ thread[c] = "serving"
  /\ c \in shut
  /\ thread' = [thread EXCEPT ![c] = "returned"]
  /\ UNCHANGED <<flags, at, admission, active, table, reclaimed, sockets>>

Finish(c) ==
  /\ thread[c] = "returned"
  /\ thread' = [thread EXCEPT ![c] = "finished"]
  /\ UNCHANGED <<flags, at, admission, active, table, reclaimed, sockets>>

DecrementForgotten(c) ==
  /\ thread[c] = "finished"
  /\ thread' = [thread EXCEPT ![c] = "ended"]
  /\ UNCHANGED <<flags, at, admission, active, table, reclaimed, sockets>>

Decrement(c) ==
  /\ thread[c] = "finished"
  /\ thread' = [thread EXCEPT ![c] = "ended"]
  /\ active' = active - 1
  /\ UNCHANGED <<flags, at, admission, table, reclaimed, sockets>>

-----------------------------------------------------------------------------
(* stop.                                                                   *)

StopBegins(s) ==
  /\ at[s] = "out"
  /\ started
  /\ stopping' = TRUE
  /\ Goto(s, "sweep")
  /\ UNCHANGED <<ordered, started, admission, active, thread, table, reclaimed, sockets>>

Sweep(s) ==
  /\ at[s] = "sweep"
  /\ shut' = shut \cup table
  /\ Goto(s, "swept")
  /\ UNCHANGED <<flags, admission, active, thread, table, reclaimed, closed>>

BeginJoinSkipped(s) ==
  /\ at[s] = "swept"
  /\ Goto(s, "reapAll")
  /\ UNCHANGED <<flags, admission, active, thread, table, reclaimed, sockets>>

\* if (acceptor.joinable()) acceptor.join();
BeginJoin(s) ==
  /\ at[s] = "swept"
  /\ Goto(s, IF at[Acceptor] \in {"none", "joined"} THEN "reapAll" ELSE "join")
  /\ UNCHANGED <<flags, admission, active, thread, table, reclaimed, sockets>>

EndJoin(s) ==
  /\ at[s] = "join"
  /\ at[Acceptor] = "ended"
  /\ at' = [at EXCEPT ![s] = "reapAll", ![Acceptor] = "joined"]
  /\ UNCHANGED <<flags, admission, active, thread, table, reclaimed, sockets>>

\* The listener is closed, with what it still held.
StopReturns(s) ==
  /\ at[s] = "joinAll"
  /\ reclaimed[s] = {}
  /\ closed' = closed \cup backlog
  /\ backlog' = {}
  /\ started' = FALSE
  /\ Goto(s, "out")
  /\ UNCHANGED <<ordered, stopping, fresh, loaded, active, thread, table, reclaimed, shut>>

-----------------------------------------------------------------------------
AcceptorStep ==
  \/ CheckStop \/ NothingAccepted \/ LoadActive \/ StoreActive \/ Spawn \/ Tabulate
  \/ ReapFinished \/ ReapAll(Acceptor) \/ AcceptorReaped
  \/ \E c \in Connections : Accept(c) \/ JoinSession(Acceptor, c)

ThreadStep(c) == Released(c) \/ Finish(c) \/ Decrement(c)

StopStep(s) ==
  \/ Sweep(s) \/ BeginJoin(s) \/ EndJoin(s) \/ ReapAll(s) \/ StopReturns(s)
  \/ \E c \in Connections : JoinSession(s, c)

Next ==
  \/ Start
  \/ AcceptorStep
  \/ \E c \in Connections :
       Connect(c) \/ ThreadStep(c) \/ \E failed \in BOOLEAN : Served(c, failed)
  \/ \E s \in Stoppers : StopBegins(s) \/ StopStep(s)

Spec == Init /\ [][Next]_vars

\* Every thread that can run does run in the end; peers owe nothing.
FairSpec ==
  /\ Spec
  /\ WF_vars(AcceptorStep)
  /\ \A c \in Connections : WF_vars(ThreadStep(c))
  /\ \A s \in Stoppers : WF_vars(StopStep(s))

-----------------------------------------------------------------------------
(* Properties.                                                             *)

\* The state of the server has its type; the counter never wraps below zero.
TypeOK ==
  /\ ordered \in BOOLEAN /\ started \in BOOLEAN /\ stopping \in BOOLEAN
  /\ at \in [Reapers -> {"none", "out", "head", "waiting", "load", "store", "spawn",
                         "table", "reap", "join", "reapAll", "joinAll", "ended",
                         "joined", "sweep", "swept"}]
  /\ backlog \subseteq Connections /\ fresh \subseteq Connections
  /\ loaded \in Nat /\ active \in Nat
  /\ thread \in [Connections -> {"none", "serving", "returned", "finished", "ended"}]
  /\ table \subseteq Connections
  /\ reclaimed \in [Reapers -> SUBSET Connections]
  /\ shut \subseteq Connections /\ closed \subseteq Connections

\* However the two-step update of active_sessions meets the decrements, no
\* more than max_sessions session threads ever run at once (accept_loop's
\* check of active_sessions).
LiveWithinLimit == Cardinality(Live) <= MaxSessions

\* The session table never holds more than one session above the limit: the
\* acceptor reaps as soon as it is over, and by then enough have finished and are
\* seen to have (accept_loop's last lines and reap).  Where stores may become
\* visible out of their order a reap may take nothing, and nothing bounds the table.
TableBounded == ordered => Cardinality(table) <= MaxSessions + 1

\* Lost decrements cost capacity but never all of it: with no session left and
\* no admission under way, the counter still lets one in (accept_loop).
SlotRemains ==
  Live = {} /\ at[Acceptor] \notin {"store", "spawn"} => active < MaxSessions

\* Once stop() has returned no session thread is left, the table is empty and
\* every connection the server accepted has had its descriptor closed (stop
\* and the acceptor's own final reap).
StoppedLeavesNothing ==
  ~started => /\ Live = {} /\ table = {} /\ fresh = {}
              /\ Ended \subseteq closed

\* A call of stop() returns, even when it races the admission of a session
\* that its sweep of the table did not see (stop, accept_loop, reap).
StopTerminates == \A s \in Stoppers : at[s] # "out" ~> at[s] = "out"

\* What the concurrency suite asserts after stop(): active_sessions is zero
\* (stop; the load and the store of active_sessions in accept_loop).
ActiveReturnsToZero == ~started => active = 0

\* stop() is guarded against concurrent callers: the acceptor is never joined
\* by two threads (stop's joinable test and join).
JoinedByOne == Cardinality({s \in Stoppers : at[s] = "join"}) <= 1
=============================================================================
