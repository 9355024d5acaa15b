----------------------------- MODULE OperatorClient -----------------------------
(***************************************************************************)
(* The operator's programs against one coordinator: fabric-partition-cli   *)
(* (src/apps/cli_main.cpp) and the publisher (src/apps/publisher_main.cpp) *)
(* over PartitionClient.  Every invocation is a process that connects,     *)
(* runs a fixed script of exchanges and exits with 0 (done), 1 (refused)   *)
(* or 2 (it does not know); processes run concurrently, the coordinator    *)
(* (src/apps/coordinator_main.cpp) may stop or die and restart under them, *)
(* and the whole host may reboot.                                          *)
(*                                                                         *)
(* SessionProtocol has the frames of an exchange; here an exchange is the  *)
(* handler's call of the runtime and the delivery of its answer.  The text *)
(* of a report is left out but for the decision it prints; what a process  *)
(* did is forgotten when it exits, or when its answer is abandoned.        *)
(***************************************************************************)
EXTENDS DecisionAudit, FiniteSets

CONSTANTS
  Processes,     \* invocations
  Commands,      \* what each may be: a subcommand, or "publisher"
  NamedEpochs,   \* what --expected-epoch may be, 0 for "not named"
  PublishCount,  \* --count of the publisher
  MaxReboots     \* bound of the model

ASSUME OperatorAssumption ==
  /\ Commands \in [Processes ->
                     SUBSET {"status", "assess", "publish", "topology", "govern", "publisher"}]
  /\ NamedEpochs \subseteq Nat /\ PublishCount \in Nat \ {0} /\ MaxReboots \in Nat

VARIABLES
  proc,     \* the processes
  clock,    \* the host's steady clock
  reboots   \* how often the host has rebooted

vars == <<auditVars, proc, clock, reboots>>

\* What a process does once connected.  "status" stands for every command that
\* only reads, "govern" for the five that carry an attempt.
Body(command) ==
  CASE command = "status"    -> <<"query">>
    [] command = "publisher" -> <<"topology", "query">> \o [i \in 1..PublishCount |-> "publish"]
    [] OTHER                 -> <<command>>

\* The CLI reads the epoch unless one was named, and ends with the two queries of
\* fill_report, here one.  The publisher always reads the epoch.
Script(command, named) ==
  (IF named = 0 \/ command = "publisher" THEN <<"query">> ELSE <<>>)
    \o Body(command)
    \o (IF command = "publisher" THEN <<>> ELSE <<"query">>)

\* A decision as the process receives it.
Answered(d, verdict) == [id |-> d.id, verdict |-> verdict]
NoAnswer == Answered(NoDecision, "nil")

\* An answer is "held" while its operation holds the mutex, "unread" until an
\* assessment is read back, then "sent".
Unsent == [decision |-> NoAnswer, state |-> "none"]

NewProcess ==
  [pc |-> "ready", command |-> "none", session |-> 0, attempt |-> 0,
   todo |-> <<>>, reply |-> Unsent, results |-> <<>>, exit |-> "none",
   made |-> <<>>,     \* history: the decisions of the runtime on its requests
   before |-> {}]     \* history: the processes that had ended when it began

Init ==
  /\ AuditInit
  /\ proc = [p \in Processes |-> NewProcess]
  /\ clock = 1 /\ reboots = 0

Exit(r, code) == [NewProcess EXCEPT !.pc = "done", !.exit = code, !.attempt = r.attempt]

Ended == {p \in Processes : proc[p].pc = "done"}

-----------------------------------------------------------------------------
(* A process: its arguments, its session, its attempt.                     *)

Doing(p, request) == proc[p].pc = "run" /\ Head(proc[p].todo) = request

\* Arguments that main refuses, or that the subcommand does when it has connected
\* and before it asks: a lineage, a partition or a fabric that makes no sense.
Usage(p) ==
  /\ \/ proc[p].pc = "ready"
     \/ Doing(p, "govern") /\ proc[p].attempt = 0
     \/ proc[p].command \in {"publish", "topology"} /\ Doing(p, proc[p].command)
  /\ proc' = [proc EXCEPT ![p] = Exit(@, "2")]
  /\ UNCHANGED <<auditVars, clock, reboots>>

\* The process begins, which takes time, and connects: the server refuses an epoch
\* that is named and not its own.
Connect(p, command, named) ==
  /\ proc[p].pc = "ready" /\ Free
  /\ proc' = [proc EXCEPT ![p] =
                IF named \in {0, epoch}
                THEN [@ EXCEPT !.pc = "run", !.command = command, !.session = boot,
                               !.todo = Script(command, named), !.before = Ended]
                ELSE Exit(@, "2")]
  /\ clock' = clock + 1
  /\ UNCHANGED <<auditVars, reboots>>

\* Nobody listens.
Unreachable(p) ==
  /\ proc[p].pc = "ready" /\ ~serving
  /\ proc' = [proc EXCEPT ![p] = Exit(@, "2")]
  /\ clock' = clock + 1
  /\ UNCHANGED <<auditVars, reboots>>

\* An attempt sequence of a coarser clock.
CoarseAttempt == 1 + clock \div 2

\* make_attempt: the steady clock.
MakeAttempt == clock

Stamp(p) ==
  /\ Doing(p, "govern") /\ proc[p].attempt = 0
  /\ proc' = [proc EXCEPT ![p].attempt = MakeAttempt]
  /\ UNCHANGED <<auditVars, clock, reboots>>

-----------------------------------------------------------------------------
(* Exchanges.                                                              *)

Connected(p) == serving /\ proc[p].session = boot

\* The publisher's loop when only the last answer counts.
LastAccepted(results) == results = <<>> \/ results[Len(results)].verdict = "granted"

\* Every operation was granted.
AllAccepted(results) == \A i \in DOMAIN results : results[i].verdict = "granted"

\* The publisher stops when the topology is refused.
Over(r, request, d) ==
  r.todo = <<>> \/ (r.command = "publisher" /\ request = "topology" /\ d.verdict # "granted")

\* The process has the answer `d' to the first request of its script, and goes on
\* with the script or ends.
Proceed(p, d) ==
  LET request == Head(proc[p].todo)
      r == [proc[p] EXCEPT !.pc = "run", !.todo = Tail(@), !.reply = Unsent,
                           !.results = IF request = "query" THEN @ ELSE Append(@, d)]
  IN  proc' = [proc EXCEPT ![p] =
                 IF Over(r, request, d) THEN Exit(r, IF AllAccepted(r.results) THEN "0" ELSE "1")
                 ELSE r]

\* A query, and its answer.  (What happens while the answer of a query is under
\* way could as well happen before or after it.)
Read(p) ==
  /\ Doing(p, "query")
  /\ Connected(p) /\ Free
  /\ Proceed(p, NoAnswer)
  /\ UNCHANGED <<auditVars, clock, reboots>>

\* The handler has called the runtime, whose n-th decision is on the request; the
\* answer carries it.
Answer(p, n, verdict, state) ==
  LET r == proc[p]
      d == Answered(Decided(n, "any"), verdict)
  IN  /\ proc' = [proc EXCEPT ![p] = [r EXCEPT !.pc = "waiting", !.made = Append(r.made, d),
                                               !.reply = [decision |-> d, state |-> state]]]
      /\ UNCHANGED <<clock, reboots>>

AskTopology(p) ==
  /\ Doing(p, "topology") /\ Connected(p)
  /\ \E verdict \in {"granted", "refused"}, changes \in BOOLEAN :
       /\ verdict = "refused" => ~changes
       /\ Input(changes) /\ Answer(p, 1, verdict, "held")

AskPublish(p) ==
  /\ Doing(p, "publish") /\ Connected(p)
  /\ \E verdict \in {"granted", "refused"} : Ingest /\ Answer(p, 1, verdict, "sent")

\* The handler of Assess releases the mutex before it reads the last assessment
\* back, and the CLI judges what it is sent; a denial is never in order.
AskAssess(p) ==
  /\ Doing(p, "assess") /\ Connected(p)
  /\ \E outcome \in Outcomes : Assess(outcome)
  /\ Answer(p, 1, "assessed", "unread")

ReadBack(p) ==
  /\ proc[p].pc = "waiting" /\ proc[p].reply.state = "unread" /\ Connected(p) /\ Free
  /\ \E verdict \in IF assessment.kind = "denial" THEN {"refused"} ELSE {"granted", "refused"} :
       proc' = [proc EXCEPT ![p].reply = [decision |-> Answered(assessment, verdict),
                                          state |-> "sent"]]
  /\ UNCHANGED <<auditVars, clock, reboots>>

\* A governed request, answered as the runtime decides: refused for its attempt,
\* denied, or carried out as a retirement, an isolation (the clearing of one that is
\* not there assesses too, and is denied), a merge (after which, as for a
\* revalidation, there is a roster to assess) or a revalidation.
AskGoverned(p) ==
  /\ Doing(p, "govern") /\ Connected(p) /\ proc[p].attempt # 0
  /\ LET n == proc[p].attempt
     IN  \/ RefuseAttempt(n) /\ Answer(p, 1, "regressed", "held")
         \/ Deny(n) /\ Answer(p, 1, "refused", "held")
         \/ /\ \/ RetireLineage(n)
               \/ \E outcome \in Outcomes : Direct(n, outcome)
            /\ \E verdict \in {"granted", "refused"} : Answer(p, 1, verdict, "held")
         \/ /\ \E outcome \in Outcomes \ {"denied"} : MergeLineages(n, outcome)
            /\ Answer(p, 1, "granted", "held")
         \/ /\ \E outcome \in Outcomes \ {"denied"} : Revalidate(n, outcome)
            /\ \E verdict \in {"granted", "refused"} : Answer(p, 2, verdict, "held")

\* The answer may be larger than a frame: the lists and views that a command reads
\* or reports, and the view of an assessment.  A status never is.
Oversize(r) ==
  \/ r.pc = "run" /\ Head(r.todo) = "query" /\ r.command # "publisher" /\ Len(r.todo) <= 2
  \/ r.pc = "waiting" /\ r.reply.state = "unread"

\* encode_frame makes nothing of it, serve returns with the socket open, and the
\* client waits on.
Abandon(p) ==
  /\ Oversize(proc[p]) /\ Connected(p) /\ Free
  /\ proc' = [proc EXCEPT ![p] = [NewProcess EXCEPT !.pc = "abandoned", !.session = boot,
                                                   !.attempt = proc[p].attempt]]
  /\ UNCHANGED <<auditVars, clock, reboots>>

Receive(p) ==
  /\ proc[p].pc = "waiting" /\ proc[p].reply.state = "sent"
  /\ Proceed(p, proc[p].reply.decision)
  /\ UNCHANGED <<auditVars, clock, reboots>>

Broken(p) == proc[p].session # 0 /\ ~Connected(p)

\* The connection is found broken by sending on it, not by waiting on it.
FailSending(p) ==
  /\ proc[p].pc = "run" /\ Broken(p)
  /\ proc' = [proc EXCEPT ![p] = Exit(@, "2")]
  /\ UNCHANGED <<auditVars, clock, reboots>>

\* The connection is found broken.
Fail(p) ==
  /\ proc[p].pc \in {"run", "waiting", "abandoned"} /\ Broken(p)
  /\ proc' = [proc EXCEPT ![p] = Exit(@, "2")]
  /\ UNCHANGED <<auditVars, clock, reboots>>

\* A reaper closes the socket of a session that has ended: not before the sessions
\* of other clients fill the server's table.
Reaped(p) ==
  /\ proc[p].pc = "abandoned"
  /\ proc' = [proc EXCEPT ![p] = Exit(@, "2")]
  /\ UNCHANGED <<auditVars, clock, reboots>>

-----------------------------------------------------------------------------
(* The coordinator process and the host.                                   *)

StartCoordinator == Start /\ UNCHANGED <<proc, clock, reboots>>

\* With its last record committed the operation returns, and its answer is sent.
Commit ==
  /\ Flush
  /\ proc' = [p \in Processes |->
                IF wal' = <<>> /\ proc[p].reply.state = "held"
                THEN [proc[p] EXCEPT !.reply.state = "sent"] ELSE proc[p]]
  /\ UNCHANGED <<clock, reboots>>

\* --run-seconds have passed: server.stop() lets the handlers end, whose answers
\* may still arrive, and the runtime is closed.
StopCoordinator ==
  /\ Free /\ \A p \in Processes : proc[p].reply.state \notin {"held", "unread"}
  /\ Crash
  /\ UNCHANGED <<proc, clock, reboots>>

\* An answer that was not sent is lost; one that was may still arrive.
CrashCoordinator ==
  /\ Crash
  /\ proc' = [p \in Processes |->
                IF proc[p].reply.state \in {"held", "unread"}
                THEN [proc[p] EXCEPT !.reply = Unsent] ELSE proc[p]]
  /\ UNCHANGED <<clock, reboots>>

\* The host goes down with everything on it; its steady clock starts again.
\* (Not in the last incarnation the model has.)
Reboot ==
  /\ reboots < MaxReboots /\ boot < MaxBoots
  /\ IF serving THEN Crash ELSE UNCHANGED auditVars
  /\ proc' = [p \in Processes |->
                IF proc[p].pc \in {"ready", "done"} THEN proc[p] ELSE Exit(proc[p], "killed")]
  /\ clock' = 1 /\ reboots' = reboots + 1

ProcessStep(p) ==
  \/ Stamp(p) \/ Read(p)
  \/ AskTopology(p) \/ AskPublish(p) \/ AskAssess(p) \/ ReadBack(p) \/ AskGoverned(p)
  \/ Abandon(p) \/ Receive(p) \/ Fail(p)

Next ==
  \/ \E p \in Processes :
       \/ Usage(p) \/ Unreachable(p) \/ Reaped(p)
       \/ \E command \in Commands[p], named \in NamedEpochs : Connect(p, command, named)
       \/ ProcessStep(p)
  \/ StartCoordinator \/ Commit \/ StopCoordinator \/ CrashCoordinator \/ Reboot

\* A process that is connected and can take a step takes it, and the thread that
\* holds the mutex goes on committing.  Nobody has to invoke or restart anything.
Fairness == (\A p \in Processes : WF_vars(ProcessStep(p))) /\ WF_vars(Commit)

Spec == Init /\ [][Next]_vars /\ Fairness

-----------------------------------------------------------------------------
(* Properties.                                                             *)

Durable(d) == \E i \in DOMAIN disk.decisions : disk.decisions[i].id = d.id

\* Process p ends with this code.
Exits(p, code) == proc[p].pc # "done" /\ proc'[p].pc = "done" /\ proc'[p].exit = code

\* What a command has the runtime decide, in order.
Requests(command) ==
  CASE command = "status"    -> <<>>
    [] command = "publisher" -> <<"topology">> \o [i \in 1..PublishCount |-> "publish"]
    [] OTHER                 -> <<command>>

\* A process that ends with 0 or 1 has been answered so.
ExitIsTrue(p) ==
  LET r == proc[p]
      requests == Requests(r.command)
      received == {r.results[i] : i \in DOMAIN r.results} \cup {r.reply.decision}
  IN  /\ Exits(p, "0") =>
           /\ Len(r.made) = Len(requests)
           /\ \A i \in DOMAIN r.made :
                /\ r.made[i].id[2] = r.session
                /\ requests[i] # "publish" => Durable(r.made[i])
                /\ IF requests[i] # "assess" THEN r.made[i].verdict = "granted"
                   ELSE \A d \in received \ {NoAnswer} :
                          /\ d.verdict = "granted" /\ d.id[2] = r.session
                          /\ d.id[1] >= r.made[i].id[1]
      /\ Exits(p, "1") => \E d \in received : d.verdict \in {"refused", "regressed"}

\* The exit codes (cli_main.cpp 15-18).  0: the runtime decided every request of
\* the script once, in one incarnation, and granted it, and the decision is on
\* disk unless it is about evidence; an assessment may be answered with a later
\* one.  1: one of them was refused.
ExitCodesAreTrue == [][\A p \in Processes : ExitIsTrue(p)]_vars

\* The runtime refuses the attempt of process p.
Regresses(p) ==
  /\ Len(proc'[p].made) > Len(proc[p].made)
  /\ proc'[p].made[Len(proc'[p].made)].verdict = "regressed"

Overtaken(p) ==
  \E q \in Processes \ proc[p].before : q # p /\ proc[q].attempt >= proc[p].attempt

\* "The sequence is derived from the steady clock, so a later invocation always
\* advances the runtime floor" (cli_main.cpp 304-305), while the host stays up:
\* over coordinator crashes too, an attempt is refused only in favour of an
\* invocation that ran at the same time.
LaterAttemptAdvances ==
  [][\A p \in Processes : reboots = 0 /\ Regresses(p) => Overtaken(p)]_vars

\* Every invocation that connects ends, whatever becomes of the coordinator, but for
\* one whose answer did not fit a frame (service.cpp 641): that one waits for as
\* long as the coordinator it asked is up, and ends when that has ended.
EveryProcessExits ==
  \A p \in Processes :
    <>[](\/ proc[p].pc \in {"ready", "done"}
         \/ proc[p].pc = "abandoned" /\ Connected(p))

-----------------------------------------------------------------------------
(* What the comments say and the code does not do.                         *)

\* A later invocation always advances the floor, after a reboot of the host too.
AlwaysAdvances == [][\A p \in Processes : Regresses(p) => Overtaken(p)]_vars

\* The decision fill_report leaves in the report: the one of the last assessment,
\* over the one of the operation.  command_assess puts its own back.
Printed(r) == IF r.command = "assess" THEN r.results[1].id ELSE assessment.id

\* "The verdict and every reason are printed": what a CLI process prints is the
\* decision on its own operation.
PrintsOwnDecision ==
  [][\A p \in Processes :
       /\ Exits(p, "0") \/ Exits(p, "1")
       /\ proc[p].command \in {"topology", "publish", "govern"}
       => Printed(proc[p]) = proc[p].made[1].id]_vars

\* A process that exits with 2 has changed nothing.
FailedDidNothing == [][\A p \in Processes : Exits(p, "2") => proc[p].made = <<>>]_vars
=============================================================================
