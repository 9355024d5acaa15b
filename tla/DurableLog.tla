------------------------------- MODULE DurableLog -------------------------------
(***************************************************************************)
(* What a durable store promises: a log of records that only grows, and a  *)
(* process whose view of it is the whole log.  A process may end in the    *)
(* middle of an append, and then the record is in the log or not.          *)
(*                                                                         *)
(* The promise has one way out.  The log is read through a header, which a *)
(* process writes when it creates the log or replaces its file.  A process *)
(* that ends or appends while the header is absent may lose it for good:   *)
(* the records are still there, but no later process is given them.        *)
(***************************************************************************)
EXTENDS Integers, Sequences, SequencesExt

VARIABLES
  log,     \* the records, by sequence number
  view,    \* what a running process has of them, <<>> when there is none
  header   \* "whole", "absent" (to be written), or "lost"

Init == log = <<>> /\ view = <<>> /\ header = "absent"

Following(s) == IF s = <<>> THEN 1 ELSE Last(s) + 1

\* An append, or an end of the process, may complete or lose a header that is
\* absent; it never harms one that is there.
HeaderMoves == header' \in IF header = "absent" THEN {"absent", "whole", "lost"} ELSE {header}

Extend ==
  /\ view = log
  /\ log' = Append(log, Following(log))
  /\ view' = log'
  /\ HeaderMoves

\* The process ends; the record it was appending may have become durable.
End ==
  /\ log' \in {log, Append(log, Following(log))}
  /\ view' = <<>>
  /\ HeaderMoves

\* A process that has the whole log takes the header away to replace the file,
\* and writes it.
Replace ==
  /\ view = log
  /\ \/ header' = "absent"
     \/ header = "absent" /\ header' = "whole"
  /\ UNCHANGED <<log, view>>

\* A process begins with the whole log, or not at all.
Begin ==
  /\ header # "lost"
  /\ view = <<>> /\ view' = log
  /\ UNCHANGED <<log, header>>

Next == Extend \/ End \/ Replace \/ Begin

Spec == Init /\ [][Next]_<<log, view, header>>
=============================================================================
