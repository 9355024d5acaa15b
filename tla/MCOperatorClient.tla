--------------------------- MODULE MCOperatorClient ---------------------------
(* The instances of OperatorClient: who may be invoked as what.            *)
EXTENDS OperatorClient

CONSTANTS p1, p2

MCProcesses == {p1, p2}

\* A publisher or a governing operator beside an operator.
MCCommands ==
  [p \in MCProcesses |->
     IF p = p1 THEN {"publisher", "govern"} ELSE {"assess", "govern", "publish"}]
=============================================================================
