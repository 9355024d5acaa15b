--------------------------- MODULE MCApplicationState ---------------------------
(***************************************************************************)
(* Instances of ApplicationState for TLC.                                  *)
(***************************************************************************)
EXTENDS ApplicationState, MCPartitionRuntime

\* What every grant may do, and what only a PRIMARY may do.
MCReports == {{"OBSERVE"}, {"OBSERVE", "SERVE_WRITES"}}

\* No operation tells two attempt identities apart but by equality.
MCSymmetry == Permutations(ReportAttempts)
=============================================================================
