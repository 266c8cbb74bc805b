----------------------------- MODULE MCTestRun ------------------------------
(***************************************************************************)
(* Small instances of TestRun.                                             *)
(***************************************************************************)
EXTENDS TestRun

\* A test without a context, one with and one whose context the server lacks,
\* and one more without, to come after a failure.
MCContext == <<"none", "known", "unknown", "none">>
=============================================================================
