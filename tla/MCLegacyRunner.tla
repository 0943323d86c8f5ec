---------------------------- MODULE MCLegacyRunner ----------------------------
(***************************************************************************)
(* A small instance of LegacyRunner for TLC.                               *)
(***************************************************************************)
EXTENDS LegacyRunner, TLC

CONSTANTS p1, p2, r1, r2

\* Each process runs the job at most once at a time.
TwoProcesses == (r1 :> p1) @@ (r2 :> p2)
=============================================================================
