----------------------------- MODULE MCStartup -----------------------------
(***************************************************************************)
(* Startup for TLC: the constants are numbers.                             *)
(***************************************************************************)
EXTENDS Startup, TLC

=============================================================================
