--------------------------- MODULE MCSystemCalls ---------------------------
(***************************************************************************)
(* SystemCalls for TLC: the constants are numbers.                         *)
(***************************************************************************)
EXTENDS SystemCalls, TLC

=============================================================================
