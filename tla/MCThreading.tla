---------------------------- MODULE MCThreading ----------------------------
(***************************************************************************)
(* Threading for TLC: the threads are model values.                        *)
(***************************************************************************)
EXTENDS Threading, TLC

=============================================================================
