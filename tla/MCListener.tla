----------------------------- MODULE MCListener -----------------------------
(***************************************************************************)
(* Listener for TLC.                                                       *)
(***************************************************************************)
EXTENDS Listener, TLC

\* Connections are interchangeable, and so are addresses.
Symmetry == Permutations(Conn) \cup Permutations(Entry)

=============================================================================
