----------------------------- MODULE MCAesdChar -----------------------------
(***************************************************************************)
(* AesdChar for TLC: bytes, writes and seek arguments small enough to      *)
(* enumerate, and what TLC may identify.                                   *)
(***************************************************************************)
EXTENDS AesdChar, TLC

CONSTANTS x, y, p1, p2

MCByte == {x, y, NL, Garbage}

\* A piece without a newline, and one that completes a command.
MCChunks == {<<x>>, <<NL>>}

\* The same with a byte behind the newline: commands of several lengths.
MCChunksTail == {<<x>>, <<NL>>, <<NL, y>>}

\* write_cmd below, at and above the number of commands; offsets in, at the end
\* of and behind a command.
MCSeekTo == {<<0, 0>>, <<0, 1>>, <<0, 2>>, <<1, 0>>, <<1, 1>>, <<2, 0>>, <<3, 0>>, <<4, 0>>}
MCSeekToFew == {<<1, 1>>}

\* -1, 0 and 1 as offsets (a cfg has no negative numbers).
MCSeekOffs == {-1, 0, 1}

\* Addresses are interchangeable, and so are processes.
PtrSymmetry == Permutations(Ptr)
Symmetry == PtrSymmetry \cup Permutations(Proc)

\* What an operation returned is read by no later step.
NoResults == <<module, device, lock, memory, files, pc, call, file_size>>

=============================================================================
