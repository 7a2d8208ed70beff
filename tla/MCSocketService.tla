-------------------------- MODULE MCSocketService --------------------------
(***************************************************************************)
(* SocketService for TLC.                                                  *)
(***************************************************************************)
EXTENDS SocketService, TLC

CONSTANTS x, y, c1, c2

SeekFirst  == [write_cmd |-> 0, write_cmd_offset |-> 1]
SeekSecond == [write_cmd |-> 1, write_cmd_offset |-> 0]
MCSeeks == {SeekFirst, SeekSecond}

\* A short and a long piece of a packet, the end of one with a byte behind the
\* newline, and a seek command. With a FILE's buffer of four bytes the long
\* piece and the end are two writes, the first of them without a newline.
MCChunks == {<<x>>, <<x, x, x>>, <<y, NL, x>>, <<SeekFirst, NL>>}
MCChunksPlain == {<<x>>, <<y, NL>>}

=============================================================================
