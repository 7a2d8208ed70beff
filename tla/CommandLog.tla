----------------------------- MODULE CommandLog -----------------------------
(***************************************************************************)
(* What /dev/aesdchar promises its users: while it is there, a log of the  *)
(* last MaxWriteOps newline-terminated commands, oldest first, and the     *)
(* bytes written since the last command was completed.  Reads, seeks and   *)
(* failed writes do not change it, and only removing the module empties    *)
(* it.                                                                     *)
(***************************************************************************)
EXTENDS Integers, Sequences, SequencesExt

CONSTANTS
  MaxWriteOps,   \* commands the log holds
  Chunks,        \* what one write() may carry: sequences of bytes
  NL             \* the newline byte

VARIABLES
  present,       \* whether the device is there
  log,           \* the commands, oldest first
  pending        \* bytes of the command that has no newline yet

vars == <<present, log, pending>>

\* The newest n elements of s.
LastN(s, n) == IF Len(s) <= n THEN s ELSE SubSeq(s, Len(s) - n + 1, Len(s))

Empty == log = <<>> /\ pending = <<>>

Init == ~present /\ Empty

\* The module is loaded, with an empty device.
Load == ~present /\ present' = TRUE /\ Empty'

\* The module is removed, and what was stored is gone.
Unload == present /\ present' = FALSE /\ Empty'

\* A write that succeeds: the bytes join the pending command, and a newline
\* anywhere in it makes it the newest entry of the log.
Write(chunk) ==
  LET bytes == pending \o chunk
  IN  /\ present /\ present' = present
      /\ IF Contains(bytes, NL)
         THEN log' = LastN(Append(log, bytes), MaxWriteOps) /\ pending' = <<>>
         ELSE pending' = bytes /\ UNCHANGED log

Next == Load \/ Unload \/ \E chunk \in Chunks : Write(chunk)

Spec == Init /\ [][Next]_vars

=============================================================================
