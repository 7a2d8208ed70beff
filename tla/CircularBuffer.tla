--------------------------- MODULE CircularBuffer ---------------------------
(***************************************************************************)
(* The circular buffer of the aesdchar driver                              *)
(* (aesd-char-driver/aesd-circular-buffer.c and .h): a fixed array of      *)
(* entries, the slot of the next write (in_offs), the slot of the oldest   *)
(* entry (out_offs) and a flag that tells a full buffer from an empty one. *)
(* The three functions are operators on a record with the C structure's    *)
(* fields; the callers do the locking and own the memory.                  *)
(***************************************************************************)
EXTENDS Integers, Sequences

CONSTANTS
  MaxWriteOps,   \* AESDCHAR_MAX_WRITE_OPERATIONS_SUPPORTED
  SizeMod,       \* size_t arithmetic is modulo SizeMod (2^64 in the driver)
  NULL

ASSUME MaxWriteOpsAssumption == MaxWriteOps \in Nat \ {0}
ASSUME SizeModAssumption == SizeMod \in Nat \ {0}

-----------------------------------------------------------------------------

\* Indices of the entry array.
Slots == 0 .. MaxWriteOps - 1

\* The null pointer is no index of the array.
ASSUME NullAssumption == NULL \notin Slots

\* struct aesd_circular_buffer with entries that point into P.
BufferType(P) ==
  [entry    : [Slots -> [buffptr : P, size : Nat]],
   in_offs  : Slots,
   out_offs : Slots,
   full     : BOOLEAN]

\* An entry as memset leaves it.
EmptyEntry == [buffptr |-> NULL, size |-> 0]

aesd_circular_buffer_init ==
  [entry    |-> [s \in Slots |-> EmptyEntry],
   in_offs  |-> 0,
   out_offs |-> 0,
   full     |-> FALSE]

AdvanceNoWrap(offs) == offs + 1   \* mutant: the index leaves the array

\* The slot after `offs`, wrapping at the end of the array.
Advance(offs) == (offs + 1) % MaxWriteOps

\* Mutant: over a full buffer out_offs stays, so the newest entry reads as the oldest.
AddEntryKeepsOldest(buffer, add_entry) ==
  LET in == Advance(buffer.in_offs)
  IN  [entry    |-> [buffer.entry EXCEPT ![buffer.in_offs] = add_entry],
       in_offs  |-> in,
       out_offs |-> buffer.out_offs,
       full     |-> buffer.full \/ in = buffer.out_offs]

\* Stores the entry at in_offs; over a full buffer it replaces the oldest entry.
aesd_circular_buffer_add_entry(buffer, add_entry) ==
  LET out == IF buffer.full THEN Advance(buffer.out_offs) ELSE buffer.out_offs
      in  == Advance(buffer.in_offs)
  IN  [entry    |-> [buffer.entry EXCEPT ![buffer.in_offs] = add_entry],
       in_offs  |-> in,
       out_offs |-> out,
       full     |-> in = out]

-----------------------------------------------------------------------------

\* The slot k places after the oldest entry.
SlotAt(buffer, k) == (buffer.out_offs + k) % MaxWriteOps

\* SizeUpTo(buffer)[k]: bytes in the k slots that start at out_offs.
SizeUpTo(buffer) ==
  LET sum[k \in 0 .. MaxWriteOps] ==
        IF k = 0 THEN 0 ELSE sum[k - 1] + buffer.entry[SlotAt(buffer, k - 1)].size
  IN  sum

\* Mutant: a while loop, which never enters a full buffer.
VisitsWhile(buffer) == (buffer.in_offs - buffer.out_offs) % MaxWriteOps

\* How many slots the do-while loop of the search may visit: it leaves the loop
\* when it is back at in_offs, after at least one slot.
Visits(buffer) ==
  IF buffer.in_offs = buffer.out_offs
  THEN MaxWriteOps
  ELSE (buffer.in_offs - buffer.out_offs) % MaxWriteOps

\* Mutant: one byte too many belongs to the slots summed up so far.
CoversOneMore(char_offset, current_string_size) == char_offset <= current_string_size

\* Whether a position lies in the slots summed up so far. The difference is a
\* size_t: it is the largest size_t while no byte has been counted.
Covers(char_offset, current_string_size) ==
  char_offset <= (current_string_size - 1) % SizeMod

\* The entry that holds byte char_offset of the concatenated entries, and the
\* offset of that byte in it; slot NULL is the null pointer.
aesd_circular_buffer_find_entry_offset_for_fpos(buffer, char_offset) ==
  LET size == SizeUpTo(buffer)
      hits == {k \in 0 .. Visits(buffer) - 1 : Covers(char_offset, size[k + 1])}
  IN  IF hits = {}
      THEN [slot |-> NULL, offset |-> 0]
      ELSE LET k == CHOOSE h \in hits : \A g \in hits : h <= g
           IN  [slot |-> SlotAt(buffer, k), offset |-> (char_offset - size[k]) % SizeMod]

-----------------------------------------------------------------------------

\* Number of entries stored, as the driver's loops and the full flag tell it.
EntryCount(buffer) ==
  IF buffer.full THEN MaxWriteOps ELSE (buffer.in_offs - buffer.out_offs) % MaxWriteOps

\* The stored entries, oldest first.
Entries(buffer) ==
  [i \in 1 .. EntryCount(buffer) |-> buffer.entry[SlotAt(buffer, i - 1)]]

-----------------------------------------------------------------------------

\* The shapes the ring takes when every stored entry holds a byte: it fills from
\* slot 0, and once full it stays full while the two offsets move together.
WellFormed(buffer) ==
  IF buffer.full
  THEN buffer.in_offs = buffer.out_offs /\ \A s \in Slots : buffer.entry[s].size > 0
  ELSE /\ buffer.out_offs = 0
       /\ \A s \in Slots : IF s < buffer.in_offs THEN buffer.entry[s].size > 0
                                                 ELSE buffer.entry[s] = EmptyEntry

=============================================================================
