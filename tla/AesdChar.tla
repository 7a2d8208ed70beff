------------------------------ MODULE AesdChar ------------------------------
(***************************************************************************)
(* The aesdchar character device driver (aesd-char-driver/main.c).         *)
(*                                                                         *)
(* Each process p has one open file of the device, with its own f_pos.  A  *)
(* file operation that takes the device mutex is entered (Call), acquires  *)
(* the mutex or is interrupted by a signal, and runs to its return in one  *)
(* or more steps; pc[p] says where it is.  The kernel heap is a set of     *)
(* allocated blocks with their bytes, so that freeing, leaking and using   *)
(* freed memory can be told apart.                                         *)
(***************************************************************************)
EXTENDS CircularBuffer, SequencesExt

CONSTANTS
  Proc,           \* processes that use the device, one open file each
  Ptr,            \* addresses of heap blocks
  Byte,           \* byte values, among them
  NL, Garbage,    \* the newline, and what is read through a dangling pointer
  Chunks,         \* what one write() may carry: nonempty sequences of bytes
  ReadCounts,     \* the count argument of read()
  SeekOffs,       \* the off argument of llseek()
  SeekToArgs,     \* <<write_cmd, write_cmd_offset>> pairs of AESDCHAR_IOCSEEKTO
  KreallocFails,  \* subset of {"fresh", "grow"}: krealloc may fail when the
                  \* device has no write buffer yet ("fresh"), or has one
  CopyFails,      \* whether copies from and to user space may fail
  MaxPending,     \* bound: bytes of the write buffer when a write is entered
  MaxPos,         \* bound: f_pos when a seek is entered
  MaxLoads        \* bound: how often the module is loaded

ASSUME DriverAssumption ==
  /\ NULL \notin Proc \cup Ptr
  /\ {NL, Garbage} \subseteq Byte
  /\ Chunks \subseteq Seq(Byte) /\ <<>> \notin Chunks
  /\ ReadCounts \subseteq Nat
  /\ SeekOffs \subseteq Int
  /\ SeekToArgs \subseteq Nat \X Nat
  /\ KreallocFails \subseteq {"fresh", "grow"}
  /\ CopyFails \in BOOLEAN

VARIABLES
  loads,              \* how often the module was loaded
  loaded,             \* whether it is loaded now
  buffer,             \* aesd_device.circular_buffer
  p_write_buffer,     \* aesd_device.p_write_buffer
  write_buffer_size,  \* aesd_device.write_buffer_size
  lock,               \* holder of aesd_device.lock, or NULL
  allocated,          \* heap blocks that are allocated
  heap,               \* bytes of each block (<<>> when it is free)
  orphans,            \* blocks still allocated when the module went away
  opened,             \* processes with the device open
  f_pos,              \* filp->f_pos
  pc,                 \* where the process is in the driver
  call,               \* the file operation it is in, with its arguments
  file_size,          \* local of aesd_llseek
  ret,                \* what the last file operation returned
  got                 \* bytes the last read() copied to the caller

device == <<buffer, p_write_buffer, write_buffer_size>>
memory == <<allocated, heap, orphans>>
module == <<loads, loaded>>
files  == <<opened, f_pos>>
vars   == <<module, device, lock, memory, files, pc, call, file_size, ret, got>>

\* -errno values the operations return.
ENOMEM      == -12
EFAULT      == -14
EINVAL      == -22
ERESTARTSYS == -512

NoCall == [op |-> "none"]

ReadCalls    == [op : {"read"}, count : ReadCounts]
WriteCalls   == [op : {"write"}, chunk : Chunks]
SeekEndCalls == [op : {"seek_end"}, off : SeekOffs]
SeekToCalls  == {[op |-> "seekto", write_cmd |-> a[1], write_cmd_offset |-> a[2]] : a \in SeekToArgs}
LockingCalls == ReadCalls \cup WriteCalls \cup SeekEndCalls \cup SeekToCalls

-----------------------------------------------------------------------------
(* The heap.                                                               *)

\* The i-th byte behind a pointer, and the first n: anything when the block has
\* been freed or is shorter.
ByteAt(ptr, i) ==
  IF ptr \in allocated /\ i \in DOMAIN heap[ptr] THEN heap[ptr][i] ELSE Garbage

BytesAt(ptr, n) == [i \in 1 .. n |-> ByteAt(ptr, i)]

\* The bytes of the unfinished command.
Pending == BytesAt(p_write_buffer, write_buffer_size)

\* kfree of a set of pointers; kfree(NULL) does nothing.
kfree(ptrs) ==
  /\ allocated' = allocated \ ptrs
  /\ heap' = [q \in Ptr |-> IF q \in ptrs THEN <<>> ELSE heap[q]]

\* krealloc of the write buffer that succeeds with block q: the old block in
\* place, or a free one that gets the bytes while the old one is freed.
krealloc(q) ==
  \/ /\ q = p_write_buffer
     /\ heap' = [heap EXCEPT ![q] = Pending]
     /\ UNCHANGED allocated
  \/ /\ q \in Ptr \ (allocated \cup {p_write_buffer})
     /\ heap' = [r \in Ptr |-> IF r = q THEN Pending
                               ELSE IF r = p_write_buffer THEN <<>> ELSE heap[r]]
     /\ allocated' = (allocated \ {p_write_buffer}) \cup {q}

-----------------------------------------------------------------------------
(* Loading, removing, opening and closing.                                 *)

Init ==
  /\ loads = 0 /\ loaded = FALSE
  /\ buffer = aesd_circular_buffer_init
  /\ p_write_buffer = NULL /\ write_buffer_size = 0
  /\ lock = NULL
  /\ allocated = {} /\ heap = [q \in Ptr |-> <<>>] /\ orphans = {}
  /\ opened = {} /\ f_pos = [p \in Proc |-> 0]
  /\ pc = [p \in Proc |-> "idle"] /\ call = [p \in Proc |-> NoCall]
  /\ file_size = [p \in Proc |-> 0]
  /\ ret = [p \in Proc |-> 0] /\ got = [p \in Proc |-> <<>>]

\* insmod. When registering the device fails the module stays unloaded.
aesd_init_module ==
  /\ ~loaded /\ loads < MaxLoads
  /\ loaded' = TRUE /\ loads' = loads + 1
  /\ buffer' = aesd_circular_buffer_init
  /\ p_write_buffer' = NULL /\ write_buffer_size' = 0
  /\ lock' = NULL
  /\ UNCHANGED <<memory, files, pc, call, file_size, ret, got>>

\* Mutant: the loop of aesd_llseek, which takes a full buffer for an empty one.
EntriesToFreeByOffset ==
  {buffer.entry[SlotAt(buffer, k)].buffptr : k \in 0 .. VisitsWhile(buffer) - 1}

\* What AESD_CIRCULAR_BUFFER_FOREACH visits: every slot, used or not.
EntriesToFree == {buffer.entry[s].buffptr : s \in Slots}

\* rmmod: frees what the entries point to. The kernel refuses it while a file
\* of the device is open (fops.owner).
aesd_cleanup_module ==
  /\ loaded /\ opened = {}
  /\ loaded' = FALSE
  /\ kfree(EntriesToFree)
  /\ orphans' = allocated \ EntriesToFree
  /\ UNCHANGED <<loads, device, lock, files, pc, call, file_size, ret, got>>

aesd_open(p) ==
  /\ loaded /\ p \notin opened /\ pc[p] = "idle"
  /\ opened' = opened \cup {p}
  /\ f_pos' = [f_pos EXCEPT ![p] = 0]
  /\ UNCHANGED <<module, device, lock, memory, pc, call, file_size, ret, got>>

aesd_release(p) ==
  /\ p \in opened /\ pc[p] = "idle"
  /\ opened' = opened \ {p}
  /\ f_pos' = [f_pos EXCEPT ![p] = 0]
  /\ ret' = [ret EXCEPT ![p] = 0] /\ got' = [got EXCEPT ![p] = <<>>]
  /\ UNCHANGED <<module, device, lock, memory, pc, call, file_size>>

-----------------------------------------------------------------------------
(* Entering a file operation, and the device mutex.                        *)

\* The process calls read, write, llseek(SEEK_END) or ioctl, and comes to
\* mutex_lock_interruptible.
Call(p, c) ==
  /\ p \in opened /\ pc[p] = "idle"
  /\ c.op = "write" => write_buffer_size + Len(c.chunk) <= MaxPending
  /\ c.op \in {"seek_end", "seekto"} => f_pos[p] <= MaxPos
  /\ pc' = [pc EXCEPT ![p] = "lock"]
  /\ call' = [call EXCEPT ![p] = c]
  /\ ret' = [ret EXCEPT ![p] = 0] /\ got' = [got EXCEPT ![p] = <<>>]
  /\ UNCHANGED <<module, device, lock, memory, files, file_size>>

Acquire(p) ==
  /\ pc[p] = "lock" /\ lock = NULL
  /\ lock' = p
  /\ pc' = [pc EXCEPT ![p] = "locked"]
  /\ UNCHANGED <<module, device, memory, files, call, file_size, ret, got>>

\* The operation returns r to its caller.
Return(p, r) ==
  /\ pc' = [pc EXCEPT ![p] = "idle"]
  /\ call' = [call EXCEPT ![p] = NoCall]
  /\ ret' = [ret EXCEPT ![p] = r]

\* A signal ends the wait for a mutex that another process holds.
Interrupted(p) ==
  /\ pc[p] = "lock" /\ lock # NULL
  /\ Return(p, ERESTARTSYS)
  /\ UNCHANGED <<module, device, lock, memory, files, file_size, got>>

-----------------------------------------------------------------------------
(* read().                                                                 *)

aesd_read(p) ==
  LET find  == aesd_circular_buffer_find_entry_offset_for_fpos(buffer, f_pos[p])
      entry == buffer.entry[find.slot]
      bytes_available == (entry.size - find.offset) % SizeMod
      bytes_to_copy   == IF bytes_available > call[p].count THEN call[p].count
                                                            ELSE bytes_available
      bytes == [i \in 1 .. bytes_to_copy |-> ByteAt(entry.buffptr, find.offset + i)]
      \* the source of the copy is not memory of any entry
      wild  == entry.buffptr = NULL /\ bytes_to_copy > 0
  IN  /\ pc[p] = "locked" /\ call[p].op = "read"
      /\ \/ /\ find.slot = NULL                        \* nothing at f_pos
            /\ lock' = NULL
            /\ Return(p, 0)
            /\ UNCHANGED <<f_pos, got>>
         \/ /\ find.slot # NULL
            /\ CopyFails \/ wild                       \* copy_to_user fails
            /\ lock' = NULL
            /\ Return(p, 0)
            /\ UNCHANGED <<f_pos, got>>
         \/ /\ find.slot # NULL /\ ~wild               \* the bytes are copied
            /\ f_pos' = [f_pos EXCEPT ![p] = @ + bytes_to_copy]
            /\ got' = [got EXCEPT ![p] = bytes]
            /\ lock' = NULL
            /\ Return(p, bytes_to_copy)
         \/ /\ find.slot # NULL /\ wild                \* or the kernel oopses
            /\ pc' = [pc EXCEPT ![p] = "oops"]
            /\ UNCHANGED <<lock, f_pos, call, ret, got>>
      /\ UNCHANGED <<module, device, memory, opened, file_size>>

\* A process that oopsed is killed: its file is closed, the mutex stays taken.
Exit(p) ==
  /\ pc[p] = "oops"
  /\ pc' = [pc EXCEPT ![p] = "dead"]
  /\ opened' = opened \ {p}
  /\ UNCHANGED <<module, device, lock, memory, f_pos, call, file_size, ret, got>>

-----------------------------------------------------------------------------
(* write(): krealloc of the write buffer, then the copy and the commit.    *)

WriteAllocOk(p) ==
  /\ pc[p] = "locked" /\ call[p].op = "write"
  /\ \E q \in Ptr : krealloc(q) /\ p_write_buffer' = q
  /\ pc' = [pc EXCEPT ![p] = "copy"]
  /\ UNCHANGED <<module, buffer, write_buffer_size, lock, orphans, files, call, file_size, ret, got>>

\* Mutant: the error path returns without "goto end".
WriteAllocFailsKeepsLock(p) ==
  /\ pc[p] = "locked" /\ call[p].op = "write"
  /\ (IF p_write_buffer = NULL THEN "fresh" ELSE "grow") \in KreallocFails
  /\ kfree({p_write_buffer})
  /\ Return(p, ENOMEM)
  /\ UNCHANGED <<module, device, lock, orphans, files, file_size, got>>

\* krealloc returns NULL: the write buffer is freed, its pointer is kept.
WriteAllocFails(p) ==
  /\ pc[p] = "locked" /\ call[p].op = "write"
  /\ (IF p_write_buffer = NULL THEN "fresh" ELSE "grow") \in KreallocFails
  /\ kfree({p_write_buffer})
  /\ lock' = NULL
  /\ Return(p, ENOMEM)
  /\ UNCHANGED <<module, device, orphans, files, file_size, got>>

\* Mutant: the error path returns without "goto end".
WriteCopyFailsKeepsLock(p) ==
  /\ CopyFails
  /\ pc[p] = "copy"
  /\ Return(p, EFAULT)
  /\ UNCHANGED <<module, device, lock, memory, files, file_size, got>>

WriteCopyFails(p) ==
  /\ CopyFails
  /\ pc[p] = "copy"
  /\ lock' = NULL
  /\ Return(p, EFAULT)
  /\ UNCHANGED <<module, device, memory, files, file_size, got>>

\* The bytes are in the write buffer, which holds no newline yet.
WriteKeep(p) ==
  LET bytes == Pending \o call[p].chunk
  IN  /\ pc[p] = "copy"
      /\ ~Contains(bytes, NL)
      /\ heap' = [heap EXCEPT ![p_write_buffer] = bytes]
      /\ write_buffer_size' = write_buffer_size + Len(call[p].chunk)
      /\ lock' = NULL
      /\ Return(p, Len(call[p].chunk))
      /\ UNCHANGED <<module, buffer, p_write_buffer, allocated, orphans, files, file_size, got>>

EvictedNever == {}   \* mutant: the oldest entry is overwritten and not freed

\* What a commit frees: the block of the oldest entry of a full buffer.
Evicted == IF buffer.full THEN {buffer.entry[buffer.out_offs].buffptr} ELSE {}

\* The write buffer holds a newline: all of it becomes the newest entry. When
\* the buffer is full the block of the oldest entry is freed first.
WriteCommit(p) ==
  LET bytes  == Pending \o call[p].chunk
      entry  == [buffptr |-> p_write_buffer, size |-> write_buffer_size + Len(call[p].chunk)]
  IN  /\ pc[p] = "copy"
      /\ Contains(bytes, NL)
      /\ allocated' = allocated \ Evicted
      /\ heap' = [q \in Ptr |-> IF q = p_write_buffer THEN bytes
                                ELSE IF q \in Evicted THEN <<>> ELSE heap[q]]
      /\ buffer' = aesd_circular_buffer_add_entry(buffer, entry)
      /\ write_buffer_size' = 0
      /\ p_write_buffer' = NULL
      /\ lock' = NULL
      /\ Return(p, Len(call[p].chunk))
      /\ UNCHANGED <<module, orphans, files, file_size, got>>

-----------------------------------------------------------------------------
(* llseek() and ioctl().                                                   *)

\* Sets f_pos unless the new position is negative.
SetPos(p, newpos) ==
  IF newpos < 0
  THEN Return(p, EINVAL) /\ UNCHANGED f_pos
  ELSE Return(p, newpos) /\ f_pos' = [f_pos EXCEPT ![p] = newpos]

\* SEEK_SET and SEEK_CUR take no lock.
SeekSet(p, off) ==
  /\ p \in opened /\ pc[p] = "idle"
  /\ SetPos(p, off)
  /\ got' = [got EXCEPT ![p] = <<>>]
  /\ UNCHANGED <<module, device, lock, memory, opened, file_size>>

SeekCur(p, off) ==
  /\ p \in opened /\ pc[p] = "idle" /\ f_pos[p] <= MaxPos
  /\ SetPos(p, f_pos[p] + off)
  /\ got' = [got EXCEPT ![p] = <<>>]
  /\ UNCHANGED <<module, device, lock, memory, opened, file_size>>

\* Mutant: the sum starts at the first slot of the array.
SizeBeforeFromZero(stop) == SizeUpTo([buffer EXCEPT !.out_offs = 0])[stop]

\* Bytes of the entries from slot out_offs up to, not including, slot `stop`.
SizeBefore(stop) == SizeUpTo(buffer)[(stop - buffer.out_offs) % MaxWriteOps]

\* SEEK_END measures under the mutex ...
SeekEndMeasure(p) ==
  /\ pc[p] = "locked" /\ call[p].op = "seek_end"
  /\ file_size' = [file_size EXCEPT ![p] = SizeBefore(buffer.in_offs)]
  /\ lock' = NULL
  /\ pc' = [pc EXCEPT ![p] = "measured"]
  /\ UNCHANGED <<module, device, memory, files, call, ret, got>>

\* Mutant: the position behind the last byte.
SeekEndMoveBehind(p) ==
  /\ pc[p] = "measured"
  /\ SetPos(p, file_size[p] + call[p].off)
  /\ file_size' = [file_size EXCEPT ![p] = 0]
  /\ UNCHANGED <<module, device, lock, memory, opened, got>>

\* ... and moves the file after it has released it.
SeekEndMove(p) ==
  /\ pc[p] = "measured"
  /\ SetPos(p, file_size[p] - 1 + call[p].off)
  /\ file_size' = [file_size EXCEPT ![p] = 0]
  /\ UNCHANGED <<module, device, lock, memory, opened, got>>

aesd_ioctl(p) ==
  LET cmd_idx == (call[p].write_cmd + buffer.out_offs) % MaxWriteOps
      write_cmd_offset == SizeBefore(cmd_idx) + call[p].write_cmd_offset
  IN  /\ pc[p] = "locked" /\ call[p].op = "seekto"
      /\ \/ /\ \/ call[p].write_cmd > MaxWriteOps
               \/ call[p].write_cmd_offset >= buffer.entry[cmd_idx].size
            /\ Return(p, EINVAL)
            /\ UNCHANGED f_pos
         \/ /\ call[p].write_cmd <= MaxWriteOps
            /\ call[p].write_cmd_offset < buffer.entry[cmd_idx].size
            /\ f_pos' = [f_pos EXCEPT ![p] = @ + write_cmd_offset]
            /\ Return(p, 0)
      /\ lock' = NULL
      /\ UNCHANGED <<module, device, memory, opened, file_size, got>>

\* ioctl with an argument that cannot be copied from user space.
IoctlCopyFails(p) ==
  /\ CopyFails
  /\ p \in opened /\ pc[p] = "idle"
  /\ Return(p, EFAULT)
  /\ got' = [got EXCEPT ![p] = <<>>]
  /\ UNCHANGED <<module, device, lock, memory, files, file_size>>

\* llseek with another whence, ioctl with another command.
BadRequest(p) ==
  /\ p \in opened /\ pc[p] = "idle"
  /\ Return(p, EINVAL)
  /\ got' = [got EXCEPT ![p] = <<>>]
  /\ UNCHANGED <<module, device, lock, memory, files, file_size>>

-----------------------------------------------------------------------------

\* The steps of an operation that holds the mutex, or has just released it.
Body(p) ==
  \/ aesd_read(p)
  \/ WriteAllocOk(p) \/ WriteAllocFails(p)
  \/ WriteCopyFails(p) \/ WriteKeep(p) \/ WriteCommit(p)
  \/ SeekEndMeasure(p) \/ SeekEndMove(p)
  \/ aesd_ioctl(p)

Next ==
  \/ aesd_init_module
  \/ aesd_cleanup_module
  \/ \E p \in Proc :
       \/ aesd_open(p) \/ aesd_release(p)
       \/ \E c \in LockingCalls : Call(p, c)
       \/ \E off \in SeekOffs : SeekSet(p, off) \/ SeekCur(p, off)
       \/ IoctlCopyFails(p) \/ BadRequest(p)
       \/ Acquire(p) \/ Interrupted(p)
       \/ Body(p) \/ Exit(p)

Spec == Init /\ [][Next]_vars

\* A process inside the driver keeps running, and the kernel mutex hands the
\* lock over in queue order, so a waiter is not overtaken for ever.
Fairness == \A p \in Proc : WF_vars(Body(p)) /\ SF_vars(Acquire(p))

FairSpec == Spec /\ Fairness

-----------------------------------------------------------------------------
(* What the device holds, seen from outside.                               *)

\* The stored commands, oldest first, and all their bytes.
Commands ==
  [i \in 1 .. EntryCount(buffer) |->
     LET e == Entries(buffer)[i] IN BytesAt(e.buffptr, e.size)]

Contents == FlattenSeq(Commands)

\* Where command k (counted from 0) starts in Contents.
StartOf(k) == Len(FlattenSeq(SubSeq(Commands, 1, k)))

\* p returns from operation op in this step.
Returns(p, op) == pc[p] = "locked" /\ call[p].op = op /\ pc'[p] = "idle"

-----------------------------------------------------------------------------
(* Properties.                                                             *)

\* Every variable has the type its C counterpart has.
TypeOK ==
  /\ loads \in Nat /\ loaded \in BOOLEAN
  /\ buffer \in BufferType(Ptr \cup {NULL})
  /\ p_write_buffer \in Ptr \cup {NULL} /\ write_buffer_size \in Nat
  /\ lock \in Proc \cup {NULL}
  /\ allocated \subseteq Ptr /\ orphans \subseteq Ptr
  /\ heap \in [Ptr -> Seq(Byte)]
  /\ opened \subseteq Proc /\ f_pos \in [Proc -> Nat]
  /\ pc \in [Proc -> {"idle", "lock", "locked", "copy", "measured", "oops", "dead"}]
  /\ call \in [Proc -> LockingCalls \cup {NoCall}]
  /\ file_size \in [Proc -> Nat]
  /\ ret \in [Proc -> Int] /\ got \in [Proc -> Seq(Byte)]

\* A process between lock and unlock holds the mutex, so two operations never
\* run on the device at once; and nobody else holds it: every way out of an
\* operation, also the ones through "goto end", has released it. Only a process
\* that died in the driver keeps it.
LockDiscipline ==
  \A p \in Proc :
    /\ pc[p] \in {"locked", "copy", "oops"} => lock = p
    /\ lock = p => pc[p] \in {"locked", "copy", "oops", "dead"}

\* A process is inside the driver only with the file open, and then the module
\* is loaded, so neither the mutex nor the device is initialised under a caller.
Occupancy ==
  /\ ~loaded => opened = {}
  /\ \A p \in Proc : /\ pc[p] \notin {"idle", "dead"} => p \in opened
                     /\ p \in opened => pc[p] # "dead"

\* Past the mutex, a step belongs to the operation that was called.
CallShape ==
  \A p \in Proc : /\ pc[p] = "copy" => call[p].op = "write"
                  /\ pc[p] = "measured" => call[p].op = "seek_end"

\* A block the driver refers to: by an entry, or as the write buffer.
EntryPtrs == {buffer.entry[s].buffptr : s \in Slots} \ {NULL}
WritePtr  == {p_write_buffer} \ {NULL}

\* While the module is loaded every block an entry or the write buffer points
\* to is allocated (no use after free), no two of them share a block (no double
\* free when entries are evicted or the module is removed), and nothing else
\* that the driver allocated is left (no leak).
Ownership ==
  loaded =>
    /\ allocated = EntryPtrs \cup WritePtr \cup orphans
    /\ EntryPtrs \cap WritePtr = {}
    /\ (EntryPtrs \cup WritePtr) \cap orphans = {}
    /\ \A s, t \in Slots :
         s # t /\ buffer.entry[s].buffptr = buffer.entry[t].buffptr
           => buffer.entry[s].buffptr = NULL

\* What makes Ownership inductive: the shape of the ring, which says that the
\* slot a commit overwrites is the evicted one or empty; nothing but orphans is
\* allocated while the module is away; and between allocation and copy there is
\* a write buffer.
HeapInv ==
  /\ Ownership
  /\ loaded => WellFormed(buffer)
  /\ ~loaded => allocated = orphans
  /\ \A p \in Proc : pc[p] = "copy" => p_write_buffer # NULL

\* Removing the module frees the block of every entry: the only block it can
\* leave behind is the write buffer of an unfinished command.
UnloadKeepsOnlyPending ==
  [][loaded /\ ~loaded' => orphans' \subseteq orphans \cup {p_write_buffer}]_vars

\* The search agrees with the concatenated commands for every position, at
\* every fill level and wrap of the ring, once a command is stored.
FindIsExact ==
  loaded /\ EntryCount(buffer) > 0 =>
    \A pos \in 0 .. Len(Contents) + 1 :
      LET find  == aesd_circular_buffer_find_entry_offset_for_fpos(buffer, pos)
          entry == buffer.entry[find.slot]
      IN  IF pos < Len(Contents)
          THEN /\ find.slot # NULL /\ find.offset < entry.size
               /\ BytesAt(entry.buffptr, entry.size)[find.offset + 1] = Contents[pos + 1]
          ELSE find.slot = NULL

\* A read hands over exactly the bytes that follow f_pos in the stored commands
\* and moves f_pos past them; it reports the end of the file only at or behind
\* the last byte, or when the copy to user space fails.
ReadIsExact ==
  [][\A p \in Proc : Returns(p, "read") =>
       /\ f_pos'[p] = f_pos[p] + ret'[p]
       /\ got'[p] = SubSeq(Contents, f_pos[p] + 1, f_pos'[p])
       /\ Len(got'[p]) = ret'[p]
       /\ ret'[p] = 0 => \/ f_pos[p] >= Len(Contents)
                         \/ call[p].count = 0 \/ CopyFails]_vars

\* AESDCHAR_IOCSEEKTO on a file that was just opened, which is how the server
\* uses it, goes to the byte asked for if and only if that command and that
\* byte exist, for every number of a command but MaxWriteOps itself, which
\* main.c:255 lets pass.
SeekToFromStart ==
  [][\A p \in Proc :
       Returns(p, "seekto") /\ f_pos[p] = 0 /\ call[p].write_cmd # MaxWriteOps =>
         IF /\ call[p].write_cmd < Len(Commands)
            /\ call[p].write_cmd_offset < Len(Commands[call[p].write_cmd + 1])
         THEN ret'[p] = 0 /\ f_pos'[p] = StartOf(call[p].write_cmd) + call[p].write_cmd_offset
         ELSE ret'[p] = EINVAL /\ f_pos'[p] = 0]_vars

\* SEEK_END of p counts from the last byte of what is stored.
CountsFromLastByte(p) ==
  LET newpos == Len(Contents) - 1 + call[p].off
  IN  IF newpos < 0 THEN ret'[p] = EINVAL /\ f_pos'[p] = f_pos[p]
      ELSE ret'[p] = newpos /\ f_pos'[p] = newpos

\* SEEK_END of the only process that uses the device counts from the last byte,
\* as main.c:206 and 214 have it, for every fill and wrap of a ring that is not
\* full. Of a full one the loop of main.c:203 measures nothing, against the same
\* comments: nothing is claimed of that case.
SeekEndFindsLastByte ==
  [][\A p \in Proc : Proc = {p} /\ ~buffer.full /\ pc[p] = "measured" /\ pc'[p] = "idle" =>
       CountsFromLastByte(p)]_vars

DeviceLog == INSTANCE CommandLog
  WITH present <- loaded,
       log     <- IF loaded THEN Commands ELSE <<>>,
       pending <- IF loaded THEN Pending ELSE <<>>

\* The driver implements the command log: whatever the interleaving of its
\* callers, a write that succeeds appends to the pending bytes or completes the
\* command and drops the oldest of a full log, only loading and removing the
\* module empties it, and no other step, a failed or interrupted write included,
\* changes what is stored.
ImplementsCommandLog == DeviceLog!Spec

\* Every file operation returns: no path, through allocation and copy failures
\* and signals, keeps the mutex or waits for ever. The exception is a read that
\* runs into unmapped memory: then a process has died in the driver.
CallsReturnOrOops ==
  \A p \in Proc : pc[p] # "idle" ~> (pc[p] = "idle" \/ \E q \in Proc : pc[q] \in {"oops", "dead"})

-----------------------------------------------------------------------------
(* What the comments of the code say and the code does not do.             *)

\* aesd-circular-buffer.c:61: memory referenced by an entry "must be allocated
\* by and/or must have a lifetime managed by the caller".
EntriesAreAllocated == loaded => EntryPtrs \subseteq allocated

=============================================================================
