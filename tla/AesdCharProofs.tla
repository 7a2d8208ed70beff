--------------------------- MODULE AesdCharProofs ---------------------------
(***************************************************************************)
(* Proofs about the driver, for any number of processes, any capacity, any *)
(* bytes and any bounds.                                                   *)
(***************************************************************************)
EXTENDS AesdChar, CircularBufferProofs

-----------------------------------------------------------------------------
(* Types.                                                                  *)

\* The calls by their operation.
LEMMA CallTypes ==
  ASSUME NEW c \in LockingCalls \cup {NoCall}
  PROVE  /\ c.op = "read" => c.count \in Nat
         /\ c.op = "write" => c.chunk \in Chunks /\ c.chunk \in Seq(Byte) /\ c.chunk # << >>
         /\ c.op = "seek_end" => c.off \in Int
         /\ c.op = "seekto" => c.write_cmd \in Nat /\ c.write_cmd_offset \in Nat
<1>1. c \in ReadCalls \cup WriteCalls \cup SeekEndCalls \cup SeekToCalls \cup {NoCall}
  BY DEF LockingCalls
<1>2. c \in ReadCalls => c.op = "read" /\ c.count \in Nat
  BY DriverAssumption DEF ReadCalls
<1>3. c \in WriteCalls => c.op = "write" /\ c.chunk \in Chunks
  BY DEF WriteCalls
<1>4. c \in SeekEndCalls => c.op = "seek_end" /\ c.off \in Int
  BY DriverAssumption DEF SeekEndCalls
<1>5. c \in SeekToCalls => c.op = "seekto" /\ c.write_cmd \in Nat /\ c.write_cmd_offset \in Nat
  BY DriverAssumption DEF SeekToCalls
<1>6. c = NoCall => c.op = "none"
  BY DEF NoCall
<1> QED BY <1>1, <1>2, <1>3, <1>4, <1>5, <1>6, DriverAssumption

\* Bytes read from the heap are bytes.
LEMMA BytesAtType ==
  ASSUME TypeOK, NEW ptr, NEW n \in Nat
  PROVE  /\ \A i \in Nat : ByteAt(ptr, i) \in Byte
         /\ BytesAt(ptr, n) \in Seq(Byte) /\ Len(BytesAt(ptr, n)) = n
<1>1. ASSUME NEW i \in Nat PROVE ByteAt(ptr, i) \in Byte
  <2>1. CASE ptr \in allocated /\ i \in DOMAIN heap[ptr]
    <3>1. heap[ptr] \in Seq(Byte)
      BY <2>1 DEF TypeOK
    <3>2. DOMAIN heap[ptr] = 1 .. Len(heap[ptr])
      BY <3>1, LenProperties
    <3>3. heap[ptr][i] \in Byte
      BY <2>1, <3>1, <3>2, ElementOfSeq
    <3> QED BY <2>1, <3>3 DEF ByteAt
  <2>2. CASE ~ (ptr \in allocated /\ i \in DOMAIN heap[ptr])
    BY <2>2, DriverAssumption DEF ByteAt
  <2> QED BY <2>1, <2>2
<1>2. BytesAt(ptr, n) \in [1 .. n -> Byte]
  BY <1>1 DEF BytesAt
<1> QED BY <1>1, <1>2, FcnIsSeq

\* The type invariant is inductive together with the shape of the calls.
TypeInv == TypeOK /\ CallShape

\* The types hold before the module is loaded.
LEMMA TypeInit == Init => TypeInv
<1> SUFFICES ASSUME Init PROVE TypeInv
  OBVIOUS
<1>1. aesd_circular_buffer_init \in BufferType(Ptr \cup {NULL})
  BY MaxWriteOpsAssumption DEF aesd_circular_buffer_init, BufferType, EmptyEntry, Slots
<1>2. heap \in [Ptr -> Seq(Byte)] /\ got \in [Proc -> Seq(Byte)]
  BY EmptySeq DEF Init
<1>3. buffer \in BufferType(Ptr \cup {NULL})
  BY <1>1 DEF Init
<1>4. TypeOK
  <2>1. loaded \in BOOLEAN
    BY DEF Init
  <2>2. /\ loads \in Nat /\ write_buffer_size \in Nat
        /\ p_write_buffer \in Ptr \cup {NULL} /\ lock \in Proc \cup {NULL}
        /\ allocated \subseteq Ptr /\ orphans \subseteq Ptr /\ opened \subseteq Proc
    BY DEF Init
  <2>3. f_pos \in [Proc -> Nat] /\ file_size \in [Proc -> Nat] /\ ret \in [Proc -> Int]
    BY DEF Init
  <2>4. /\ pc \in [Proc -> {"idle", "lock", "locked", "copy", "measured", "oops", "dead"}]
        /\ call \in [Proc -> LockingCalls \cup {NoCall}]
    BY DEF Init
  <2> QED BY <1>2, <1>3, <2>1, <2>2, <2>3, <2>4 DEF TypeOK
<1>5. CallShape
  BY DEF Init, CallShape
<1> QED BY <1>4, <1>5 DEF TypeInv

\* SizeUpTo and SizeBefore are sums of sizes.
LEMMA SizesType ==
  ASSUME TypeOK
  PROVE  /\ \A k \in 0 .. MaxWriteOps : SizeUpTo(buffer)[k] \in Nat
         /\ \A stop \in Slots : SizeBefore(stop) \in Nat
<1>1. \A k \in 0 .. MaxWriteOps : SizeUpTo(buffer)[k] \in Nat
  BY SizeUpToSums DEF TypeOK, PartialSums
<1>2. ASSUME NEW stop \in Slots PROVE SizeBefore(stop) \in Nat
  <2>1. stop - buffer.out_offs \in Int
    BY DEF TypeOK, BufferType, Slots
  <2>2. (stop - buffer.out_offs) % MaxWriteOps \in 0 .. MaxWriteOps
    BY <2>1, ModInSlots, MaxWriteOpsAssumption DEF Slots
  <2> QED BY <1>1, <2>2 DEF SizeBefore
<1> QED BY <1>1, <1>2

\* SetPos and Return keep the types.
LEMMA ReturnType ==
  ASSUME TypeInv, NEW p \in Proc, NEW r \in Int, Return(p, r)
  PROVE  /\ pc' \in [Proc -> {"idle", "lock", "locked", "copy", "measured", "oops", "dead"}]
         /\ call' \in [Proc -> LockingCalls \cup {NoCall}]
         /\ ret' \in [Proc -> Int]
         /\ CallShape'
BY DEF Return, TypeInv, TypeOK, CallShape, NoCall

\* llseek leaves a position and a result of the right type.
LEMMA SetPosType ==
  ASSUME TypeInv, NEW p \in Proc, NEW newpos \in Int, SetPos(p, newpos)
  PROVE  /\ f_pos' \in [Proc -> Nat]
         /\ \E r \in Int : Return(p, r)
<1>1. EINVAL \in Int
  BY DEF EINVAL
<1>2. CASE newpos < 0
  BY <1>1, <1>2 DEF SetPos, TypeInv, TypeOK
<1>3. CASE ~ (newpos < 0)
  BY <1>3 DEF SetPos, TypeInv, TypeOK
<1> QED BY <1>2, <1>3

\* Every step of the driver keeps the types.
LEMMA TypeStep == TypeInv /\ [Next]_vars => TypeInv'
<1> SUFFICES ASSUME TypeInv, [Next]_vars PROVE TypeInv'
  OBVIOUS
<1> USE DEF module, device, memory, files
<1>1. CASE aesd_init_module
  <2>1. aesd_circular_buffer_init \in BufferType(Ptr \cup {NULL})
    BY MaxWriteOpsAssumption DEF aesd_circular_buffer_init, BufferType, EmptyEntry, Slots
  <2> QED BY <1>1, <2>1 DEF aesd_init_module, TypeInv, TypeOK, CallShape
<1>2. CASE aesd_cleanup_module
  <2>1. heap' \in [Ptr -> Seq(Byte)]
    BY <1>2, EmptySeq DEF aesd_cleanup_module, kfree, TypeInv, TypeOK
  <2> QED BY <1>2, <2>1 DEF aesd_cleanup_module, kfree, TypeInv, TypeOK, CallShape
<1>3. ASSUME NEW p \in Proc, aesd_open(p) PROVE TypeInv'
  BY <1>3 DEF aesd_open, TypeInv, TypeOK, CallShape
<1>4. ASSUME NEW p \in Proc, aesd_release(p) PROVE TypeInv'
  BY <1>4, EmptySeq DEF aesd_release, TypeInv, TypeOK, CallShape
<1>5. ASSUME NEW p \in Proc, NEW c \in LockingCalls, Call(p, c) PROVE TypeInv'
  BY <1>5, EmptySeq DEF Call, TypeInv, TypeOK, CallShape
<1>6. ASSUME NEW p \in Proc, NEW off \in SeekOffs, SeekSet(p, off) PROVE TypeInv'
  <2>1. off \in Int
    BY DriverAssumption
  <2> QED BY <1>6, <2>1, SetPosType, ReturnType, EmptySeq DEF SeekSet, TypeInv, TypeOK
<1>7. ASSUME NEW p \in Proc, NEW off \in SeekOffs, SeekCur(p, off) PROVE TypeInv'
  <2>1. f_pos[p] + off \in Int
    BY DriverAssumption DEF TypeInv, TypeOK
  <2> QED BY <1>7, <2>1, SetPosType, ReturnType, EmptySeq DEF SeekCur, TypeInv, TypeOK
<1>8. ASSUME NEW p \in Proc, IoctlCopyFails(p) \/ BadRequest(p) PROVE TypeInv'
  <2>1. EFAULT \in Int /\ EINVAL \in Int
    BY DEF EFAULT, EINVAL
  <2>2. /\ Return(p, EFAULT) \/ Return(p, EINVAL)
        /\ got' = [got EXCEPT ![p] = <<>>]
        /\ UNCHANGED <<module, device, lock, memory, files, file_size>>
    BY <1>8 DEF IoctlCopyFails, BadRequest
  <2>3. got' \in [Proc -> Seq(Byte)]
    BY <2>2, EmptySeq DEF TypeInv, TypeOK
  <2> QED BY <2>1, <2>2, <2>3, ReturnType DEF TypeInv, TypeOK
<1>9. ASSUME NEW p \in Proc, Acquire(p) PROVE TypeInv'
  BY <1>9 DEF Acquire, TypeInv, TypeOK, CallShape
<1>10. ASSUME NEW p \in Proc, Interrupted(p) PROVE TypeInv'
  <2>1. ERESTARTSYS \in Int
    BY DEF ERESTARTSYS
  <2> QED BY <1>10, <2>1, ReturnType DEF Interrupted, TypeInv, TypeOK
<1>11. ASSUME NEW p \in Proc, aesd_read(p) PROVE TypeInv'
  <2> DEFINE find  == aesd_circular_buffer_find_entry_offset_for_fpos(buffer, f_pos[p])
             entry == buffer.entry[find.slot]
             available == (entry.size - find.offset) % SizeMod
             copied == IF available > call[p].count THEN call[p].count ELSE available
             bytes == [i \in 1 .. copied |-> ByteAt(entry.buffptr, find.offset + i)]
  <2>1. f_pos[p] \in Nat /\ call[p].count \in Nat
    BY <1>11, CallTypes DEF aesd_read, TypeInv, TypeOK
  <2>2. find.slot # NULL => find.offset \in Nat /\ copied \in Nat /\ bytes \in Seq(Byte)
    <3>1. SUFFICES ASSUME find.slot # NULL
                   PROVE  find.offset \in Nat /\ copied \in Nat /\ bytes \in Seq(Byte)
      OBVIOUS
    <3>2. find.slot \in Slots /\ find.offset \in Nat
      BY <2>1, <3>1, FindType DEF TypeInv, TypeOK
    <3> HIDE DEF find
    <3>3. entry.size \in Nat
      BY <3>2 DEF TypeInv, TypeOK, BufferType
    <3> HIDE DEF entry
    <3>4. available \in Nat
      BY <3>2, <3>3, SizeModAssumption
    <3>5. copied \in Nat
      BY <2>1, <3>4
    <3>6. ASSUME NEW i \in 1 .. copied PROVE ByteAt(entry.buffptr, find.offset + i) \in Byte
      <4>1. find.offset + i \in Nat
        BY <3>2, <3>5
      <4> QED BY <4>1, BytesAtType, 0 \in Nat DEF TypeInv
    <3>7. bytes \in [1 .. copied -> Byte]
      BY <3>6
    <3> QED BY <3>2, <3>5, <3>7, FcnIsSeq
  <2>3. \/ Return(p, 0) /\ lock' = NULL /\ UNCHANGED <<f_pos, got>>
        \/ /\ find.slot # NULL
           /\ Return(p, copied) /\ lock' = NULL
           /\ f_pos' = [f_pos EXCEPT ![p] = @ + copied]
           /\ got' = [got EXCEPT ![p] = bytes]
        \/ /\ pc' = [pc EXCEPT ![p] = "oops"]
           /\ UNCHANGED <<lock, f_pos, call, ret, got>>
    BY <1>11 DEF aesd_read
  <2>4. UNCHANGED <<module, device, memory, opened, file_size>>
    BY <1>11 DEF aesd_read
  <2> HIDE DEF find, entry, available, copied, bytes
  <2>5. CASE Return(p, 0) /\ lock' = NULL /\ UNCHANGED <<f_pos, got>>
    BY <2>4, <2>5, 0 \in Int, ReturnType DEF TypeInv, TypeOK
  <2>6. CASE /\ find.slot # NULL
             /\ Return(p, copied) /\ lock' = NULL
             /\ f_pos' = [f_pos EXCEPT ![p] = @ + copied]
             /\ got' = [got EXCEPT ![p] = bytes]
    <3>1. f_pos' \in [Proc -> Nat] /\ got' \in [Proc -> Seq(Byte)] /\ copied \in Int
      BY <2>1, <2>2, <2>6 DEF TypeInv, TypeOK
    <3> QED BY <2>4, <2>6, <3>1, ReturnType DEF TypeInv, TypeOK
  <2>7. CASE /\ pc' = [pc EXCEPT ![p] = "oops"]
             /\ UNCHANGED <<lock, f_pos, call, ret, got>>
    BY <2>4, <2>7 DEF TypeInv, TypeOK, CallShape
  <2> QED BY <2>3, <2>5, <2>6, <2>7
<1>12. ASSUME NEW p \in Proc, WriteAllocOk(p) PROVE TypeInv'
  <2>1. write_buffer_size \in Nat
    BY DEF TypeInv, TypeOK
  <2>2. Pending \in Seq(Byte)
    BY <2>1, BytesAtType DEF Pending, TypeInv
  <2>3. PICK q \in Ptr : krealloc(q) /\ p_write_buffer' = q
    BY <1>12 DEF WriteAllocOk
  <2>4. heap' \in [Ptr -> Seq(Byte)] /\ allocated' \subseteq Ptr
    <3>1. heap \in [Ptr -> Seq(Byte)] /\ allocated \subseteq Ptr /\ <<>> \in Seq(Byte)
      BY EmptySeq DEF TypeInv, TypeOK
    <3>2. CASE heap' = [heap EXCEPT ![q] = Pending] /\ UNCHANGED allocated
      BY <2>2, <3>1, <3>2
    <3>3. CASE /\ heap' = [r \in Ptr |-> IF r = q THEN Pending
                                        ELSE IF r = p_write_buffer THEN <<>> ELSE heap[r]]
               /\ allocated' = (allocated \ {p_write_buffer}) \cup {q}
      BY <2>2, <3>1, <3>3
    <3> QED BY <2>3, <3>2, <3>3 DEF krealloc
  <2> QED BY <1>12, <2>3, <2>4 DEF WriteAllocOk, TypeInv, TypeOK, CallShape
<1>13. ASSUME NEW p \in Proc, WriteAllocFails(p) PROVE TypeInv'
  <2>1. ENOMEM \in Int
    BY DEF ENOMEM
  <2>2. heap' \in [Ptr -> Seq(Byte)] /\ allocated' \subseteq Ptr
    BY <1>13, EmptySeq DEF WriteAllocFails, kfree, TypeInv, TypeOK
  <2> QED BY <1>13, <2>1, <2>2, ReturnType DEF WriteAllocFails, TypeInv, TypeOK
<1>14. ASSUME NEW p \in Proc, WriteCopyFails(p) PROVE TypeInv'
  <2>1. EFAULT \in Int
    BY DEF EFAULT
  <2> QED BY <1>14, <2>1, ReturnType DEF WriteCopyFails, TypeInv, TypeOK
<1>15. ASSUME NEW p \in Proc, pc[p] = "copy"
       PROVE  /\ Pending \o call[p].chunk \in Seq(Byte)
              /\ Len(call[p].chunk) \in Nat
              /\ write_buffer_size \in Nat
  <2>1. call[p].chunk \in Seq(Byte)
    BY <1>15, CallTypes DEF TypeInv, TypeOK, CallShape
  <2>2. write_buffer_size \in Nat
    BY DEF TypeInv, TypeOK
  <2>3. Pending \in Seq(Byte)
    BY <2>2, BytesAtType DEF Pending, TypeInv
  <2> QED BY <2>1, <2>2, <2>3, ConcatProperties, LenProperties
<1>16. ASSUME NEW p \in Proc, WriteKeep(p) PROVE TypeInv'
  <2>1. /\ heap' \in [Ptr -> Seq(Byte)]
        /\ write_buffer_size' \in Nat
        /\ Len(call[p].chunk) \in Int
    <3>1. /\ pc[p] = "copy"
          /\ heap' = [heap EXCEPT ![p_write_buffer] = Pending \o call[p].chunk]
          /\ write_buffer_size' = write_buffer_size + Len(call[p].chunk)
      BY <1>16 DEF WriteKeep
    <3>2. heap \in [Ptr -> Seq(Byte)]
      BY DEF TypeInv, TypeOK
    <3>3. Pending \o call[p].chunk \in Seq(Byte)
      BY <1>15, <3>1
    <3>4. heap' \in [Ptr -> Seq(Byte)]
      BY <3>1, <3>2, <3>3
    <3> QED BY <1>15, <3>1, <3>4
  <2> QED BY <1>16, <2>1, ReturnType DEF WriteKeep, TypeInv, TypeOK
<1>17. ASSUME NEW p \in Proc, WriteCommit(p) PROVE TypeInv'
  <2> DEFINE entry == [buffptr |-> p_write_buffer,
                       size |-> write_buffer_size + Len(call[p].chunk)]
  <2>1. entry \in [buffptr : Ptr \cup {NULL}, size : Nat]
    BY <1>15, <1>17 DEF WriteCommit, TypeInv, TypeOK
  <2>2. heap' \in [Ptr -> Seq(Byte)] /\ allocated' \subseteq Ptr /\ Len(call[p].chunk) \in Int
    BY <1>15, <1>17, EmptySeq DEF WriteCommit, TypeInv, TypeOK
  <2>3. buffer' \in BufferType(Ptr \cup {NULL})
    <3>1. buffer' = aesd_circular_buffer_add_entry(buffer, entry)
      BY <1>17 DEF WriteCommit
    <3>2. buffer \in BufferType(Ptr \cup {NULL})
      BY DEF TypeInv, TypeOK
    <3> HIDE DEF entry
    <3> QED BY <2>1, <3>1, <3>2, AddEntryType
  <2> QED BY <1>17, <2>2, <2>3, ReturnType DEF WriteCommit, TypeInv, TypeOK
<1>18. ASSUME NEW p \in Proc, SeekEndMeasure(p) PROVE TypeInv'
  <2>1. SizeBefore(buffer.in_offs) \in Nat
    BY SizesType DEF TypeInv, TypeOK, BufferType
  <2> QED BY <1>18, <2>1 DEF SeekEndMeasure, TypeInv, TypeOK, CallShape
<1>19. ASSUME NEW p \in Proc, SeekEndMove(p) PROVE TypeInv'
  <2>1. call[p].off \in Int /\ file_size[p] \in Int
    BY <1>19, CallTypes DEF SeekEndMove, TypeInv, TypeOK, CallShape
  <2>2. file_size[p] - 1 + call[p].off \in Int
    BY <2>1
  <2> QED BY <1>19, <2>2, SetPosType, ReturnType DEF SeekEndMove, TypeInv, TypeOK
<1>20. ASSUME NEW p \in Proc, aesd_ioctl(p) PROVE TypeInv'
  <2> DEFINE cmd_idx == (call[p].write_cmd + buffer.out_offs) % MaxWriteOps
             offset == SizeBefore(cmd_idx) + call[p].write_cmd_offset
  <2>1. call[p].write_cmd \in Nat /\ call[p].write_cmd_offset \in Nat
    BY <1>20, CallTypes DEF aesd_ioctl, TypeInv, TypeOK
  <2>2. call[p].write_cmd + buffer.out_offs \in Int
    BY <2>1 DEF TypeInv, TypeOK, BufferType, Slots
  <2>3. offset \in Nat
    BY <2>1, <2>2, ModInSlots, SizesType DEF TypeInv
  <2>4. EINVAL \in Int
    BY DEF EINVAL
  <2>5. /\ \/ Return(p, EINVAL) /\ UNCHANGED f_pos
           \/ Return(p, 0) /\ f_pos' = [f_pos EXCEPT ![p] = @ + offset]
        /\ lock' = NULL
        /\ UNCHANGED <<module, device, memory, opened, file_size, got>>
    BY <1>20 DEF aesd_ioctl
  <2> HIDE DEF offset
  <2>6. f_pos' \in [Proc -> Nat]
    <3>1. f_pos \in [Proc -> Nat]
      BY DEF TypeInv, TypeOK
    <3>2. f_pos' = f_pos \/ f_pos' = [f_pos EXCEPT ![p] = f_pos[p] + offset]
      BY <2>5
    <3> QED BY <2>3, <3>1, <3>2
  <2> QED BY <2>4, <2>5, <2>6, 0 \in Int, ReturnType DEF TypeInv, TypeOK
<1>21. ASSUME NEW p \in Proc, Exit(p) PROVE TypeInv'
  BY <1>21 DEF Exit, TypeInv, TypeOK, CallShape
<1>22. CASE UNCHANGED vars
  BY <1>22 DEF vars, TypeInv, TypeOK, CallShape
<1> QED
  BY <1>1, <1>2, <1>3, <1>4, <1>5, <1>6, <1>7, <1>8, <1>9, <1>10, <1>11, <1>12, <1>13,
     <1>14, <1>16, <1>17, <1>18, <1>19, <1>20, <1>21, <1>22 DEF Next, Body

\* Every variable keeps the type of its C counterpart.
THEOREM TypeCorrect == Spec => []TypeOK
<1>1. Spec => []TypeInv
  BY TypeInit, TypeStep, PTL DEF Spec
<1>2. TypeInv => TypeOK
  BY DEF TypeInv
<1> QED BY <1>1, <1>2, PTL

-----------------------------------------------------------------------------
(* The mutex.                                                              *)

\* LockDiscipline is inductive together with Occupancy: the mutex is initialised
\* only when the module is loaded, and then nobody may be in the driver.
LockInv == LockDiscipline /\ Occupancy

\* A step of p that holds the mutex and releases it.
LEMMA ReleaseStep ==
  ASSUME TypeInv, LockInv, NEW p \in Proc, pc[p] \in {"locked", "copy"},
         NEW x \in {"idle", "measured"},
         lock' = NULL, pc' = [pc EXCEPT ![p] = x], UNCHANGED <<loaded, opened>>
  PROVE  LockInv'
BY DriverAssumption DEF TypeInv, TypeOK, LockInv, LockDiscipline, Occupancy

\* A step of p that leaves the mutex alone.
LEMMA KeepStep ==
  ASSUME TypeInv, LockInv, NEW p \in Proc, NEW x,
         \/ pc[p] \in {"idle", "lock", "measured"} /\ x \in {"idle", "lock"}
         \/ pc[p] \in {"locked", "copy"} /\ x \in {"locked", "copy", "oops"},
         x # "idle" => p \in opened,
         UNCHANGED lock, pc' = [pc EXCEPT ![p] = x], UNCHANGED <<loaded, opened>>
  PROVE  LockInv'
BY DriverAssumption DEF TypeInv, TypeOK, LockInv, LockDiscipline, Occupancy

\* Every step of the driver keeps the mutex discipline.
LEMMA LockStep == TypeInv /\ LockInv /\ [Next]_vars => LockInv'
<1> SUFFICES ASSUME TypeInv, LockInv, [Next]_vars PROVE LockInv'
  OBVIOUS
<1> USE DEF module, device, memory, files
<1>0. \A p \in Proc : pc[p] \notin {"idle", "dead"} => p \in opened
  BY DEF LockInv, Occupancy
<1>1. CASE aesd_init_module
  BY <1>1, DriverAssumption DEF aesd_init_module, TypeInv, TypeOK, LockInv, LockDiscipline, Occupancy
<1>2. CASE aesd_cleanup_module
  BY <1>2 DEF aesd_cleanup_module, TypeInv, TypeOK, LockInv, LockDiscipline, Occupancy
<1>3. ASSUME NEW p \in Proc, aesd_open(p) PROVE LockInv'
  BY <1>3 DEF aesd_open, TypeInv, TypeOK, LockInv, LockDiscipline, Occupancy
<1>4. ASSUME NEW p \in Proc, aesd_release(p) PROVE LockInv'
  BY <1>4 DEF aesd_release, TypeInv, TypeOK, LockInv, LockDiscipline, Occupancy
<1>5. ASSUME NEW p \in Proc, NEW c \in LockingCalls, Call(p, c) PROVE LockInv'
  BY <1>5, KeepStep DEF Call
<1>6. ASSUME NEW p \in Proc, NEW off \in SeekOffs, SeekSet(p, off) \/ SeekCur(p, off)
      PROVE  LockInv'
  BY <1>6, KeepStep DEF SeekSet, SeekCur, SetPos, Return
<1>7. ASSUME NEW p \in Proc, IoctlCopyFails(p) \/ BadRequest(p) PROVE LockInv'
  BY <1>7, KeepStep DEF IoctlCopyFails, BadRequest, Return
<1>8. ASSUME NEW p \in Proc, Acquire(p) PROVE LockInv'
  BY <1>8, DriverAssumption DEF Acquire, TypeInv, TypeOK, LockInv, LockDiscipline, Occupancy
<1>9. ASSUME NEW p \in Proc, Interrupted(p) PROVE LockInv'
  BY <1>9, KeepStep DEF Interrupted, Return
<1>10. ASSUME NEW p \in Proc, aesd_read(p) PROVE LockInv'
  <2>1. pc[p] = "locked" /\ UNCHANGED <<loaded, opened>>
    BY <1>10 DEF aesd_read
  <2>2. \/ lock' = NULL /\ pc' = [pc EXCEPT ![p] = "idle"]
        \/ UNCHANGED lock /\ pc' = [pc EXCEPT ![p] = "oops"]
    BY <1>10 DEF aesd_read, Return
  <2> QED BY <1>0, <2>1, <2>2, ReleaseStep, KeepStep
<1>11. ASSUME NEW p \in Proc, WriteAllocOk(p) PROVE LockInv'
  BY <1>0, <1>11, KeepStep DEF WriteAllocOk
<1>12. ASSUME NEW p \in Proc, WriteAllocFails(p) PROVE LockInv'
  BY <1>12, ReleaseStep DEF WriteAllocFails, Return
<1>13. ASSUME NEW p \in Proc, WriteCopyFails(p) PROVE LockInv'
  BY <1>13, ReleaseStep DEF WriteCopyFails, Return
<1>14. ASSUME NEW p \in Proc, WriteKeep(p) PROVE LockInv'
  BY <1>14, ReleaseStep DEF WriteKeep, Return
<1>15. ASSUME NEW p \in Proc, WriteCommit(p) PROVE LockInv'
  BY <1>15, ReleaseStep DEF WriteCommit, Return
<1>16. ASSUME NEW p \in Proc, SeekEndMeasure(p) PROVE LockInv'
  BY <1>16, ReleaseStep DEF SeekEndMeasure
<1>17. ASSUME NEW p \in Proc, SeekEndMove(p) PROVE LockInv'
  BY <1>17, KeepStep DEF SeekEndMove, SetPos, Return
<1>18. ASSUME NEW p \in Proc, aesd_ioctl(p) PROVE LockInv'
  <2>1. /\ pc[p] = "locked" /\ lock' = NULL
        /\ pc' = [pc EXCEPT ![p] = "idle"] /\ UNCHANGED <<loaded, opened>>
    BY <1>18 DEF aesd_ioctl, Return
  <2> QED BY <2>1, ReleaseStep
<1>19. ASSUME NEW p \in Proc, Exit(p) PROVE LockInv'
  BY <1>19, DriverAssumption DEF Exit, TypeInv, TypeOK, LockInv, LockDiscipline, Occupancy
<1>20. CASE UNCHANGED vars
  BY <1>20 DEF vars, LockInv, LockDiscipline, Occupancy
<1> QED
  BY <1>1, <1>2, <1>3, <1>4, <1>5, <1>6, <1>7, <1>8, <1>9, <1>10, <1>11, <1>12, <1>13,
     <1>14, <1>15, <1>16, <1>17, <1>18, <1>19, <1>20 DEF Next, Body

\* In every reachable state a process between lock and unlock holds the device
\* mutex and nobody else does: the operations on the device exclude each other
\* and no way out of them, the error paths included, keeps the mutex.
THEOREM MutualExclusion == Spec => []LockDiscipline
<1>1. Init => LockInv
  BY DriverAssumption DEF Init, LockInv, LockDiscipline, Occupancy
<1>2. Spec => []LockInv
  BY <1>1, TypeInit, TypeStep, LockStep, PTL DEF Spec
<1>3. LockInv => LockDiscipline
  BY DEF LockInv
<1> QED BY <1>2, <1>3, PTL

-----------------------------------------------------------------------------
(* Memory.                                                                 *)

\* A step that leaves the device and the heap alone, and enters no copy.
LEMMA HeapFrame ==
  ASSUME TypeInv, HeapInv,
         UNCHANGED <<loaded, buffer, p_write_buffer, allocated, orphans>>,
         \A p \in Proc : pc'[p] = "copy" => pc[p] = "copy"
  PROVE  HeapInv'
BY DEF HeapInv, Ownership, EntryPtrs, WritePtr

\* The pc after a step of p that does not enter a copy.
LEMMA PcFrame ==
  ASSUME TypeInv, NEW p \in Proc, NEW x, x # "copy", pc' = [pc EXCEPT ![p] = x]
  PROVE  \A q \in Proc : pc'[q] = "copy" => pc[q] = "copy"
BY DEF TypeInv, TypeOK

\* The pointers of the ring after an entry is added: the slot at in_offs held
\* the oldest entry of a full ring, or nothing.
LEMMA CommitPtrs ==
  ASSUME TypeInv, HeapInv, loaded, NEW entry \in [buffptr : Ptr, size : Nat],
         entry.buffptr = p_write_buffer,
         buffer' = aesd_circular_buffer_add_entry(buffer, entry)
  PROVE  /\ EntryPtrs' = (EntryPtrs \ Evicted) \cup {entry.buffptr}
         /\ Evicted \subseteq EntryPtrs \cup {NULL}
         /\ \A s, t \in Slots :
              s # t /\ buffer'.entry[s].buffptr = buffer'.entry[t].buffptr
                => buffer'.entry[s].buffptr = NULL
<1> DEFINE i == buffer.in_offs
           e == buffer.entry
<1>1. /\ i \in Slots /\ buffer.out_offs \in Slots
      /\ e \in [Slots -> [buffptr : Ptr \cup {NULL}, size : Nat]]
      /\ NULL \notin Ptr
  BY DriverAssumption DEF TypeInv, TypeOK, BufferType
<1>2. buffer'.entry = [e EXCEPT ![i] = entry]
  BY DEF aesd_circular_buffer_add_entry
<1>3. IF buffer.full THEN Evicted = {e[i].buffptr} ELSE Evicted = {} /\ e[i].buffptr = NULL
  <2>1. CASE buffer.full
    BY <2>1 DEF HeapInv, WellFormed, Evicted
  <2>2. CASE ~ buffer.full
    <3>1. ~ (i < i)
      BY <1>1 DEF Slots
    <3>2. e[i] = EmptyEntry
      BY <1>1, <2>2, <3>1 DEF HeapInv, WellFormed
    <3> QED BY <2>2, <3>2 DEF Evicted, EmptyEntry
  <2> QED BY <2>1, <2>2
<1>4. /\ EntryPtrs = {e[s].buffptr : s \in Slots} \ {NULL}
      /\ EntryPtrs' = {buffer'.entry[s].buffptr : s \in Slots} \ {NULL}
  BY DEF EntryPtrs
<1>5. /\ \A s, t \in Slots : s # t /\ e[s].buffptr = e[t].buffptr => e[s].buffptr = NULL
      /\ EntryPtrs \cap {p_write_buffer} = {}
  BY <1>1 DEF HeapInv, Ownership, WritePtr
<1>6. \A s \in Slots : buffer'.entry[s] = IF s = i THEN entry ELSE e[s]
  BY <1>1, <1>2
<1> HIDE DEF i, e
<1>7. Evicted \subseteq EntryPtrs \cup {NULL}
  BY <1>1, <1>3, <1>4
<1>8. EntryPtrs' = (EntryPtrs \ Evicted) \cup {entry.buffptr}
  <2>1. ASSUME NEW x \in EntryPtrs' PROVE x \in (EntryPtrs \ Evicted) \cup {entry.buffptr}
    <3>1. PICK s \in Slots : x = buffer'.entry[s].buffptr /\ x # NULL
      BY <1>4
    <3>2. CASE s = i
      BY <1>6, <3>1, <3>2
    <3>3. CASE s # i
      <4>1. x = e[s].buffptr /\ x \in EntryPtrs
        BY <1>4, <1>6, <3>1, <3>3
      <4>2. x # e[i].buffptr
        BY <1>1, <1>5, <3>1, <3>3, <4>1
      <4> QED BY <1>3, <4>1, <4>2
    <3> QED BY <3>2, <3>3
  <2>2. ASSUME NEW x \in EntryPtrs \ Evicted PROVE x \in EntryPtrs'
    <3>1. PICK s \in Slots : x = e[s].buffptr /\ x # NULL
      BY <1>4
    <3>2. s # i
      BY <1>3, <3>1
    <3> QED BY <1>4, <1>6, <3>1, <3>2
  <2>3. entry.buffptr \in EntryPtrs'
    BY <1>1, <1>4, <1>6
  <2> QED BY <2>1, <2>2, <2>3
<1>9. ASSUME NEW s \in Slots, NEW t \in Slots, s # t,
             buffer'.entry[s].buffptr = buffer'.entry[t].buffptr
      PROVE  buffer'.entry[s].buffptr = NULL
  <2>1. \A r \in Slots : e[r].buffptr # p_write_buffer
    BY <1>1, <1>4, <1>5
  <2>2. s # i /\ t # i
    BY <1>6, <1>9, <2>1
  <2> QED BY <1>5, <1>6, <1>9, <2>2
<1> QED BY <1>7, <1>8, <1>9

\* Every step keeps the ownership of blocks: only write and unload touch it.
LEMMA HeapStep ==
  ASSUME "grow" \notin KreallocFails
  PROVE  TypeInv /\ LockInv /\ HeapInv /\ [Next]_vars => HeapInv'
<1> SUFFICES ASSUME TypeInv, LockInv, HeapInv, [Next]_vars PROVE HeapInv'
  OBVIOUS
<1> USE DEF module, device, memory, files
<1>1. CASE aesd_init_module
  <2>1. /\ \A s \in Slots : buffer'.entry[s] = EmptyEntry
        /\ buffer'.in_offs = 0 /\ buffer'.out_offs = 0 /\ buffer'.full = FALSE
    BY <1>1 DEF aesd_init_module, aesd_circular_buffer_init
  <2>2. EntryPtrs' = {} /\ WritePtr' = {}
    BY <1>1, <2>1 DEF aesd_init_module, EntryPtrs, WritePtr, EmptyEntry
  <2>3. allocated' = orphans' /\ loaded' /\ UNCHANGED pc
    BY <1>1 DEF aesd_init_module, HeapInv
  <2>4. WellFormed(buffer)'
    <3>1. \A s \in Slots : ~ (s < 0)
      BY MaxWriteOpsAssumption DEF Slots
    <3> QED BY <2>1, <3>1 DEF WellFormed
  <2>5. \A p \in Proc : pc[p] # "copy"
    BY <1>1 DEF aesd_init_module, LockInv, Occupancy
  <2> QED BY <2>1, <2>2, <2>3, <2>4, <2>5 DEF HeapInv, Ownership, EmptyEntry
<1>2. CASE aesd_cleanup_module
  BY <1>2 DEF aesd_cleanup_module, kfree, HeapInv, Ownership
<1>3. ASSUME NEW p \in Proc, aesd_open(p) \/ aesd_release(p) PROVE HeapInv'
  BY <1>3, HeapFrame DEF aesd_open, aesd_release
<1>4. ASSUME NEW p \in Proc, NEW c \in LockingCalls, Call(p, c) PROVE HeapInv'
  <2>1. \A q \in Proc : pc'[q] = "copy" => pc[q] = "copy"
    BY <1>4, PcFrame DEF Call
  <2> QED BY <1>4, <2>1, HeapFrame DEF Call
<1>5. ASSUME NEW p \in Proc, NEW off \in SeekOffs, SeekSet(p, off) \/ SeekCur(p, off)
      PROVE  HeapInv'
  <2>1. \A q \in Proc : pc'[q] = "copy" => pc[q] = "copy"
    BY <1>5, PcFrame DEF SeekSet, SeekCur, SetPos, Return
  <2> QED BY <1>5, <2>1, HeapFrame DEF SeekSet, SeekCur
<1>6. ASSUME NEW p \in Proc, IoctlCopyFails(p) \/ BadRequest(p) \/ Interrupted(p)
      PROVE  HeapInv'
  <2>1. \A q \in Proc : pc'[q] = "copy" => pc[q] = "copy"
    BY <1>6, PcFrame DEF IoctlCopyFails, BadRequest, Interrupted, Return
  <2> QED BY <1>6, <2>1, HeapFrame DEF IoctlCopyFails, BadRequest, Interrupted
<1>7. ASSUME NEW p \in Proc, Acquire(p) \/ Exit(p) PROVE HeapInv'
  <2>1. \A q \in Proc : pc'[q] = "copy" => pc[q] = "copy"
    BY <1>7, PcFrame DEF Acquire, Exit
  <2> QED BY <1>7, <2>1, HeapFrame DEF Acquire, Exit
<1>8. ASSUME NEW p \in Proc, aesd_read(p) PROVE HeapInv'
  <2>1. pc' = [pc EXCEPT ![p] = "idle"] \/ pc' = [pc EXCEPT ![p] = "oops"]
    BY <1>8 DEF aesd_read, Return
  <2>2. UNCHANGED <<module, device, memory>>
    BY <1>8 DEF aesd_read
  <2>3. \A q \in Proc : pc'[q] = "copy" => pc[q] = "copy"
    BY <2>1, PcFrame
  <2> QED BY <2>2, <2>3, HeapFrame
<1>9. ASSUME NEW p \in Proc, SeekEndMeasure(p) \/ SeekEndMove(p) \/ aesd_ioctl(p)
      PROVE  HeapInv'
  <2>1. pc' = [pc EXCEPT ![p] = "idle"] \/ pc' = [pc EXCEPT ![p] = "measured"]
    BY <1>9 DEF SeekEndMeasure, SeekEndMove, SetPos, aesd_ioctl, Return
  <2>2. UNCHANGED <<module, device, memory>>
    BY <1>9 DEF SeekEndMeasure, SeekEndMove, aesd_ioctl
  <2>3. \A q \in Proc : pc'[q] = "copy" => pc[q] = "copy"
    BY <2>1, PcFrame
  <2> QED BY <2>2, <2>3, HeapFrame
<1>10. ASSUME NEW p \in Proc, WriteCopyFails(p) PROVE HeapInv'
  <2>1. \A q \in Proc : pc'[q] = "copy" => pc[q] = "copy"
    BY <1>10, PcFrame DEF WriteCopyFails, Return
  <2> QED BY <1>10, <2>1, HeapFrame DEF WriteCopyFails
<1>11. ASSUME NEW p \in Proc, WriteKeep(p) PROVE HeapInv'
  <2>1. \A q \in Proc : pc'[q] = "copy" => pc[q] = "copy"
    BY <1>11, PcFrame DEF WriteKeep, Return
  <2> QED BY <1>11, <2>1, HeapFrame DEF WriteKeep
<1>12. ASSUME NEW p \in Proc, WriteAllocFails(p) PROVE HeapInv'
  <2>1. p_write_buffer = NULL
    BY <1>12 DEF WriteAllocFails
  <2>2. allocated' = allocated
    BY <1>12, <2>1, DriverAssumption DEF WriteAllocFails, kfree, TypeInv, TypeOK
  <2>3. \A q \in Proc : pc'[q] = "copy" => pc[q] = "copy"
    BY <1>12, PcFrame DEF WriteAllocFails, Return
  <2> QED BY <1>12, <2>2, <2>3, HeapFrame DEF WriteAllocFails
<1>13. ASSUME NEW p \in Proc, WriteAllocOk(p) PROVE HeapInv'
  <2>1. PICK q \in Ptr : krealloc(q) /\ p_write_buffer' = q
    BY <1>13 DEF WriteAllocOk
  <2>2. loaded /\ UNCHANGED <<loaded, buffer, orphans>> /\ q # NULL
    BY <1>13, DriverAssumption DEF WriteAllocOk, LockInv, Occupancy
  <2>3. Ownership'
    <3>1. CASE q = p_write_buffer /\ UNCHANGED allocated
      BY <2>1, <2>2, <3>1 DEF HeapInv, Ownership, EntryPtrs, WritePtr
    <3>2. CASE /\ q \notin allocated
               /\ allocated' = (allocated \ {p_write_buffer}) \cup {q}
      <4>1. /\ allocated = EntryPtrs \cup WritePtr \cup orphans
            /\ EntryPtrs \cap WritePtr = {}
            /\ (EntryPtrs \cup WritePtr) \cap orphans = {}
        BY <2>2 DEF HeapInv, Ownership
      <4>2. EntryPtrs' = EntryPtrs /\ WritePtr' = {q}
        BY <2>1, <2>2 DEF EntryPtrs, WritePtr
      <4>3. p_write_buffer = NULL => p_write_buffer \notin allocated
        BY DriverAssumption DEF TypeInv, TypeOK
      <4>4. WritePtr = IF p_write_buffer = NULL THEN {} ELSE {p_write_buffer}
        BY DEF WritePtr
      <4>5. /\ allocated' = EntryPtrs' \cup WritePtr' \cup orphans'
            /\ EntryPtrs' \cap WritePtr' = {}
            /\ (EntryPtrs' \cup WritePtr') \cap orphans' = {}
        BY <2>2, <3>2, <4>1, <4>2, <4>3, <4>4
      <4> QED BY <2>2, <4>5 DEF HeapInv, Ownership
    <3> QED BY <2>1, <3>1, <3>2 DEF krealloc
  <2> QED BY <2>1, <2>2, <2>3 DEF HeapInv
<1>14. ASSUME NEW p \in Proc, WriteCommit(p) PROVE HeapInv'
  <2> DEFINE entry == [buffptr |-> p_write_buffer,
                       size |-> write_buffer_size + Len(call[p].chunk)]
  <2>1. /\ pc[p] = "copy" /\ allocated' = allocated \ Evicted
        /\ buffer' = aesd_circular_buffer_add_entry(buffer, entry)
        /\ p_write_buffer' = NULL /\ pc' = [pc EXCEPT ![p] = "idle"]
        /\ UNCHANGED <<loaded, orphans>>
    BY <1>14 DEF WriteCommit, Return
  <2>2. loaded
    BY <2>1 DEF LockInv, Occupancy
  <2>3. p_write_buffer \in Ptr
    BY <2>1 DEF HeapInv, TypeInv, TypeOK
  <2>4. entry.size \in Nat /\ entry.size > 0
    <3>1. call[p].chunk \in Seq(Byte) /\ call[p].chunk # << >>
      BY <2>1, CallTypes DEF TypeInv, TypeOK, CallShape
    <3>2. Len(call[p].chunk) \in Nat \ {0}
      BY <3>1, EmptySeq
    <3> QED BY <3>2 DEF TypeInv, TypeOK
  <2>5. entry \in [buffptr : Ptr, size : Nat] /\ entry.buffptr = p_write_buffer
    BY <2>3, <2>4
  <2> HIDE DEF entry
  <2>6. /\ EntryPtrs' = (EntryPtrs \ Evicted) \cup {p_write_buffer}
        /\ Evicted \subseteq EntryPtrs \cup {NULL}
        /\ \A s, t \in Slots :
             s # t /\ buffer'.entry[s].buffptr = buffer'.entry[t].buffptr
               => buffer'.entry[s].buffptr = NULL
    BY <2>1, <2>2, <2>5, CommitPtrs
  <2>7. WritePtr' = {} /\ WritePtr = {p_write_buffer} /\ p_write_buffer # NULL
    BY <2>1, <2>3, DriverAssumption DEF WritePtr
  <2>8. /\ allocated = EntryPtrs \cup WritePtr \cup orphans
        /\ EntryPtrs \cap WritePtr = {}
        /\ (EntryPtrs \cup WritePtr) \cap orphans = {}
        /\ NULL \notin allocated
    BY <2>2, DriverAssumption DEF HeapInv, Ownership, TypeInv, TypeOK
  <2>9. /\ allocated' = EntryPtrs' \cup WritePtr' \cup orphans'
        /\ EntryPtrs' \cap WritePtr' = {}
        /\ (EntryPtrs' \cup WritePtr') \cap orphans' = {}
    BY <2>1, <2>6, <2>7, <2>8
  <2>10. Ownership'
    BY <2>6, <2>9 DEF Ownership
  <2>11. WellFormed(buffer')
    <3>1. buffer \in BufferType(Ptr \cup {NULL}) /\ WellFormed(buffer)
      BY <2>2 DEF HeapInv, TypeInv, TypeOK
    <3>2. entry \in [buffptr : Ptr \cup {NULL}, size : Nat]
      BY <2>5
    <3> QED BY <2>1, <2>4, <3>1, <3>2, AddEntryAppends
  <2>12. \A q \in Proc : pc'[q] # "copy"
    <3>1. \A q \in Proc : pc[q] = "copy" => q = p
      BY <2>1 DEF LockInv, LockDiscipline
    <3> QED BY <2>1, <3>1 DEF TypeInv, TypeOK
  <2> QED BY <2>1, <2>2, <2>10, <2>11, <2>12 DEF HeapInv
<1>15. CASE UNCHANGED vars
  BY <1>15, HeapFrame DEF vars
<1> QED
  BY <1>1, <1>2, <1>3, <1>4, <1>5, <1>6, <1>7, <1>8, <1>9, <1>10, <1>11, <1>12, <1>13,
     <1>14, <1>15 DEF Next, Body

\* As long as growing the write buffer never fails (see EntriesAreAllocated),
\* the driver never refers to freed memory, never holds two references to one
\* block, and keeps a reference to every block it allocated since it was
\* loaded: whatever the number of processes, the capacity and the interleaving.
THEOREM MemorySafety ==
  ASSUME "grow" \notin KreallocFails
  PROVE  Spec => []Ownership
<1>1. Init => LockInv
  BY DriverAssumption DEF Init, LockInv, LockDiscipline, Occupancy
<1>2. Init => HeapInv
  BY DEF Init, HeapInv, Ownership
<1>3. Spec => []HeapInv
  BY <1>1, <1>2, TypeInit, TypeStep, LockStep, HeapStep, PTL DEF Spec
<1>4. HeapInv => Ownership
  BY DEF HeapInv
<1> QED BY <1>3, <1>4, PTL

\* Under the same assumption, what rmmod leaves allocated is at most the write
\* buffer of an unfinished command.
THEOREM UnloadLeavesOnlyPending ==
  ASSUME "grow" \notin KreallocFails
  PROVE  Spec => UnloadKeepsOnlyPending
<1>1. Init => LockInv
  BY DriverAssumption DEF Init, LockInv, LockDiscipline, Occupancy
<1>2. Init => HeapInv
  BY DEF Init, HeapInv, Ownership
<1>3. HeapInv /\ [Next]_vars
        => [loaded /\ ~loaded' => orphans' \subseteq orphans \cup {p_write_buffer}]_vars
  <2> SUFFICES ASSUME HeapInv, Next, loaded, ~loaded'
               PROVE  orphans' \subseteq orphans \cup {p_write_buffer}
    OBVIOUS
  <2>1. aesd_cleanup_module
    BY DEF Next, Body, module, aesd_init_module, aesd_open, aesd_release, Call, SeekSet, SeekCur,
           IoctlCopyFails, BadRequest, Acquire, Interrupted, Exit, aesd_read, WriteAllocOk,
           WriteAllocFails, WriteCopyFails, WriteKeep, WriteCommit, SeekEndMeasure,
           SeekEndMove, aesd_ioctl
  <2>2. orphans' = allocated \ EntriesToFree
    BY <2>1 DEF aesd_cleanup_module
  <2>3. allocated = EntryPtrs \cup WritePtr \cup orphans
    BY DEF HeapInv, Ownership
  <2> QED BY <2>2, <2>3 DEF EntriesToFree, EntryPtrs, WritePtr
<1>4. Spec => []HeapInv
  BY <1>1, <1>2, TypeInit, TypeStep, LockStep, HeapStep, PTL DEF Spec
<1> QED BY <1>3, <1>4, PTL DEF Spec, UnloadKeepsOnlyPending

=============================================================================
