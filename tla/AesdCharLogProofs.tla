------------------------- MODULE AesdCharLogProofs -------------------------
(***************************************************************************)
(* Proofs about what the driver stores: it implements the command log, and *)
(* the search and the reads agree with the stored commands.                *)
(***************************************************************************)
EXTENDS AesdCharProofs

-----------------------------------------------------------------------------
(* The bytes behind a pointer.                                             *)

\* A block that keeps its bytes and its allocation reads the same.
LEMMA SameBytes ==
  ASSUME NEW x, NEW k, x \in allocated' <=> x \in allocated,
         x \in allocated => heap'[x] = heap[x]
  PROVE  BytesAt(x, k)' = BytesAt(x, k)
<1>1. \A i : ByteAt(x, i)' = ByteAt(x, i)
  BY DEF ByteAt
<1> QED BY <1>1 DEF BytesAt

\* A block that was given k bytes reads as these.
LEMMA NewBytes ==
  ASSUME NEW x \in allocated', NEW s \in Seq(Byte), heap'[x] = s
  PROVE  BytesAt(x, Len(s))' = s
<1>1. Len(s) \in Nat /\ DOMAIN s = 1 .. Len(s)
  BY LenProperties
<1>2. BytesAt(x, Len(s))' = [i \in 1 .. Len(s) |-> ByteAt(x, i)']
  BY DEF BytesAt
<1>3. \A i \in 1 .. Len(s) : ByteAt(x, i)' = s[i]
  BY <1>1 DEF ByteAt
<1>4. s = [i \in 1 .. Len(s) |-> s[i]]
  BY <1>1
<1> QED BY <1>2, <1>3, <1>4

\* The pending bytes are as many as the driver has counted.
LEMMA PendingType ==
  ASSUME TypeOK
  PROVE  Pending \in Seq(Byte) /\ Len(Pending) = write_buffer_size
BY BytesAtType DEF Pending, TypeOK

\* The stored commands are a sequence of byte strings, one for each entry.
CommandsShape ==
  /\ Commands \in Seq(Seq(Byte)) /\ Len(Commands) = EntryCount(buffer)
  /\ \A i \in 1 .. EntryCount(buffer) :
       /\ Entries(buffer)[i] \in [buffptr : Ptr \cup {NULL}, size : Nat]
       /\ Commands[i] = BytesAt(Entries(buffer)[i].buffptr, Entries(buffer)[i].size)
       /\ Len(Commands[i]) = Entries(buffer)[i].size

\* It is what the types of the ring and of the heap imply.
LEMMA CommandsType == ASSUME TypeOK PROVE CommandsShape
<1> DEFINE n == EntryCount(buffer)
<1>1. n \in Nat
  BY VisitsType, MaxWriteOpsAssumption DEF TypeOK
<1>2. \A i \in 1 .. n : Entries(buffer)[i] \in [buffptr : Ptr \cup {NULL}, size : Nat]
  <2>1. buffer \in BufferType(Ptr \cup {NULL})
    BY DEF TypeOK
  <2>2. Entries(buffer) \in Seq([buffptr : Ptr \cup {NULL}, size : Nat]) /\ Len(Entries(buffer)) = n
    BY <2>1, EntriesSeq
  <2> QED BY <2>2, ElementOfSeq
<1>3. \A i \in 1 .. n : Commands[i] = BytesAt(Entries(buffer)[i].buffptr, Entries(buffer)[i].size)
  BY DEF Commands
<1>4. \A i \in 1 .. n : Commands[i] \in Seq(Byte) /\ Len(Commands[i]) = Entries(buffer)[i].size
  BY <1>2, <1>3, BytesAtType
<1>5. Commands \in [1 .. n -> Seq(Byte)]
  BY <1>4 DEF Commands
<1> HIDE DEF n
<1>6. Commands \in Seq(Seq(Byte)) /\ Len(Commands) = n
  BY <1>1, <1>5, FcnIsSeq
<1> QED BY <1>2, <1>3, <1>4, <1>6 DEF n, CommandsShape

\* So it is after a step that keeps the types.
LEMMA CommandsTypeNext == TypeOK' => CommandsShape'
<1>1. TypeOK => CommandsShape
  BY CommandsType
<1> QED BY <1>1, PTL

\* The pointer of a stored entry is one of EntryPtrs, or NULL.
LEMMA EntryPtr ==
  ASSUME TypeOK, NEW i \in 1 .. EntryCount(buffer)
  PROVE  Entries(buffer)[i].buffptr \in EntryPtrs \cup {NULL}
<1>1. EntryCount(buffer) \in Nat
  BY VisitsType, MaxWriteOpsAssumption DEF TypeOK
<1>2. Entries(buffer)[i] = buffer.entry[SlotAt(buffer, i - 1)] /\ SlotAt(buffer, i - 1) \in Slots
  <2>1. buffer \in BufferType(Ptr \cup {NULL}) /\ i - 1 \in Int
    BY <1>1 DEF TypeOK
  <2> QED BY <2>1, EntriesSeq, SlotAtInSlots
<1> QED BY <1>2 DEF EntryPtrs

\* Commands stay what they are when no block of an entry is touched.
LEMMA SameCommands ==
  ASSUME TypeOK, buffer' = buffer,
         \A x \in EntryPtrs \cup {NULL} : x \in allocated' <=> x \in allocated,
         \A x \in EntryPtrs : x \in allocated => heap'[x] = heap[x],
         NULL \notin allocated
  PROVE  Commands' = Commands
<1>1. ASSUME NEW i \in 1 .. EntryCount(buffer)
      PROVE  BytesAt(Entries(buffer)[i].buffptr, Entries(buffer)[i].size)'
               = BytesAt(Entries(buffer)[i].buffptr, Entries(buffer)[i].size)
  <2> DEFINE x == Entries(buffer)[i].buffptr
             k == Entries(buffer)[i].size
  <2>1. x \in EntryPtrs \cup {NULL} /\ x' = x /\ k' = k
    BY EntryPtr DEF Entries, SlotAt, EntryCount
  <2>2. (x \in allocated' <=> x \in allocated) /\ (x \in allocated => heap'[x] = heap[x])
    BY <2>1
  <2> HIDE DEF x, k
  <2>3. BytesAt(x, k)' = BytesAt(x, k)
    BY <2>1, <2>2, SameBytes
  <2> QED BY <2>3 DEF x, k
<1>2. Commands' = [i \in 1 .. EntryCount(buffer) |->
                     BytesAt(Entries(buffer)[i].buffptr, Entries(buffer)[i].size)']
  BY DEF Commands, EntryCount
<1> QED BY <1>1, <1>2 DEF Commands

-----------------------------------------------------------------------------
(* The driver implements the command log.                                  *)

\* The refinement mapping.
theLog     == IF loaded THEN Commands ELSE <<>>
thePending == IF loaded THEN Pending ELSE <<>>

\* The blocks of the entries and of the write buffer while the module is loaded.
LEMMA Blocks ==
  ASSUME TypeInv, HeapInv, loaded
  PROVE  /\ EntryPtrs \subseteq allocated /\ p_write_buffer \notin EntryPtrs
         /\ p_write_buffer # NULL => p_write_buffer \in allocated /\ p_write_buffer \in Ptr
         /\ NULL \notin allocated /\ NULL \notin EntryPtrs
<1>1. NULL \notin allocated /\ p_write_buffer \in Ptr \cup {NULL}
  BY DriverAssumption DEF TypeInv, TypeOK
<1>2. NULL \notin EntryPtrs
  BY DEF EntryPtrs
<1> QED BY <1>1, <1>2 DEF HeapInv, Ownership, WritePtr

\* krealloc that succeeds moves or keeps the write buffer and changes neither the
\* stored commands nor the pending bytes.
LEMMA AllocKeepsLog ==
  ASSUME TypeInv, LockInv, HeapInv, NEW p \in Proc, WriteAllocOk(p)
  PROVE  theLog' = theLog /\ thePending' = thePending
<1>1. loaded /\ loaded' /\ buffer' = buffer /\ write_buffer_size' = write_buffer_size
  BY DEF WriteAllocOk, LockInv, Occupancy, module
<1>2. PICK q \in Ptr : krealloc(q) /\ p_write_buffer' = q
  BY DEF WriteAllocOk
<1>3. Pending \in Seq(Byte) /\ Len(Pending) = write_buffer_size /\ TypeOK
  BY PendingType DEF TypeInv
<1>4. heap \in [Ptr -> Seq(Byte)] /\ allocated \subseteq Ptr /\ EntryPtrs \subseteq Ptr /\ q # NULL
  BY <1>1, <1>2, Blocks, DriverAssumption DEF TypeInv, TypeOK
<1>5. /\ q \in allocated' /\ heap'[q] = Pending
      /\ \A x \in EntryPtrs \cup {NULL} : x \in allocated' <=> x \in allocated
      /\ \A x \in EntryPtrs : x \in allocated => heap'[x] = heap[x]
  <2>1. CASE /\ q = p_write_buffer
             /\ heap' = [heap EXCEPT ![q] = Pending]
             /\ UNCHANGED allocated
    BY <1>1, <1>4, <2>1, Blocks
  <2>2. CASE /\ q \in Ptr \ (allocated \cup {p_write_buffer})
             /\ heap' = [r \in Ptr |-> IF r = q THEN Pending
                                       ELSE IF r = p_write_buffer THEN <<>> ELSE heap[r]]
             /\ allocated' = (allocated \ {p_write_buffer}) \cup {q}
    BY <1>1, <1>4, <2>2, Blocks
  <2> QED BY <1>2, <2>1, <2>2 DEF krealloc
<1>6. Commands' = Commands
  BY <1>1, <1>3, <1>5, Blocks, SameCommands
<1>7. BytesAt(q, write_buffer_size)' = Pending
  BY <1>1, <1>3, <1>5, NewBytes
<1>8. Pending' = Pending
  BY <1>1, <1>2, <1>7 DEF Pending
<1> QED BY <1>1, <1>6, <1>8 DEF theLog, thePending

\* A write without a newline appends to the pending bytes.
LEMMA KeepAppends ==
  ASSUME TypeInv, LockInv, HeapInv, NEW p \in Proc, WriteKeep(p)
  PROVE  /\ call[p].chunk \in Chunks
         /\ ~Contains(thePending \o call[p].chunk, NL)
         /\ thePending' = thePending \o call[p].chunk /\ theLog' = theLog
         /\ loaded /\ loaded' = loaded
<1> DEFINE bytes == Pending \o call[p].chunk
<1>1. /\ pc[p] = "copy" /\ ~Contains(bytes, NL)
      /\ heap' = [heap EXCEPT ![p_write_buffer] = bytes]
      /\ write_buffer_size' = write_buffer_size + Len(call[p].chunk)
      /\ UNCHANGED <<loaded, buffer, p_write_buffer, allocated>>
  BY DEF WriteKeep, module
<1>2. loaded /\ loaded' /\ p_write_buffer # NULL
  BY <1>1 DEF LockInv, Occupancy, HeapInv
<1>3. call[p].chunk \in Chunks /\ call[p].chunk \in Seq(Byte)
  BY <1>1, CallTypes DEF TypeInv, TypeOK, CallShape
<1>4. Pending \in Seq(Byte) /\ Len(Pending) = write_buffer_size /\ TypeOK
  BY PendingType DEF TypeInv
<1>5. bytes \in Seq(Byte) /\ Len(bytes) = write_buffer_size'
  BY <1>1, <1>3, <1>4, ConcatProperties
<1> HIDE DEF bytes
<1>6. heap \in [Ptr -> Seq(Byte)]
  BY DEF TypeInv, TypeOK
<1>7. /\ p_write_buffer \in allocated' /\ heap'[p_write_buffer] = bytes
      /\ \A x \in EntryPtrs \cup {NULL} : x \in allocated' <=> x \in allocated
      /\ \A x \in EntryPtrs : x \in allocated => heap'[x] = heap[x]
  <2>1. EntryPtrs \subseteq Ptr
    BY <1>2, Blocks DEF TypeInv, TypeOK
  <2> QED BY <1>1, <1>2, <1>6, <2>1, Blocks
<1>8. Commands' = Commands
  BY <1>1, <1>2, <1>4, <1>7, Blocks, SameCommands
<1>9. Pending' = bytes
  <2>1. PICK w, s : w = p_write_buffer /\ s = bytes
    OBVIOUS
  <2>2. BytesAt(w, Len(s))' = s
    BY <1>5, <1>7, <2>1, NewBytes
  <2> QED BY <1>1, <1>5, <2>1, <2>2 DEF Pending
<1> QED BY <1>1, <1>2, <1>3, <1>8, <1>9 DEF theLog, thePending, bytes

\* The newest N of a sequence of at most N that got one element more.
LEMMA LastOfAppend ==
  ASSUME NEW S, NEW s \in Seq(S), NEW e \in S, NEW N \in Nat \ {0}, Len(s) <= N
  PROVE  DeviceLog!LastN(Append(s, e), N) = Append(IF Len(s) = N THEN Tail(s) ELSE s, e)
<1> DEFINE a == Append(s, e)
<1>1. /\ a \in Seq(S) /\ Len(a) = Len(s) + 1 /\ Len(s) \in Nat
      /\ \A j \in 1 .. Len(s) : a[j] = s[j]
      /\ a[Len(s) + 1] = e
  BY AppendProperties, LenProperties
<1>2. CASE Len(s) < N
  <2>1. Len(a) <= N
    BY <1>1, <1>2
  <2>2. DeviceLog!LastN(a, N) = a
    BY <2>1 DEF DeviceLog!LastN
  <2> QED BY <1>2, <2>2
<1>3. CASE Len(s) = N
  <2> DEFINE t == SubSeq(a, 2, N + 1)
  <2>1. DeviceLog!LastN(a, N) = t
    BY <1>1, <1>3 DEF DeviceLog!LastN
  <2>2. t \in Seq(S) /\ Len(t) = N /\ \A j \in 1 .. N : t[j] = a[j + 1]
    <3>1. \A j \in 2 .. N + 1 : a[j] \in S
      BY <1>1, <1>3, ElementOfSeq
    <3> HIDE DEF a
    <3> QED BY <1>1, <1>3, <3>1, SubSeqProperties
  <2> HIDE DEF t, a
  <2>3. t = Append(Tail(s), e)
    <3>1. s # << >>
      BY <1>3
    <3>2. \A j \in 1 .. Len(s) - 1 : t[j] = s[j + 1]
      BY <1>1, <1>3, <2>2
    <3>3. t[Len(s)] = e /\ Len(t) = Len(s)
      BY <1>1, <1>3, <2>2
    <3> QED BY <2>2, <3>1, <3>2, <3>3, IsAppendToTail
  <2> QED BY <1>3, <2>1, <2>3 DEF a
<1> QED BY <1>1, <1>2, <1>3

\* A write that completes a command makes it the newest of the log; a full log
\* loses its oldest.
LEMMA CommitAppends ==
  ASSUME TypeInv, TypeInv', LockInv, HeapInv, NEW p \in Proc, WriteCommit(p)
  PROVE  /\ call[p].chunk \in Chunks
         /\ Contains(thePending \o call[p].chunk, NL)
         /\ thePending' = <<>>
         /\ theLog' = DeviceLog!LastN(Append(theLog, thePending \o call[p].chunk), MaxWriteOps)
         /\ loaded /\ loaded' = loaded
<1> DEFINE bytes == Pending \o call[p].chunk
           entry == [buffptr |-> p_write_buffer, size |-> write_buffer_size + Len(call[p].chunk)]
           N     == MaxWriteOps
           old   == IF buffer.full THEN Tail(Commands) ELSE Commands
           E     == [buffptr : Ptr \cup {NULL}, size : Nat]
<1>1. /\ pc[p] = "copy" /\ Contains(bytes, NL)
      /\ allocated' = allocated \ Evicted
      /\ heap' = [q \in Ptr |-> IF q = p_write_buffer THEN bytes
                                ELSE IF q \in Evicted THEN <<>> ELSE heap[q]]
      /\ buffer' = aesd_circular_buffer_add_entry(buffer, entry)
      /\ write_buffer_size' = 0 /\ loaded' = loaded
  BY DEF WriteCommit, module
<1>2. loaded /\ loaded' /\ p_write_buffer # NULL
  BY <1>1 DEF LockInv, Occupancy, HeapInv
<1>3. call[p].chunk \in Chunks /\ call[p].chunk \in Seq(Byte) /\ call[p].chunk # << >>
  BY <1>1, CallTypes DEF TypeInv, TypeOK, CallShape
<1>4. Pending \in Seq(Byte) /\ Len(Pending) = write_buffer_size /\ TypeOK /\ TypeOK'
  BY PendingType DEF TypeInv
<1>5. bytes \in Seq(Byte) /\ Len(bytes) = entry.size /\ entry.size > 0 /\ entry.size \in Nat
  <2>1. Len(call[p].chunk) \in Nat \ {0}
    BY <1>3, EmptySeq
  <2>2. write_buffer_size \in Nat
    BY <1>4 DEF TypeOK
  <2>3. bytes \in Seq(Byte) /\ Len(bytes) = Len(Pending) + Len(call[p].chunk)
    BY <1>3, <1>4, ConcatProperties
  <2> QED BY <1>4, <2>1, <2>2, <2>3
<1>6. entry \in [buffptr : Ptr, size : Nat] /\ entry.buffptr = p_write_buffer /\ entry \in E
  BY <1>2, <1>5, Blocks
<1>7. buffer \in BufferType(Ptr \cup {NULL}) /\ WellFormed(buffer)
  BY <1>2, <1>4 DEF HeapInv, TypeOK
<1> HIDE DEF bytes, entry, E
<1>8. Entries(buffer') = Append(IF buffer.full THEN Tail(Entries(buffer)) ELSE Entries(buffer), entry)
  BY <1>1, <1>5, <1>6, <1>7, AddEntryAppends DEF E
<1>9. /\ EntryPtrs' = (EntryPtrs \ Evicted) \cup {entry.buffptr}
      /\ Evicted \subseteq EntryPtrs \cup {NULL}
  BY <1>1, <1>2, <1>6, CommitPtrs
<1> DEFINE n   == EntryCount(buffer)
           e   == Entries(buffer)
           en  == Entries(buffer')
           cs  == Commands'
<1>10. /\ N \in Nat \ {0} /\ n \in 0 .. N
       /\ buffer.full => n = N
       /\ ~buffer.full => n < N
  <2>1. N \in Nat \ {0} /\ n \in 0 .. N /\ buffer.in_offs \in 0 .. N - 1
    BY <1>7, VisitsType, MaxWriteOpsAssumption DEF BufferType, Slots
  <2>2. buffer.full => n = N
    BY DEF EntryCount
  <2>3. ~buffer.full => n < N
    BY <1>7, <2>1 DEF EntryCount, WellFormed
  <2> QED BY <2>1, <2>2, <2>3
<1>11. /\ e \in Seq(E) /\ Len(e) = n /\ \A i \in 1 .. n : e[i] \in E
       /\ Commands \in Seq(Seq(Byte)) /\ Len(Commands) = n
       /\ \A i \in 1 .. n : Commands[i] = BytesAt(e[i].buffptr, e[i].size)
  BY <1>4, <1>7, CommandsType, EntriesSeq DEF CommandsShape, E
<1>12. en \in Seq(E) /\ Len(en) = EntryCount(buffer')
  <2>1. buffer' \in BufferType(Ptr \cup {NULL})
    BY <1>4 DEF TypeOK
  <2> QED BY <2>1, EntriesSeq DEF E
<1>13. cs = [i \in 1 .. Len(en) |-> BytesAt(Entries(buffer)[i].buffptr, Entries(buffer)[i].size)']
  BY <1>12 DEF Commands
\* The entries that stay keep their bytes, the new one has those written.
<1>14. ASSUME NEW i \in 1 .. Len(en), NEW j \in 1 .. n, en[i] = e[j]
       PROVE  cs[i] = Commands[j]
  <2>1. PICK x, k : x = e[j].buffptr /\ k = e[j].size
    OBVIOUS
  <2>2. x \in EntryPtrs \cup {NULL}
    BY <1>4, <2>1, EntryPtr
  <2>3. x \in EntryPtrs' \cup {NULL}
    <3>1. buffer' \in BufferType(Ptr \cup {NULL}) /\ i \in 1 .. EntryCount(buffer')
      BY <1>4, <1>12 DEF TypeOK
    <3>2. en[i] = buffer'.entry[SlotAt(buffer', i - 1)]
      BY <3>1, EntriesSeq
    <3>3. i - 1 \in Int
      BY <3>1, VisitsType, MaxWriteOpsAssumption
    <3>4. SlotAt(buffer', i - 1) \in Slots
      BY <3>1, <3>3, SlotAtInSlots
    <3> QED BY <3>4, <1>14, <2>1, <3>2 DEF EntryPtrs
  <2>4. x \in allocated' <=> x \in allocated
    BY <1>1, <1>2, <1>6, <1>9, <2>2, <2>3, Blocks
  <2>5. x \in allocated => heap'[x] = heap[x]
    BY <1>1, <1>2, <1>4, <1>6, <1>9, <2>2, <2>3, Blocks DEF TypeOK
  <2>6. BytesAt(x, k)' = BytesAt(x, k)
    BY <2>4, <2>5, SameBytes
  <2>7. cs[i] = BytesAt(x, k)'
    BY <1>13, <1>14, <2>1
  <2> QED BY <1>11, <2>1, <2>6, <2>7
<1>15. ASSUME NEW i \in 1 .. Len(en), en[i] = entry
       PROVE  cs[i] = bytes
  <2>1. PICK x, s : x = p_write_buffer /\ s = bytes
    OBVIOUS
  <2>2. x \in allocated' /\ heap'[x] = s
    BY <1>1, <1>2, <1>9, <2>1, Blocks
  <2>3. BytesAt(x, Len(s))' = s
    BY <1>5, <2>1, <2>2, NewBytes
  <2> QED BY <1>5, <1>6, <1>13, <1>15, <2>1, <2>3
<1>16. cs = Append(old, bytes)
  <2> HIDE DEF cs, en, e, n
  <2>1. en = Append(IF buffer.full THEN Tail(e) ELSE e, entry)
    BY <1>8 DEF e, en
  <2>2. cs \in Seq(Seq(Byte)) /\ Len(cs) = Len(en)
    <3>1. Commands' \in Seq(Seq(Byte)) /\ Len(Commands') = EntryCount(buffer')
      BY <1>4, CommandsTypeNext DEF CommandsShape
    <3> QED BY <1>12, <3>1 DEF cs
  <2>3. CASE buffer.full
    <3>1. Commands # << >> /\ e # << >> /\ n \in Nat \ {0}
      BY <1>10, <1>11, <2>3
    <3>2. /\ Tail(e) \in Seq(E) /\ Len(Tail(e)) = n - 1
          /\ \A j \in 1 .. n - 1 : Tail(e)[j] = e[j + 1]
      BY <1>11, <3>1, HeadTailProperties
    <3>3. Len(en) = n /\ en[n] = entry /\ \A j \in 1 .. n - 1 : en[j] = e[j + 1]
      BY <1>6, <2>1, <2>3, <3>1, <3>2, AppendProperties
    <3>4. cs[n] = bytes
      BY <1>15, <3>1, <3>3
    <3>5. \A j \in 1 .. n - 1 : cs[j] = Commands[j + 1]
      BY <1>14, <3>1, <3>3
    <3>6. PICK s \in Seq(Seq(Byte)), b \in Seq(Byte), t \in Seq(Seq(Byte)) :
            s = Commands /\ b = bytes /\ t = cs
      BY <1>5, <1>11, <2>2
    <3>7. s # << >> /\ Len(s) = n /\ Len(t) = n /\ t[n] = b
      BY <1>11, <2>2, <3>1, <3>3, <3>4, <3>6
    <3>8. \A j \in 1 .. Len(s) - 1 : t[j] = s[j + 1]
      BY <3>5, <3>6, <3>7
    <3>9. Len(t) = Len(s) /\ t[Len(s)] = b /\ s # << >>
      BY <3>7
    <3>10. t = Append(Tail(s), b)
      BY <3>8, <3>9, IsAppendToTail
    <3> QED BY <2>3, <3>6, <3>10
  <2>4. CASE ~buffer.full
    <3>1. n \in Nat
      BY <1>10
    <3>2. Len(en) = n + 1 /\ en[n + 1] = entry /\ \A j \in 1 .. n : en[j] = e[j]
      BY <1>6, <1>11, <2>1, <2>4, AppendProperties
    <3>3. cs[n + 1] = bytes
      BY <1>15, <3>1, <3>2
    <3>4. \A j \in 1 .. n : cs[j] = Commands[j]
      BY <1>14, <3>1, <3>2
    <3> QED BY <1>5, <1>11, <2>2, <2>4, <3>2, <3>3, <3>4, IsAppend
  <2> QED BY <2>3, <2>4
<1>17. cs = DeviceLog!LastN(Append(Commands, bytes), N)
  <2> HIDE DEF cs, n, N
  <2>1. old = IF Len(Commands) = N THEN Tail(Commands) ELSE Commands
    BY <1>10, <1>11
  <2>2. Len(Commands) <= N
    BY <1>10, <1>11
  <2>3. DeviceLog!LastN(Append(Commands, bytes), N)
          = Append(IF Len(Commands) = N THEN Tail(Commands) ELSE Commands, bytes)
    BY <1>5, <1>10, <1>11, <2>2, LastOfAppend
  <2> QED BY <1>16, <2>1, <2>3
<1>18. Pending' = <<>>
  BY <1>1 DEF Pending, BytesAt
<1> QED BY <1>1, <1>2, <1>3, <1>17, <1>18 DEF theLog, thePending, bytes

\* A step that leaves the device and the heap alone changes nothing that is stored.
LEMMA LogFrame ==
  ASSUME UNCHANGED <<loaded, buffer, p_write_buffer, write_buffer_size, allocated, heap>>
  PROVE  theLog' = theLog /\ thePending' = thePending
<1>1. Commands' = Commands
  BY DEF Commands, BytesAt, ByteAt
<1>2. Pending' = Pending
  BY DEF Pending, BytesAt, ByteAt
<1> QED BY <1>1, <1>2 DEF theLog, thePending

\* The write of a chunk, as the command log has it.
Appended(chunk) ==
  IF Contains(thePending \o chunk, NL)
  THEN /\ theLog' = DeviceLog!LastN(Append(theLog, thePending \o chunk), MaxWriteOps)
       /\ thePending' = <<>>
  ELSE thePending' = thePending \o chunk /\ theLog' = theLog

\* What a step of the driver does to the log.
LEMMA LogStep ==
  ASSUME "grow" \notin KreallocFails, TypeInv, TypeInv', LockInv, HeapInv, [Next]_vars
  PROVE  \/ loaded' = loaded /\ theLog' = theLog /\ thePending' = thePending
         \/ loaded' # loaded /\ loaded' \in BOOLEAN /\ theLog' = <<>> /\ thePending' = <<>>
         \/ loaded /\ loaded' = loaded /\ \E chunk \in Chunks : Appended(chunk)
<1> USE DEF module, device, memory, files
<1>1. CASE aesd_init_module
  <2>1. Pending' = <<>>
    BY <1>1 DEF aesd_init_module, Pending, BytesAt
  <2>2. EntryCount(buffer)' = 0
    <3>1. buffer' = aesd_circular_buffer_init
      BY <1>1 DEF aesd_init_module
    <3> QED BY <3>1, MaxWriteOpsAssumption DEF EntryCount, aesd_circular_buffer_init
  <2>3. Commands' = <<>>
    BY <2>2 DEF Commands
  <2>4. ~loaded /\ loaded' = TRUE
    BY <1>1 DEF aesd_init_module
  <2> QED BY <2>1, <2>3, <2>4 DEF theLog, thePending
<1>2. CASE aesd_cleanup_module
  BY <1>2 DEF aesd_cleanup_module, theLog, thePending
<1>3. ASSUME NEW p \in Proc,
             \/ aesd_open(p) \/ aesd_release(p) \/ Acquire(p) \/ Interrupted(p) \/ Exit(p)
             \/ IoctlCopyFails(p) \/ BadRequest(p) \/ aesd_read(p) \/ WriteCopyFails(p)
             \/ SeekEndMeasure(p) \/ SeekEndMove(p) \/ aesd_ioctl(p)
             \/ \E c \in LockingCalls : Call(p, c)
             \/ \E off \in SeekOffs : SeekSet(p, off) \/ SeekCur(p, off)
      PROVE  loaded' = loaded /\ theLog' = theLog /\ thePending' = thePending
  <2>1. UNCHANGED <<loaded, buffer, p_write_buffer, write_buffer_size, allocated, heap>>
    BY <1>3 DEF aesd_open, aesd_release, Acquire, Interrupted, Exit, IoctlCopyFails, BadRequest,
                aesd_read, WriteCopyFails, SeekEndMeasure, SeekEndMove, aesd_ioctl, Call,
                SeekSet, SeekCur
  <2> QED BY <2>1, LogFrame
<1>4. ASSUME NEW p \in Proc, WriteAllocFails(p)
      PROVE  loaded' = loaded /\ theLog' = theLog /\ thePending' = thePending
  <2>1. p_write_buffer = NULL
    BY <1>4 DEF WriteAllocFails
  <2>2. NULL \notin Ptr /\ allocated \subseteq Ptr /\ heap \in [Ptr -> Seq(Byte)]
    BY DriverAssumption DEF TypeInv, TypeOK
  <2>3. allocated' = allocated /\ heap' = heap
    BY <1>4, <2>1, <2>2 DEF WriteAllocFails, kfree
  <2>4. UNCHANGED <<loaded, buffer, p_write_buffer, write_buffer_size>>
    BY <1>4 DEF WriteAllocFails
  <2> QED BY <2>3, <2>4, LogFrame
<1>5. ASSUME NEW p \in Proc, WriteAllocOk(p)
      PROVE  loaded' = loaded /\ theLog' = theLog /\ thePending' = thePending
  BY <1>5, AllocKeepsLog DEF WriteAllocOk
<1>6. ASSUME NEW p \in Proc, WriteKeep(p)
      PROVE  loaded /\ loaded' = loaded /\ \E chunk \in Chunks : Appended(chunk)
  BY <1>6, KeepAppends DEF Appended
<1>7. ASSUME NEW p \in Proc, WriteCommit(p)
      PROVE  loaded /\ loaded' = loaded /\ \E chunk \in Chunks : Appended(chunk)
  BY <1>7, CommitAppends DEF Appended
<1>8. CASE UNCHANGED vars
  BY <1>8, LogFrame DEF vars
<1> HIDE DEF module, device, memory, files
<1>9. CASE \E p \in Proc : WriteKeep(p) \/ WriteCommit(p)
  BY <1>6, <1>7, <1>9
<1>10. CASE \E p \in Proc : \/ aesd_open(p) \/ aesd_release(p)
                            \/ \E c \in LockingCalls : Call(p, c)
                            \/ \E off \in SeekOffs : SeekSet(p, off) \/ SeekCur(p, off)
                            \/ IoctlCopyFails(p) \/ BadRequest(p)
                            \/ Acquire(p) \/ Interrupted(p) \/ Exit(p)
                            \/ aesd_read(p) \/ WriteAllocOk(p) \/ WriteAllocFails(p)
                            \/ WriteCopyFails(p)
                            \/ SeekEndMeasure(p) \/ SeekEndMove(p) \/ aesd_ioctl(p)
  BY <1>3, <1>4, <1>5, <1>10
<1> QED BY <1>1, <1>2, <1>8, <1>9, <1>10 DEF Next, Body

\* The driver implements the command log, for any number of processes, any
\* capacity and any bytes, as long as growing the write buffer does not fail:
\* however calls interleave, a write that succeeds appends its bytes to the
\* pending command or completes it and evicts the oldest of a full log, nothing
\* but loading and removing the module empties it, and failed writes, reads and
\* seeks change nothing that is stored.
THEOREM RefinesCommandLog ==
  ASSUME "grow" \notin KreallocFails
  PROVE  Spec => ImplementsCommandLog
<1>1. Init => LockInv
  BY DriverAssumption DEF Init, LockInv, LockDiscipline, Occupancy
<1>2. Init => HeapInv
  BY DEF Init, HeapInv, Ownership
<1>3. Init => DeviceLog!Init
  BY DEF Init, DeviceLog!Init, DeviceLog!Empty
<1>4. TypeInv /\ TypeInv' /\ LockInv /\ HeapInv /\ [Next]_vars => [DeviceLog!Next]_(DeviceLog!vars)
  <2> SUFFICES ASSUME TypeInv, TypeInv', LockInv, HeapInv, [Next]_vars
               PROVE  [DeviceLog!Next]_(DeviceLog!vars)
    OBVIOUS
  <2>1. CASE loaded' = loaded /\ theLog' = theLog /\ thePending' = thePending
    BY <2>1 DEF theLog, thePending, DeviceLog!vars
  <2>2. CASE loaded' # loaded /\ loaded' \in BOOLEAN /\ theLog' = <<>> /\ thePending' = <<>>
    <3>1. loaded \in BOOLEAN /\ loaded' \in BOOLEAN
      BY <2>2 DEF TypeInv, TypeOK
    <3>2. CASE loaded
      BY <2>2, <3>1, <3>2 DEF theLog, thePending, DeviceLog!Next, DeviceLog!Unload, DeviceLog!Empty
    <3>3. CASE ~loaded
      BY <2>2, <3>1, <3>3 DEF theLog, thePending, DeviceLog!Next, DeviceLog!Load, DeviceLog!Empty
    <3> QED BY <3>2, <3>3
  <2>3. ASSUME loaded, loaded' = loaded, NEW chunk \in Chunks, Appended(chunk)
        PROVE  DeviceLog!Next
    <3>1. DeviceLog!Write(chunk)
      BY <2>3 DEF Appended, theLog, thePending, DeviceLog!Write, Contains, DeviceLog!Contains
    <3> QED BY <3>1 DEF DeviceLog!Next
  <2> QED BY <2>1, <2>2, <2>3, LogStep
<1> QED BY <1>1, <1>2, <1>3, <1>4, TypeInit, TypeStep, LockStep, HeapStep, PTL
        DEF Spec, ImplementsCommandLog, DeviceLog!Spec

-----------------------------------------------------------------------------
(* The concatenation of byte strings.                                      *)

\* h[i] is the concatenation of the first i strings of s, for i up to n.
Running(h, s, n) ==
  h = [i \in 1 .. n |-> IF i = 1 THEN s[i] ELSE h[i - 1] \o s[i]]

\* Such prefixes exist for any strings.
LEMMA RunningExists ==
  ASSUME NEW s, NEW N \in Nat
  PROVE  \E h : Running(h, s, N)
<1> DEFINE T == {n \in 0 .. N : ~ \E h : Running(h, s, n)}
<1>1. SUFFICES ASSUME T # {} PROVE FALSE
  OBVIOUS
<1>2. PICK n \in T : \A m \in T : n <= m
  BY <1>1, LeastNat, T \in SUBSET Nat
<1> HIDE DEF T
<1>3. n \in 0 .. N /\ ~ \E h : Running(h, s, n)
  BY <1>2 DEF T
<1>4. CASE n = 0
  <2>1. Running(<<>>, s, 0)
    BY DEF Running
  <2> QED BY <1>3, <1>4, <2>1
<1>5. CASE n # 0
  <2>1. n - 1 \in 0 .. N /\ n - 1 \notin T
    BY <1>2, <1>3, <1>5
  <2>2. PICK h : Running(h, s, n - 1)
    BY <2>1 DEF T
  <2> DEFINE g == [i \in 1 .. n |-> IF i = n THEN IF n = 1 THEN s[1] ELSE h[n - 1] \o s[n] ELSE h[i]]
  <2>3. \A i \in 1 .. n - 1 : h[i] = IF i = 1 THEN s[i] ELSE h[i - 1] \o s[i]
    BY <1>3, <2>2 DEF Running
  <2>4. \A i \in 1 .. n : g[i] = IF i = 1 THEN s[i] ELSE g[i - 1] \o s[i]
    <3> SUFFICES ASSUME NEW i \in 1 .. n PROVE g[i] = IF i = 1 THEN s[i] ELSE g[i - 1] \o s[i]
      OBVIOUS
    <3>1. CASE i = n
      <4>1. n # 1 => g[n - 1] = h[n - 1]
        BY <1>3, <1>5
      <4> QED BY <1>3, <3>1, <4>1
    <3>2. CASE i # n
      <4>1. i \in 1 .. n - 1 /\ g[i] = h[i] /\ (i # 1 => g[i - 1] = h[i - 1])
        BY <1>3, <3>2
      <4> QED BY <2>3, <4>1
    <3> QED BY <3>1, <3>2
  <2>5. g = [i \in 1 .. n |-> g[i]]
    OBVIOUS
  <2> HIDE DEF g
  <2>6. Running(g, s, n)
    BY <2>4, <2>5 DEF Running
  <2> QED BY <2>6, <1>3
<1> QED BY <1>4, <1>5

\* The first k strings of s have f[k] bytes.
StartsAt(f, s) ==
  /\ \A k \in 0 .. Len(s) : f[k] \in Nat
  /\ f[0] = 0
  /\ \A k \in 1 .. Len(s) : f[k] = f[k - 1] + Len(s[k])

\* FlattenSeq, which is defined by recursion, puts the strings one behind the
\* other: string k starts behind the f[k - 1] bytes of those before it.
LEMMA Flattened ==
  ASSUME NEW S, NEW s \in Seq(Seq(S)), NEW f, StartsAt(f, s)
  PROVE  /\ FlattenSeq(s) \in Seq(S) /\ Len(FlattenSeq(s)) = f[Len(s)]
         /\ \A k \in 1 .. Len(s) : \A j \in 1 .. Len(s[k]) : FlattenSeq(s)[f[k - 1] + j] = s[k][j]
<1> DEFINE n == Len(s)
<1>1. /\ n \in Nat /\ \A k \in 1 .. n : s[k] \in Seq(S) /\ Len(s[k]) \in Nat
      /\ \A k \in 0 .. n : f[k] \in Nat
      /\ \A k \in 1 .. n : f[k] = f[k - 1] + Len(s[k])
      /\ f[0] = 0
  BY LenProperties, ElementOfSeq DEF StartsAt
<1>2. CASE n = 0
  BY <1>1, <1>2, EmptySeq DEF FlattenSeq
<1>3. CASE n # 0
  <2> DEFINE h == CHOOSE g : Running(g, s, n)
  <2>1. FlattenSeq(s) = h[n]
    BY <1>3 DEF FlattenSeq, Running
  <2>2. Running(h, s, n)
    BY <1>1, RunningExists
  <2> HIDE DEF h
  <2>3. \A i \in 1 .. n : h[i] = IF i = 1 THEN s[i] ELSE h[i - 1] \o s[i]
    BY <1>1, <2>2 DEF Running
  <2> DEFINE Good(i) == /\ h[i] \in Seq(S) /\ Len(h[i]) = f[i]
                        /\ \A k \in 1 .. i : \A j \in 1 .. Len(s[k]) : h[i][f[k - 1] + j] = s[k][j]
             T == {i \in 1 .. n : ~ Good(i)}
  <2>4. ASSUME NEW i \in 1 .. n, i = 1 \/ Good(i - 1) PROVE Good(i)
    <3>1. CASE i = 1
      BY <1>1, <2>3, <3>1
    <3>2. CASE i # 1
      <4> HIDE DEF n
      <4>1. i \in 1 .. n /\ i - 1 \in 1 .. n /\ i - 1 \in 0 .. n /\ i \in 0 .. n
        BY <1>1, <3>2
      <4>2. h[i] = h[i - 1] \o s[i]
        BY <2>3, <3>2
      <4>3. /\ s[i] \in Seq(S) /\ Len(s[i]) \in Nat /\ f[i] = f[i - 1] + Len(s[i])
            /\ f[i - 1] \in Nat /\ f[i] \in Nat
        BY <1>1, <4>1
      <4>4. Good(i - 1)
        BY <2>4, <3>2
      <4>5. h[i - 1] \in Seq(S) /\ Len(h[i - 1]) = f[i - 1]
        BY <4>4
      <4>6. /\ h[i] \in Seq(S) /\ Len(h[i]) = f[i]
            /\ \A m \in 1 .. f[i] : h[i][m] = IF m <= f[i - 1] THEN h[i - 1][m] ELSE s[i][m - f[i - 1]]
        <5>1. PICK u \in Seq(S), v \in Seq(S) : u = h[i - 1] /\ v = s[i]
          BY <4>3, <4>5
        <5>2. /\ u \o v \in Seq(S) /\ Len(u \o v) = Len(u) + Len(v)
              /\ \A m \in 1 .. Len(u) + Len(v) : (u \o v)[m] = IF m <= Len(u) THEN u[m] ELSE v[m - Len(u)]
          BY ConcatProperties
        <5>3. h[i] = u \o v /\ Len(u) = f[i - 1] /\ Len(u) + Len(v) = f[i]
          BY <4>2, <4>3, <4>5, <5>1
        <5> QED BY <5>1, <5>2, <5>3
      <4>7. ASSUME NEW k \in 1 .. i, NEW j \in 1 .. Len(s[k]) PROVE h[i][f[k - 1] + j] = s[k][j]
        <5>1. CASE k = i
          <6>1. j \in 1 .. Len(s[i])
            BY <4>7, <5>1
          <6>2. PICK a \in Nat, l \in Nat : a = f[i - 1] /\ l = Len(s[i])
            BY <4>3
          <6>3. j \in 1 .. l /\ f[i] = a + l
            BY <4>3, <6>1, <6>2
          <6>4. PICK q \in Nat : q = j /\ 1 <= q /\ q <= l
            BY <6>3
          <6>5. \A m \in 1 .. a + l : h[i][m] = IF m <= a THEN h[i - 1][m] ELSE s[i][m - a]
            BY <4>6, <6>2, <6>3
          <6>6. PICK m \in 1 .. a + l : m = a + q
            BY <6>4
          <6>7. ~(m <= a) /\ m - a = q
            BY <6>4, <6>6
          <6>8. h[i][m] = s[i][q]
            BY <6>5, <6>7
          <6> QED BY <5>1, <6>2, <6>4, <6>6, <6>8
        <5>2. CASE k # i
          <6>1. k \in 1 .. i - 1 /\ k \in 1 .. n /\ f[k - 1] \in Nat /\ Len(s[k]) \in Nat
            BY <1>1, <4>1, <5>2
          <6>2. f[k] = f[k - 1] + Len(s[k]) /\ f[k] <= f[i - 1] /\ Len(s[k]) \in Nat
            <7>1. PartialSums([m \in 0 .. n |-> f[m]], [m \in 0 .. n - 1 |-> Len(s[m + 1])], n)
              BY <1>1 DEF PartialSums
            <7>2. \A m \in 0 .. n - 1 : [q \in 0 .. n - 1 |-> Len(s[q + 1])][m] \in Nat
              BY <1>1
            <7>3. k \in 0 .. n /\ i - 1 \in k .. n
              BY <1>1, <6>1
            <7>4. [m \in 0 .. n |-> f[m]][k] <= [m \in 0 .. n |-> f[m]][i - 1]
              BY <1>1, <7>1, <7>2, <7>3, SumsMonotone
            <7> QED BY <1>1, <6>1, <7>3, <7>4
          <6>3. h[i - 1][f[k - 1] + j] = s[k][j]
            BY <4>4, <6>1
          <6>4. PICK a \in Nat, b \in Nat, c \in Nat, l \in Nat :
                  a = f[k - 1] /\ b = f[i - 1] /\ c = f[i] /\ l = Len(s[k])
            BY <4>3, <6>1
          <6>5. j \in 1 .. l /\ a + l <= b /\ b <= c
            <7>1. j \in 1 .. l
              BY <4>7, <6>4
            <7>2. f[k] = a + l /\ f[k] <= b
              BY <6>2, <6>4
            <7>3. PICK d \in Nat : d = Len(s[i]) /\ c = b + d
              BY <4>3, <6>4
            <7>4. b <= c
              BY <7>3
            <7> QED BY <7>1, <7>2, <7>4
          <6>6. j \in Nat /\ 1 <= j /\ j <= l /\ a + l <= b /\ b <= c
            BY <6>5
          <6>7. a + j <= b /\ a + j <= c /\ 1 <= a + j /\ a + j \in Nat
            BY <6>6
          <6>8. PICK m \in 1 .. c : m = a + j
            BY <6>7
          <6>9. h[i][m] = h[i - 1][m]
            BY <4>6, <6>4, <6>7, <6>8
          <6> QED BY <6>3, <6>4, <6>8, <6>9
        <5> QED BY <5>1, <5>2
      <4> QED BY <4>6, <4>7
    <3> QED BY <3>1, <3>2
  <2> HIDE DEF Good
  <2>5. T = {}
    <3> SUFFICES ASSUME T # {} PROVE FALSE
      OBVIOUS
    <3>1. PICK i \in T : \A m \in T : i <= m
      BY LeastNat, T \in SUBSET Nat
    <3>2. i \in 1 .. n /\ ~Good(i) /\ i - 1 \notin T
      BY <1>1, <3>1
    <3> QED BY <1>1, <2>4, <3>2
  <2>6. Good(n)
    BY <1>1, <1>3, <2>5
  <2> QED BY <2>1, <2>6 DEF Good
<1> QED BY <1>2, <1>3

-----------------------------------------------------------------------------
(* The ring while the device is in use.                                    *)

\* What the reads and the seeks rely on, whether or not krealloc fails: the shape
\* of the ring, with a block behind every stored entry; a write buffer between
\* allocation and copy; a reader that has been given nothing yet; and, with one
\* process, a measured size that is still the size.
RingInv ==
  /\ loaded => /\ WellFormed(buffer)
               /\ \A s \in Slots : buffer.entry[s].size > 0 => buffer.entry[s].buffptr # NULL
  /\ \A p \in Proc :
       /\ pc[p] = "copy" => p_write_buffer # NULL
       /\ pc[p] \in {"lock", "locked"} => got[p] = <<>>
       /\ Proc = {p} /\ pc[p] = "measured" => file_size[p] = SizeBefore(buffer.in_offs)

\* A step of p that leaves the ring and the write buffer alone.
LEMMA RingFrame ==
  ASSUME TypeInv, RingInv, UNCHANGED <<loaded, buffer, p_write_buffer>>,
         NEW p \in Proc, NEW x, x # "copy", pc' = [pc EXCEPT ![p] = x],
         \A q \in Proc \ {p} : got'[q] = got[q] /\ file_size'[q] = file_size[q],
         x \in {"lock", "locked"} => got'[p] = <<>>,
         x = "measured" => file_size'[p] = SizeBefore(buffer.in_offs)
  PROVE  RingInv'
<1>1. \A q \in Proc : pc'[q] = IF q = p THEN x ELSE pc[q]
  BY DEF TypeInv, TypeOK
<1>2. SizeBefore(buffer.in_offs)' = SizeBefore(buffer.in_offs)
  BY DEF SizeBefore
<1> QED BY <1>1, <1>2 DEF RingInv

\* Every step of the driver keeps it.
LEMMA RingInvStep ==
  ASSUME TypeInv, LockInv, RingInv, [Next]_vars
  PROVE  RingInv'
<1> USE DEF module, device, memory, files
<1>0. /\ pc \in [Proc -> {"idle", "lock", "locked", "copy", "measured", "oops", "dead"}]
      /\ got \in [Proc -> Seq(Byte)] /\ file_size \in [Proc -> Nat]
      /\ \A p \in Proc : pc[p] = "idle" => pc = [pc EXCEPT ![p] = "idle"]
  BY DEF TypeInv, TypeOK
<1>1. CASE aesd_init_module
  <2>1. /\ \A s \in Slots : buffer'.entry[s] = EmptyEntry
        /\ buffer'.in_offs = 0 /\ buffer'.out_offs = 0 /\ buffer'.full = FALSE
    BY <1>1 DEF aesd_init_module, aesd_circular_buffer_init
  <2>2. WellFormed(buffer)'
    <3>1. \A s \in Slots : ~ (s < 0)
      BY MaxWriteOpsAssumption DEF Slots
    <3> QED BY <2>1, <3>1 DEF WellFormed
  <2>3. \A s \in Slots : ~ (buffer'.entry[s].size > 0)
    BY <2>1 DEF EmptyEntry
  <2>4. \A p \in Proc : pc[p] \in {"idle", "dead"}
    BY <1>0, <1>1 DEF aesd_init_module, LockInv, Occupancy
  <2>5. pc' = pc
    BY <1>1 DEF aesd_init_module
  <2> QED BY <2>2, <2>3, <2>4, <2>5 DEF RingInv
<1>2. CASE aesd_cleanup_module
  <2>1. ~loaded' /\ UNCHANGED <<buffer, p_write_buffer, pc, got, file_size>>
    BY <1>2 DEF aesd_cleanup_module
  <2>2. SizeBefore(buffer.in_offs)' = SizeBefore(buffer.in_offs)
    BY <2>1 DEF SizeBefore
  <2> QED BY <2>1, <2>2 DEF RingInv
<1>3. ASSUME NEW p \in Proc, aesd_open(p) \/ aesd_release(p) \/ Acquire(p) PROVE RingInv'
  <2>1. CASE aesd_open(p) \/ aesd_release(p)
    <3>1. /\ UNCHANGED <<loaded, buffer, p_write_buffer>> /\ pc' = [pc EXCEPT ![p] = "idle"]
          /\ \A q \in Proc \ {p} : got'[q] = got[q] /\ file_size'[q] = file_size[q]
      BY <1>0, <2>1 DEF aesd_open, aesd_release
    <3> QED BY <3>1, RingFrame
  <2>2. CASE Acquire(p)
    <3>1. /\ UNCHANGED <<loaded, buffer, p_write_buffer, got, file_size>>
          /\ pc' = [pc EXCEPT ![p] = "locked"] /\ got'[p] = <<>>
      BY <2>2 DEF Acquire, RingInv
    <3> QED BY <3>1, RingFrame
  <2> QED BY <1>3, <2>1, <2>2
<1>4. ASSUME NEW p \in Proc, NEW c \in LockingCalls, Call(p, c) PROVE RingInv'
  <2>1. /\ UNCHANGED <<loaded, buffer, p_write_buffer, file_size>> /\ pc' = [pc EXCEPT ![p] = "lock"]
        /\ got'[p] = <<>> /\ \A q \in Proc \ {p} : got'[q] = got[q]
    BY <1>0, <1>4 DEF Call
  <2> QED BY <2>1, RingFrame
<1>5. ASSUME NEW p \in Proc, NEW off \in SeekOffs, SeekSet(p, off) \/ SeekCur(p, off)
      PROVE  RingInv'
  <2>1. /\ UNCHANGED <<loaded, buffer, p_write_buffer, file_size>> /\ pc' = [pc EXCEPT ![p] = "idle"]
        /\ \A q \in Proc \ {p} : got'[q] = got[q]
    BY <1>0, <1>5 DEF SeekSet, SeekCur, SetPos, Return
  <2> QED BY <2>1, RingFrame
<1>6. ASSUME NEW p \in Proc,
             \/ IoctlCopyFails(p) \/ BadRequest(p) \/ Interrupted(p)
             \/ WriteCopyFails(p) \/ WriteKeep(p) \/ WriteAllocFails(p)
             \/ SeekEndMove(p) \/ aesd_ioctl(p)
      PROVE  RingInv'
  <2>1. /\ UNCHANGED <<loaded, buffer, p_write_buffer>> /\ pc' = [pc EXCEPT ![p] = "idle"]
        /\ \A q \in Proc \ {p} : got'[q] = got[q] /\ file_size'[q] = file_size[q]
    BY <1>0, <1>6 DEF IoctlCopyFails, BadRequest, Interrupted, WriteCopyFails, WriteKeep,
                      WriteAllocFails, SeekEndMove, SetPos, aesd_ioctl, Return
  <2> QED BY <2>1, RingFrame
<1>7. ASSUME NEW p \in Proc, aesd_read(p) PROVE RingInv'
  <2>1. /\ UNCHANGED <<loaded, buffer, p_write_buffer, file_size>>
        /\ \/ pc' = [pc EXCEPT ![p] = "idle"] \/ pc' = [pc EXCEPT ![p] = "oops"]
        /\ \A q \in Proc \ {p} : got'[q] = got[q]
    BY <1>0, <1>7 DEF aesd_read, Return
  <2> QED BY <2>1, RingFrame
<1>8. ASSUME NEW p \in Proc, Exit(p) PROVE RingInv'
  <2>1. UNCHANGED <<loaded, buffer, p_write_buffer, got, file_size>> /\ pc' = [pc EXCEPT ![p] = "dead"]
    BY <1>8 DEF Exit
  <2> QED BY <2>1, RingFrame
<1>9. ASSUME NEW p \in Proc, SeekEndMeasure(p) PROVE RingInv'
  <2>1. /\ UNCHANGED <<loaded, buffer, p_write_buffer, got>> /\ pc' = [pc EXCEPT ![p] = "measured"]
        /\ file_size'[p] = SizeBefore(buffer.in_offs)
        /\ \A q \in Proc \ {p} : file_size'[q] = file_size[q]
    BY <1>0, <1>9 DEF SeekEndMeasure
  <2> QED BY <2>1, RingFrame
<1>10. ASSUME NEW p \in Proc, WriteAllocOk(p) PROVE RingInv'
  <2>1. p_write_buffer' # NULL /\ pc' = [pc EXCEPT ![p] = "copy"]
    BY <1>10, DriverAssumption DEF WriteAllocOk
  <2>2. UNCHANGED <<loaded, buffer, got, file_size>>
    BY <1>10 DEF WriteAllocOk
  <2>3. SizeBefore(buffer.in_offs)' = SizeBefore(buffer.in_offs)
    BY <2>2 DEF SizeBefore
  <2>4. \A q \in Proc : pc'[q] = IF q = p THEN "copy" ELSE pc[q]
    BY <1>0, <2>1
  <2> QED BY <2>1, <2>2, <2>3, <2>4 DEF RingInv
<1>11. ASSUME NEW p \in Proc, WriteCommit(p) PROVE RingInv'
  <2> DEFINE entry == [buffptr |-> p_write_buffer,
                       size |-> write_buffer_size + Len(call[p].chunk)]
  <2>1. /\ pc[p] = "copy" /\ pc' = [pc EXCEPT ![p] = "idle"]
        /\ buffer' = aesd_circular_buffer_add_entry(buffer, entry)
        /\ UNCHANGED <<loaded, got, file_size>>
    BY <1>11 DEF WriteCommit, Return
  <2>2. loaded /\ p_write_buffer # NULL
    BY <2>1 DEF LockInv, Occupancy, RingInv
  <2>3. entry.size \in Nat /\ entry.size > 0
    <3>1. call[p].chunk \in Seq(Byte) /\ call[p].chunk # << >>
      BY <2>1, CallTypes DEF TypeInv, TypeOK, CallShape
    <3>2. Len(call[p].chunk) \in Nat \ {0}
      BY <3>1, EmptySeq
    <3> QED BY <3>2 DEF TypeInv, TypeOK
  <2>4. entry \in [buffptr : Ptr \cup {NULL}, size : Nat] /\ entry.buffptr = p_write_buffer
    BY <2>3 DEF TypeInv, TypeOK
  <2>5. buffer \in BufferType(Ptr \cup {NULL}) /\ WellFormed(buffer)
    BY <2>2 DEF RingInv, TypeInv, TypeOK
  <2> HIDE DEF entry
  <2>6. WellFormed(buffer')
    BY <2>1, <2>3, <2>4, <2>5, AddEntryAppends
  <2>7. \A s \in Slots : buffer'.entry[s] = IF s = buffer.in_offs THEN entry ELSE buffer.entry[s]
    BY <2>1, <2>5 DEF aesd_circular_buffer_add_entry, BufferType
  <2>8. \A s \in Slots : buffer'.entry[s].size > 0 => buffer'.entry[s].buffptr # NULL
    BY <2>2, <2>4, <2>7 DEF RingInv
  <2>9. \A q \in Proc : pc[q] = "copy" => q = p
    BY <2>1 DEF LockInv, LockDiscipline
  <2>10. \A q \in Proc : pc'[q] = IF q = p THEN "idle" ELSE pc[q]
    BY <1>0, <2>1
  <2> QED BY <2>1, <2>6, <2>8, <2>9, <2>10 DEF RingInv
<1>12. CASE UNCHANGED vars
  <2>1. UNCHANGED <<loaded, buffer, p_write_buffer, pc, got, file_size>>
    BY <1>12 DEF vars
  <2>2. SizeBefore(buffer.in_offs)' = SizeBefore(buffer.in_offs)
    BY <2>1 DEF SizeBefore
  <2> QED BY <2>1, <2>2 DEF RingInv
<1> QED BY <1>1, <1>2, <1>3, <1>4, <1>5, <1>6, <1>7, <1>8, <1>9, <1>10, <1>11, <1>12 DEF Next, Body

\* It holds in every reachable state.
LEMMA RingInvariance == Spec => [](TypeInv /\ LockInv /\ RingInv)
<1>1. Init => LockInv
  BY DriverAssumption DEF Init, LockInv, LockDiscipline, Occupancy
<1>2. Init => RingInv
  BY DEF Init, RingInv
<1> QED BY <1>1, <1>2, TypeInit, TypeStep, LockStep, RingInvStep, PTL DEF Spec

-----------------------------------------------------------------------------
(* Positions in the stored bytes.                                          *)

\* The sums of the slot sizes are where the stored commands start.
LEMMA CommandStarts ==
  ASSUME TypeOK, NEW m \in 0 .. EntryCount(buffer)
  PROVE  /\ SubSeq(Commands, 1, m) \in Seq(Seq(Byte)) /\ Len(SubSeq(Commands, 1, m)) = m
         /\ \A k \in 1 .. m : SubSeq(Commands, 1, m)[k] = Commands[k]
         /\ StartsAt(SizeUpTo(buffer), SubSeq(Commands, 1, m))
<1> DEFINE n == EntryCount(buffer)
           f == SizeUpTo(buffer)
           s == SubSeq(Commands, 1, m)
<1>1. buffer \in BufferType(Ptr \cup {NULL})
  BY DEF TypeOK
<1>2. n \in 0 .. MaxWriteOps /\ MaxWriteOps \in Nat \ {0} /\ m \in Nat
  BY <1>1, VisitsType, MaxWriteOpsAssumption
<1>3. PartialSums(f, SlotSizes(buffer), MaxWriteOps)
  BY <1>1, SizeUpToSums
<1>4. \A k \in 1 .. n : Commands[k] \in Seq(Byte) /\ Len(Commands[k]) = SlotSizes(buffer)[k - 1]
  <2> SUFFICES ASSUME NEW k \in 1 .. n
               PROVE  Commands[k] \in Seq(Byte) /\ Len(Commands[k]) = SlotSizes(buffer)[k - 1]
    OBVIOUS
  <2>1. CommandsShape
    BY CommandsType
  <2>2. Commands[k] \in Seq(Byte)
    BY <2>1, ElementOfSeq DEF CommandsShape
  <2>3. Len(Commands[k]) = Entries(buffer)[k].size
    BY <2>1 DEF CommandsShape
  <2>4. Entries(buffer)[k] = buffer.entry[SlotAt(buffer, k - 1)]
    BY <1>1, EntriesSeq
  <2>5. k \in 1 .. MaxWriteOps
    BY <1>2
  <2> QED BY <1>1, <2>2, <2>3, <2>4, <2>5, SlotSizesType
<1> HIDE DEF n, f
<1>5. s \in Seq(Seq(Byte)) /\ Len(s) = m /\ \A k \in 1 .. m : s[k] = Commands[k]
  <2>1. \A k \in 1 .. m : Commands[k] \in Seq(Byte)
    BY <1>2, <1>4 DEF n
  <2> QED BY <1>2, <2>1, SubSeqProperties
<1> HIDE DEF s
<1>6. \A k \in 0 .. m : f[k] \in Nat
  BY <1>2, <1>3 DEF PartialSums, n
<1>7. \A k \in 1 .. m : f[k] = f[k - 1] + Len(s[k])
  <2> SUFFICES ASSUME NEW k \in 1 .. m PROVE f[k] = f[k - 1] + Len(s[k])
    OBVIOUS
  <2>1. k \in 1 .. n /\ k \in 1 .. MaxWriteOps
    BY <1>2 DEF n
  <2>2. f[k] = f[k - 1] + SlotSizes(buffer)[k - 1]
    BY <1>3, <2>1 DEF PartialSums
  <2> QED BY <1>4, <1>5, <2>1, <2>2
<1>8. f[0] = 0
  BY <1>3 DEF PartialSums
<1>9. StartsAt(f, s)
  BY <1>5, <1>6, <1>7, <1>8 DEF StartsAt
<1> QED BY <1>5, <1>9 DEF f, s

\* Where the driver's sums put command k is where it starts in Contents.
LEMMA StartOfSum ==
  ASSUME TypeOK, NEW m \in 0 .. EntryCount(buffer)
  PROVE  StartOf(m) = SizeUpTo(buffer)[m]
<1> DEFINE s == SubSeq(Commands, 1, m)
<1>1. s \in Seq(Seq(Byte)) /\ Len(s) = m /\ StartsAt(SizeUpTo(buffer), s)
  BY CommandStarts
<1> HIDE DEF s
<1>2. Len(FlattenSeq(s)) = SizeUpTo(buffer)[m]
  BY <1>1, Flattened
<1> QED BY <1>2 DEF StartOf, s

\* What Contents holds, in terms of the ring.
ContentsShape ==
  /\ Contents \in Seq(Byte)
  /\ Len(Contents) = SizeUpTo(buffer)[EntryCount(buffer)] /\ Len(Contents) \in Nat
  /\ \A k \in 1 .. EntryCount(buffer) : \A j \in 1 .. Len(Commands[k]) :
       Contents[SizeUpTo(buffer)[k - 1] + j] = Commands[k][j]

\* It is what the types imply.
LEMMA ContentsType == ASSUME TypeOK PROVE ContentsShape
<1> DEFINE n == EntryCount(buffer)
<1>1. n \in Nat
  BY VisitsType, MaxWriteOpsAssumption DEF TypeOK
<1>2. Commands \in Seq(Seq(Byte)) /\ Len(Commands) = n
  BY CommandsType DEF CommandsShape
<1>3. SubSeq(Commands, 1, n) = Commands
  <2>1. n \in 0 .. n
    BY <1>1
  <2>2. /\ SubSeq(Commands, 1, n) \in Seq(Seq(Byte)) /\ Len(SubSeq(Commands, 1, n)) = n
        /\ \A k \in 1 .. n : SubSeq(Commands, 1, n)[k] = Commands[k]
    BY <2>1, CommandStarts
  <2> HIDE DEF n
  <2> QED BY <1>2, <2>2, SeqEqual
<1>4. StartsAt(SizeUpTo(buffer), Commands)
  <2>1. n \in 0 .. n
    BY <1>1
  <2>2. StartsAt(SizeUpTo(buffer), SubSeq(Commands, 1, n))
    BY <2>1, CommandStarts
  <2> QED BY <1>3, <2>2
<1>5. /\ FlattenSeq(Commands) \in Seq(Byte) /\ Len(FlattenSeq(Commands)) = SizeUpTo(buffer)[n]
      /\ \A k \in 1 .. n : \A j \in 1 .. Len(Commands[k]) :
           FlattenSeq(Commands)[SizeUpTo(buffer)[k - 1] + j] = Commands[k][j]
  BY <1>2, <1>4, Flattened
<1>6. Len(FlattenSeq(Commands)) \in Nat
  BY <1>5, LenProperties
<1> QED BY <1>5, <1>6 DEF ContentsShape, Contents

\* The search, for a position in the stored bytes and for one behind them.
LEMMA SearchExact ==
  ASSUME TypeOK, WellFormed(buffer), EntryCount(buffer) > 0, Len(Contents) <= SizeMod,
         NEW pos \in Nat
  PROVE  LET n    == EntryCount(buffer)
             size == SizeUpTo(buffer)
             find == aesd_circular_buffer_find_entry_offset_for_fpos(buffer, pos)
         IN  IF pos < Len(Contents)
             THEN \E k \in 1 .. n :
                    /\ size[k - 1] \in Nat /\ size[k] = size[k - 1] + Len(Commands[k])
                    /\ size[k - 1] <= pos /\ pos < size[k]
                    /\ find.slot \in Slots /\ find.slot # NULL /\ find.offset = pos - size[k - 1]
                    /\ buffer.entry[find.slot] = Entries(buffer)[k]
             ELSE find.slot = NULL
<1> DEFINE n    == EntryCount(buffer)
           size == SizeUpTo(buffer)
           find == aesd_circular_buffer_find_entry_offset_for_fpos(buffer, pos)
<1>1. buffer \in BufferType(Ptr \cup {NULL}) /\ Len(Contents) = size[n]
  BY ContentsType DEF TypeOK, ContentsShape
<1>2. IF pos < size[n]
      THEN \E k \in 0 .. n - 1 :
             /\ size[k] <= pos /\ pos < size[k + 1]
             /\ find = [slot |-> SlotAt(buffer, k), offset |-> pos - size[k]]
      ELSE find.slot = NULL
  BY <1>1, FindExact
<1>3. ASSUME pos < size[n]
      PROVE  \E k \in 1 .. n :
               /\ size[k - 1] \in Nat /\ size[k] = size[k - 1] + Len(Commands[k])
               /\ size[k - 1] <= pos /\ pos < size[k]
               /\ find.slot \in Slots /\ find.slot # NULL /\ find.offset = pos - size[k - 1]
               /\ buffer.entry[find.slot] = Entries(buffer)[k]
  <2>1. PICK k \in 0 .. n - 1 :
               /\ size[k] <= pos /\ pos < size[k + 1]
               /\ find = [slot |-> SlotAt(buffer, k), offset |-> pos - size[k]]
    BY <1>2, <1>3
  <2>2. n \in Nat
    BY <1>1, VisitsType, MaxWriteOpsAssumption
  <2> HIDE DEF find
  <2>3. k + 1 \in 1 .. n /\ (k + 1) - 1 = k /\ k \in Int
    BY <2>2
  <2>4. find.slot \in Slots /\ find.slot # NULL /\ find.offset = pos - size[k]
    <3>1. find.slot = SlotAt(buffer, k) /\ find.offset = pos - size[k]
      BY <2>1
    <3> QED BY <1>1, <2>3, <3>1, SlotAtInSlots, NullAssumption
  <2>5. buffer.entry[find.slot] = Entries(buffer)[k + 1]
    BY <1>1, <2>1, <2>3, EntriesSeq
  <2>6. size[k] \in Nat /\ size[k + 1] = size[k] + Len(Commands[k + 1])
    <3>1. n \in 0 .. n
      BY <2>2
    <3> DEFINE s == SubSeq(Commands, 1, n)
    <3>2. StartsAt(size, s) /\ Len(s) = n /\ s[k + 1] = Commands[k + 1]
      BY <2>3, <3>1, CommandStarts
    <3> HIDE DEF s, n, size
    <3>3. k \in 0 .. Len(s) /\ k + 1 \in 1 .. Len(s)
      BY <2>2, <2>3, <3>2
    <3> QED BY <2>3, <3>2, <3>3 DEF StartsAt
  <2> HIDE DEF size, n
  <2> QED BY <2>1, <2>3, <2>4, <2>5, <2>6
<1> QED BY <1>1, <1>2, <1>3

\* A byte of a stored command and its place in Contents.
LEMMA ByteOfCommand ==
  ASSUME TypeOK, NEW k \in 1 .. EntryCount(buffer), NEW j \in 1 .. Len(Commands[k])
  PROVE  /\ Contents[SizeUpTo(buffer)[k - 1] + j] = ByteAt(Entries(buffer)[k].buffptr, j)
         /\ Len(Commands[k]) = Entries(buffer)[k].size
         /\ BytesAt(Entries(buffer)[k].buffptr, Entries(buffer)[k].size)[j]
              = ByteAt(Entries(buffer)[k].buffptr, j)
<1>1. /\ Commands[k] = BytesAt(Entries(buffer)[k].buffptr, Entries(buffer)[k].size)
      /\ Len(Commands[k]) = Entries(buffer)[k].size
  BY CommandsType DEF CommandsShape
<1>2. Commands[k][j] = ByteAt(Entries(buffer)[k].buffptr, j)
  BY <1>1 DEF BytesAt
<1> QED BY <1>1, <1>2, ContentsType DEF ContentsShape

\* As long as the stored bytes can be counted in a size_t, the search of
\* aesd_circular_buffer_find_entry_offset_for_fpos agrees with the concatenated
\* commands for every position, whatever the capacity, the fill and the wrap of
\* the ring and the lengths of the commands, and whatever allocations fail.
THEOREM SearchAgrees == Spec /\ [](Len(Contents) <= SizeMod) => []FindIsExact
<1>1. ASSUME TypeInv, RingInv, Len(Contents) <= SizeMod PROVE FindIsExact
  <2> SUFFICES ASSUME loaded, EntryCount(buffer) > 0, NEW pos \in 0 .. Len(Contents) + 1
               PROVE  LET find  == aesd_circular_buffer_find_entry_offset_for_fpos(buffer, pos)
                          entry == buffer.entry[find.slot]
                      IN  IF pos < Len(Contents)
                          THEN /\ find.slot # NULL /\ find.offset < entry.size
                               /\ BytesAt(entry.buffptr, entry.size)[find.offset + 1]
                                    = Contents[pos + 1]
                          ELSE find.slot = NULL
    BY DEF FindIsExact
  <2> DEFINE n    == EntryCount(buffer)
             size == SizeUpTo(buffer)
             find == aesd_circular_buffer_find_entry_offset_for_fpos(buffer, pos)
             entry == buffer.entry[find.slot]
  <2>1. TypeOK /\ WellFormed(buffer) /\ pos \in Nat
    BY <1>1, ContentsType DEF TypeInv, RingInv, ContentsShape
  <2>2. CASE pos < Len(Contents)
    <3>1. PICK k \in 1 .. n :
            /\ size[k - 1] \in Nat /\ size[k] = size[k - 1] + Len(Commands[k])
            /\ size[k - 1] <= pos /\ pos < size[k]
            /\ find.slot \in Slots /\ find.slot # NULL /\ find.offset = pos - size[k - 1]
            /\ entry = Entries(buffer)[k]
      BY <1>1, <2>1, <2>2, SearchExact
    <3>2. Len(Commands[k]) = entry.size /\ entry.size \in Nat
      BY <2>1, <3>1, CommandsType DEF CommandsShape
    <3> HIDE DEF size, find, entry
    <3>3. PICK j \in 1 .. Len(Commands[k]) : j = pos - size[k - 1] + 1
      BY <2>1, <3>1, <3>2
    <3>4. find.offset + 1 = j /\ find.offset < entry.size /\ size[k - 1] + j = pos + 1
      BY <2>1, <3>1, <3>2, <3>3
    <3>5. BytesAt(entry.buffptr, entry.size)[j] = Contents[size[k - 1] + j]
      BY <2>1, <3>1, ByteOfCommand DEF size
    <3> QED BY <2>2, <3>1, <3>4, <3>5 DEF find, entry
  <2>3. CASE ~(pos < Len(Contents))
    BY <1>1, <2>1, <2>3, SearchExact
  <2> QED BY <2>2, <2>3
<1> QED BY <1>1, RingInvariance, PTL

-----------------------------------------------------------------------------
(* Reads and seeks.                                                        *)

\* A read returns in aesd_read, a seek to a command in aesd_ioctl, and a process
\* that has measured the device moves its file.
LEMMA WhoReturns ==
  ASSUME TypeInv, [Next]_vars, NEW p \in Proc, pc'[p] = "idle"
  PROVE  /\ pc[p] = "locked" /\ call[p].op = "read" => aesd_read(p)
         /\ pc[p] = "locked" /\ call[p].op = "seekto" => aesd_ioctl(p)
         /\ pc[p] = "measured" => SeekEndMove(p)
<1> USE DEF module, device, memory, files
<1>1. pc \in [Proc -> {"idle", "lock", "locked", "copy", "measured", "oops", "dead"}]
  BY DEF TypeInv, TypeOK
<1>2. CASE aesd_init_module \/ aesd_cleanup_module \/ UNCHANGED vars
  BY <1>2 DEF aesd_init_module, aesd_cleanup_module, vars
<1>3. ASSUME NEW q \in Proc,
             \/ aesd_open(q) \/ aesd_release(q)
             \/ \E c \in LockingCalls : Call(q, c)
             \/ \E off \in SeekOffs : SeekSet(q, off) \/ SeekCur(q, off)
             \/ IoctlCopyFails(q) \/ BadRequest(q)
             \/ Acquire(q) \/ Interrupted(q) \/ Exit(q)
             \/ WriteAllocOk(q) \/ WriteAllocFails(q) \/ WriteCopyFails(q)
             \/ WriteKeep(q) \/ WriteCommit(q) \/ SeekEndMeasure(q)
      PROVE  /\ pc[p] = "locked" => call[p].op \notin {"read", "seekto"}
             /\ pc[p] # "measured"
  <2>1. CASE \/ aesd_open(q) \/ aesd_release(q)
             \/ \E c \in LockingCalls : Call(q, c)
             \/ \E off \in SeekOffs : SeekSet(q, off) \/ SeekCur(q, off)
             \/ IoctlCopyFails(q) \/ BadRequest(q)
             \/ Acquire(q) \/ Interrupted(q) \/ Exit(q)
    <3>1. pc[q] \notin {"locked", "measured"} /\ \E x : pc' = [pc EXCEPT ![q] = x]
      BY <1>1, <2>1 DEF aesd_open, aesd_release, Call, SeekSet, SeekCur, SetPos, IoctlCopyFails,
                        BadRequest, Acquire, Interrupted, Exit, Return
    <3> QED BY <1>1, <3>1
  <2>2. CASE \/ WriteAllocOk(q) \/ WriteAllocFails(q) \/ WriteCopyFails(q)
             \/ WriteKeep(q) \/ WriteCommit(q) \/ SeekEndMeasure(q)
    <3>1. /\ pc[q] = "copy" \/ (pc[q] = "locked" /\ call[q].op \in {"write", "seek_end"})
          /\ \E x : pc' = [pc EXCEPT ![q] = x]
      BY <2>2 DEF WriteAllocOk, WriteAllocFails, WriteCopyFails, WriteKeep, WriteCommit,
                  SeekEndMeasure, Return
    <3> QED BY <1>1, <3>1
  <2> QED BY <1>3, <2>1, <2>2
<1>4. ASSUME NEW q \in Proc, aesd_read(q) \/ SeekEndMove(q) \/ aesd_ioctl(q)
      PROVE  /\ pc[p] = "locked" /\ call[p].op = "read" => aesd_read(p)
             /\ pc[p] = "locked" /\ call[p].op = "seekto" => aesd_ioctl(p)
             /\ pc[p] = "measured" => SeekEndMove(p)
  <2>1. \E x : pc' = [pc EXCEPT ![q] = x]
    BY <1>4 DEF aesd_read, SeekEndMove, SetPos, aesd_ioctl, Return
  <2>2. q # p => pc[p] = "idle"
    BY <1>1, <2>1
  <2>3. CASE aesd_read(q)
    <3>1. pc[q] = "locked" /\ call[q].op = "read"
      BY <2>3 DEF aesd_read
    <3> QED BY <2>2, <2>3, <3>1
  <2>4. CASE SeekEndMove(q)
    <3>1. pc[q] = "measured"
      BY <2>4 DEF SeekEndMove
    <3> QED BY <2>2, <2>4, <3>1
  <2>5. CASE aesd_ioctl(q)
    <3>1. pc[q] = "locked" /\ call[q].op = "seekto"
      BY <2>5 DEF aesd_ioctl
    <3> QED BY <2>2, <2>5, <3>1
  <2> QED BY <1>4, <2>3, <2>4, <2>5
<1> HIDE DEF module, device, memory, files
<1>5. CASE \E q \in Proc : aesd_read(q) \/ SeekEndMove(q) \/ aesd_ioctl(q)
  BY <1>4, <1>5
<1>6. CASE \E q \in Proc :
             \/ aesd_open(q) \/ aesd_release(q)
             \/ \E c \in LockingCalls : Call(q, c)
             \/ \E off \in SeekOffs : SeekSet(q, off) \/ SeekCur(q, off)
             \/ IoctlCopyFails(q) \/ BadRequest(q)
             \/ Acquire(q) \/ Interrupted(q) \/ Exit(q)
             \/ WriteAllocOk(q) \/ WriteAllocFails(q) \/ WriteCopyFails(q)
             \/ WriteKeep(q) \/ WriteCommit(q) \/ SeekEndMeasure(q)
  BY <1>3, <1>6
<1> QED BY <1>2, <1>5, <1>6 DEF Next, Body

\* A ring without entries: nothing is stored, and no slot points anywhere.
LEMMA EmptyRing ==
  ASSUME TypeOK, WellFormed(buffer), ~(EntryCount(buffer) > 0)
  PROVE  Len(Contents) = 0 /\ \A s \in Slots : buffer.entry[s] = EmptyEntry
<1>1. /\ buffer \in BufferType(Ptr \cup {NULL}) /\ MaxWriteOps \in Nat \ {0}
      /\ EntryCount(buffer) \in Nat /\ buffer.in_offs \in 0 .. MaxWriteOps - 1
  <2>1. buffer \in BufferType(Ptr \cup {NULL}) /\ MaxWriteOps \in Nat \ {0}
    BY MaxWriteOpsAssumption DEF TypeOK
  <2>2. EntryCount(buffer) \in Nat
    BY <2>1, VisitsType
  <2>3. buffer.in_offs \in 0 .. MaxWriteOps - 1
    BY <2>1 DEF BufferType, Slots
  <2> QED BY <2>1, <2>2, <2>3
<1>2. EntryCount(buffer) = 0 /\ ~buffer.full
  BY <1>1 DEF EntryCount
<1>3. buffer.out_offs = 0 /\ buffer.in_offs = 0
  <2>1. buffer.out_offs = 0
    BY <1>2 DEF WellFormed
  <2>2. (buffer.in_offs - 0) % MaxWriteOps = 0
    BY <1>2, <2>1 DEF EntryCount
  <2>3. PICK N \in Nat \ {0}, x \in Nat : N = MaxWriteOps /\ x = buffer.in_offs /\ x < N
    BY <1>1
  <2>4. x - 0 = x /\ x % N = x
    BY <2>3
  <2>5. x = 0
    BY <2>2, <2>3, <2>4
  <2> QED BY <2>1, <2>3, <2>5
<1>4. \A s \in Slots : buffer.entry[s] = EmptyEntry
  BY <1>1, <1>2, <1>3 DEF WellFormed, Slots
<1>5. Len(Contents) = 0
  BY <1>1, <1>2, ContentsType, SizeUpToSums DEF ContentsShape, PartialSums
<1> QED BY <1>4, <1>5

\* What one read does, seen from the stored bytes.
LEMMA ReadStep ==
  ASSUME TypeInv, LockInv, RingInv, Len(Contents) < SizeMod,
         NEW p \in Proc, aesd_read(p), pc'[p] = "idle"
  PROVE  /\ f_pos'[p] = f_pos[p] + ret'[p]
         /\ got'[p] = SubSeq(Contents, f_pos[p] + 1, f_pos'[p])
         /\ Len(got'[p]) = ret'[p]
         /\ ret'[p] = 0 => \/ f_pos[p] >= Len(Contents)
                           \/ call[p].count = 0 \/ CopyFails
<1> DEFINE pos   == f_pos[p]
           count == call[p].count
           find  == aesd_circular_buffer_find_entry_offset_for_fpos(buffer, pos)
           entry == buffer.entry[find.slot]
           available == (entry.size - find.offset) % SizeMod
           copied == IF available > count THEN count ELSE available
           bytes == [i \in 1 .. copied |-> ByteAt(entry.buffptr, find.offset + i)]
           wild  == entry.buffptr = NULL /\ copied > 0
<1>1. /\ pos \in Nat /\ count \in Nat /\ TypeOK /\ pc[p] = "locked" /\ got[p] = <<>>
      /\ SizeMod \in Nat \ {0} /\ Len(Contents) \in Nat /\ Contents \in Seq(Byte)
      /\ Len(Contents) <= SizeMod
  <2>1. SizeMod \in Nat \ {0} /\ Len(Contents) \in Nat /\ Contents \in Seq(Byte)
    BY ContentsType, SizeModAssumption DEF TypeInv, ContentsShape
  <2>2. pos \in Nat /\ count \in Nat /\ TypeOK /\ pc[p] = "locked" /\ got[p] = <<>>
    BY CallTypes DEF aesd_read, TypeInv, TypeOK, RingInv
  <2> QED BY <2>1, <2>2
<1>2. loaded /\ WellFormed(buffer)
  BY <1>1 DEF LockInv, Occupancy, RingInv
<1>3. /\ f_pos \in [Proc -> Nat] /\ got \in [Proc -> Seq(Byte)] /\ ret \in [Proc -> Int]
      /\ pc \in [Proc -> {"idle", "lock", "locked", "copy", "measured", "oops", "dead"}]
  BY DEF TypeInv, TypeOK
\* What is returned: nothing, or the bytes found.
<1>4. \/ /\ ret'[p] = 0 /\ f_pos'[p] = pos /\ got'[p] = <<>>
         /\ find.slot = NULL \/ CopyFails \/ (find.slot # NULL /\ wild)
      \/ /\ find.slot # NULL /\ ~wild
         /\ ret'[p] = copied /\ f_pos'[p] = pos + copied /\ got'[p] = bytes
  <2>1. \/ Return(p, 0) /\ UNCHANGED <<f_pos, got>> /\ find.slot = NULL
        \/ Return(p, 0) /\ UNCHANGED <<f_pos, got>> /\ find.slot # NULL /\ (CopyFails \/ wild)
        \/ /\ find.slot # NULL /\ ~wild /\ Return(p, copied)
           /\ f_pos' = [f_pos EXCEPT ![p] = @ + copied]
           /\ got' = [got EXCEPT ![p] = bytes]
        \/ pc' = [pc EXCEPT ![p] = "oops"]
    BY DEF aesd_read
  <2> HIDE DEF find, wild, copied, bytes
  <2>2. pc' # [pc EXCEPT ![p] = "oops"]
    BY <1>3
  <2> QED BY <1>1, <1>3, <2>1, <2>2 DEF Return
<1>5. SubSeq(Contents, pos + 1, pos) = <<>>
  BY <1>1, SubSeqEmpty
<1>6. CASE ~(EntryCount(buffer) > 0)
  <2>1. Len(Contents) = 0
    BY <1>1, <1>2, <1>6, EmptyRing
  <2>2. find.slot # NULL /\ ~wild => copied = 0
    <3> SUFFICES ASSUME find.slot # NULL, ~wild PROVE copied = 0
      OBVIOUS
    <3>1. find.slot \in Slots /\ find.offset \in Nat
      BY <1>1, FindType DEF TypeOK
    <3> HIDE DEF find
    <3>2. entry.buffptr = NULL /\ entry.size = 0
      BY <1>1, <1>2, <1>6, <3>1, EmptyRing DEF EmptyEntry
    <3>3. copied \in Nat
      BY <1>1, <3>1, <3>2
    <3> QED BY <3>2, <3>3
  <2> HIDE DEF find, copied, wild, count
  <2>3. ret'[p] = 0 /\ f_pos'[p] = pos /\ got'[p] = <<>>
    BY <1>1, <1>4, <2>2
  <2> QED BY <1>1, <1>5, <2>1, <2>3
<1>7. CASE EntryCount(buffer) > 0 /\ ~(pos < Len(Contents))
  <2>1. find.slot = NULL
    BY <1>1, <1>2, <1>7, SearchExact
  <2> HIDE DEF find, copied, wild, count
  <2>2. ret'[p] = 0 /\ f_pos'[p] = pos /\ got'[p] = <<>>
    BY <1>4, <2>1
  <2> QED BY <1>1, <1>5, <1>7, <2>2
<1>8. CASE EntryCount(buffer) > 0 /\ pos < Len(Contents)
  <2> DEFINE size == SizeUpTo(buffer)
  <2>1. PICK k \in 1 .. EntryCount(buffer) :
          /\ size[k - 1] \in Nat /\ size[k] = size[k - 1] + Len(Commands[k])
          /\ size[k - 1] <= pos /\ pos < size[k]
          /\ find.slot \in Slots /\ find.slot # NULL /\ find.offset = pos - size[k - 1]
          /\ entry = Entries(buffer)[k]
    BY <1>1, <1>2, <1>8, SearchExact
  <2>2. Len(Commands[k]) = entry.size /\ entry.size \in Nat
    BY <1>1, <2>1, CommandsType DEF CommandsShape
  <2>3. size[k] <= Len(Contents)
    <3>1. /\ buffer \in BufferType(Ptr \cup {NULL}) /\ MaxWriteOps \in Nat
          /\ EntryCount(buffer) \in 0 .. MaxWriteOps
      BY <1>1, VisitsType, MaxWriteOpsAssumption DEF TypeOK
    <3>2. PartialSums(size, SlotSizes(buffer), MaxWriteOps)
      BY <3>1, SizeUpToSums
    <3>3. \A i \in 0 .. MaxWriteOps - 1 : SlotSizes(buffer)[i] \in Nat
      BY <3>1, SlotSizesType
    <3> HIDE DEF size
    <3>4. k \in 0 .. MaxWriteOps /\ EntryCount(buffer) \in k .. MaxWriteOps
      BY <3>1
    <3>5. size[k] <= size[EntryCount(buffer)]
      BY <3>1, <3>2, <3>3, <3>4, SumsMonotone
    <3> QED BY <1>1, <3>5, ContentsType DEF ContentsShape, size
  <2> HIDE DEF size, find, entry
  \* The command found starts at a, has l bytes and ends within the L stored ones.
  <2> DEFINE a == size[k - 1]
             l == entry.size
             L == Len(Contents)
  <2>3a. /\ a \in Nat /\ l \in Nat /\ L \in Nat /\ pos \in Nat /\ SizeMod \in Nat
         /\ a <= pos /\ pos < a + l /\ a + l <= L /\ L < SizeMod
         /\ size[k] = a + l /\ find.offset = pos - a
    BY <1>1, <2>1, <2>2, <2>3
  <2> HIDE DEF a, l, L
  <2>4. ~wild
    <3>1. entry.size > 0
      BY <2>3a DEF l
    <3> QED BY <1>2, <2>1, <3>1 DEF RingInv, entry
  <2>5. available = size[k] - pos /\ available \in Nat \ {0}
    <3>1. entry.size - find.offset = size[k] - pos
      <4>1. l - (pos - a) = a + l - pos
        BY <2>3a
      <4> QED BY <2>3a, <4>1 DEF l
    <3>2. size[k] - pos \in 1 .. SizeMod - 1
      <4>1. a + l - pos \in 1 .. SizeMod - 1
        BY <2>3a
      <4> QED BY <2>3a, <4>1
    <3>3. \A d \in 1 .. SizeMod - 1 : d % SizeMod = d
      BY <1>1
    <3> QED BY <1>1, <3>1, <3>2, <3>3
  <2> HIDE DEF available
  <2>6. copied \in Nat /\ copied <= count /\ copied <= available /\ (copied = 0 => count = 0)
    BY <1>1, <2>5
  <2> HIDE DEF copied
  <2>7. /\ pos + copied <= a + l /\ pos + copied <= L
    BY <2>5, <2>6, <2>3a
  <2>8. ASSUME NEW i \in 1 .. copied
        PROVE  bytes[i] = Contents[pos + i] /\ Contents[pos + i] \in Byte
    <3>1. PICK j \in 1 .. Len(Commands[k]) : j = find.offset + i
      <4>1. pos - a + i \in 1 .. l
        <5>1. i \in Nat /\ 1 <= i /\ i <= copied
          BY <2>6
        <5>2. pos - a \in Nat /\ pos + i <= a + l
          BY <2>6, <2>7, <2>3a, <5>1
        <5> HIDE DEF pos
        <5> QED BY <2>3a, <5>1, <5>2
      <4> QED BY <2>2, <2>3a, <4>1 DEF l
    <3>2. Contents[size[k - 1] + j] = ByteAt(entry.buffptr, j)
      BY <1>1, <2>1, ByteOfCommand DEF size
    <3>3. size[k - 1] + j = pos + i /\ pos + i \in 1 .. Len(Contents)
      <4>1. PICK q \in Nat : q = pos
        BY <2>3a
      <4>2. i \in Nat /\ 1 <= i /\ i <= copied
        BY <2>6
      <4>3. q + i <= L
        BY <2>3a, <2>6, <2>7, <4>1, <4>2
      <4>4. a + (q - a + i) = q + i /\ q + i \in 1 .. L
        BY <2>3a, <4>2, <4>3
      <4>5. j = q - a + i
        BY <2>3a, <3>1, <4>1
      <4>6. a + j = q + i
        BY <4>4, <4>5
      <4> QED BY <4>1, <4>4, <4>6 DEF a, L
    <3>4. Contents[pos + i] \in Byte
      BY <1>1, <3>3, ElementOfSeq
    <3> QED BY <3>1, <3>2, <3>3, <3>4
  <2>9. bytes = SubSeq(Contents, pos + 1, pos + copied) /\ Len(bytes) = copied
    <3> DEFINE t == SubSeq(Contents, pos + 1, pos + copied)
    <3>1. bytes \in [1 .. copied -> Byte]
      BY <2>8
    <3>2. bytes \in Seq(Byte) /\ Len(bytes) = copied
      <4> HIDE DEF bytes
      <4> QED BY <2>6, <3>1, FcnIsSeq
    <3>3. \A i \in pos + 1 .. pos + copied : Contents[i] \in Byte
      <4> SUFFICES ASSUME NEW i \in pos + 1 .. pos + copied PROVE Contents[i] \in Byte
        OBVIOUS
      <4>1. i \in 1 .. Len(Contents)
        BY <1>1, <2>6, <2>7 DEF L
      <4> QED BY <1>1, <4>1, ElementOfSeq
    <3> HIDE DEF bytes, pos
    <3>4. t \in Seq(Byte) /\ Len(t) = copied /\ \A i \in 1 .. copied : t[i] = Contents[pos + i]
      <4>1. /\ t \in Seq(Byte)
            /\ Len(t) = IF pos + 1 <= pos + copied THEN (pos + copied) - (pos + 1) + 1 ELSE 0
            /\ \A i \in 1 .. (pos + copied) - (pos + 1) + 1 : t[i] = Contents[pos + 1 + i - 1]
        <5>1. pos + 1 \in Int /\ pos + copied \in Int
          BY <1>1, <2>6
        <5> QED BY <3>3, <5>1, SubSeqProperties
      <4>2. (pos + copied) - (pos + 1) + 1 = copied
        BY <1>1, <2>6
      <4> HIDE DEF t
      <4>3. Len(t) = copied
        BY <1>1, <2>6, <4>1, <4>2
      <4>4. \A i \in 1 .. copied : t[i] = Contents[pos + i]
        <5>1. \A i \in 1 .. copied : pos + 1 + i - 1 = pos + i
          BY <1>1, <2>6
        <5> QED BY <4>1, <4>2, <5>1
      <4> QED BY <4>1, <4>3, <4>4
    <3> HIDE DEF t
    <3>5. \A i \in 1 .. Len(bytes) : bytes[i] = t[i]
      BY <2>8, <3>2, <3>4
    <3>6. bytes = t
      BY <3>2, <3>4, <3>5, SeqEqual
    <3> QED BY <3>2, <3>6 DEF t
  <2> HIDE DEF wild, bytes, count, pos
  <2>10. CASE ret'[p] = 0 /\ f_pos'[p] = pos /\ got'[p] = <<>>
    <3>1. CopyFails \/ count = 0
      BY <1>4, <2>1, <2>4, <2>6, <2>10
    <3> QED BY <1>1, <1>5, <2>10, <3>1 DEF pos, count
  <2>11. CASE ret'[p] = copied /\ f_pos'[p] = pos + copied /\ got'[p] = bytes
    BY <2>6, <2>9, <2>11 DEF pos, count
  <2> QED BY <1>4, <2>10, <2>11
<1> QED BY <1>6, <1>7, <1>8

\* As long as the stored bytes can be counted in a size_t, every read hands over
\* exactly the bytes behind f_pos and moves f_pos past them, and returns 0 only
\* at the end, for a count of 0 or when the copy fails: for any interleaving
\* with the operations of any number of other processes.
THEOREM ReadsAreExact == Spec /\ [](Len(Contents) < SizeMod) => ReadIsExact
<1>1. TypeInv /\ LockInv /\ RingInv /\ Len(Contents) < SizeMod /\ [Next]_vars
        => [\A p \in Proc : Returns(p, "read") =>
              /\ f_pos'[p] = f_pos[p] + ret'[p]
              /\ got'[p] = SubSeq(Contents, f_pos[p] + 1, f_pos'[p])
              /\ Len(got'[p]) = ret'[p]
              /\ ret'[p] = 0 => \/ f_pos[p] >= Len(Contents)
                                \/ call[p].count = 0 \/ CopyFails]_vars
  BY WhoReturns, ReadStep DEF Returns
<1> QED BY <1>1, RingInvariance, PTL DEF Spec, ReadIsExact

\* The distance of a slot from the oldest entry.
LEMMA SlotDistance ==
  ASSUME NEW N \in Nat \ {0}, NEW o \in 0 .. N - 1, NEW w \in 0 .. N - 1
  PROVE  (((o + w) % N) - o) % N = w
<1>1. (o + w) % N = IF o + w < N THEN o + w ELSE o + w - N
  BY RingStep
<1>2. CASE o + w < N
  <2>1. ((o + w) % N) - o = w
    BY <1>1, <1>2
  <2> QED BY <2>1
<1>3. CASE ~(o + w < N)
  <2>1. ((o + w) % N) - o = w - N
    BY <1>1, <1>3
  <2>2. (w - N) % N = w
    OBVIOUS
  <2> QED BY <2>1, <2>2
<1> QED BY <1>2, <1>3

\* What one AESDCHAR_IOCSEEKTO does to a file at position 0.
LEMMA SeekToStep ==
  ASSUME TypeInv, LockInv, RingInv, NEW p \in Proc, aesd_ioctl(p),
         f_pos[p] = 0, call[p].write_cmd # MaxWriteOps
  PROVE  IF /\ call[p].write_cmd < Len(Commands)
            /\ call[p].write_cmd_offset < Len(Commands[call[p].write_cmd + 1])
         THEN ret'[p] = 0 /\ f_pos'[p] = StartOf(call[p].write_cmd) + call[p].write_cmd_offset
         ELSE ret'[p] = EINVAL /\ f_pos'[p] = 0
<1> DEFINE N == MaxWriteOps
           n == EntryCount(buffer)
           w == call[p].write_cmd
           off == call[p].write_cmd_offset
           idx == (w + buffer.out_offs) % N
<1>1. /\ w \in Nat /\ off \in Nat /\ pc[p] = "locked" /\ TypeOK
      /\ f_pos \in [Proc -> Nat] /\ ret \in [Proc -> Int]
  BY CallTypes DEF aesd_ioctl, TypeInv, TypeOK
<1>2. WellFormed(buffer)
  BY <1>1 DEF LockInv, Occupancy, RingInv
<1>3. buffer \in BufferType(Ptr \cup {NULL}) /\ N \in Nat \ {0} /\ Len(Commands) = n
  BY <1>1, MaxWriteOpsAssumption, CommandsType DEF TypeOK, CommandsShape
<1>4. /\ n \in 0 .. N /\ buffer.out_offs \in 0 .. N - 1 /\ buffer.in_offs \in 0 .. N - 1
  BY <1>3, VisitsType DEF BufferType, Slots
<1>5. \/ /\ w > N \/ off >= buffer.entry[idx].size
         /\ ret'[p] = EINVAL /\ f_pos'[p] = 0
      \/ /\ w <= N /\ off < buffer.entry[idx].size
         /\ ret'[p] = 0 /\ f_pos'[p] = 0 + (SizeBefore(idx) + off)
  BY <1>1 DEF aesd_ioctl, Return
<1>6. CASE w > N
  <2>1. ~(w <= N) /\ ~(w < Len(Commands))
    BY <1>1, <1>3, <1>4, <1>6
  <2> HIDE DEF N, n, w, off, idx
  <2>2. ret'[p] = EINVAL /\ f_pos'[p] = 0
    BY <1>5, <2>1
  <2> QED BY <2>1, <2>2 DEF w
<1>7. CASE w < N
  <2>1. w \in 0 .. N - 1 /\ idx = SlotAt(buffer, w) /\ idx \in Slots
    <3>1. w \in 0 .. N - 1 /\ w + buffer.out_offs = buffer.out_offs + w
      <4>1. PICK a \in Nat : a = w
        BY <1>1
      <4>2. PICK b \in Nat : b = buffer.out_offs
        BY <1>4
      <4>3. PICK c \in Nat : c = N
        BY <1>3
      <4>4. a < c
        BY <1>7, <4>1, <4>3
      <4>5. a \in 0 .. c - 1 /\ a + b = b + a
        BY <4>4
      <4> QED BY <4>1, <4>2, <4>3, <4>5
    <3>2. idx = SlotAt(buffer, w)
      BY <3>1 DEF SlotAt
    <3> QED BY <1>1, <1>3, <3>1, <3>2, SlotAtInSlots
  <2>2. buffer.entry[idx].size \in Nat
    BY <1>3, <2>1 DEF BufferType
  <2>3. CASE w < n
    <3>1. w + 1 \in 1 .. n /\ w \in 0 .. n /\ (w + 1) - 1 = w
      BY <1>1, <1>4, <2>3
    <3>2. Len(Commands[w + 1]) = buffer.entry[idx].size
      <4>1. PICK k \in 1 .. n : k = w + 1 /\ k - 1 = w
        BY <3>1
      <4> HIDE DEF w, idx
      <4>2. Len(Commands[k]) = Entries(buffer)[k].size
        BY <1>1, CommandsType DEF CommandsShape
      <4>3. Entries(buffer)[k] = buffer.entry[SlotAt(buffer, k - 1)]
        BY <1>3, EntriesSeq
      <4> QED BY <2>1, <4>1, <4>2, <4>3
    <3>3. SizeBefore(idx) = StartOf(w)
      <4>1. (((buffer.out_offs + w) % N) - buffer.out_offs) % N = w
        BY <1>3, <1>4, <2>1, SlotDistance
      <4>2. (idx - buffer.out_offs) % N = w
        BY <2>1, <4>1 DEF SlotAt
      <4> HIDE DEF w
      <4>3. StartOf(w) = SizeUpTo(buffer)[w]
        BY <1>1, <3>1, StartOfSum
      <4> QED BY <4>2, <4>3 DEF SizeBefore
    <3>4. SizeBefore(idx) \in Nat
      BY <1>1, <2>1, SizesType
    <3> HIDE DEF n, w, off, idx
    <3>5. CASE off < Len(Commands[w + 1])
      <4>1. ret'[p] = 0 /\ f_pos'[p] = StartOf(w) + off
        BY <1>1, <1>3, <1>5, <1>7, <2>2, <3>2, <3>3, <3>4, <3>5
      <4> QED BY <1>3, <2>3, <3>5, <4>1 DEF w, off
    <3>6. CASE ~(off < Len(Commands[w + 1]))
      <4>1. ret'[p] = EINVAL /\ f_pos'[p] = 0
        BY <1>5, <3>2, <3>6
      <4> QED BY <3>6, <4>1 DEF w, off
    <3> QED BY <3>5, <3>6
  <2>4. CASE ~(w < n)
    <3>1. ~buffer.full
      BY <1>7, <2>4 DEF EntryCount
    <3>2. buffer.out_offs = 0 /\ buffer.in_offs = n
      BY <1>2, <1>3, <1>4, <3>1 DEF WellFormed, EntryCount
    <3>3. idx = w
      BY <1>3, <2>1, <3>2
    <3>4. buffer.entry[idx] = EmptyEntry
      BY <1>2, <1>4, <2>1, <2>4, <3>1, <3>2, <3>3 DEF WellFormed
    <3>5. ~(off < buffer.entry[idx].size)
      BY <1>1, <3>4 DEF EmptyEntry
    <3> HIDE DEF n, w, off, idx
    <3>6. ret'[p] = EINVAL /\ f_pos'[p] = 0
      BY <1>5, <3>5
    <3> QED BY <1>3, <2>4, <3>6 DEF w
  <2> QED BY <2>3, <2>4
<1> QED BY <1>1, <1>3, <1>6, <1>7

\* On a file that was just opened AESDCHAR_IOCSEEKTO goes to the byte asked for if
\* and only if it exists, for every capacity, fill and wrap of the ring; only
\* write_cmd = AESDCHAR_MAX_WRITE_OPERATIONS_SUPPORTED is left out.
THEOREM SeekToIsExact == Spec => SeekToFromStart
<1>1. TypeInv /\ LockInv /\ RingInv /\ [Next]_vars
        => [\A p \in Proc :
              Returns(p, "seekto") /\ f_pos[p] = 0 /\ call[p].write_cmd # MaxWriteOps =>
                IF /\ call[p].write_cmd < Len(Commands)
                   /\ call[p].write_cmd_offset < Len(Commands[call[p].write_cmd + 1])
                THEN ret'[p] = 0 /\ f_pos'[p] = StartOf(call[p].write_cmd) + call[p].write_cmd_offset
                ELSE ret'[p] = EINVAL /\ f_pos'[p] = 0]_vars
  BY WhoReturns, SeekToStep DEF Returns
<1> QED BY <1>1, RingInvariance, PTL DEF Spec, SeekToFromStart

\* What SEEK_END does when nobody else uses the device.
LEMMA SeekEndStep ==
  ASSUME TypeInv, LockInv, RingInv, NEW p \in Proc, Proc = {p}, ~buffer.full, SeekEndMove(p)
  PROVE  CountsFromLastByte(p)
<1> DEFINE newpos == Len(Contents) - 1 + call[p].off
<1>1. /\ call[p].off \in Int /\ pc[p] = "measured" /\ TypeOK
      /\ f_pos \in [Proc -> Nat] /\ ret \in [Proc -> Int]
  BY CallTypes DEF SeekEndMove, TypeInv, TypeOK, CallShape
<1>2. WellFormed(buffer) /\ file_size[p] = SizeBefore(buffer.in_offs)
  BY <1>1 DEF LockInv, Occupancy, RingInv
<1>3. file_size[p] = Len(Contents)
  <2>1. (buffer.in_offs - buffer.out_offs) % MaxWriteOps = EntryCount(buffer)
    BY DEF EntryCount
  <2> QED BY <1>1, <1>2, <2>1, ContentsType DEF SizeBefore, ContentsShape
<1>4. Len(Contents) \in Nat
  BY <1>1, ContentsType DEF ContentsShape
<1>5. SetPos(p, newpos)
  BY <1>3 DEF SeekEndMove
<1> HIDE DEF newpos
<1>6. IF newpos < 0 THEN ret'[p] = EINVAL /\ f_pos'[p] = f_pos[p]
      ELSE ret'[p] = newpos /\ f_pos'[p] = newpos
  BY <1>1, <1>5 DEF SetPos, Return
<1> QED BY <1>6 DEF newpos, CountsFromLastByte

\* SEEK_END of the only process that uses the device counts from the last byte,
\* for every capacity, fill and wrap of a ring that is not full.
THEOREM SeekEndIsExact == Spec => SeekEndFindsLastByte
<1>1. TypeInv /\ LockInv /\ RingInv /\ [Next]_vars
        => [\A p \in Proc : Proc = {p} /\ ~buffer.full /\ pc[p] = "measured" /\ pc'[p] = "idle" =>
              CountsFromLastByte(p)]_vars
  BY WhoReturns, SeekEndStep
<1> QED BY <1>1, RingInvariance, PTL DEF Spec, SeekEndFindsLastByte

=============================================================================
