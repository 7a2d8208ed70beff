------------------------ MODULE CircularBufferProofs ------------------------
(***************************************************************************)
(* Proofs about the operations of the circular buffer, for every capacity  *)
(* and every content.                                                      *)
(*                                                                         *)
(* SizeUpTo is defined by recursion. What it computes is proved with the   *)
(* least-element form of induction: a nonempty set of naturals has a least *)
(* element, so the least index at which a claim fails contradicts the      *)
(* claim for its predecessor.                                              *)
(***************************************************************************)
EXTENDS CircularBuffer, SequenceTheorems, WellFoundedInduction, TLAPS

\* A nonempty set of naturals has a least element.
LEMMA LeastNat ==
  ASSUME NEW T \in SUBSET Nat, T # {}
  PROVE  \E n \in T : \A m \in T : n <= m
<1>1. PICK n \in T : \A m \in T : ~ (<<m, n>> \in OpToRel(<, Nat))
  BY NatLessThanWellFounded, WFMin
<1>2. \A m \in T : ~ (m < n)
  BY <1>1 DEF OpToRel
<1> QED BY <1>2

-----------------------------------------------------------------------------
(* The partial sums of the slot sizes.                                     *)

\* f holds the partial sums of g[0], ..., g[n - 1].
PartialSums(f, g, n) ==
  /\ f \in [0 .. n -> Nat]
  /\ f[0] = 0
  /\ \A k \in 1 .. n : f[k] = f[k - 1] + g[k - 1]

\* Partial sums exist for every finite sequence of naturals.
LEMMA PartialSumsExist ==
  ASSUME NEW g, NEW N \in Nat, \A i \in 0 .. N - 1 : g[i] \in Nat
  PROVE  \E f : PartialSums(f, g, N)
<1> DEFINE T == {n \in 0 .. N : ~ \E f : PartialSums(f, g, n)}
<1>1. SUFFICES ASSUME T # {} PROVE FALSE
  OBVIOUS
<1>2. PICK n \in T : \A m \in T : n <= m
  BY <1>1, LeastNat, T \in SUBSET Nat
<1> HIDE DEF T
<1>3. n \in 0 .. N /\ ~ \E f : PartialSums(f, g, n)
  BY <1>2 DEF T
<1>4. CASE n = 0
  <2>1. PartialSums([k \in 0 .. 0 |-> 0], g, 0)
    BY DEF PartialSums
  <2> QED BY <1>3, <1>4, <2>1
<1>5. CASE n # 0
  <2>1. n - 1 \in 0 .. N /\ n - 1 \notin T
    BY <1>2, <1>3, <1>5
  <2>2. PICK f : PartialSums(f, g, n - 1)
    BY <2>1 DEF T
  <2> DEFINE h == [k \in 0 .. n |-> IF k = n THEN f[n - 1] + g[n - 1] ELSE f[k]]
  <2>3. PartialSums(h, g, n)
    BY <2>2, <1>3, <1>5 DEF PartialSums
  <2> QED BY <2>3, <1>3
<1> QED BY <1>4, <1>5

\* The right-hand side of the recursive definition in SizeUpTo.
SumBody(buffer, f) ==
  [k \in 0 .. MaxWriteOps |->
     IF k = 0 THEN 0 ELSE f[k - 1] + buffer.entry[SlotAt(buffer, k - 1)].size]

\* Slot arithmetic stays in the array.
LEMMA ModInSlots ==
  ASSUME NEW a \in Int
  PROVE  a % MaxWriteOps \in Slots
BY MaxWriteOpsAssumption DEF Slots

\* The slot k places after the oldest is a slot.
LEMMA SlotAtInSlots ==
  ASSUME NEW P, NEW buffer \in BufferType(P), NEW k \in Int
  PROVE  SlotAt(buffer, k) \in Slots
<1>1. buffer.out_offs \in Int
  BY DEF BufferType, Slots
<1>2. buffer.out_offs + k \in Int
  BY <1>1
<1> QED BY <1>2, ModInSlots DEF SlotAt

\* The sizes of the slots, from the oldest entry on.
SlotSizes(buffer) ==
  [k \in 0 .. MaxWriteOps - 1 |-> buffer.entry[SlotAt(buffer, k)].size]

\* The sizes of the slots, in ring order, are natural numbers.
LEMMA SlotSizesType ==
  ASSUME NEW P, NEW buffer \in BufferType(P)
  PROVE  /\ \A k \in 0 .. MaxWriteOps - 1 : SlotSizes(buffer)[k] \in Nat
         /\ \A k \in 1 .. MaxWriteOps :
              SlotSizes(buffer)[k - 1] = buffer.entry[SlotAt(buffer, k - 1)].size
BY MaxWriteOpsAssumption, SlotAtInSlots DEF BufferType, SlotSizes

\* A solution of the recursion holds the partial sums.
LEMMA SolutionSums ==
  ASSUME NEW P, NEW buffer \in BufferType(P), NEW f, f = SumBody(buffer, f)
  PROVE  PartialSums(f, SlotSizes(buffer), MaxWriteOps)
<1> DEFINE g == SlotSizes(buffer)
<1>1. /\ MaxWriteOps \in Nat \ {0}
      /\ \A k \in 0 .. MaxWriteOps - 1 : g[k] \in Nat
      /\ \A k \in 1 .. MaxWriteOps : g[k - 1] = buffer.entry[SlotAt(buffer, k - 1)].size
  BY MaxWriteOpsAssumption, SlotSizesType
<1> HIDE DEF g
<1>2. \A k \in 0 .. MaxWriteOps :
        f[k] = IF k = 0 THEN 0 ELSE f[k - 1] + buffer.entry[SlotAt(buffer, k - 1)].size
  BY DEF SumBody
<1>3. f[0] = 0 /\ \A k \in 1 .. MaxWriteOps : f[k] = f[k - 1] + g[k - 1]
  BY <1>1, <1>2
<1>4. \A k \in 0 .. MaxWriteOps : f[k] \in Nat
  <2> DEFINE T == {n \in 0 .. MaxWriteOps : f[n] \notin Nat}
  <2>1. SUFFICES ASSUME T # {} PROVE FALSE
    OBVIOUS
  <2>2. PICK n \in T : \A m \in T : n <= m
    BY <2>1, LeastNat, T \in SUBSET Nat
  <2>3. n # 0
    BY <1>3
  <2>4. n \in 1 .. MaxWriteOps /\ n - 1 \in 0 .. MaxWriteOps - 1 /\ n - 1 \notin T
    BY <2>2, <2>3, <1>1
  <2>5. f[n - 1] \in Nat /\ g[n - 1] \in Nat
    BY <2>4, <1>1
  <2> QED BY <2>2, <2>4, <2>5, <1>3
<1>5. f \in [0 .. MaxWriteOps -> Nat]
  BY <1>4 DEF SumBody
<1> QED BY <1>3, <1>5 DEF PartialSums, g

\* SizeUpTo, which is defined by recursion, holds the partial sums.
LEMMA SizeUpToSums ==
  ASSUME NEW P, NEW buffer \in BufferType(P)
  PROVE  PartialSums(SizeUpTo(buffer), SlotSizes(buffer), MaxWriteOps)
<1>1. PICK f : PartialSums(f, SlotSizes(buffer), MaxWriteOps)
  BY PartialSumsExist, SlotSizesType, MaxWriteOpsAssumption
<1>2. f = SumBody(buffer, f)
  BY <1>1, SlotSizesType, MaxWriteOpsAssumption DEF PartialSums, SumBody
<1>3. SizeUpTo(buffer) = CHOOSE h : h = SumBody(buffer, h)
  BY DEF SizeUpTo, SumBody
<1>4. SizeUpTo(buffer) = SumBody(buffer, SizeUpTo(buffer))
  BY <1>2, <1>3
<1> QED BY <1>4, SolutionSums

\* The partial sums do not decrease.
LEMMA SumsMonotone ==
  ASSUME NEW f, NEW g, NEW N \in Nat, PartialSums(f, g, N),
         \A i \in 0 .. N - 1 : g[i] \in Nat,
         NEW i \in 0 .. N, NEW j \in i .. N
  PROVE  f[i] <= f[j]
<1> DEFINE T == {n \in i .. N : ~ (f[i] <= f[n])}
<1>1. SUFFICES ASSUME T # {} PROVE FALSE
  OBVIOUS
<1>2. PICK n \in T : \A m \in T : n <= m
  BY <1>1, LeastNat, T \in SUBSET Nat
<1>3. n # i
  BY <1>2 DEF PartialSums
<1>4. n \in 1 .. N /\ n - 1 \in i .. N /\ n - 1 \notin T
  BY <1>2, <1>3
<1>5. f[n] = f[n - 1] + g[n - 1] /\ g[n - 1] \in Nat /\ f[n - 1] \in Nat /\ f[i] \in Nat
  BY <1>4 DEF PartialSums
<1> QED BY <1>2, <1>4, <1>5

-----------------------------------------------------------------------------
(* The search.                                                             *)

\* The visits after which the search may stop.
Hits(buffer, char_offset) ==
  {k \in 0 .. Visits(buffer) - 1 : Covers(char_offset, SizeUpTo(buffer)[k + 1])}

\* The search visits at least one slot and no slot twice.
LEMMA VisitsType ==
  ASSUME NEW P, NEW buffer \in BufferType(P)
  PROVE  /\ Visits(buffer) \in 1 .. MaxWriteOps
         /\ EntryCount(buffer) \in 0 .. MaxWriteOps
<1>1. /\ MaxWriteOps \in Nat \ {0}
      /\ buffer.in_offs \in 0 .. MaxWriteOps - 1
      /\ buffer.out_offs \in 0 .. MaxWriteOps - 1
  BY MaxWriteOpsAssumption DEF BufferType, Slots
<1> DEFINE d == buffer.in_offs - buffer.out_offs
<1>2. d % MaxWriteOps \in 0 .. MaxWriteOps - 1
  BY <1>1
<1>3. buffer.in_offs # buffer.out_offs => d % MaxWriteOps # 0
  <2>1. CASE d < 0
    <3>1. d % MaxWriteOps = d + MaxWriteOps
      BY <1>1, <2>1
    <3> QED BY <3>1, <1>1, <2>1
  <2>2. CASE d >= 0
    <3>1. d % MaxWriteOps = d
      BY <1>1, <2>2
    <3> QED BY <3>1, <1>1
  <2> QED BY <1>1, <2>1, <2>2
<1> QED BY <1>1, <1>2, <1>3 DEF Visits, EntryCount

\* The search returns the first slot that covers the position, or no slot.
LEMMA FindFirstHit ==
  ASSUME NEW P, NEW buffer \in BufferType(P), NEW char_offset
  PROVE  LET find == aesd_circular_buffer_find_entry_offset_for_fpos(buffer, char_offset)
         IN  \/ Hits(buffer, char_offset) = {} /\ find = [slot |-> NULL, offset |-> 0]
             \/ \E k \in Hits(buffer, char_offset) :
                  /\ \A g \in Hits(buffer, char_offset) : k <= g
                  /\ find = [slot   |-> SlotAt(buffer, k),
                             offset |-> (char_offset - SizeUpTo(buffer)[k]) % SizeMod]
<1> DEFINE hits == Hits(buffer, char_offset)
<1>1. CASE hits = {}
  BY <1>1 DEF Hits, aesd_circular_buffer_find_entry_offset_for_fpos
<1>2. CASE hits # {}
  <2>1. hits \in SUBSET Nat
    BY VisitsType DEF Hits
  <2>2. \E h \in hits : \A g \in hits : h <= g
    BY <1>2, <2>1, LeastNat
  <2> DEFINE k == CHOOSE h \in hits : \A g \in hits : h <= g
  <2>3. k \in hits /\ \A g \in hits : k <= g
    BY <2>2
  <2>4. aesd_circular_buffer_find_entry_offset_for_fpos(buffer, char_offset)
          = [slot   |-> SlotAt(buffer, k),
             offset |-> (char_offset - SizeUpTo(buffer)[k]) % SizeMod]
    BY <1>2 DEF Hits, aesd_circular_buffer_find_entry_offset_for_fpos
  <2> HIDE DEF k
  <2> QED BY <2>3, <2>4
<1> QED BY <1>1, <1>2

\* What the search returns has its type.
LEMMA FindType ==
  ASSUME NEW P, NEW buffer \in BufferType(P), NEW char_offset \in Nat
  PROVE  LET find == aesd_circular_buffer_find_entry_offset_for_fpos(buffer, char_offset)
         IN  find.slot # NULL => find.slot \in Slots /\ find.offset \in Nat
<1> DEFINE find == aesd_circular_buffer_find_entry_offset_for_fpos(buffer, char_offset)
<1>1. SUFFICES ASSUME find.slot # NULL
               PROVE  find.slot \in Slots /\ find.offset \in Nat
  OBVIOUS
<1>2. PICK k \in Hits(buffer, char_offset) :
        find = [slot   |-> SlotAt(buffer, k),
                offset |-> (char_offset - SizeUpTo(buffer)[k]) % SizeMod]
  BY <1>1, FindFirstHit
<1> HIDE DEF find
<1>3. k \in 0 .. MaxWriteOps
  BY VisitsType, MaxWriteOpsAssumption DEF Hits
<1>4. SizeUpTo(buffer)[k] \in Nat
  BY <1>3, SizeUpToSums DEF PartialSums
<1>5. (char_offset - SizeUpTo(buffer)[k]) % SizeMod \in Nat
  BY <1>4, SizeModAssumption
<1> QED BY <1>2, <1>3, <1>5, SlotAtInSlots

\* Facts about a well-formed ring with an entry: the search visits exactly the
\* stored entries, and no partial sum behind the first is zero.
LEMMA WellFormedSums ==
  ASSUME NEW P, NEW buffer \in BufferType(P), WellFormed(buffer), EntryCount(buffer) > 0
  PROVE  /\ Visits(buffer) = EntryCount(buffer)
         /\ \A k \in 1 .. MaxWriteOps : SizeUpTo(buffer)[k] > 0
<1>1. /\ MaxWriteOps \in Nat \ {0}
      /\ buffer.in_offs \in 0 .. MaxWriteOps - 1
      /\ buffer.out_offs \in 0 .. MaxWriteOps - 1
  BY MaxWriteOpsAssumption DEF BufferType, Slots
<1>2. Visits(buffer) = EntryCount(buffer)
  <2>1. CASE buffer.full
    BY <2>1 DEF WellFormed, Visits, EntryCount
  <2>2. CASE ~ buffer.full
    <3>1. buffer.out_offs = 0 /\ EntryCount(buffer) = buffer.in_offs
      BY <1>1, <2>2 DEF WellFormed, EntryCount
    <3> QED BY <1>1, <2>2, <3>1 DEF Visits, EntryCount
  <2> QED BY <2>1, <2>2
<1>3. buffer.entry[buffer.out_offs].size > 0
  <2>1. CASE buffer.full
    BY <1>1, <2>1 DEF WellFormed, Slots
  <2>2. CASE ~ buffer.full
    <3>1. buffer.out_offs = 0 /\ EntryCount(buffer) = buffer.in_offs
      BY <1>1, <2>2 DEF WellFormed, EntryCount
    <3> QED BY <1>1, <2>2, <3>1 DEF WellFormed, Slots
  <2> QED BY <2>1, <2>2
<1>4. SlotAt(buffer, 0) = buffer.out_offs
  BY <1>1 DEF SlotAt
<1> DEFINE size == SizeUpTo(buffer)
           g == SlotSizes(buffer)
<1>5. PartialSums(size, g, MaxWriteOps)
  BY SizeUpToSums
<1>6. \A k \in 0 .. MaxWriteOps - 1 : g[k] \in Nat
  BY SlotSizesType
<1>7. g[0] > 0
  BY <1>1, <1>3, <1>4 DEF SlotSizes
<1> HIDE DEF size, g
<1>8. size[1] > 0
  BY <1>1, <1>5, <1>6, <1>7 DEF PartialSums
<1>9. ASSUME NEW k \in 1 .. MaxWriteOps PROVE size[k] > 0
  <2>1. size[1] <= size[k]
    BY <1>1, <1>5, <1>6, SumsMonotone
  <2>2. size[k] \in Nat /\ size[1] \in Nat
    BY <1>1, <1>5 DEF PartialSums
  <2> QED BY <1>8, <2>1, <2>2
<1> QED BY <1>2, <1>9 DEF size

\* aesd_circular_buffer_find_entry_offset_for_fpos is exact. In a ring that
\* stores an entry it finds, for every position below the total size, the entry
\* that holds it and the offset in that entry, and nothing for any position
\* behind; whatever the capacity, the fill level and the wrap.
THEOREM FindExact ==
  ASSUME NEW P, NEW buffer \in BufferType(P), WellFormed(buffer),
         EntryCount(buffer) > 0,
         SizeUpTo(buffer)[EntryCount(buffer)] <= SizeMod,
         NEW char_offset \in Nat
  PROVE  LET size == SizeUpTo(buffer)
             n    == EntryCount(buffer)
             find == aesd_circular_buffer_find_entry_offset_for_fpos(buffer, char_offset)
         IN  IF char_offset < size[n]
             THEN \E k \in 0 .. n - 1 :
                    /\ size[k] <= char_offset /\ char_offset < size[k + 1]
                    /\ find = [slot |-> SlotAt(buffer, k), offset |-> char_offset - size[k]]
             ELSE find.slot = NULL
<1> DEFINE size == SizeUpTo(buffer)
           n    == EntryCount(buffer)
           g    == SlotSizes(buffer)
           find == aesd_circular_buffer_find_entry_offset_for_fpos(buffer, char_offset)
           hits == Hits(buffer, char_offset)
<1>1. /\ MaxWriteOps \in Nat \ {0} /\ SizeMod \in Nat \ {0}
      /\ n \in 1 .. MaxWriteOps /\ Visits(buffer) = n
      /\ PartialSums(size, g, MaxWriteOps)
      /\ \A k \in 0 .. MaxWriteOps - 1 : g[k] \in Nat
      /\ \A k \in 1 .. MaxWriteOps : size[k] > 0
  BY MaxWriteOpsAssumption, SizeModAssumption, VisitsType, SizeUpToSums,
     SlotSizesType, WellFormedSums
<1>2. /\ size[0] = 0 /\ size[n] \in Nat /\ size[n] <= SizeMod
      /\ \A k \in 0 .. n : size[k] \in Nat /\ size[k] <= size[n]
  <2>1. ASSUME NEW k \in 0 .. n PROVE size[k] <= size[n]
    BY <1>1, SumsMonotone
  <2>2. size[0] = 0 /\ \A k \in 0 .. n : size[k] \in Nat
    BY <1>1 DEF PartialSums
  <2> QED BY <1>1, <2>1, <2>2
<1>3. \/ hits = {} /\ find = [slot |-> NULL, offset |-> 0]
      \/ \E k \in hits :
           /\ \A h \in hits : k <= h
           /\ find = [slot   |-> SlotAt(buffer, k),
                      offset |-> (char_offset - size[k]) % SizeMod]
  BY FindFirstHit
<1>4. hits = {k \in 0 .. n - 1 : Covers(char_offset, size[k + 1])}
  BY <1>1 DEF Hits
<1> HIDE DEF size, n, g, find, hits
<1>5. ASSUME NEW k \in 0 .. n - 1
      PROVE  k \in hits <=> char_offset < size[k + 1]
  <2>1. size[k + 1] \in 1 .. SizeMod
    BY <1>1, <1>2
  <2>2. (size[k + 1] - 1) % SizeMod = size[k + 1] - 1
    BY <1>1, <2>1
  <2> QED BY <1>4, <2>1, <2>2 DEF Covers
<1>6. CASE char_offset < size[n]
  <2>1. n - 1 \in hits
    BY <1>1, <1>5, <1>6
  <2>2. PICK k \in hits :
          /\ \A h \in hits : k <= h
          /\ find = [slot |-> SlotAt(buffer, k), offset |-> (char_offset - size[k]) % SizeMod]
    BY <1>3, <2>1
  <2>3. k \in 0 .. n - 1 /\ char_offset < size[k + 1]
    BY <1>4, <1>5, <2>2
  <2>4. size[k] <= char_offset
    <3>1. CASE k = 0
      BY <1>2, <3>1
    <3>2. CASE k # 0
      <4>1. k - 1 \in 0 .. n - 1 /\ k - 1 \notin hits
        BY <1>1, <2>2, <2>3, <3>2
      <4> QED BY <1>1, <1>2, <1>5, <2>3, <4>1
    <3> QED BY <3>1, <3>2
  <2>5. char_offset - size[k] \in 0 .. SizeMod - 1
    BY <1>1, <1>2, <2>3, <2>4
  <2>6. (char_offset - size[k]) % SizeMod = char_offset - size[k]
    BY <1>1, <2>5
  <2> QED BY <1>6, <2>2, <2>3, <2>4, <2>6 DEF size, n, find
<1>7. CASE ~ (char_offset < size[n])
  <2>1. \A k \in 0 .. n - 1 : k \notin hits
    BY <1>1, <1>2, <1>5, <1>7
  <2>2. hits = {}
    BY <1>4, <2>1
  <2> QED BY <1>3, <1>7, <2>2 DEF size, n, find
<1> QED BY <1>6, <1>7

-----------------------------------------------------------------------------
(* Adding an entry.                                                        *)

\* Arithmetic of the ring: an offset within one lap, and one slot further.
LEMMA RingStep ==
  ASSUME NEW N \in Nat \ {0}, NEW o \in 0 .. N - 1
  PROVE  /\ (o + 1) % N = IF o + 1 = N THEN 0 ELSE o + 1
         /\ \A k \in 0 .. N - 1 : (o + k) % N = IF o + k < N THEN o + k ELSE o + k - N
<1>1. ASSUME NEW a \in 0 .. N - 1 PROVE a % N = a
  OBVIOUS
<1>2. ASSUME NEW a \in N .. 2 * N - 1 PROVE a % N = a - N
  OBVIOUS
<1>3. ASSUME NEW k \in 0 .. N - 1
      PROVE  (o + k) % N = IF o + k < N THEN o + k ELSE o + k - N
  <2>1. CASE o + k < N
    BY <1>1, <2>1
  <2>2. CASE ~ (o + k < N)
    <3>1. o + k \in N .. 2 * N - 1
      BY <2>2
    <3> QED BY <1>2, <2>2, <3>1
  <2> QED BY <2>1, <2>2
<1>4. CASE o + 1 = N
  BY <1>2, <1>3, <1>4
<1>5. CASE o + 1 # N
  BY <1>1, <1>3, <1>5
<1> QED BY <1>4, <1>5

\* A function on 1 .. n is a sequence of length n.
LEMMA FcnIsSeq ==
  ASSUME NEW S, NEW n \in Nat, NEW f \in [1 .. n -> S]
  PROVE  f \in Seq(S) /\ Len(f) = n
OBVIOUS

\* The stored entries form a sequence.
LEMMA EntriesSeq ==
  ASSUME NEW P, NEW buffer \in BufferType(P)
  PROVE  /\ Entries(buffer) \in Seq([buffptr : P, size : Nat])
         /\ Len(Entries(buffer)) = EntryCount(buffer)
         /\ \A i \in 1 .. EntryCount(buffer) :
              Entries(buffer)[i] = buffer.entry[SlotAt(buffer, i - 1)]
<1>1. EntryCount(buffer) \in Nat
  BY VisitsType, MaxWriteOpsAssumption
<1>2. \A i \in 1 .. EntryCount(buffer) :
        buffer.entry[SlotAt(buffer, i - 1)] \in [buffptr : P, size : Nat]
  <2>1. \A i \in 1 .. EntryCount(buffer) : SlotAt(buffer, i - 1) \in Slots
    BY <1>1, SlotAtInSlots
  <2> QED BY <2>1 DEF BufferType
<1>3. Entries(buffer) \in [1 .. EntryCount(buffer) -> [buffptr : P, size : Nat]]
  BY <1>2 DEF Entries
<1> QED BY <1>1, <1>3, FcnIsSeq DEF Entries

\* From the slot after o, one lap visits the other slots in the order in which
\* it visits them from o, and ends at o.
LEMMA RingShift ==
  ASSUME NEW N \in Nat \ {0}, NEW o \in 0 .. N - 1, NEW o1, o1 = (o + 1) % N
  PROVE  /\ o1 \in 0 .. N - 1
         /\ (o1 + (N - 1)) % N = o
         /\ \A j \in 1 .. N - 1 : /\ (o1 + (j - 1)) % N = (o + j) % N
                                 /\ (o + j) % N \in 0 .. N - 1
                                 /\ (o + j) % N # o
<1>1. o1 = IF o + 1 = N THEN 0 ELSE o + 1
  BY RingStep
<1>2. o1 \in 0 .. N - 1
  BY <1>1
<1>3. \A k \in 0 .. N - 1 : (o1 + k) % N = IF o1 + k < N THEN o1 + k ELSE o1 + k - N
  BY <1>2, RingStep
<1>4. \A k \in 0 .. N - 1 : (o + k) % N = IF o + k < N THEN o + k ELSE o + k - N
  BY RingStep
<1>5. (o1 + (N - 1)) % N = o
  <2>1. (o1 + (N - 1)) % N = IF o1 + (N - 1) < N THEN o1 + (N - 1) ELSE o1 + (N - 1) - N
    BY <1>3, N - 1 \in 0 .. N - 1
  <2> QED BY <1>1, <2>1
<1>6. ASSUME NEW j \in 1 .. N - 1
      PROVE  /\ (o1 + (j - 1)) % N = (o + j) % N
             /\ (o + j) % N \in 0 .. N - 1
             /\ (o + j) % N # o
  <2>1. (o1 + (j - 1)) % N = IF o1 + (j - 1) < N THEN o1 + (j - 1) ELSE o1 + (j - 1) - N
    BY <1>3, j - 1 \in 0 .. N - 1
  <2>2. (o + j) % N = IF o + j < N THEN o + j ELSE o + j - N
    BY <1>4
  <2> QED BY <1>1, <2>1, <2>2
<1> QED BY <1>2, <1>5, <1>6

\* Sequences that agree point by point with an append, or with an append to the
\* tail.
LEMMA IsAppend ==
  ASSUME NEW S, NEW s \in Seq(S), NEW e \in S, NEW t \in Seq(S),
         Len(t) = Len(s) + 1, \A j \in 1 .. Len(s) : t[j] = s[j], t[Len(s) + 1] = e
  PROVE  t = Append(s, e)
<1>1. /\ Append(s, e) \in Seq(S) /\ Len(Append(s, e)) = Len(s) + 1
      /\ \A j \in 1 .. Len(s) : Append(s, e)[j] = s[j]
      /\ Append(s, e)[Len(s) + 1] = e
  BY AppendProperties
<1>2. Len(s) \in Nat
  BY LenProperties
<1>3. \A j \in 1 .. Len(t) : t[j] = Append(s, e)[j]
  BY <1>1, <1>2
<1> QED BY <1>1, <1>3, SeqEqual

\* A sequence without its first element and with one element appended.
LEMMA IsAppendToTail ==
  ASSUME NEW S, NEW s \in Seq(S), s # << >>, NEW e \in S, NEW t \in Seq(S),
         Len(t) = Len(s), \A j \in 1 .. Len(s) - 1 : t[j] = s[j + 1], t[Len(s)] = e
  PROVE  t = Append(Tail(s), e)
<1>1. /\ Tail(s) \in Seq(S) /\ Len(Tail(s)) = Len(s) - 1 /\ Len(s) \in Nat
      /\ \A j \in 1 .. Len(Tail(s)) : Tail(s)[j] = s[j + 1]
  BY HeadTailProperties, LenProperties
<1>2. \A j \in 1 .. Len(Tail(s)) : t[j] = Tail(s)[j]
  BY <1>1
<1>3. Len(t) = Len(Tail(s)) + 1 /\ t[Len(Tail(s)) + 1] = e
  BY <1>1
<1> QED BY <1>1, <1>2, <1>3, IsAppend

\* aesd_circular_buffer_add_entry keeps the type.
LEMMA AddEntryType ==
  ASSUME NEW P, NEW buffer \in BufferType(P),
         NEW add_entry \in [buffptr : P, size : Nat]
  PROVE  aesd_circular_buffer_add_entry(buffer, add_entry) \in BufferType(P)
<1>1. /\ buffer.in_offs \in Slots /\ buffer.out_offs \in Slots
      /\ buffer.entry \in [Slots -> [buffptr : P, size : Nat]]
  BY DEF BufferType
<1>2. buffer.in_offs + 1 \in Int /\ buffer.out_offs + 1 \in Int
  BY <1>1 DEF Slots
<1>3. Advance(buffer.in_offs) \in Slots /\ Advance(buffer.out_offs) \in Slots
  BY <1>2, ModInSlots DEF Advance
<1> QED BY <1>1, <1>3 DEF aesd_circular_buffer_add_entry, BufferType

\* aesd_circular_buffer_add_entry keeps the ring well formed and is an append to
\* a bounded log: the entry becomes the newest, a full ring drops its oldest, and
\* the others keep their order, whatever the capacity and the wrap.
THEOREM AddEntryAppends ==
  ASSUME NEW P, NEW buffer \in BufferType(P), WellFormed(buffer),
         NEW add_entry \in [buffptr : P, size : Nat], add_entry.size > 0
  PROVE  LET new == aesd_circular_buffer_add_entry(buffer, add_entry)
         IN  /\ new \in BufferType(P)
             /\ WellFormed(new)
             /\ Entries(new) = Append(IF buffer.full THEN Tail(Entries(buffer))
                                                     ELSE Entries(buffer), add_entry)
<1> DEFINE N   == MaxWriteOps
           E   == [buffptr : P, size : Nat]
           new == aesd_circular_buffer_add_entry(buffer, add_entry)
           old == Entries(buffer)
           i   == buffer.in_offs
           o   == buffer.out_offs
<1>1. /\ N \in Nat \ {0}
      /\ i \in 0 .. N - 1 /\ o \in 0 .. N - 1
      /\ buffer.entry \in [0 .. N - 1 -> E] /\ buffer.full \in BOOLEAN
  BY MaxWriteOpsAssumption DEF BufferType, Slots
<1>2. /\ new.entry = [buffer.entry EXCEPT ![i] = add_entry]
      /\ new.in_offs = (i + 1) % N
      /\ new.out_offs = IF buffer.full THEN (o + 1) % N ELSE o
      /\ new.full = (new.in_offs = new.out_offs)
  BY DEF aesd_circular_buffer_add_entry, Advance
<1>3. new \in BufferType(P)
  BY AddEntryType
<1>4. /\ old \in Seq(E) /\ Len(old) = EntryCount(buffer)
      /\ \A j \in 1 .. EntryCount(buffer) : old[j] = buffer.entry[(o + (j - 1)) % N]
  BY EntriesSeq DEF SlotAt
<1>5. /\ Entries(new) \in Seq(E) /\ Len(Entries(new)) = EntryCount(new)
      /\ \A j \in 1 .. EntryCount(new) :
           Entries(new)[j] = new.entry[(new.out_offs + (j - 1)) % N]
  BY <1>3, EntriesSeq DEF SlotAt
<1>6. \A s \in 0 .. N - 1 : new.entry[s] = IF s = i THEN add_entry ELSE buffer.entry[s]
  BY <1>1, <1>2
<1>7. EntryCount(buffer) = IF buffer.full THEN N ELSE (i - o) % N
  BY DEF EntryCount
<1>8. EntryCount(new) = IF new.full THEN N ELSE (new.in_offs - new.out_offs) % N
  BY DEF EntryCount
<1>9. IF buffer.full
      THEN i = o /\ \A s \in 0 .. N - 1 : buffer.entry[s].size > 0
      ELSE o = 0 /\ \A s \in 0 .. N - 1 : IF s < i THEN buffer.entry[s].size > 0
                                              ELSE buffer.entry[s] = EmptyEntry
  BY DEF WellFormed, Slots
<1> HIDE DEF N, E, new, old, i, o
<1>10. CASE ~ buffer.full
  <2>1. o = 0 /\ EntryCount(buffer) = i
    BY <1>1, <1>7, <1>9, <1>10
  <2>2. /\ new.out_offs = 0
        /\ new.in_offs = IF i + 1 = N THEN 0 ELSE i + 1
        /\ new.full = (i + 1 = N)
    <3>1. (i + 1) % N = IF i + 1 = N THEN 0 ELSE i + 1
      BY <1>1, RingStep
    <3> QED BY <1>1, <1>2, <1>10, <2>1, <3>1
  <2>3. \A s \in 0 .. N - 1 : IF s < i + 1 THEN new.entry[s].size > 0
                                         ELSE new.entry[s] = EmptyEntry
    BY <1>1, <1>6, <1>9, <1>10
  <2>4. WellFormed(new) /\ EntryCount(new) = i + 1
    <3>1. CASE i + 1 = N
      <4>1. new.full /\ new.in_offs = 0
        BY <2>2, <3>1
      <4> QED BY <1>1, <1>8, <2>2, <2>3, <3>1, <4>1 DEF WellFormed, Slots, N
    <3>2. CASE i + 1 # N
      <4>1. ~ new.full /\ new.in_offs = i + 1
        BY <2>2, <3>2
      <4>2. ((i + 1) - 0) % N = i + 1
        BY <1>1, <3>2
      <4> QED BY <1>1, <1>8, <2>2, <2>3, <4>1, <4>2 DEF WellFormed, Slots, N
    <3> QED BY <3>1, <3>2
  <2>5. ASSUME NEW j \in 1 .. i + 1 PROVE Entries(new)[j] = new.entry[j - 1]
    <3>1. (0 + (j - 1)) % N = j - 1
      BY <1>1
    <3> QED BY <1>5, <2>2, <2>4, <3>1
  <2>6. ASSUME NEW j \in 1 .. i PROVE old[j] = buffer.entry[j - 1]
    <3>1. (0 + (j - 1)) % N = j - 1
      BY <1>1
    <3> QED BY <1>4, <2>1, <3>1
  <2>7. \A j \in 1 .. i : Entries(new)[j] = old[j]
    BY <1>1, <1>6, <2>5, <2>6
  <2>8. Entries(new)[i + 1] = add_entry
    BY <1>1, <1>6, <2>5
  <2>9. Entries(new) = Append(old, add_entry)
    BY <1>4, <1>5, <2>1, <2>4, <2>7, <2>8, IsAppend DEF E
  <2> QED BY <1>3, <1>10, <2>4, <2>9 DEF new, old
<1>11. CASE buffer.full
  <2>1. i = o /\ EntryCount(buffer) = N
    BY <1>7, <1>9, <1>11
  <2> DEFINE o1 == (o + 1) % N
  <2>2. new.out_offs = o1 /\ new.in_offs = o1 /\ new.full = TRUE
    BY <1>2, <1>11, <2>1
  <2>3. /\ o1 \in 0 .. N - 1
        /\ (o1 + (N - 1)) % N = o
        /\ \A j \in 1 .. N - 1 : /\ (o1 + (j - 1)) % N = (o + j) % N
                                /\ (o + j) % N \in 0 .. N - 1
                                /\ (o + j) % N # o
    BY <1>1, RingShift
  <2> HIDE DEF o1
  <2>4. WellFormed(new)
    BY <1>6, <1>9, <1>11, <2>2 DEF WellFormed, Slots, N
  <2>5. EntryCount(new) = N
    BY <1>8, <2>2
  <2>6. Entries(new)[N] = add_entry
    BY <1>1, <1>5, <1>6, <2>1, <2>2, <2>3, <2>5
  <2>7. ASSUME NEW j \in 1 .. N - 1 PROVE Entries(new)[j] = old[j + 1]
    <3>1. Entries(new)[j] = new.entry[(o + j) % N]
      BY <1>1, <1>5, <2>2, <2>3, <2>5
    <3>2. new.entry[(o + j) % N] = buffer.entry[(o + j) % N]
      BY <1>6, <2>1, <2>3
    <3>3. j + 1 \in 1 .. N /\ (j + 1) - 1 = j
      BY <1>1
    <3>4. old[j + 1] = buffer.entry[(o + j) % N]
      BY <1>4, <2>1, <3>3
    <3> QED BY <3>1, <3>2, <3>4
  <2>8. old # << >>
    BY <1>1, <1>4, <2>1
  <2>9. Entries(new) = Append(Tail(old), add_entry)
    BY <1>1, <1>4, <1>5, <2>1, <2>5, <2>6, <2>7, <2>8, IsAppendToTail DEF E
  <2> QED BY <1>3, <1>11, <2>4, <2>9 DEF new, old
<1> QED BY <1>1, <1>10, <1>11

=============================================================================
