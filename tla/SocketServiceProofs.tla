------------------------ MODULE SocketServiceProofs ------------------------
(***************************************************************************)
(* Proofs about the service threads of the socket server, for any number   *)
(* of connections, any packets, any size of the FILE's buffer and any      *)
(* capacity of the device, with crashes and with a device that fails.      *)
(***************************************************************************)
EXTENDS SocketService, SequenceTheorems, WellFoundedInduction, TLAPS

Holding == {"file", "getline", "send", "close", "failed"}

\* A thread is between lock and unlock exactly when the mutex is its own.
LockInv == \A c \in Conn : pc[c] \in Holding <=> mutex = c

Live(c) == pc[c] \notin {"done", "dead"}

\* The buffer of a thread is what its connection has received, from the first
\* byte on, and the chunk that made it leave recv() has a newline.
ReceivedInv ==
  \A c \in Conn :
    /\ received[c] = <<>> => pc[c] \in {"recv", "done"}
    /\ Live(c) => p_malloc_buf[c] = FlattenSeq(received[c])
    /\ Live(c) /\ received[c] # <<>> =>
         p_malloc_buf[c] # <<>> /\ p_malloc_buf[c][1] = received[c][1][1]
    /\ Live(c) /\ pc[c] # "recv" => Contains(received[c][Len(received[c])], NL)

\* A packet is on its way to the device as a whole, or what is left of it fits in
\* the FILE's buffer. A packet that fits is never split.
RestInv ==
  \A c \in Conn :
    pc[c] = "file" =>
      /\ rest[c] = p_malloc_buf[c] \/ (~HasCommand(c) /\ Len(rest[c]) < StdioBuf)
      /\ Len(p_malloc_buf[c]) <= StdioBuf => rest[c] = p_malloc_buf[c]

\* x are consecutive elements of t, and r its last ones.
PartOf(x, t) == \E k \in Nat : k + Len(x) <= Len(t) /\ \A j \in 1 .. Len(x) : x[j] = t[k + j]
Suffix(r, t) == Len(r) <= Len(t) /\ \A j \in 1 .. Len(r) : r[j] = t[(Len(t) - Len(r)) + j]

\* As long as no packet was cut short, every command is a part of what one
\* connection has received. What waits in the driver is of the packet that is
\* being stored, right before what is left of it, and nothing waits otherwise.
ApartInv ==
  ~torn =>
    /\ \A i \in DOMAIN log : \E c \in Conn : PartOf(log[i], FlattenSeq(received[c]))
    /\ mutex = NULL => pending = <<>>
    /\ \A c \in Conn : pc[c] \in Holding =>
         \/ pending = <<>>
         \/ pc[c] = "file" /\ rest[c] # p_malloc_buf[c]
    /\ \A c \in Conn : pc[c] = "file" => Suffix(pending \o rest[c], p_malloc_buf[c])

\* The position at which the reply of a packet begins.
Start(c) == IF seekto[c] = NULL THEN 0 ELSE SeekPos(seekto[c])

\* What was sent and what is left of the line are the device's bytes from there
\* up to where getline() is.
Sent(c) ==
  \/ pos[c] = Start(c) /\ reply[c] \o line[c] = <<>>
  \/ /\ Start(c) <= pos[c] /\ pos[c] <= Len(Contents)
     /\ reply[c] \o line[c] = SubSeq(Contents, Start(c) + 1, pos[c])

ReplyOK(c) ==
  /\ pc[c] # "send" => line[c] = <<>>
  /\ pc[c] = "file" => pos[c] = 0 /\ reply[c] = <<>> /\ seekto[c] = NULL
  /\ pc[c] \in {"getline", "send", "close"} => seekto[c] = Asked(c) /\ Sent(c)
  /\ pc[c] = "close" => ferror[c] \/ pos[c] >= Len(Contents)
  /\ ferror[c] /\ pc[c] \in {"getline", "send", "close"} => pc[c] # "send" /\ reply[c] = <<>>

ReplyInv == \A c \in Conn : ReplyOK(c)

\* The inductive invariant.
IInv == /\ TypeOK /\ LockInv /\ ReceivedInv /\ RestInv
        /\ CommandsAreWholePackets /\ ApartInv /\ ReplyInv

-----------------------------------------------------------------------------
(* Sequences.                                                              *)

\* A set of naturals has a least element: a claim about the elements of a
\* sequence is proved by looking at the first that fails it.
LEMMA LeastNat ==
  ASSUME NEW T \in SUBSET Nat, T # {}
  PROVE  \E n \in T : \A m \in T : n <= m
<1>1. PICK n \in T : \A m \in T : ~ (<<m, n>> \in OpToRel(<, Nat))
  BY NatLessThanWellFounded, WFMin
<1>2. \A m \in T : ~ (m < n)
  BY <1>1 DEF OpToRel
<1> QED BY <1>2

\* h[i] is the concatenation of the first i elements of s, for i up to n.
Running(h, s, n) ==
  h = [i \in 1 .. n |-> IF i = 1 THEN s[i] ELSE h[i - 1] \o s[i]]

\* Such an h exists for every sequence.
LEMMA RunningExists ==
  ASSUME NEW s, NEW N \in Nat
  PROVE  \E h : Running(h, s, N)
<1> DEFINE T == {n \in 0 .. N : ~ \E h : Running(h, s, n)}
<1>1. SUFFICES ASSUME T # {} PROVE FALSE
  OBVIOUS
<1>2. PICK n \in T : \A m \in T : n <= m
  BY <1>1, LeastNat, T \in SUBSET Nat
<1> HIDE DEF T
<1>3. n \in 0 .. N /\ ~ \E h : Running(h, s, n)
  BY <1>2 DEF T
<1>4. CASE n = 0
  <2>1. Running(<<>>, s, 0)
    BY DEF Running
  <2> QED BY <1>3, <1>4, <2>1
<1>5. CASE n # 0
  <2>1. n - 1 \in 0 .. N /\ n - 1 \notin T
    BY <1>2, <1>3, <1>5
  <2>2. PICK h : Running(h, s, n - 1)
    BY <2>1 DEF T
  <2> DEFINE g == [i \in 1 .. n |-> IF i = n THEN IF n = 1 THEN s[1] ELSE h[n - 1] \o s[n] ELSE h[i]]
  <2>3. \A i \in 1 .. n - 1 : h[i] = IF i = 1 THEN s[i] ELSE h[i - 1] \o s[i]
    BY <1>3, <2>2 DEF Running
  <2>4. \A i \in 1 .. n : g[i] = IF i = 1 THEN s[i] ELSE g[i - 1] \o s[i]
    <3> SUFFICES ASSUME NEW i \in 1 .. n PROVE g[i] = IF i = 1 THEN s[i] ELSE g[i - 1] \o s[i]
      OBVIOUS
    <3>1. CASE i = n
      <4>1. n # 1 => g[n - 1] = h[n - 1]
        BY <1>3, <1>5
      <4> QED BY <1>3, <3>1, <4>1
    <3>2. CASE i # n
      <4>1. i \in 1 .. n - 1 /\ g[i] = h[i] /\ (i # 1 => g[i - 1] = h[i - 1])
        BY <1>3, <3>2
      <4> QED BY <2>3, <4>1
    <3> QED BY <3>1, <3>2
  <2>5. g = [i \in 1 .. n |-> g[i]]
    OBVIOUS
  <2> HIDE DEF g
  <2>6. Running(g, s, n)
    BY <2>4, <2>5 DEF Running
  <2> QED BY <2>6, <1>3
<1> QED BY <1>4, <1>5

\* The recursive function inside FlattenSeq.
LEMMA FlattenIsRunning ==
  ASSUME NEW s, Len(s) \in Nat \ {0}
  PROVE  \E h : Running(h, s, Len(s)) /\ FlattenSeq(s) = h[Len(s)]
<1> DEFINE h == CHOOSE g : Running(g, s, Len(s))
<1>1. FlattenSeq(s) = h[Len(s)]
  BY DEF FlattenSeq, Running
<1>2. Running(h, s, Len(s))
  BY RunningExists
<1> QED BY <1>1, <1>2

Agree(s, t, m) == \A i \in 1 .. m : s[i] = t[i]

\* The prefixes of two sequences agree as far as the sequences do.
LEMMA RunningAgrees ==
  ASSUME NEW s, NEW t, NEW m \in Nat, NEW n \in Nat, m <= n, Agree(s, t, m),
         NEW g, NEW h, Running(g, s, m), Running(h, t, n)
  PROVE  Agree(g, h, m)
<1> USE DEF Agree
<1>1. \A i \in 1 .. m : g[i] = IF i = 1 THEN s[i] ELSE g[i - 1] \o s[i]
  BY DEF Running
<1>2. \A i \in 1 .. n : h[i] = IF i = 1 THEN t[i] ELSE h[i - 1] \o t[i]
  BY DEF Running
<1> DEFINE T == {i \in 1 .. m : g[i] # h[i]}
<1>3. SUFFICES ASSUME T # {} PROVE FALSE
  OBVIOUS
<1>4. PICK i \in T : \A j \in T : i <= j
  BY <1>3, LeastNat, T \in SUBSET Nat
<1>5. i \in 1 .. m /\ i \in 1 .. n /\ g[i] # h[i]
  BY <1>4
<1>6. i # 1 => g[i - 1] = h[i - 1]
  BY <1>4
<1> QED BY <1>1, <1>2, <1>5, <1>6

\* FlattenSeq of sequences over S is a sequence over S.
LEMMA FlattenType ==
  ASSUME NEW S, NEW s \in Seq(Seq(S))
  PROVE  FlattenSeq(s) \in Seq(S)
<1>1. Len(s) \in Nat /\ \A i \in 1 .. Len(s) : s[i] \in Seq(S)
  BY LenProperties, ElementOfSeq
<1>2. CASE Len(s) = 0
  BY <1>2, EmptySeq DEF FlattenSeq
<1>3. CASE Len(s) # 0
  <2>1. PICK h : Running(h, s, Len(s)) /\ FlattenSeq(s) = h[Len(s)]
    BY <1>1, <1>3, FlattenIsRunning
  <2>2. \A i \in 1 .. Len(s) : h[i] = IF i = 1 THEN s[i] ELSE h[i - 1] \o s[i]
    BY <2>1 DEF Running
  <2> DEFINE T == {i \in 1 .. Len(s) : h[i] \notin Seq(S)}
  <2>3. T = {}
    <3>1. SUFFICES ASSUME T # {} PROVE FALSE
      OBVIOUS
    <3>2. PICK i \in T : \A j \in T : i <= j
      BY <3>1, LeastNat, T \in SUBSET Nat
    <3>3. i \in 1 .. Len(s) /\ h[i] \notin Seq(S) /\ s[i] \in Seq(S)
      BY <1>1, <3>2
    <3>4. i # 1 => h[i - 1] \in Seq(S)
      BY <1>1, <3>2
    <3>5. i # 1 => h[i - 1] \o s[i] \in Seq(S)
      BY <3>3, <3>4, ConcatProperties
    <3> QED BY <2>2, <3>3, <3>5
  <2> QED BY <1>1, <1>3, <2>1, <2>3
<1> QED BY <1>2, <1>3

\* One more element at the end of s is one more piece at the end of its
\* concatenation.
LEMMA FlattenAppend ==
  ASSUME NEW S, NEW s \in Seq(Seq(S)), NEW x \in Seq(S)
  PROVE  FlattenSeq(Append(s, x)) = FlattenSeq(s) \o x
<1> DEFINE t == Append(s, x)
           n == Len(s)
<1>1. n \in Nat /\ Len(t) = n + 1 /\ t[n + 1] = x /\ \A i \in 1 .. n : t[i] = s[i]
  BY LenProperties, AppendProperties
<1> HIDE DEF t
<1>2. PICK h : Running(h, t, n + 1) /\ FlattenSeq(t) = h[n + 1]
  BY <1>1, FlattenIsRunning
<1>3. \A i \in 1 .. n + 1 : h[i] = IF i = 1 THEN t[i] ELSE h[i - 1] \o t[i]
  BY <1>2 DEF Running
<1>4. CASE n = 0
  <2>1. FlattenSeq(t) = x
    BY <1>1, <1>2, <1>3, <1>4
  <2>2. FlattenSeq(s) = <<>>
    BY <1>4, EmptySeq DEF FlattenSeq
  <2> QED BY <2>1, <2>2, ConcatEmptySeq DEF t
<1>5. CASE n # 0
  <2>1. PICK g : Running(g, s, n) /\ FlattenSeq(s) = g[n]
    BY <1>1, <1>5, FlattenIsRunning
  <2>2. g[n] = h[n]
    <3> HIDE DEF n
    <3>1. n + 1 \in Nat /\ n <= n + 1 /\ n \in 1 .. n /\ \A i \in 1 .. n : s[i] = t[i]
      BY <1>1, <1>5
    <3>2. PICK m \in Nat : m = n + 1 /\ n <= m
      BY <3>1
    <3>3. n \in Nat /\ Running(g, s, n) /\ Running(h, t, m)
      BY <1>1, <1>2, <2>1, <3>2
    <3>4. Agree(s, t, n)
      BY <3>1 DEF Agree
    <3>5. Agree(g, h, n)
      BY <3>2, <3>3, <3>4, RunningAgrees
    <3> QED BY <3>1, <3>5 DEF Agree
  <2>3. h[n + 1] = h[n] \o x
    <3> HIDE DEF n
    <3>1. n + 1 \in 1 .. n + 1 /\ n + 1 # 1 /\ (n + 1) - 1 = n
      BY <1>1, <1>5
    <3>2. h[n + 1] = h[(n + 1) - 1] \o t[n + 1]
      BY <1>3, <3>1
    <3> QED BY <1>1, <3>1, <3>2
  <2> QED BY <1>2, <2>1, <2>2, <2>3 DEF t
<1> QED BY <1>4, <1>5

\* The first k elements stay the same when one is added behind them.
LEMMA FirstOfAppend ==
  ASSUME NEW S, NEW s \in Seq(S), NEW x \in S, NEW k \in 0 .. Len(s)
  PROVE  SubSeq(Append(s, x), 1, k) = SubSeq(s, 1, k)
<1>1. Len(s) \in Nat /\ \A i \in 1 .. k : s[i] \in S /\ Append(s, x)[i] = s[i]
  BY LenProperties, ElementOfSeq, AppendProperties
<1>2. /\ SubSeq(s, 1, k) \in Seq(S) /\ Len(SubSeq(s, 1, k)) = k
      /\ \A i \in 1 .. k : SubSeq(s, 1, k)[i] = s[i]
  <2>1. /\ SubSeq(s, 1, k) \in Seq(S) /\ Len(SubSeq(s, 1, k)) = IF 1 <= k THEN k - 1 + 1 ELSE 0
        /\ \A i \in 1 .. k - 1 + 1 : SubSeq(s, 1, k)[i] = s[1 + i - 1]
    BY <1>1, SubSeqProperties
  <2> QED BY <1>1, <2>1
<1>3. /\ SubSeq(Append(s, x), 1, k) \in Seq(S) /\ Len(SubSeq(Append(s, x), 1, k)) = k
      /\ \A i \in 1 .. k : SubSeq(Append(s, x), 1, k)[i] = s[i]
  <2> DEFINE t == Append(s, x)
  <2>1. \A i \in 1 .. k : t[i] \in S /\ t[i] = s[i]
    BY <1>1
  <2> HIDE DEF t
  <2>2. /\ SubSeq(t, 1, k) \in Seq(S) /\ Len(SubSeq(t, 1, k)) = IF 1 <= k THEN k - 1 + 1 ELSE 0
        /\ \A i \in 1 .. k - 1 + 1 : SubSeq(t, 1, k)[i] = t[1 + i - 1]
    BY <1>1, <2>1, SubSeqProperties
  <2>3. Len(SubSeq(t, 1, k)) = k /\ \A i \in 1 .. k : SubSeq(t, 1, k)[i] = s[i]
    BY <1>1, <2>1, <2>2
  <2> QED BY <2>2, <2>3 DEF t
<1> QED BY <1>2, <1>3, SeqEqual

\* The parts of a sequence that SubSeq takes.
LEMMA SubSeqParts ==
  ASSUME NEW S, NEW s \in Seq(S), NEW a \in Nat, NEW b \in Nat, b <= Len(s)
  PROVE  /\ SubSeq(s, a + 1, b) \in Seq(S)
         /\ Len(SubSeq(s, a + 1, b)) = IF a <= b THEN b - a ELSE 0
         /\ \A j \in 1 .. b - a : SubSeq(s, a + 1, b)[j] = s[a + j]
<1>1. Len(s) \in Nat /\ \A i \in a + 1 .. b : s[i] \in S
  BY LenProperties, ElementOfSeq
<1>2. /\ SubSeq(s, a + 1, b) \in Seq(S)
      /\ Len(SubSeq(s, a + 1, b)) = IF a + 1 <= b THEN b - (a + 1) + 1 ELSE 0
      /\ \A j \in 1 .. b - (a + 1) + 1 : SubSeq(s, a + 1, b)[j] = s[(a + 1) + j - 1]
  BY <1>1, SubSeqProperties
<1>3. (IF a + 1 <= b THEN b - (a + 1) + 1 ELSE 0) = IF a <= b THEN b - a ELSE 0
  OBVIOUS
<1>4. ASSUME NEW j \in 1 .. b - a PROVE SubSeq(s, a + 1, b)[j] = s[a + j]
  <2>1. j \in 1 .. b - (a + 1) + 1 /\ (a + 1) + j - 1 = a + j
    OBVIOUS
  <2> QED BY <1>2, <2>1
<1> QED BY <1>2, <1>3, <1>4

\* The same for the first elements.
LEMMA SubSeqFirst ==
  ASSUME NEW S, NEW s \in Seq(S), NEW b \in Nat, b <= Len(s)
  PROVE  /\ SubSeq(s, 1, b) \in Seq(S) /\ Len(SubSeq(s, 1, b)) = b
         /\ \A j \in 1 .. b : SubSeq(s, 1, b)[j] = s[j]
<1>1. /\ SubSeq(s, 0 + 1, b) \in Seq(S)
      /\ Len(SubSeq(s, 0 + 1, b)) = IF 0 <= b THEN b - 0 ELSE 0
      /\ \A j \in 1 .. b - 0 : SubSeq(s, 0 + 1, b)[j] = s[0 + j]
  BY SubSeqParts
<1>2. SubSeq(s, 0 + 1, b) = SubSeq(s, 1, b)
  BY 0 + 1 = 1
<1> QED BY <1>1, <1>2

\* PartOf is what PacketsStayApart says with IsPrefix.
LEMMA PartIsPrefix ==
  ASSUME NEW S, NEW x \in Seq(S), NEW t \in Seq(S), PartOf(x, t)
  PROVE  \E k \in 0 .. Len(t) : IsPrefix(x, SubSeq(t, k + 1, Len(t)))
<1>1. Len(x) \in Nat /\ Len(t) \in Nat
  BY LenProperties
<1>2. PICK k \in Nat : k + Len(x) <= Len(t) /\ \A j \in 1 .. Len(x) : x[j] = t[k + j]
  BY DEF PartOf
<1> DEFINE r == SubSeq(t, k + 1, Len(t))
<1>3. r \in Seq(S) /\ Len(r) = Len(t) - k /\ \A j \in 1 .. Len(t) - k : r[j] = t[k + j]
  BY <1>1, <1>2, SubSeqParts
<1> HIDE DEF r
<1>4. Len(x) <= Len(r)
  BY <1>1, <1>2, <1>3
<1>5. /\ SubSeq(r, 1, Len(x)) \in Seq(S) /\ Len(SubSeq(r, 1, Len(x))) = Len(x)
      /\ \A j \in 1 .. Len(x) : SubSeq(r, 1, Len(x))[j] = r[j]
  BY <1>1, <1>3, <1>4, SubSeqFirst
<1>6. \A j \in 1 .. Len(x) : r[j] = x[j]
  BY <1>1, <1>2, <1>3
<1>7. x = SubSeq(r, 1, Len(x))
  BY <1>1, <1>5, <1>6, SeqEqual
<1>8. SubSeq(x, 1, Len(x)) = x
  BY SubSeqFull
<1>9. IsPrefix(x, r)
  BY <1>4, <1>7, <1>8 DEF IsPrefix
<1>10. k \in 0 .. Len(t)
  BY <1>1, <1>2
<1> QED BY <1>9, <1>10 DEF r

\* A part of t is a part of what continues t.
LEMMA PartOfLonger ==
  ASSUME NEW S, NEW x \in Seq(S), NEW t \in Seq(S), NEW u \in Seq(S), PartOf(x, t)
  PROVE  PartOf(x, t \o u)
<1>1. Len(x) \in Nat /\ Len(t) \in Nat /\ Len(u) \in Nat
  BY LenProperties
<1>2. PICK k \in Nat : k + Len(x) <= Len(t) /\ \A j \in 1 .. Len(x) : x[j] = t[k + j]
  BY DEF PartOf
<1>3. /\ Len(t \o u) = Len(t) + Len(u)
      /\ \A i \in 1 .. Len(t) + Len(u) : (t \o u)[i] = IF i <= Len(t) THEN t[i] ELSE u[i - Len(t)]
  BY ConcatProperties
<1>4. k + Len(x) <= Len(t \o u)
  BY <1>1, <1>2, <1>3
<1>5. ASSUME NEW j \in 1 .. Len(x) PROVE x[j] = (t \o u)[k + j]
  <2>1. k + j \in 1 .. Len(t) + Len(u) /\ k + j <= Len(t)
    BY <1>1, <1>2
  <2> QED BY <1>2, <1>3, <2>1
<1> QED BY <1>4, <1>5 DEF PartOf

\* A newline in the second of two strings is one in both together.
LEMMA ContainsConcat ==
  ASSUME NEW S, NEW p \in Seq(S), NEW x \in Seq(S), Contains(x, NL)
  PROVE  Contains(p \o x, NL)
<1>1. PICK a \in Nat, b \in Nat : a = Len(p) /\ b = Len(x)
  BY LenProperties
<1>2. /\ Len(p \o x) = a + b
      /\ \A j \in 1 .. a + b : (p \o x)[j] = IF j <= a THEN p[j] ELSE x[j - a]
  BY <1>1, ConcatProperties
<1>3. PICK i \in 1 .. b : x[i] = NL
  BY <1>1 DEF Contains
<1>4. PICK j \in 1 .. a + b : j = a + i /\ ~(j <= a) /\ j - a = i
  OBVIOUS
<1>5. (p \o x)[j] = NL
  BY <1>2, <1>3, <1>4
<1> QED BY <1>2, <1>5 DEF Contains

-----------------------------------------------------------------------------
(* Types.                                                                  *)

\* What recv() returns is a sequence of tokens, and not empty.
LEMMA ChunkType ==
  ASSUME NEW chunk \in Chunks
  PROVE  chunk \in Seq(Tokens) /\ chunk # <<>> /\ Len(chunk) \in Nat \ {0}
<1>1. chunk \in Seq(Tokens) /\ chunk # <<>>
  BY ServiceAssumption
<1> QED BY <1>1, EmptySeq

\* What a write to the device does: the bytes join the pending ones, and a
\* newline among them makes a command of them all.
LEMMA WriteEffect ==
  ASSUME log \in Seq(Seq(Tokens)), pending \in Seq(Tokens), NEW x \in Seq(Tokens), Device!Write(x)
  PROVE  /\ log' \in Seq(Seq(Tokens)) /\ pending' \in Seq(Tokens) /\ pending \o x \in Seq(Tokens)
         /\ Contains(pending \o x, NL) =>
              /\ pending' = <<>>
              /\ \A i \in DOMAIN log' : log'[i] = pending \o x \/ \E j \in DOMAIN log : log'[i] = log[j]
         /\ ~Contains(pending \o x, NL) => pending' = pending \o x /\ log' = log
<1> DEFINE bytes == pending \o x
           l == Append(log, bytes)
           N == MaxWriteOps
<1>1. bytes \in Seq(Tokens)
  BY ConcatProperties
<1>2. /\ IF Contains(bytes, NL)
         THEN log' = (IF Len(l) <= N THEN l ELSE SubSeq(l, Len(l) - N + 1, Len(l))) /\ pending' = <<>>
         ELSE pending' = bytes /\ log' = log
  BY DEF Device!Write, Device!LastN, Device!Contains, Contains
<1> HIDE DEF bytes
<1>3. CASE ~Contains(bytes, NL)
  BY <1>1, <1>2, <1>3 DEF bytes
<1>4. CASE Contains(bytes, NL)
  <2>1. /\ l \in Seq(Seq(Tokens)) /\ Len(l) = Len(log) + 1 /\ Len(log) \in Nat
        /\ DOMAIN log = 1 .. Len(log) /\ l[Len(log) + 1] = bytes
        /\ \A i \in 1 .. Len(log) : l[i] = log[i]
    BY <1>1, LenProperties, AppendProperties
  <2>2. \A i \in 1 .. Len(l) : l[i] \in Seq(Tokens) /\ (l[i] = bytes \/ \E j \in DOMAIN log : l[i] = log[j])
    <3> HIDE DEF l
    <3> SUFFICES ASSUME NEW i \in 1 .. Len(l)
                 PROVE  l[i] \in Seq(Tokens) /\ (l[i] = bytes \/ \E j \in DOMAIN log : l[i] = log[j])
      OBVIOUS
    <3>1. l[i] \in Seq(Tokens)
      BY <2>1, ElementOfSeq
    <3>2. i = Len(log) + 1 \/ i \in 1 .. Len(log)
      BY <2>1
    <3> QED BY <2>1, <3>1, <3>2
  <2> HIDE DEF l
  <2>3. CASE Len(l) <= N
    <3>1. log' = l /\ DOMAIN l = 1 .. Len(l) /\ pending' = <<>>
      BY <1>2, <1>4, <2>1, <2>3, LenProperties
    <3> QED BY <1>1, <1>4, <2>1, <2>2, <3>1, EmptySeq DEF bytes
  <2>4. CASE ~(Len(l) <= N)
    <3>1. log' = SubSeq(l, Len(l) - N + 1, Len(l)) /\ pending' = <<>>
      BY <1>2, <1>4, <2>4
    <3>2. N \in Nat \ {0} /\ Len(l) \in Nat
      BY <2>1, ServiceAssumption
    <3>3. PICK a \in Nat : a = Len(l) - N
      <4>1. PICK u \in Nat, v \in Nat : u = Len(l) /\ v = N
        BY <3>2
      <4>2. ~(u <= v)
        BY <2>4, <4>1
      <4>3. u - v \in Nat
        BY <4>2
      <4> QED BY <4>1, <4>3
    <3>4. /\ SubSeq(l, a + 1, Len(l)) \in Seq(Seq(Tokens))
          /\ Len(SubSeq(l, a + 1, Len(l))) = Len(l) - a
          /\ \A j \in 1 .. Len(l) - a : SubSeq(l, a + 1, Len(l))[j] = l[a + j]
      BY <2>1, <3>2, <3>3, SubSeqParts
    <3>5. log' \in Seq(Seq(Tokens)) /\ DOMAIN log' = 1 .. Len(l) - a /\ \A j \in 1 .. Len(l) - a : log'[j] = l[a + j]
      BY <3>1, <3>3, <3>4, LenProperties
    <3>6. \A j \in 1 .. Len(l) - a : a + j \in 1 .. Len(l)
      BY <3>2, <3>3
    <3>7. ASSUME NEW j \in DOMAIN log' PROVE log'[j] = bytes \/ \E k \in DOMAIN log : log'[j] = log[k]
      BY <2>2, <3>5, <3>6
    <3> QED BY <1>1, <1>4, <3>1, <3>5, <3>7, EmptySeq DEF bytes
  <2> QED BY <2>3, <2>4
<1> QED BY <1>3, <1>4

\* What Store gives to the device and what it keeps.
LEMMA PieceParts ==
  ASSUME NEW r \in Seq(Tokens)
  PROVE  LET n == Piece(r)
         IN  /\ n \in 0 .. Len(r) /\ Len(r) \in Nat
             /\ SubSeq(r, 1, n) \in Seq(Tokens) /\ Len(SubSeq(r, 1, n)) = n
             /\ \A j \in 1 .. n : SubSeq(r, 1, n)[j] = r[j]
             /\ SubSeq(r, n + 1, Len(r)) \in Seq(Tokens) /\ Len(SubSeq(r, n + 1, Len(r))) = Len(r) - n
             /\ \A j \in 1 .. Len(r) - n : SubSeq(r, n + 1, Len(r))[j] = r[n + j]
             /\ Len(r) - n < StdioBuf
             /\ Len(r) <= StdioBuf => n = Len(r)
             /\ n = Len(r) => SubSeq(r, 1, n) = r
<1> DEFINE n == Piece(r)
<1>1. Len(r) \in Nat /\ StdioBuf \in Nat \ {0}
  BY LenProperties, ServiceAssumption
<1>2. PICK q \in Nat : q = Len(r) % StdioBuf /\ q < StdioBuf /\ q <= Len(r) /\ (Len(r) = StdioBuf => q = 0)
  <2>1. PICK a \in Nat, b \in Nat \ {0} : a = Len(r) /\ b = StdioBuf
    BY <1>1
  <2>2. a % b \in 0 .. b - 1 /\ a % b <= a /\ (a = b => a % b = 0)
    OBVIOUS
  <2> QED BY <2>1, <2>2
<1>3. n = IF Len(r) < StdioBuf THEN Len(r) ELSE Len(r) - q
  BY <1>2 DEF Piece
<1>4. n \in 0 .. Len(r) /\ Len(r) - n < StdioBuf /\ (Len(r) <= StdioBuf => n = Len(r))
  BY <1>1, <1>2, <1>3
<1> HIDE DEF n
<1>6. /\ SubSeq(r, 1, n) \in Seq(Tokens) /\ Len(SubSeq(r, 1, n)) = n
      /\ \A j \in 1 .. n : SubSeq(r, 1, n)[j] = r[j]
  BY <1>1, <1>4, SubSeqFirst
<1>7. /\ SubSeq(r, n + 1, Len(r)) \in Seq(Tokens) /\ Len(SubSeq(r, n + 1, Len(r))) = Len(r) - n
      /\ \A j \in 1 .. Len(r) - n : SubSeq(r, n + 1, Len(r))[j] = r[n + j]
  BY <1>1, <1>4, SubSeqParts
<1>8. n = Len(r) => SubSeq(r, 1, n) = r
  BY SubSeqFull
<1> QED BY <1>1, <1>4, <1>6, <1>7, <1>8 DEF n

\* The line at position n is the bytes from there up to some later position.
LEMMA LineParts ==
  ASSUME NEW n \in Nat, log \in Seq(Seq(Tokens)), n < Len(Contents)
  PROVE  \E m \in n + 1 .. Len(Contents) :
           LineAt(n) = SubSeq(Contents, n + 1, m) /\ LineAt(n) \in Seq(Tokens) /\ Len(LineAt(n)) = m - n
<1>1. Contents \in Seq(Tokens) /\ Len(Contents) \in Nat
  BY FlattenType, LenProperties DEF Contents
<1>2. PICK C \in Seq(Tokens), L \in Nat : C = Contents /\ L = Len(C) /\ n < L
  BY <1>1
<1> DEFINE ahead == SubSeq(C, n + 1, L)
           ends == {i \in DOMAIN ahead : ahead[i] = NL}
<1>3. /\ ahead \in Seq(Tokens) /\ Len(ahead) = L - n
      /\ \A j \in 1 .. L - n : ahead[j] = C[n + j]
  BY <1>2, SubSeqParts
<1>4. DOMAIN ahead = 1 .. L - n
  BY <1>3, LenProperties
<1>5. LineAt(n) = IF ends = {} THEN ahead ELSE SubSeq(ahead, 1, CHOOSE i \in ends : \A j \in ends : i <= j)
  BY <1>2 DEF LineAt
<1> HIDE DEF ahead
<1>6. CASE ends = {}
  <2>1. LineAt(n) = SubSeq(C, n + 1, L) /\ L \in n + 1 .. L
    BY <1>2, <1>5, <1>6 DEF ahead
  <2> QED BY <1>2, <1>3, <2>1 DEF ahead
<1>7. CASE ends # {}
  <2>1. \E i \in ends : \A j \in ends : i <= j
    <3>1. ends \in SUBSET Nat
      BY <1>2, <1>4
    <3> HIDE DEF ends
    <3> QED BY <1>7, <3>1, LeastNat
  <2>2. PICK e \in ends : LineAt(n) = SubSeq(ahead, 1, e)
    <3> HIDE DEF ends
    <3> QED BY <1>5, <1>7, <2>1
  <2>3. e \in 1 .. L - n
    BY <1>4, <2>2
  <2>4. PICK m \in Nat : m = n + e /\ m \in n + 1 .. L /\ m <= L /\ m - n = e
    BY <1>2, <2>3
  <2>5. /\ SubSeq(C, n + 1, m) \in Seq(Tokens) /\ Len(SubSeq(C, n + 1, m)) = e
        /\ \A j \in 1 .. e : SubSeq(C, n + 1, m)[j] = C[n + j]
    <3>1. /\ SubSeq(C, n + 1, m) \in Seq(Tokens) /\ Len(SubSeq(C, n + 1, m)) = IF n <= m THEN m - n ELSE 0
          /\ \A j \in 1 .. m - n : SubSeq(C, n + 1, m)[j] = C[n + j]
      BY <1>2, <2>4, SubSeqParts
    <3>2. n <= m
      BY <2>4
    <3> QED BY <2>4, <3>1, <3>2
  <2>6. /\ SubSeq(ahead, 1, e) \in Seq(Tokens) /\ Len(SubSeq(ahead, 1, e)) = e
        /\ \A j \in 1 .. e : SubSeq(ahead, 1, e)[j] = ahead[j]
    <3>1. e \in Nat /\ e <= Len(ahead)
      BY <1>2, <1>3, <2>3
    <3> QED BY <1>3, <3>1, SubSeqFirst
  <2>7. \A j \in 1 .. e : ahead[j] = C[n + j]
    BY <1>2, <1>3, <2>3
  <2>8. SubSeq(ahead, 1, e) = SubSeq(C, n + 1, m)
    BY <2>5, <2>6, <2>7, SeqEqual
  <2>9. LineAt(n) = SubSeq(C, n + 1, m)
    BY <2>2, <2>8
  <2>10. m \in n + 1 .. Len(Contents)
    BY <1>2, <2>4
  <2>11. LineAt(n) \in Seq(Tokens) /\ Len(LineAt(n)) = m - n
    BY <2>4, <2>5, <2>9
  <2> QED BY <1>2, <2>9, <2>10, <2>11
<1> QED BY <1>6, <1>7

\* A seek leaves a position.
LEMMA SeekPosType ==
  ASSUME log \in Seq(Seq(Tokens)), NEW s \in Seeks
  PROVE  SeekPos(s) \in Nat
<1> DEFINE k == s.write_cmd % MaxWriteOps
<1>1. s.write_cmd \in Nat /\ s.write_cmd_offset \in Nat /\ k \in Nat
  BY ServiceAssumption
<1> HIDE DEF k
<1>2. k < Len(log) => Len(FlattenSeq(SubSeq(log, 1, k))) \in Nat
  <2> SUFFICES ASSUME k < Len(log) PROVE Len(FlattenSeq(SubSeq(log, 1, k))) \in Nat
    OBVIOUS
  <2>1. SubSeq(log, 1, k) \in Seq(Seq(Tokens))
    <3>1. k <= Len(log)
      BY <1>1, LenProperties
    <3> QED BY <1>1, <3>1, SubSeqFirst
  <2>2. PICK p \in Seq(Seq(Tokens)) : p = SubSeq(log, 1, k)
    BY <2>1
  <2>3. FlattenSeq(p) \in Seq(Tokens)
    BY FlattenType
  <2> QED BY <2>2, <2>3, LenProperties
<1> QED BY <1>1, <1>2 DEF SeekPos, k

\* Every step keeps the types.
LEMMA TypeStep == TypeOK /\ [Next]_vars => TypeOK'
<1> SUFFICES ASSUME TypeOK, [Next]_vars PROVE TypeOK'
  OBVIOUS
<1> USE DEF device
<1>1. ASSUME NEW c \in Conn, NEW chunk \in Chunks, Recv(c, chunk) PROVE TypeOK'
  <2>1. Grow(c, chunk) \in Seq(Tokens)
    BY ChunkType, ConcatProperties DEF TypeOK, Grow
  <2>2. Append(received[c], chunk) \in Seq(Chunks)
    BY AppendProperties DEF TypeOK
  <2>3. pc' \in [Conn -> {"recv", "lock", "file", "getline", "send", "close", "failed", "done", "dead"}]
    BY <1>1 DEF Recv, TypeOK
  <2> QED BY <1>1, <2>1, <2>2, <2>3 DEF Recv, TypeOK
<1>2. ASSUME NEW c \in Conn, Finish(c) PROVE TypeOK'
  BY <1>2, EmptySeq DEF Finish, TypeOK
<1>3. ASSUME NEW c \in Conn, Lock(c) PROVE TypeOK'
  BY <1>3, EmptySeq DEF Lock, TypeOK
<1>4. ASSUME NEW c \in Conn, Store(c) PROVE TypeOK'
  <2> DEFINE n == Piece(rest[c])
             piece == SubSeq(rest[c], 1, n)
  <2>1. rest[c] \in Seq(Tokens)
    BY DEF TypeOK
  <2>2. piece \in Seq(Tokens) /\ SubSeq(rest[c], n + 1, Len(rest[c])) \in Seq(Tokens)
    BY <2>1, PieceParts
  <2>3. /\ Device!Write(piece)
        /\ rest' = [rest EXCEPT ![c] = SubSeq(rest[c], n + 1, Len(rest[c]))]
        /\ \E b \in {"getline", "file"} : pc' = [pc EXCEPT ![c] = b]
        /\ torn' \in BOOLEAN
        /\ UNCHANGED <<mutex, p_malloc_buf, received, ferror, pos, line, reply, seekto>>
    BY <1>4 DEF Store, TypeOK
  <2> HIDE DEF piece, n
  <2>4. log' \in Seq(Seq(Tokens)) /\ pending' \in Seq(Tokens)
    BY <2>2, <2>3, WriteEffect DEF TypeOK
  <2> QED BY <2>2, <2>3, <2>4 DEF TypeOK
<1>5. ASSUME NEW c \in Conn, StoreFails(c) PROVE TypeOK'
  BY <1>5, EmptySeq DEF StoreFails, TypeOK
<1>6. ASSUME NEW c \in Conn, Seek(c) PROVE TypeOK'
  <2>1. PICK s \in ScannedArgs(c) :
          /\ seekto' = [seekto EXCEPT ![c] = s]
          /\ pos' = [pos EXCEPT ![c] = SeekPos(s)]
    BY <1>6 DEF Seek
  <2>2. s \in Seeks
    BY DEF ScannedArgs
  <2>3. SeekPos(s) \in Nat
    BY <2>2, SeekPosType DEF TypeOK
  <2> QED BY <1>6, <2>1, <2>2, <2>3 DEF Seek, TypeOK
<1>7. ASSUME NEW c \in Conn, GetLine(c) PROVE TypeOK'
  <2>1. pos[c] \in Nat /\ log \in Seq(Seq(Tokens))
    BY DEF TypeOK
  <2>2. CASE ~ferror[c] /\ pos[c] < Len(Contents)
    <3>1. PICK m \in pos[c] + 1 .. Len(Contents) : LineAt(pos[c]) \in Seq(Tokens) /\ Len(LineAt(pos[c])) = m - pos[c]
      BY <2>1, <2>2, LineParts
    <3>2. LineAt(pos[c]) \in Seq(Tokens) /\ Len(LineAt(pos[c])) \in Nat
      BY <3>1, LenProperties
    <3>3. pos[c] + Len(LineAt(pos[c])) \in Nat
      BY <2>1, <3>2
    <3>4. PICK t \in Seq(Tokens), q \in Nat : t = LineAt(pos[c]) /\ q = pos[c] + Len(LineAt(pos[c]))
      BY <3>2, <3>3
    <3>5. /\ line' = [line EXCEPT ![c] = t] /\ pos' = [pos EXCEPT ![c] = q]
          /\ pc' = [pc EXCEPT ![c] = "send"]
          /\ UNCHANGED <<device, mutex, p_malloc_buf, received, rest, ferror, reply, seekto, torn>>
      BY <1>7, <2>2, <3>4 DEF GetLine
    <3> QED BY <3>5 DEF TypeOK
  <2>3. CASE ~(~ferror[c] /\ pos[c] < Len(Contents))
    BY <1>7, <2>3 DEF GetLine, TypeOK
  <2> QED BY <2>2, <2>3
<1>8. ASSUME NEW c \in Conn, NEW n \in 1 .. Len(line[c]), Send(c, n) PROVE TypeOK'
  <2>1. line[c] \in Seq(Tokens) /\ reply[c] \in Seq(Tokens) /\ Len(line[c]) \in Nat
    BY LenProperties DEF TypeOK
  <2>2. n \in Nat /\ n <= Len(line[c])
    BY <2>1
  <2>3. Unsent(c, n) \in Seq(Tokens)
    BY <2>1, <2>2, SubSeqParts DEF Unsent
  <2>4. PICK t \in Seq(Tokens) : t = SubSeq(line[c], 1, n)
    <3>1. SubSeq(line[c], 1, n) \in Seq(Tokens)
      BY <2>1, <2>2, SubSeqFirst
    <3> QED BY <3>1
  <2>5. reply[c] \o t \in Seq(Tokens)
    BY <2>1, ConcatProperties
  <2> QED BY <1>8, <2>3, <2>4, <2>5 DEF Send, TypeOK
<1>9. ASSUME NEW c \in Conn, SendFails(c) PROVE TypeOK'
  BY <1>9, EmptySeq DEF SendFails, TypeOK
<1>10. ASSUME NEW c \in Conn, Close(c) PROVE TypeOK'
  BY <1>10 DEF Close, TypeOK
<1>11. CASE Crash
  BY <1>11, EmptySeq DEF Crash, TypeOK
<1>12. CASE UNCHANGED vars
  BY <1>12 DEF vars, thread, TypeOK
<1> QED BY <1>1, <1>2, <1>3, <1>4, <1>5, <1>6, <1>7, <1>8, <1>9, <1>10, <1>11, <1>12
        DEF Next, Step, Handle

-----------------------------------------------------------------------------
(* The mutex and the buffers.                                              *)

\* What a thread does between lock and unlock.
Works(c) == Handle(c) \/ SendFails(c) \/ \E n \in 1 .. Len(line[c]) : Send(c, n)

\* A thread with a packet moves on: its buffer stays as it is.
Advance(c) ==
  /\ pc[c] \notin {"recv", "done", "dead"}
  /\ \E b \in {"recv"} \cup Holding : pc' = [pc EXCEPT ![c] = b]
  /\ UNCHANGED <<received, p_malloc_buf>>

\* What a thread does with its packet is such a step.
LEMMA Advances ==
  ASSUME NEW c \in Conn, Lock(c) \/ Works(c)
  PROVE  Advance(c)
<1> USE DEF Advance, Holding
<1>1. CASE Lock(c)
  BY <1>1 DEF Lock
<1>2. CASE Store(c)
  <2>1. \E b \in {"getline", "file"} : pc' = [pc EXCEPT ![c] = b]
    BY <1>2 DEF Store
  <2> QED BY <1>2, <2>1 DEF Store
<1>3. CASE StoreFails(c)
  BY <1>3 DEF StoreFails
<1>4. CASE Seek(c)
  BY <1>4 DEF Seek
<1>5. CASE GetLine(c)
  <2>1. \E b \in {"send", "close"} : pc' = [pc EXCEPT ![c] = b]
    BY <1>5 DEF GetLine
  <2> QED BY <1>5, <2>1 DEF GetLine
<1>6. CASE Close(c)
  BY <1>6 DEF Close
<1>7. ASSUME NEW n \in 1 .. Len(line[c]), Send(c, n) PROVE Advance(c)
  <2>1. \E b \in {"getline", "send"} : pc' = [pc EXCEPT ![c] = b]
    BY <1>7 DEF Send
  <2> QED BY <1>7, <2>1 DEF Send
<1>8. CASE SendFails(c)
  BY <1>8 DEF SendFails
<1> QED BY <1>1, <1>2, <1>3, <1>4, <1>5, <1>6, <1>7, <1>8 DEF Works, Handle

\* What the handling of a packet does to the mutex.
LEMMA MutexMoves ==
  ASSUME NEW c \in Conn, Works(c), TypeOK
  PROVE  /\ pc[c] \in Holding
         /\ \/ mutex' = mutex /\ pc'[c] \in Holding
            \/ mutex' = NULL /\ pc'[c] = "recv"
BY DEF Works, Handle, SendFails, Store, StoreFails, Seek, GetLine, Close, Send, Holding, TypeOK

\* The mutex excludes.
LEMMA LockStep == TypeOK /\ LockInv /\ ReceivedInv /\ [Next]_vars => LockInv'
<1> SUFFICES ASSUME TypeOK, LockInv, ReceivedInv, [Next]_vars PROVE LockInv'
  OBVIOUS
<1>1. ASSUME NEW c \in Conn, NEW chunk \in Chunks, Recv(c, chunk) PROVE LockInv'
  BY <1>1 DEF Recv, LockInv, Holding, TypeOK
<1>2. ASSUME NEW c \in Conn, Finish(c) PROVE LockInv'
  BY <1>2 DEF Finish, LockInv, Holding, TypeOK
<1>3. ASSUME NEW c \in Conn, Lock(c) PROVE LockInv'
  BY <1>3, ServiceAssumption DEF Lock, Free, LockInv, Holding, TypeOK
<1>4. ASSUME NEW c \in Conn, Works(c) PROVE LockInv'
  <2>1. /\ pc[c] \in Holding
        /\ \/ mutex' = mutex /\ pc'[c] \in Holding
           \/ mutex' = NULL /\ pc'[c] = "recv"
    BY <1>4, MutexMoves
  <2>2. \A d \in Conn : d # c => pc'[d] = pc[d]
    BY <1>4, Advances DEF Advance, TypeOK
  <2> QED BY <2>1, <2>2, ServiceAssumption DEF LockInv, Holding
<1>5. CASE Crash
  <2>1. \A c \in Conn : pc'[c] \in {"recv", "done", "dead"}
    BY <1>5 DEF Crash, ReceivedInv
  <2> QED BY <1>5, <2>1, ServiceAssumption DEF Crash, LockInv, Holding
<1>6. CASE UNCHANGED vars
  BY <1>6 DEF vars, thread, LockInv
<1> QED BY <1>1, <1>2, <1>3, <1>4, <1>5, <1>6 DEF Next, Step, Works

\* The buffers hold what was received.
LEMMA ReceivedStep == TypeOK /\ ReceivedInv /\ [Next]_vars => ReceivedInv'
<1> SUFFICES ASSUME TypeOK, ReceivedInv, [Next]_vars PROVE ReceivedInv'
  OBVIOUS
<1>1. ASSUME NEW c \in Conn, NEW chunk \in Chunks, Recv(c, chunk) PROVE ReceivedInv'
  <2>1. /\ chunk \in Seq(Tokens) /\ chunk # <<>> /\ Len(chunk) \in Nat \ {0}
        /\ received[c] \in Seq(Chunks) /\ p_malloc_buf[c] \in Seq(Tokens)
    BY ChunkType DEF TypeOK
  <2>2. /\ received'[c] = Append(received[c], chunk)
        /\ p_malloc_buf'[c] = p_malloc_buf[c] \o chunk
        /\ pc[c] = "recv"
        /\ pc'[c] = IF Contains(chunk, NL) THEN "lock" ELSE "recv"
        /\ \A d \in Conn : d # c => received'[d] = received[d] /\ p_malloc_buf'[d] = p_malloc_buf[d] /\ pc'[d] = pc[d]
    BY <1>1 DEF Recv, Grow, TypeOK
  <2>3. p_malloc_buf[c] = FlattenSeq(received[c])
    BY <2>2 DEF ReceivedInv, Live
  <2>4. received[c] \in Seq(Seq(Tokens))
    <3>1. Chunks \subseteq Seq(Tokens)
      BY ServiceAssumption
    <3> QED BY <2>1, <3>1, SeqMonotonic
  <2>5. p_malloc_buf'[c] = FlattenSeq(received'[c])
    BY <2>1, <2>2, <2>3, <2>4, FlattenAppend
  <2>6. /\ received'[c] # <<>> /\ Len(received'[c]) = Len(received[c]) + 1 /\ Len(received[c]) \in Nat
        /\ received'[c][Len(received[c]) + 1] = chunk
        /\ \A i \in 1 .. Len(received[c]) : received'[c][i] = received[c][i]
    <3>1. PICK r \in Seq(Chunks) : r = received[c]
      BY <2>1
    <3>2. /\ Append(r, chunk) # <<>> /\ Len(Append(r, chunk)) = Len(r) + 1 /\ Len(r) \in Nat
          /\ Append(r, chunk)[Len(r) + 1] = chunk
          /\ \A i \in 1 .. Len(r) : Append(r, chunk)[i] = r[i]
      BY AppendProperties, LenProperties
    <3> QED BY <2>2, <3>1, <3>2
  <2>7. /\ Len(p_malloc_buf[c]) \in Nat
        /\ p_malloc_buf'[c] \in Seq(Tokens) /\ Len(p_malloc_buf'[c]) = Len(p_malloc_buf[c]) + Len(chunk)
        /\ \A i \in 1 .. Len(p_malloc_buf[c]) + Len(chunk) :
             p_malloc_buf'[c][i] = IF i <= Len(p_malloc_buf[c]) THEN p_malloc_buf[c][i]
                                   ELSE chunk[i - Len(p_malloc_buf[c])]
    BY <2>1, <2>2, ConcatProperties, LenProperties
  <2>8. p_malloc_buf'[c] # <<>>
    BY <2>1, <2>7, EmptySeq
  <2>9. p_malloc_buf'[c][1] = received'[c][1][1]
    <3>1. CASE received[c] = <<>>
      <4>1. Len(received[c]) = 0 /\ received'[c][1] = chunk
        BY <2>6, <3>1, EmptySeq
      <4>2. p_malloc_buf[c] = <<>> /\ Len(p_malloc_buf[c]) = 0
        BY <2>3, <3>1, <4>1, EmptySeq DEF FlattenSeq
      <4>3. p_malloc_buf'[c][1] = chunk[1 - 0]
        BY <2>1, <2>7, <4>2
      <4> QED BY <4>1, <4>3
    <3>2. CASE received[c] # <<>>
      <4>1. p_malloc_buf[c] # <<>> /\ p_malloc_buf[c][1] = received[c][1][1]
        BY <2>2, <3>2 DEF ReceivedInv, Live
      <4>2. Len(p_malloc_buf[c]) \in Nat \ {0} /\ Len(received[c]) \in Nat \ {0}
        BY <2>1, <3>2, <4>1, EmptySeq
      <4>3. p_malloc_buf'[c][1] = p_malloc_buf[c][1]
        BY <2>1, <2>7, <4>2
      <4>4. received'[c][1] = received[c][1]
        BY <2>6, <4>2
      <4> QED BY <4>1, <4>3, <4>4
    <3> QED BY <3>1, <3>2
  <2>10. pc'[c] # "recv" => Contains(received'[c][Len(received'[c])], NL)
    BY <2>2, <2>6
  <2> QED BY <2>2, <2>5, <2>6, <2>8, <2>9, <2>10 DEF ReceivedInv, Live
<1>2. ASSUME NEW c \in Conn, Finish(c) PROVE ReceivedInv'
  BY <1>2 DEF Finish, ReceivedInv, Live, TypeOK
<1>3. ASSUME NEW c \in Conn, Lock(c) \/ Works(c) PROVE ReceivedInv'
  <2>1. Advance(c)
    BY <1>3, Advances
  <2>2. pc'[c] \in {"recv"} \cup Holding /\ \A d \in Conn : d # c => pc'[d] = pc[d]
    BY <2>1 DEF Advance, TypeOK
  <2> QED BY <2>1, <2>2 DEF Advance, ReceivedInv, Live, Holding
<1>4. CASE Crash
  <2>1. ASSUME NEW c \in Conn, Live(c)'
        PROVE  received[c] = <<>> /\ pc'[c] = "recv" /\ pc[c] = "recv"
    BY <1>4, <2>1 DEF Crash, ReceivedInv, Live
  <2>2. FlattenSeq(<<>>) = <<>>
    BY EmptySeq DEF FlattenSeq
  <2>3. \A c \in Conn : received[c] = <<>> => pc'[c] \in {"recv", "done"}
    BY <1>4 DEF Crash, ReceivedInv
  <2>4. received' = received /\ \A c \in Conn : p_malloc_buf'[c] = <<>>
    BY <1>4 DEF Crash
  <2> QED BY <2>1, <2>2, <2>3, <2>4 DEF ReceivedInv
<1>5. CASE UNCHANGED vars
  BY <1>5 DEF vars, thread, ReceivedInv, Live
<1> QED BY <1>1, <1>2, <1>3, <1>4, <1>5 DEF Next, Step, Works

\* A step of one thread leaves the others' variables alone.
Others(c) ==
  \A d \in Conn : d # c =>
    /\ pc'[d] = pc[d] /\ p_malloc_buf'[d] = p_malloc_buf[d] /\ received'[d] = received[d]
    /\ rest'[d] = rest[d] /\ ferror'[d] = ferror[d] /\ pos'[d] = pos[d] /\ line'[d] = line[d]
    /\ reply'[d] = reply[d] /\ seekto'[d] = seekto[d]

\* Every step of a thread is one of those.
LEMMA OtherThreads ==
  ASSUME TypeOK, NEW c \in Conn, Step(c)
  PROVE  Others(c)
<1> USE DEF Others, TypeOK
<1>1. ASSUME NEW chunk \in Chunks, Recv(c, chunk) PROVE Others(c)
  BY <1>1 DEF Recv
<1>2. CASE Finish(c)
  BY <1>2 DEF Finish
<1>3. CASE Lock(c)
  BY <1>3 DEF Lock
<1>4. CASE Store(c)
  <2>1. PICK r, b : rest' = [rest EXCEPT ![c] = r] /\ pc' = [pc EXCEPT ![c] = b]
    BY <1>4 DEF Store
  <2> QED BY <1>4, <2>1 DEF Store
<1>5. CASE StoreFails(c)
  BY <1>5 DEF StoreFails
<1>6. CASE Seek(c)
  <2>1. PICK s \in ScannedArgs(c) :
          /\ seekto' = [seekto EXCEPT ![c] = s]
          /\ pos' = [pos EXCEPT ![c] = SeekPos(s)]
    BY <1>6 DEF Seek
  <2> QED BY <1>6, <2>1 DEF Seek
<1>7. CASE GetLine(c)
  BY <1>7 DEF GetLine
<1>8. ASSUME NEW n \in 1 .. Len(line[c]), Send(c, n) PROVE Others(c)
  BY <1>8 DEF Send
<1>9. CASE SendFails(c)
  BY <1>9 DEF SendFails
<1>10. CASE Close(c)
  BY <1>10 DEF Close
<1> QED BY <1>1, <1>2, <1>3, <1>4, <1>5, <1>6, <1>7, <1>8, <1>9, <1>10 DEF Step, Handle

\* The parts of Store.
LEMMA StoreParts ==
  ASSUME TypeOK, NEW c \in Conn, Store(c)
  PROVE  LET r == rest[c]
             n == Piece(r)
         IN  /\ pc[c] = "file" /\ ~HasCommand(c) /\ r \in Seq(Tokens)
             /\ Device!Write(SubSeq(r, 1, n))
             /\ rest'[c] = SubSeq(r, n + 1, Len(r))
             /\ pc'[c] = IF n = Len(r) THEN "getline" ELSE "file"
             /\ torn' = (torn \/ (n = Len(r) /\ ~Contains(SubSeq(r, 1, n), NL)))
             /\ UNCHANGED <<mutex, p_malloc_buf, received, ferror, pos, line, reply, seekto>>
BY DEF Store, TypeOK

\* Packets reach the device whole, or up to a last piece.
LEMMA RestStep == TypeOK /\ RestInv /\ [Next]_vars => RestInv'
<1> SUFFICES ASSUME TypeOK, RestInv, [Next]_vars PROVE RestInv'
  OBVIOUS
<1>1. ASSUME NEW c \in Conn, Step(c),
             pc'[c] = "file" =>
               /\ rest'[c] = p_malloc_buf'[c] \/ (~HasCommand(c)' /\ Len(rest'[c]) < StdioBuf)
               /\ Len(p_malloc_buf'[c]) <= StdioBuf => rest'[c] = p_malloc_buf'[c]
      PROVE  RestInv'
  <2>1. \A d \in Conn : d # c => /\ pc'[d] = pc[d] /\ rest'[d] = rest[d] /\ p_malloc_buf'[d] = p_malloc_buf[d]
                                 /\ HasCommand(d)' = HasCommand(d)
    BY <1>1, OtherThreads DEF Others, HasCommand
  <2> QED BY <1>1, <2>1 DEF RestInv
<1>2. ASSUME NEW c \in Conn, NEW chunk \in Chunks, Recv(c, chunk) PROVE RestInv'
  <2>1. pc'[c] # "file"
    BY <1>2 DEF Recv, TypeOK
  <2> QED BY <1>1, <1>2, <2>1 DEF Step
<1>3. ASSUME NEW c \in Conn, Lock(c) PROVE RestInv'
  <2>1. pc'[c] = "file" /\ rest'[c] = p_malloc_buf'[c]
    BY <1>3 DEF Lock, TypeOK
  <2> QED BY <1>1, <1>3, <2>1 DEF Step
<1>4. ASSUME NEW c \in Conn, Store(c) PROVE RestInv'
  <2>1. PICK r \in Seq(Tokens) : r = rest[c]
    BY DEF TypeOK
  <2>2. PICK n \in 0 .. Len(r) : n = Piece(r)
    BY PieceParts
  <2>3. /\ pc[c] = "file" /\ ~HasCommand(c)
        /\ rest'[c] = SubSeq(r, n + 1, Len(r))
        /\ pc'[c] = IF n = Len(r) THEN "getline" ELSE "file"
        /\ p_malloc_buf' = p_malloc_buf
    BY <1>4, <2>1, <2>2, StoreParts
  <2>4. /\ Len(r) \in Nat /\ Len(SubSeq(r, n + 1, Len(r))) = Len(r) - n
        /\ Len(r) - n < StdioBuf /\ (Len(r) <= StdioBuf => n = Len(r))
    BY <2>2, PieceParts
  <2>5. HasCommand(c)' = HasCommand(c)
    BY <2>3 DEF HasCommand
  <2>6. pc'[c] = "file" => ~(Len(p_malloc_buf[c]) <= StdioBuf)
    BY <2>1, <2>3, <2>4 DEF RestInv
  <2>7. Len(rest'[c]) < StdioBuf
    BY <2>3, <2>4
  <2>8. Step(c)
    BY <1>4 DEF Step, Handle
  <2> QED BY <1>1, <2>3, <2>5, <2>6, <2>7, <2>8
<1>5. ASSUME NEW c \in Conn, \/ Finish(c) \/ StoreFails(c) \/ Seek(c) \/ GetLine(c) \/ Close(c) \/ SendFails(c)
                             \/ \E n \in 1 .. Len(line[c]) : Send(c, n)
      PROVE  RestInv'
  <2>1. pc'[c] # "file"
    BY <1>5 DEF Finish, StoreFails, Seek, GetLine, Close, SendFails, Send, TypeOK
  <2>2. Step(c)
    BY <1>5 DEF Step, Handle
  <2> QED BY <1>1, <2>1, <2>2
<1>6. CASE Crash
  <2>1. \A c \in Conn : rest'[c] = p_malloc_buf'[c]
    BY <1>6, EmptySeq DEF Crash
  <2> QED BY <2>1 DEF RestInv
<1>7. CASE UNCHANGED vars
  BY <1>7 DEF vars, thread, RestInv, HasCommand
<1> QED BY <1>2, <1>3, <1>4, <1>5, <1>6, <1>7 DEF Next, Step, Handle

-----------------------------------------------------------------------------
(* The commands on the device.                                             *)

\* A connection receives one more chunk or none.
LEMMA ReceivedGrows ==
  ASSUME TypeOK, [Next]_vars, NEW c \in Conn
  PROVE  received'[c] = received[c] \/ \E chunk \in Chunks : received'[c] = Append(received[c], chunk)
<1>1. ASSUME NEW d \in Conn, Step(d) PROVE received' = received \/ \E chunk \in Chunks : Recv(d, chunk)
  <2>1. CASE Finish(d)
    BY <2>1 DEF Finish
  <2>2. CASE Lock(d) \/ Works(d)
    BY <2>2, Advances DEF Advance
  <2> QED BY <1>1, <2>1, <2>2 DEF Step, Works
<1>2. ASSUME NEW d \in Conn, NEW chunk \in Chunks, Recv(d, chunk)
      PROVE  received'[c] = received[c] \/ received'[c] = Append(received[c], chunk)
  BY <1>2 DEF Recv, TypeOK
<1>3. Crash \/ UNCHANGED vars => received' = received
  BY DEF Crash, vars, thread
<1> QED BY <1>1, <1>2, <1>3 DEF Next

\* What a connection has received, and what it has received then, as bytes.
LEMMA StreamGrows ==
  ASSUME TypeOK, [Next]_vars, NEW c \in Conn
  PROVE  /\ FlattenSeq(received[c]) \in Seq(Tokens)
         /\ \/ received'[c] = received[c]
            \/ \E chunk \in Seq(Tokens) : FlattenSeq(received'[c]) = FlattenSeq(received[c]) \o chunk
<1>1. PICK r \in Seq(Chunks) : r = received[c]
  BY DEF TypeOK
<1>2. r \in Seq(Seq(Tokens))
  <2>1. Chunks \subseteq Seq(Tokens)
    BY ServiceAssumption
  <2> QED BY <2>1, SeqMonotonic
<1>3. ASSUME NEW chunk \in Chunks, received'[c] = Append(received[c], chunk)
      PROVE  chunk \in Seq(Tokens) /\ FlattenSeq(received'[c]) = FlattenSeq(received[c]) \o chunk
  <2>1. chunk \in Seq(Tokens)
    BY ChunkType
  <2>2. FlattenSeq(Append(r, chunk)) = FlattenSeq(r) \o chunk
    BY <1>2, <2>1, FlattenAppend
  <2> QED BY <1>1, <1>3, <2>1, <2>2
<1>4. FlattenSeq(received[c]) \in Seq(Tokens)
  BY <1>1, <1>2, FlattenType
<1> QED BY <1>3, <1>4, ReceivedGrows

\* The packet of a thread that has one contains a newline.
LEMMA PacketHasNewline ==
  ASSUME TypeOK, ReceivedInv, NEW c \in Conn, Live(c), pc[c] # "recv"
  PROVE  /\ Contains(p_malloc_buf[c], NL)
         /\ received[c] # <<>> /\ p_malloc_buf[c] = FlattenSeq(received[c])
<1>1. PICK r \in Seq(Chunks) : r = received[c]
  BY DEF TypeOK
<1>2. r # <<>> /\ p_malloc_buf[c] = FlattenSeq(r) /\ Contains(r[Len(r)], NL)
  BY <1>1 DEF ReceivedInv, Live
<1>3. PICK s \in Seq(Chunks), x \in Chunks : r = Append(s, x)
  BY <1>2, SequenceEmptyOrAppend
<1>4. s \in Seq(Seq(Tokens)) /\ x \in Seq(Tokens)
  <2>1. Chunks \subseteq Seq(Tokens)
    BY ServiceAssumption
  <2> QED BY <2>1, SeqMonotonic
<1>5. FlattenSeq(r) = FlattenSeq(s) \o x /\ FlattenSeq(s) \in Seq(Tokens)
  BY <1>3, <1>4, FlattenAppend, FlattenType
<1>6. r[Len(r)] = x
  BY <1>3, AppendProperties, LenProperties
<1>7. Contains(FlattenSeq(s) \o x, NL)
  BY <1>2, <1>4, <1>5, <1>6, ContainsConcat
<1> QED BY <1>1, <1>2, <1>5, <1>7

\* x is what a connection had received up to a chunk with a newline.
Whole(x) ==
  \E c \in Conn : \E k \in DOMAIN received[c] :
    Contains(received[c][k], NL) /\ x = ReceivedUpTo(c, k)

Small == \A c \in Conn : Len(FlattenSeq(received[c])) <= StdioBuf

\* A packet stays one when more is received.
LEMMA WholeStays ==
  ASSUME TypeOK, [Next]_vars, NEW x, Whole(x)
  PROVE  Whole(x)'
<1>1. PICK c \in Conn : \E k \in DOMAIN received[c] : Contains(received[c][k], NL) /\ x = ReceivedUpTo(c, k)
  BY DEF Whole
<1>2. PICK k \in DOMAIN received[c] : Contains(received[c][k], NL) /\ x = ReceivedUpTo(c, k)
  BY <1>1
<1>3. CASE received'[c] = received[c]
  BY <1>2, <1>3 DEF Whole, ReceivedUpTo
<1>4. ASSUME NEW chunk \in Chunks, received'[c] = Append(received[c], chunk) PROVE Whole(x)'
  <2>1. PICK r \in Seq(Chunks) : r = received[c]
    BY DEF TypeOK
  <2>2. DOMAIN r = 1 .. Len(r) /\ Len(r) \in Nat
    BY LenProperties
  <2>3. k \in 1 .. Len(r) /\ k \in 0 .. Len(r)
    BY <2>1, <2>2
  <2>4. /\ Append(r, chunk) \in Seq(Chunks) /\ Len(Append(r, chunk)) = Len(r) + 1
        /\ Append(r, chunk)[k] = r[k]
    BY <2>3, AppendProperties
  <2>5. DOMAIN Append(r, chunk) = 1 .. Len(r) + 1
    BY <2>4, LenProperties
  <2>6. SubSeq(Append(r, chunk), 1, k) = SubSeq(r, 1, k)
    BY <2>3, FirstOfAppend
  <2>7. k \in DOMAIN received'[c]
    BY <1>4, <2>1, <2>2, <2>3, <2>5
  <2>8. Contains(received'[c][k], NL) /\ x = ReceivedUpTo(c, k)'
    BY <1>2, <1>4, <2>1, <2>4, <2>6 DEF ReceivedUpTo
  <2> QED BY <2>7, <2>8 DEF Whole
<1> QED BY <1>3, <1>4, ReceivedGrows

\* If all packets fit in the FILE's buffer afterwards they did before.
LEMMA SmallBefore ==
  ASSUME TypeOK, [Next]_vars, Small'
  PROVE  Small
<1> SUFFICES ASSUME NEW c \in Conn PROVE Len(FlattenSeq(received[c])) <= StdioBuf
  BY DEF Small
<1>1. Len(FlattenSeq(received'[c])) <= StdioBuf
  BY DEF Small
<1>2. CASE received'[c] = received[c]
  BY <1>1, <1>2
<1>3. ASSUME NEW chunk \in Seq(Tokens), FlattenSeq(received'[c]) = FlattenSeq(received[c]) \o chunk
      PROVE  Len(FlattenSeq(received[c])) <= StdioBuf
  <2>1. PICK t \in Seq(Tokens) : t = FlattenSeq(received[c])
    BY StreamGrows
  <2>2. Len(t \o chunk) = Len(t) + Len(chunk) /\ Len(t) \in Nat /\ Len(chunk) \in Nat
    BY ConcatProperties, LenProperties
  <2>3. Len(t) + Len(chunk) <= StdioBuf /\ StdioBuf \in Nat
    BY <1>1, <1>3, <2>1, <2>2, ServiceAssumption
  <2> QED BY <2>1, <2>2, <2>3
<1> QED BY <1>2, <1>3, StreamGrows

\* Only Store changes the device.
LEMMA DeviceQuiet ==
  ASSUME [Next]_vars, \A c \in Conn : ~Store(c)
  PROVE  log' = log /\ pending' = pending
BY DEF Next, Step, Handle, Recv, Finish, Lock, StoreFails, Seek, GetLine, Send, SendFails, Close, Crash,
       vars, device

\* A thread writes its whole packet to a device on which nothing waits.
LEMMA WholeWritten ==
  ASSUME TypeOK, ReceivedInv, [Next]_vars, pending = <<>>, \A i \in DOMAIN log : Whole(log[i]),
         NEW c \in Conn, pc[c] \in Holding, Device!Write(p_malloc_buf[c])
  PROVE  pending' = <<>> /\ \A i \in DOMAIN log' : Whole(log[i])'
<1>1. PICK b \in Seq(Tokens) : b = p_malloc_buf[c]
  BY DEF TypeOK
<1>2. Contains(b, NL) /\ received[c] # <<>> /\ b = FlattenSeq(received[c])
  BY <1>1, PacketHasNewline DEF Live, Holding
<1>3. pending \o b = b
  BY ConcatEmptySeq
<1>4. pending' = <<>> /\ \A i \in DOMAIN log' : log'[i] = b \/ \E j \in DOMAIN log : log'[i] = log[j]
  <2>1. log \in Seq(Seq(Tokens)) /\ pending \in Seq(Tokens) /\ Device!Write(b)
    BY <1>1 DEF TypeOK
  <2>2. Contains(pending \o b, NL) =>
              /\ pending' = <<>>
              /\ \A i \in DOMAIN log' : log'[i] = pending \o b \/ \E j \in DOMAIN log : log'[i] = log[j]
    BY <2>1, WriteEffect
  <2> QED BY <1>2, <1>3, <2>2
<1>5. Whole(b)
  <2>1. PICK r \in Seq(Chunks) : r = received[c]
    BY DEF TypeOK
  <2>2. Len(r) \in Nat \ {0} /\ DOMAIN r = 1 .. Len(r)
    BY <1>2, <2>1, EmptySeq, LenProperties
  <2>3. Len(r) \in DOMAIN r
    BY <2>2
  <2>4. SubSeq(r, 1, Len(r)) = r
    BY SubSeqFull
  <2>5. Contains(r[Len(r)], NL)
    BY <2>1 DEF ReceivedInv, Live, Holding
  <2>6. b = ReceivedUpTo(c, Len(r))
    BY <1>2, <2>1, <2>4 DEF ReceivedUpTo
  <2> QED BY <2>1, <2>3, <2>5, <2>6 DEF Whole
<1>6. ASSUME NEW i \in DOMAIN log' PROVE Whole(log[i])'
  <2>1. PICK x : x = log'[i] /\ Whole(x)
    BY <1>4, <1>5
  <2>2. Whole(x)'
    BY <2>1, WholeStays
  <2> QED BY <2>1, <2>2 DEF Whole, ReceivedUpTo
<1> QED BY <1>4, <1>6

\* Whole packets stay whole.
LEMMA WholeStep ==
  TypeOK /\ ReceivedInv /\ RestInv /\ CommandsAreWholePackets /\ [Next]_vars => CommandsAreWholePackets'
<1> SUFFICES ASSUME TypeOK, ReceivedInv, RestInv, CommandsAreWholePackets, [Next]_vars, Small'
             PROVE  pending' = <<>> /\ \A i \in DOMAIN log' : Whole(log[i])'
  BY DEF CommandsAreWholePackets, Small, Whole
<1>1. Small
  BY SmallBefore
<1>2. pending = <<>> /\ \A i \in DOMAIN log : Whole(log[i])
  BY <1>1 DEF CommandsAreWholePackets, Small, Whole
<1>3. ASSUME NEW c \in Conn, pc[c] = "file" PROVE rest[c] = p_malloc_buf[c] /\ Len(rest[c]) <= StdioBuf
  <2>1. p_malloc_buf[c] = FlattenSeq(received[c])
    BY <1>3 DEF ReceivedInv, Live
  <2> QED BY <1>1, <1>3, <2>1 DEF RestInv, Small
<1>4. ASSUME NEW c \in Conn, Store(c)
      PROVE  pending' = <<>> /\ \A i \in DOMAIN log' : Whole(log[i])'
  <2>1. PICK r \in Seq(Tokens) : r = rest[c]
    BY DEF TypeOK
  <2>2. pc[c] = "file" /\ Device!Write(SubSeq(r, 1, Piece(r)))
    BY <1>4, <2>1, StoreParts
  <2>3. r = p_malloc_buf[c] /\ SubSeq(r, 1, Piece(r)) = r
    BY <1>3, <2>1, <2>2, PieceParts
  <2>4. pc[c] \in Holding /\ Device!Write(p_malloc_buf[c])
    BY <2>2, <2>3 DEF Holding
  <2> QED BY <1>2, <2>4, WholeWritten
<1>5. CASE \A c \in Conn : ~Store(c)
  <2>1. log' = log /\ pending' = pending
    BY <1>5, DeviceQuiet
  <2>2. ASSUME NEW i \in DOMAIN log' PROVE Whole(log[i])'
    <3>1. PICK x : x = log'[i] /\ Whole(x)
      BY <1>2, <2>1
    <3>2. Whole(x)'
      BY <3>1, WholeStays
    <3> QED BY <3>1, <3>2 DEF Whole, ReceivedUpTo
  <2> QED BY <1>2, <2>1, <2>2
<1> QED BY <1>4, <1>5

\* The first n elements of r are u, and the others are v.
Cut(r, n, u, v) ==
  /\ Len(u) = n /\ \A j \in 1 .. n : u[j] = r[j]
  /\ Len(v) = Len(r) - n /\ \A j \in 1 .. Len(r) - n : v[j] = r[n + j]

\* u and v behind p are r behind p.
Joined(p, u, v, r) == (p \o u) \o v = p \o r

\* Putting the pieces together again.
LEMMA ConcatCut ==
  ASSUME NEW S, NEW p \in Seq(S), NEW r \in Seq(S),
         NEW n \in 0 .. Len(r), NEW u \in Seq(S), NEW v \in Seq(S), Cut(r, n, u, v)
  PROVE  Joined(p, u, v, r)
<1>1. PICK a \in Nat, b \in Nat : a = Len(p) /\ b = Len(r)
  BY LenProperties
<1>2. /\ p \o r \in Seq(S) /\ Len(p \o r) = a + b
      /\ \A j \in 1 .. a + b : (p \o r)[j] = IF j <= a THEN p[j] ELSE r[j - a]
  BY <1>1, ConcatProperties
<1>3. n \in 0 .. b /\ Len(u) = n /\ Len(v) = b - n
  BY <1>1 DEF Cut
<1>4. PICK w \in Seq(S) : w = p \o u /\ Len(w) = a + n /\ \A j \in 1 .. a + n : w[j] = (p \o r)[j]
  <2>1. /\ p \o u \in Seq(S) /\ Len(p \o u) = Len(p) + Len(u)
        /\ \A j \in 1 .. Len(p) + Len(u) : (p \o u)[j] = IF j <= Len(p) THEN p[j] ELSE u[j - Len(p)]
    BY ConcatProperties
  <2>2. /\ Len(p \o u) = a + n
        /\ \A j \in 1 .. a + n : (p \o u)[j] = IF j <= a THEN p[j] ELSE u[j - a]
    BY <1>1, <1>3, <2>1
  <2>3. ASSUME NEW j \in 1 .. a + n PROVE (p \o u)[j] = (p \o r)[j]
    <3>1. j \in 1 .. a + b
      BY <1>3
    <3>2. ~(j <= a) => j - a \in 1 .. n
      BY <1>3
    <3> QED BY <1>2, <2>2, <3>1, <3>2 DEF Cut
  <2> QED BY <2>1, <2>2, <2>3
<1>5. /\ w \o v \in Seq(S) /\ Len(w \o v) = Len(w) + Len(v)
      /\ \A j \in 1 .. Len(w) + Len(v) : (w \o v)[j] = IF j <= Len(w) THEN w[j] ELSE v[j - Len(w)]
  BY ConcatProperties
<1>6. /\ Len(w \o v) = a + b
      /\ \A j \in 1 .. a + b : (w \o v)[j] = IF j <= a + n THEN w[j] ELSE v[j - (a + n)]
  <2>1. (a + n) + (b - n) = a + b
    BY <1>3
  <2> QED BY <1>3, <1>4, <1>5, <2>1
<1>7. ASSUME NEW j \in 1 .. a + b PROVE (w \o v)[j] = (p \o r)[j]
  <2>1. CASE j <= a + n
    <3>1. j \in 1 .. a + n
      BY <1>3, <2>1
    <3> QED BY <1>4, <1>6, <2>1, <3>1
  <2>2. CASE ~(j <= a + n)
    <3>1. PICK i \in 1 .. b - n : i = j - (a + n) /\ n + i = j - a
      BY <1>3, <2>2
    <3>2. v[i] = r[n + i]
      BY <1>1 DEF Cut
    <3>3. ~(j <= a)
      BY <1>3, <2>2
    <3> QED BY <1>2, <1>6, <2>2, <3>1, <3>2, <3>3
  <2> QED BY <2>1, <2>2
<1>8. w \o v = p \o r
  BY <1>2, <1>5, <1>6, <1>7, SeqEqual
<1> QED BY <1>4, <1>8 DEF Joined

\* p, which waits in the driver, and r, what is left of a packet, end the stream
\* t. When r is cut into u and v, p and u together are a part of t, and v still
\* ends it.
LEMMA CutPacket ==
  ASSUME NEW S, NEW p \in Seq(S), NEW r \in Seq(S), NEW t \in Seq(S), Suffix(p \o r, t),
         NEW n \in 0 .. Len(r), NEW u \in Seq(S), NEW v \in Seq(S), Cut(r, n, u, v)
  PROVE  /\ PartOf(p \o u, t) /\ Suffix((p \o u) \o v, t) /\ Suffix(<<>> \o v, t)
         /\ Len(r) <= Len(t)
<1>0. (p \o u) \o v = p \o r
  <2>1. Joined(p, u, v, r)
    BY ConcatCut
  <2> QED BY <2>1 DEF Joined
<1> USE DEF Cut
<1>1. PICK a \in Nat, b \in Nat, l \in Nat : a = Len(p) /\ b = Len(r) /\ l = Len(t)
  BY LenProperties
<1>2. /\ Len(p \o r) = a + b
      /\ \A j \in 1 .. a + b : (p \o r)[j] = IF j <= a THEN p[j] ELSE r[j - a]
  BY <1>1, ConcatProperties
<1>3. a + b <= l /\ \A j \in 1 .. a + b : (p \o r)[j] = t[(l - (a + b)) + j]
  BY <1>1, <1>2 DEF Suffix
<1>4. n \in 0 .. b /\ Len(u) = n /\ Len(v) = b - n
  BY <1>1
<1>5. PICK w \in Seq(S) : w = p \o u /\ Len(w) = a + n /\ \A j \in 1 .. a + n : w[j] = (p \o r)[j]
  <2>1. /\ p \o u \in Seq(S) /\ Len(p \o u) = Len(p) + Len(u)
        /\ \A j \in 1 .. Len(p) + Len(u) : (p \o u)[j] = IF j <= Len(p) THEN p[j] ELSE u[j - Len(p)]
    BY ConcatProperties
  <2>2. /\ Len(p \o u) = a + n
        /\ \A j \in 1 .. a + n : (p \o u)[j] = IF j <= a THEN p[j] ELSE u[j - a]
    BY <1>1, <1>4, <2>1
  <2>3. ASSUME NEW j \in 1 .. a + n PROVE (p \o u)[j] = (p \o r)[j]
    <3>1. j \in 1 .. a + b
      BY <1>4
    <3>2. ~(j <= a) => j - a \in 1 .. n
      BY <1>4
    <3> QED BY <1>2, <2>2, <3>1, <3>2
  <2> QED BY <2>1, <2>2, <2>3
<1>6. PartOf(w, t)
  <2>1. PICK k \in Nat : k = l - (a + b) /\ k + (a + n) <= l
    BY <1>3, <1>4
  <2>2. ASSUME NEW j \in 1 .. a + n PROVE w[j] = t[k + j]
    <3>1. j \in 1 .. a + b
      BY <1>4
    <3> QED BY <1>3, <1>5, <2>1, <3>1
  <2> QED BY <1>1, <1>5, <2>1, <2>2 DEF PartOf
<1>7. Suffix(v, t)
  <2>1. b - n <= l
    BY <1>3, <1>4
  <2>2. ASSUME NEW j \in 1 .. b - n PROVE v[j] = t[(l - (b - n)) + j]
    <3>1. v[j] = r[n + j]
      BY <1>1
    <3>2. PICK i \in 1 .. a + b : i = a + (n + j) /\ ~(i <= a) /\ i - a = n + j
                                  /\ (l - (a + b)) + i = (l - (b - n)) + j
      BY <1>4
    <3>3. (p \o r)[i] = r[n + j] /\ (p \o r)[i] = t[(l - (a + b)) + i]
      BY <1>2, <1>3, <3>2
    <3> QED BY <3>1, <3>2, <3>3
  <2> QED BY <1>1, <1>4, <2>1, <2>2 DEF Suffix
<1>8. Len(r) <= Len(t)
  BY <1>1, <1>3
<1> QED BY <1>0, <1>5, <1>6, <1>7, <1>8, ConcatEmptySeq

\* Commands that are parts of what a connection has received.
Apart == \A i \in DOMAIN log : \E c \in Conn : PartOf(log[i], FlattenSeq(received[c]))

\* What is a part of a stream stays one when the stream grows.
LEMMA PartStays ==
  ASSUME TypeOK, [Next]_vars, NEW x \in Seq(Tokens), NEW c \in Conn, PartOf(x, FlattenSeq(received[c]))
  PROVE  PartOf(x, FlattenSeq(received'[c]))
<1>1. PICK t \in Seq(Tokens) : t = FlattenSeq(received[c])
  BY StreamGrows
<1>2. PartOf(x, t)
  BY <1>1
<1>3. CASE received'[c] = received[c]
  BY <1>3
<1>4. ASSUME NEW chunk \in Seq(Tokens), FlattenSeq(received'[c]) = FlattenSeq(received[c]) \o chunk
      PROVE  PartOf(x, FlattenSeq(received'[c]))
  <2>1. PartOf(x, t \o chunk)
    BY <1>2, PartOfLonger
  <2> QED BY <1>1, <1>4, <2>1
<1> QED BY <1>3, <1>4, StreamGrows

\* Old commands stay apart, and so does one that is new.
LEMMA ApartStays ==
  ASSUME TypeOK, [Next]_vars, Apart, NEW c \in Conn, NEW x \in Seq(Tokens), PartOf(x, FlattenSeq(received[c])),
         \A i \in DOMAIN log' : log'[i] = x \/ \E j \in DOMAIN log : log'[i] = log[j]
  PROVE  Apart'
<1> SUFFICES ASSUME NEW i \in DOMAIN log' PROVE \E d \in Conn : PartOf(log'[i], FlattenSeq(received'[d]))
  BY DEF Apart
<1>1. \A j \in DOMAIN log : log[j] \in Seq(Tokens)
  BY LenProperties, ElementOfSeq DEF TypeOK
<1>2. PICK y \in Seq(Tokens), d \in Conn : y = log'[i] /\ PartOf(y, FlattenSeq(received[d]))
  BY <1>1 DEF Apart
<1> QED BY <1>2, PartStays

\* A device that stays the same keeps commands of one connection each.
LEMMA ApartUnchanged ==
  ASSUME TypeOK, [Next]_vars, Apart, log' = log
  PROVE  Apart'
<1> SUFFICES ASSUME NEW i \in DOMAIN log PROVE \E d \in Conn : PartOf(log[i], FlattenSeq(received'[d]))
  BY DEF Apart
<1>1. log[i] \in Seq(Tokens)
  BY LenProperties, ElementOfSeq DEF TypeOK
<1>2. PICK d \in Conn : PartOf(log[i], FlattenSeq(received[d]))
  BY DEF Apart
<1>3. PICK y \in Seq(Tokens) : y = log[i]
  BY <1>1
<1> QED BY <1>2, <1>3, PartStays

\* What the holder of the mutex has to show for ApartInv: no other thread is in
\* the device.
HolderSafe(c) ==
  /\ Others(c) /\ (pc[c] \in Holding \/ (pc[c] = "lock" /\ mutex = NULL))
  /\ Apart' /\ (mutex' = NULL => pending' = <<>>)
  /\ pc'[c] \in Holding =>
       \/ pending' = <<>>
       \/ pc'[c] = "file" /\ rest'[c] # p_malloc_buf'[c]
  /\ pc'[c] = "file" => Suffix(pending' \o rest'[c], p_malloc_buf'[c])

\* It is enough, because of the mutex.
LEMMA ApartHolder ==
  ASSUME TypeOK, LockInv, NEW c \in Conn, HolderSafe(c)
  PROVE  ApartInv'
<1> USE DEF HolderSafe
<1>1. \A d \in Conn : d # c => pc'[d] \notin Holding
  BY ServiceAssumption DEF LockInv, Others
<1>2. \A d \in Conn : d # c => pc'[d] # "file"
  BY <1>1 DEF Holding
<1> QED BY <1>1, <1>2 DEF ApartInv, Apart

\* Packets stay apart.
LEMMA ApartStep ==
  TypeOK /\ LockInv /\ ReceivedInv /\ RestInv /\ ApartInv /\ [Next]_vars => ApartInv'
<1> SUFFICES ASSUME TypeOK, LockInv, ReceivedInv, RestInv, ApartInv, [Next]_vars, ~torn' PROVE ApartInv'
  BY DEF ApartInv
<1>1. ~torn
  BY DEF Next, Step, Handle, Recv, Finish, Lock, Store, StoreFails, Seek, GetLine, Send, SendFails, Close,
         Crash, vars
<1>2. Apart
  BY <1>1 DEF ApartInv, Apart
<1>3. ASSUME NEW c \in Conn, Step(c) PROVE Others(c)
  BY <1>3, OtherThreads
<1>4. ASSUME NEW c \in Conn, (\E chunk \in Chunks : Recv(c, chunk)) \/ Finish(c) PROVE ApartInv'
  <2>1. pc[c] \notin Holding /\ pc'[c] \notin Holding /\ mutex' = mutex /\ log' = log /\ pending' = pending
    BY <1>4 DEF Recv, Finish, TypeOK, device, Holding
  <2>2. Others(c)
    BY <1>3, <1>4 DEF Step
  <2>3. Apart'
    BY <1>2, <2>1, ApartUnchanged
  <2>4. pc'[c] # "file"
    BY <2>1 DEF Holding
  <2> QED BY <1>1, <2>1, <2>2, <2>3, <2>4 DEF ApartInv, Apart, Others
<1>5. ASSUME NEW c \in Conn, Lock(c) PROVE ApartInv'
  <2>1. /\ pc[c] = "lock" /\ mutex = NULL /\ mutex' = c /\ pc'[c] = "file"
        /\ rest'[c] = p_malloc_buf[c] /\ p_malloc_buf' = p_malloc_buf
        /\ log' = log /\ pending' = pending
    BY <1>5 DEF Lock, Free, TypeOK, device
  <2>2. pending = <<>>
    BY <1>1, <2>1 DEF ApartInv
  <2>3. PICK b \in Seq(Tokens) : b = p_malloc_buf[c]
    BY DEF TypeOK
  <2>4. <<>> \o b = b /\ Len(b) \in Nat
    BY ConcatEmptySeq, LenProperties
  <2>5. Suffix(b, b)
    BY <2>4 DEF Suffix
  <2>6. Suffix(pending' \o rest'[c], p_malloc_buf'[c])
    BY <2>1, <2>2, <2>3, <2>4, <2>5
  <2>7. Apart'
    BY <1>2, <2>1, ApartUnchanged
  <2>8. Others(c)
    BY <1>3, <1>5 DEF Step
  <2>9. mutex' # NULL
    BY <2>1, ServiceAssumption
  <2>h. HolderSafe(c)
    BY <2>1, <2>2, <2>6, <2>7, <2>8, <2>9 DEF HolderSafe
  <2> QED BY <2>h, ApartHolder
<1>6. ASSUME NEW c \in Conn, Store(c) PROVE ApartInv'
  <2>1. PICK r \in Seq(Tokens), b \in Seq(Tokens), p \in Seq(Tokens) :
          r = rest[c] /\ b = p_malloc_buf[c] /\ p = pending
    BY DEF TypeOK
  <2>2. PICK n \in 0 .. Len(r) : n = Piece(r)
    BY PieceParts
  <2>3. PICK u \in Seq(Tokens), v \in Seq(Tokens) :
          /\ u = SubSeq(r, 1, n) /\ v = SubSeq(r, n + 1, Len(r))
          /\ Cut(r, n, u, v) /\ Len(r) \in Nat
    BY <2>2, PieceParts DEF Cut
  <2>4. /\ pc[c] = "file" /\ Device!Write(u) /\ rest'[c] = v
        /\ pc'[c] = IF n = Len(r) THEN "getline" ELSE "file"
        /\ torn' = (torn \/ (n = Len(r) /\ ~Contains(u, NL)))
        /\ mutex' = mutex /\ p_malloc_buf' = p_malloc_buf
    BY <1>6, <2>1, <2>2, <2>3, StoreParts
  <2>5. Suffix(p \o r, b)
    BY <1>1, <2>1, <2>4 DEF ApartInv
  <2>6. /\ PartOf(p \o u, b) /\ Suffix((p \o u) \o v, b) /\ Suffix(<<>> \o v, b)
        /\ Len(r) <= Len(b)
    BY <2>3, <2>5, CutPacket
  <2>7. b = FlattenSeq(received[c]) /\ mutex = c
    BY <2>1, <2>4 DEF ReceivedInv, Live, LockInv, Holding
  <2>8. /\ p \o u \in Seq(Tokens)
        /\ Contains(p \o u, NL) =>
              /\ pending' = <<>>
              /\ \A i \in DOMAIN log' : log'[i] = p \o u \/ \E j \in DOMAIN log : log'[i] = log[j]
        /\ ~Contains(p \o u, NL) => pending' = p \o u /\ log' = log
    <3>1. log \in Seq(Seq(Tokens)) /\ pending \in Seq(Tokens) /\ Device!Write(u)
      BY <2>4 DEF TypeOK
    <3>2. /\ pending \o u \in Seq(Tokens)
          /\ Contains(pending \o u, NL) =>
                /\ pending' = <<>>
                /\ \A i \in DOMAIN log' : log'[i] = pending \o u \/ \E j \in DOMAIN log : log'[i] = log[j]
          /\ ~Contains(pending \o u, NL) => pending' = pending \o u /\ log' = log
      BY <3>1, WriteEffect
    <3> QED BY <2>1, <3>2
  <2>9. Others(c) /\ pc[c] \in Holding /\ mutex' # NULL
    BY <1>3, <1>6, <2>4, <2>7, ServiceAssumption DEF Step, Handle, Holding
  <2>10. CASE Contains(p \o u, NL)
    <3>1. Apart'
      <4>1. PICK x \in Seq(Tokens) : x = p \o u
        BY <2>8
      <4>2. PartOf(x, FlattenSeq(received[c])) /\ \A i \in DOMAIN log' : log'[i] = x \/ \E j \in DOMAIN log : log'[i] = log[j]
        BY <2>6, <2>7, <2>8, <2>10, <4>1
      <4> QED BY <1>2, <4>2, ApartStays
    <3>2. pending' = <<>> /\ Suffix(pending' \o rest'[c], p_malloc_buf'[c])
      BY <2>1, <2>4, <2>6, <2>8, <2>10
    <3>h. HolderSafe(c)
      BY <2>9, <3>1, <3>2 DEF HolderSafe
    <3> QED BY <3>h, ApartHolder
  <2>11. CASE ~Contains(p \o u, NL)
    <3>1. ~Contains(u, NL)
      BY <2>11, ContainsConcat
    <3>2. n # Len(r) /\ pc'[c] = "file"
      BY <2>4, <3>1
    <3>3. Apart'
      BY <1>2, <2>8, <2>11, ApartUnchanged
    <3>4. Suffix(pending' \o rest'[c], p_malloc_buf'[c])
      BY <2>1, <2>4, <2>6, <2>8, <2>11
    <3>5. pending' = <<>> \/ rest'[c] # p_malloc_buf'[c]
      <4>1. CASE n = 0
        <5>1. u = <<>>
          BY <2>3, <4>1, EmptySeq DEF Cut
        <5>2. p \o u = p
          BY <5>1, ConcatEmptySeq
        <5>3. v = r
          <6>1. Len(v) = Len(r) /\ \A j \in 1 .. Len(v) : v[j] = r[j]
            BY <2>3, <4>1 DEF Cut
          <6> QED BY <6>1, SeqEqual
        <5>4. p = <<>> \/ r # b
          BY <1>1, <2>1, <2>4, <2>9 DEF ApartInv
        <5> QED BY <2>1, <2>4, <2>8, <2>11, <5>2, <5>3, <5>4
      <4>2. CASE n # 0
        <5>1. Len(b) \in Nat
          BY LenProperties
        <5>2. Len(v) # Len(b)
          BY <2>3, <2>6, <4>2, <5>1 DEF Cut
        <5> QED BY <2>1, <2>4, <5>2
      <4> QED BY <4>1, <4>2
    <3>h. HolderSafe(c)
      BY <2>9, <3>2, <3>3, <3>4, <3>5 DEF HolderSafe
    <3> QED BY <3>h, ApartHolder
  <2> QED BY <2>10, <2>11
<1>7. ASSUME NEW c \in Conn, StoreFails(c) PROVE ApartInv'
  <2>1. /\ pc[c] = "file" /\ rest[c] = p_malloc_buf[c] /\ pc'[c] = "getline"
        /\ log' = log /\ pending' = pending
    BY <1>1, <1>7 DEF StoreFails, TypeOK, device
  <2>2. Others(c) /\ pc[c] \in Holding
    BY <1>3, <1>7, <2>1 DEF Step, Handle, Holding
  <2>3. pending = <<>>
    BY <1>1, <2>1, <2>2 DEF ApartInv
  <2>4. Apart'
    BY <1>2, <2>1, ApartUnchanged
  <2>h. HolderSafe(c)
    BY <2>1, <2>2, <2>3, <2>4 DEF HolderSafe
  <2> QED BY <2>h, ApartHolder
<1>8. ASSUME NEW c \in Conn, \/ Seek(c) \/ GetLine(c) \/ Close(c) \/ SendFails(c)
                             \/ \E n \in 1 .. Len(line[c]) : Send(c, n)
      PROVE  ApartInv'
  <2>1. /\ pc[c] \in {"file", "getline", "send", "close", "failed"} /\ (pc[c] = "file" => HasCommand(c))
        /\ pc'[c] # "file" /\ log' = log /\ pending' = pending
    BY <1>8 DEF Seek, GetLine, Close, SendFails, Send, TypeOK, device
  <2>2. Others(c) /\ pc[c] \in Holding
    BY <1>3, <1>8, <2>1 DEF Step, Handle, Holding
  <2>3. pending = <<>>
    BY <1>1, <2>1, <2>2 DEF ApartInv, RestInv
  <2>4. Apart'
    BY <1>2, <2>1, ApartUnchanged
  <2>h. HolderSafe(c)
    BY <2>1, <2>2, <2>3, <2>4 DEF HolderSafe
  <2> QED BY <2>h, ApartHolder
<1>9. CASE Crash
  <2>1. mutex' = NULL /\ log' = log /\ pending' = pending /\ \A c \in Conn : ~Storing(c)
    BY <1>1, <1>9 DEF Crash, device
  <2>2. \A c \in Conn : pc'[c] \in {"recv", "done", "dead"}
    BY <1>9 DEF Crash, ReceivedInv
  <2>3. pending = <<>>
    <3>1. CASE mutex = NULL
      BY <1>1, <3>1 DEF ApartInv
    <3>2. CASE mutex # NULL
      <4>1. mutex \in Conn /\ pc[mutex] \in Holding
        BY <3>2 DEF TypeOK, LockInv
      <4>2. PICK c \in Conn : c = mutex
        BY <4>1
      <4>3. pending = <<>> \/ (pc[c] = "file" /\ rest[c] # p_malloc_buf[c])
        BY <1>1, <4>1, <4>2 DEF ApartInv
      <4>4. ~(pc[c] = "file" /\ rest[c] # p_malloc_buf[c])
        BY <2>1 DEF Storing, RestInv
      <4> QED BY <4>3, <4>4
    <3> QED BY <3>1, <3>2
  <2>4. Apart'
    BY <1>2, <2>1, ApartUnchanged
  <2> QED BY <2>1, <2>2, <2>3, <2>4 DEF ApartInv, Apart, Holding
<1>10. CASE UNCHANGED vars
  BY <1>10 DEF vars, thread, device, ApartInv
<1> QED BY <1>4, <1>5, <1>6, <1>7, <1>8, <1>9, <1>10 DEF Next, Step, Handle

-----------------------------------------------------------------------------
(* The replies.                                                            *)

\* A thread whose variables stay keeps its part, unless it is replying and the
\* device changes.
LEMMA ReplyFrame ==
  ASSUME TypeOK, NEW c \in Conn, NEW d \in Conn, d # c, Others(c), ReplyOK(d),
         log' = log \/ pc[d] \notin {"getline", "send", "close"}
  PROVE  ReplyOK(d)'
<1>1. Asked(d)' = Asked(d)
  BY DEF Others, Asked
<1>2. ASSUME log' = log PROVE Contents' = Contents /\ Start(d)' = Start(d)
  BY <1>2 DEF Others, Contents, Start, SeekPos
<1>3. ASSUME log' = log PROVE Sent(d)' = Sent(d)
  BY <1>2, <1>3 DEF Others, Sent
<1> QED BY <1>1, <1>2, <1>3 DEF Others, ReplyOK

\* The reply that was asked for when no seek command was received.
LEMMA PlainAsked ==
  ASSUME TypeOK, ReceivedInv, NEW c \in Conn, pc[c] = "file", ~HasCommand(c)
  PROVE  Asked(c) = seekto[c]
<1>1. PICK b \in Seq(Tokens) : b = p_malloc_buf[c]
  BY DEF TypeOK
<1>2. b # <<>> /\ b[1] = received[c][1][1]
  BY <1>1 DEF ReceivedInv, Live
<1>3. 1 \in DOMAIN b
  BY <1>2, EmptySeq, LenProperties
<1> QED BY <1>1, <1>2, <1>3 DEF HasCommand, Asked

\* The same when the buffer has one.
LEMMA SeekAsked ==
  ASSUME TypeOK, ReceivedInv, NEW c \in Conn, Seek(c)
  PROVE  /\ seekto'[c] = Asked(c)' /\ seekto'[c] \in Seeks
         /\ pos'[c] = SeekPos(seekto'[c])
<1>1. PICK s \in ScannedArgs(c) :
        /\ seekto' = [seekto EXCEPT ![c] = s]
        /\ pos' = [pos EXCEPT ![c] = SeekPos(s)]
  BY DEF Seek
<1>2. seekto'[c] = s /\ pos'[c] = SeekPos(s) /\ s \in Seeks
  BY <1>1 DEF TypeOK, ScannedArgs
<1>3. p_malloc_buf[c][1] = received[c][1][1] /\ received' = received
  BY DEF Seek, ReceivedInv, Live
<1>4. Asked(c)' = s
  BY <1>1, <1>2, <1>3 DEF Asked, ScannedArgs
<1> QED BY <1>2, <1>4

\* A reply begins with nothing sent.
LEMMA ReplyBegins ==
  ASSUME NEW c \in Conn, pc'[c] = "getline", line'[c] = <<>>, reply'[c] = <<>>,
         seekto'[c] = Asked(c)', pos'[c] = Start(c)'
  PROVE  ReplyOK(c)'
<1>1. <<>> \o <<>> = <<>>
  BY ConcatEmptySeq, EmptySeq
<1>2. Sent(c)'
  BY <1>1 DEF Sent
<1> QED BY <1>2 DEF ReplyOK

\* getline() hands over the next bytes.
LEMMA LineSent ==
  ASSUME TypeOK, NEW c \in Conn, pc[c] = "getline", ReplyOK(c), pos[c] < Len(Contents), Start(c) \in Nat,
         NEW m \in pos[c] + 1 .. Len(Contents)
  PROVE  /\ Start(c) <= m
         /\ reply[c] \o SubSeq(Contents, pos[c] + 1, m) = SubSeq(Contents, Start(c) + 1, m)
<1>1. PICK C \in Seq(Tokens), L \in Nat : C = Contents /\ L = Len(C)
  <2>1. Contents \in Seq(Tokens)
    BY FlattenType DEF Contents, TypeOK
  <2> QED BY <2>1, LenProperties
<1>2. PICK q \in Nat, a \in Nat : q = pos[c] /\ a = Start(c)
  BY DEF TypeOK
<1>3. PICK p \in Seq(Tokens) : p = reply[c] /\ p \o <<>> = p /\ line[c] = <<>>
  BY ConcatEmptySeq DEF TypeOK, ReplyOK
<1>4. \/ q = a /\ p = <<>>
      \/ a <= q /\ q <= L /\ p = SubSeq(C, a + 1, q)
  BY <1>1, <1>2, <1>3 DEF ReplyOK, Sent
<1>5. q < L /\ m \in q + 1 .. L
  BY <1>1, <1>2
<1>6. p = SubSeq(C, a + 1, q) /\ a <= q
  <2>1. CASE q = a /\ p = <<>>
    <3>1. q < a + 1 /\ a + 1 \in Int /\ q \in Int
      BY <2>1
    <3>2. SubSeq(C, a + 1, q) = <<>>
      BY <3>1, SubSeqEmpty
    <3> QED BY <2>1, <3>2
  <2> QED BY <1>4, <2>1
<1>7. a + 1 \in 1 .. Len(C) + 1 /\ q \in (a + 1) - 1 .. Len(C) /\ m \in q .. Len(C)
  BY <1>1, <1>5, <1>6
<1>8. PICK e \in 1 .. Len(C) + 1 : e = a + 1
  BY <1>7
<1>9. q \in e - 1 .. Len(C)
  BY <1>7, <1>8
<1>10. SubSeq(C, e, q) \o SubSeq(C, q + 1, m) = SubSeq(C, e, m)
  BY <1>7, <1>9, ConcatAdjacentSubSeq
<1>11. a <= m
  BY <1>5, <1>6
<1> QED BY <1>1, <1>2, <1>3, <1>6, <1>8, <1>10, <1>11

\* The position of a reply is a number.
LEMMA StartType ==
  ASSUME TypeOK, NEW c \in Conn
  PROVE  Start(c) \in Nat
<1>1. seekto[c] = NULL \/ seekto[c] \in Seeks
  BY DEF TypeOK
<1>2. seekto[c] \in Seeks => SeekPos(seekto[c]) \in Nat
  BY SeekPosType DEF TypeOK
<1> QED BY <1>1, <1>2 DEF Start

\* What a step of thread c has to show: its own part.
LEMMA ReplyOwn ==
  ASSUME TypeOK, LockInv, ReplyInv, NEW c \in Conn, Step(c), ReplyOK(c)',
         log' = log \/ pc[c] \in Holding
  PROVE  ReplyInv'
<1>1. Others(c)
  BY OtherThreads
<1>2. ASSUME NEW d \in Conn, d # c PROVE ReplyOK(d)'
  <2>1. ReplyOK(d)
    BY DEF ReplyInv
  <2>2. log' = log \/ pc[d] \notin {"getline", "send", "close"}
    BY <1>2 DEF LockInv, Holding
  <2> QED BY <1>1, <1>2, <2>1, <2>2, ReplyFrame
<1>3. \A d \in Conn : ReplyOK(d)'
  BY <1>2
<1> QED BY <1>3 DEF ReplyInv

\* The reply continues with the next line, or is complete.
LEMMA ReplyGetLine ==
  ASSUME TypeOK, NEW c \in Conn, GetLine(c), ReplyOK(c)
  PROVE  ReplyOK(c)'
<1>1. /\ pc[c] = "getline" /\ log' = log /\ reply' = reply /\ seekto' = seekto /\ received' = received
      /\ ferror' = ferror
      /\ seekto[c] = Asked(c) /\ Sent(c) /\ line[c] = <<>>
  BY DEF GetLine, device, ReplyOK
<1>2. Contents' = Contents /\ Start(c)' = Start(c) /\ Asked(c)' = Asked(c)
  BY <1>1 DEF Contents, Start, SeekPos, Asked
<1>3. CASE ~ferror[c] /\ pos[c] < Len(Contents)
  <2>1. PICK q \in Nat : q = pos[c] /\ q < Len(Contents)
    BY <1>3 DEF TypeOK
  <2>2. log \in Seq(Seq(Tokens))
    BY DEF TypeOK
  <2>3. PICK m \in q + 1 .. Len(Contents) :
          LineAt(q) = SubSeq(Contents, q + 1, m) /\ LineAt(q) \in Seq(Tokens) /\ Len(LineAt(q)) = m - q
    BY <2>1, <2>2, LineParts
  <2>4. pc'[c] = "send" /\ line'[c] = LineAt(q) /\ pos'[c] = q + Len(LineAt(q))
    BY <1>3, <2>1 DEF GetLine, TypeOK
  <2>5. Len(Contents) \in Nat
    BY <2>2, FlattenType, LenProperties DEF Contents
  <2>6. m \in Nat /\ m <= Len(Contents) /\ q + (m - q) = m
    BY <2>3, <2>5
  <2>7. Start(c) \in Nat
    BY StartType
  <2>8. m \in pos[c] + 1 .. Len(Contents)
    BY <2>1, <2>3
  <2>9. Start(c) <= m /\ reply[c] \o SubSeq(Contents, pos[c] + 1, m) = SubSeq(Contents, Start(c) + 1, m)
    BY <1>1, <1>3, <2>7, <2>8, LineSent
  <2>10. pos'[c] = m
    BY <2>3, <2>4, <2>6
  <2>11. reply'[c] \o line'[c] = SubSeq(Contents, Start(c) + 1, m)
    BY <1>1, <2>1, <2>3, <2>4, <2>9
  <2>12. Sent(c)'
    BY <1>2, <2>6, <2>9, <2>10, <2>11 DEF Sent
  <2>13. ~ferror'[c]
    BY <1>1, <1>3
  <2> QED BY <1>1, <1>2, <2>4, <2>12, <2>13 DEF ReplyOK
<1>4. CASE ~(~ferror[c] /\ pos[c] < Len(Contents))
  <2>1. pc'[c] = "close" /\ line' = line /\ pos' = pos
    BY <1>4 DEF GetLine, TypeOK
  <2>2. Len(Contents) \in Nat /\ pos[c] \in Nat
    BY FlattenType, LenProperties DEF Contents, TypeOK
  <2>3. ferror[c] \/ pos[c] >= Len(Contents)
    BY <1>4, <2>2
  <2>4. Sent(c)'
    BY <1>1, <1>2, <2>1 DEF Sent
  <2> QED BY <1>1, <1>2, <2>1, <2>3, <2>4 DEF ReplyOK
<1> QED BY <1>3, <1>4

\* However send() cuts the line, what was sent and what is left stay the same.
LEMMA ReplySend ==
  ASSUME TypeOK, NEW c \in Conn, NEW n \in 1 .. Len(line[c]), Send(c, n), ReplyOK(c)
  PROVE  ReplyOK(c)'
<1>1. /\ pc[c] = "send" /\ log' = log /\ pos' = pos /\ seekto' = seekto /\ received' = received
      /\ ferror' = ferror /\ ~ferror[c] /\ seekto[c] = Asked(c) /\ Sent(c)
  BY DEF Send, device, ReplyOK
<1>2. Contents' = Contents /\ Start(c)' = Start(c) /\ Asked(c)' = Asked(c)
  BY <1>1 DEF Contents, Start, SeekPos, Asked
<1>3. PICK r \in Seq(Tokens), p \in Seq(Tokens) : r = line[c] /\ p = reply[c]
  BY DEF TypeOK
<1>4. Len(r) \in Nat /\ n \in Nat /\ n <= Len(r) /\ n \in 0 .. Len(r)
  BY <1>3, LenProperties
<1>5. PICK u \in Seq(Tokens) : u = SubSeq(r, 1, n) /\ Len(u) = n /\ \A j \in 1 .. n : u[j] = r[j]
  <2>1. /\ SubSeq(r, 1, n) \in Seq(Tokens) /\ Len(SubSeq(r, 1, n)) = n
        /\ \A j \in 1 .. n : SubSeq(r, 1, n)[j] = r[j]
    BY <1>4, SubSeqFirst
  <2> QED BY <2>1
<1>6. PICK v \in Seq(Tokens) : /\ v = SubSeq(r, n + 1, Len(r)) /\ Len(v) = Len(r) - n
                               /\ \A j \in 1 .. Len(r) - n : v[j] = r[n + j]
  <2>1. PICK l \in Nat : l = Len(r) /\ n <= l /\ l <= Len(r)
    BY <1>4
  <2>2. /\ SubSeq(r, n + 1, l) \in Seq(Tokens) /\ Len(SubSeq(r, n + 1, l)) = IF n <= l THEN l - n ELSE 0
        /\ \A j \in 1 .. l - n : SubSeq(r, n + 1, l)[j] = r[n + j]
    BY <1>4, <2>1, SubSeqParts
  <2> QED BY <2>1, <2>2
<1>7. Cut(r, n, u, v)
  BY <1>5, <1>6 DEF Cut
<1>8. (p \o u) \o v = p \o r
  <2>1. PICK k \in 0 .. Len(r) : k = n
    BY <1>4
  <2>2. Cut(r, k, u, v)
    BY <1>7, <2>1
  <2>3. Joined(p, u, v, r)
    BY <2>2, ConcatCut
  <2> QED BY <2>3 DEF Joined
<1>9. reply'[c] = p \o u /\ line'[c] = v /\ pc'[c] = IF v = <<>> THEN "getline" ELSE "send"
  BY <1>3, <1>5, <1>6 DEF Send, Unsent, TypeOK
<1>10. reply'[c] \o line'[c] = reply[c] \o line[c]
  BY <1>3, <1>8, <1>9
<1>11. Sent(c)'
  BY <1>1, <1>2, <1>10 DEF Sent
<1> QED BY <1>1, <1>2, <1>9, <1>11 DEF ReplyOK

\* Replies are what was asked for.
LEMMA ReplyStep == TypeOK /\ LockInv /\ ReceivedInv /\ ReplyInv /\ [Next]_vars => ReplyInv'
<1> SUFFICES ASSUME TypeOK, LockInv, ReceivedInv, ReplyInv, [Next]_vars PROVE ReplyInv'
  OBVIOUS
<1>1. ASSUME NEW c \in Conn, \/ \E chunk \in Chunks : Recv(c, chunk)
                             \/ Finish(c) \/ Close(c) \/ SendFails(c)
      PROVE  ReplyInv'
  <2>1. /\ pc'[c] \in {"recv", "lock", "done", "failed"} /\ log' = log
        /\ (line'[c] = <<>> \/ (line' = line /\ pc[c] # "send"))
    BY <1>1 DEF Recv, Finish, Close, SendFails, TypeOK, device
  <2>2. line'[c] = <<>>
    BY <2>1 DEF ReplyInv, ReplyOK
  <2>3. ReplyOK(c)'
    BY <2>1, <2>2 DEF ReplyOK
  <2> QED BY <1>1, <2>1, <2>3, ReplyOwn DEF Step, Handle
<1>2. ASSUME NEW c \in Conn, Lock(c) PROVE ReplyInv'
  <2>1. /\ pc[c] = "lock" /\ pc'[c] = "file" /\ log' = log /\ line' = line /\ pos'[c] = 0
        /\ reply'[c] = <<>> /\ seekto'[c] = NULL
    BY <1>2 DEF Lock, TypeOK, device
  <2>2. line'[c] = <<>>
    BY <2>1 DEF ReplyInv, ReplyOK
  <2>3. ReplyOK(c)'
    BY <2>1, <2>2 DEF ReplyOK
  <2> QED BY <1>2, <2>1, <2>3, ReplyOwn DEF Step
<1>3. ASSUME NEW c \in Conn, Store(c) \/ StoreFails(c) PROVE ReplyInv'
  <2>1. /\ pc[c] = "file" /\ ~HasCommand(c) /\ pc'[c] \in {"file", "getline"}
        /\ UNCHANGED <<received, pos, line, reply, seekto>>
    <3>1. CASE Store(c)
      BY <3>1, StoreParts
    <3>2. CASE StoreFails(c)
      BY <3>2 DEF StoreFails, TypeOK
    <3> QED BY <1>3, <3>1, <3>2
  <2>2. line[c] = <<>> /\ pos[c] = 0 /\ reply[c] = <<>> /\ seekto[c] = NULL
    BY <2>1 DEF ReplyInv, ReplyOK
  <2>3. Asked(c) = seekto[c] /\ Asked(c)' = Asked(c)
    BY <2>1, PlainAsked DEF Asked
  <2>4. CASE pc'[c] = "getline"
    <3>1. pos'[c] = Start(c)'
      BY <2>1, <2>2 DEF Start
    <3>2. line'[c] = <<>> /\ reply'[c] = <<>> /\ seekto'[c] = Asked(c)'
      BY <2>1, <2>2, <2>3
    <3>3. ReplyOK(c)'
      BY <2>4, <3>1, <3>2, ReplyBegins
    <3> QED BY <1>3, <2>1, <3>3, ReplyOwn DEF Step, Handle, Holding
  <2>5. CASE pc'[c] # "getline"
    <3>1. ReplyOK(c)'
      BY <2>1, <2>2, <2>5 DEF ReplyOK
    <3> QED BY <1>3, <2>1, <3>1, ReplyOwn DEF Step, Handle, Holding
  <2> QED BY <2>4, <2>5
<1>4. ASSUME NEW c \in Conn, Seek(c) PROVE ReplyInv'
  <2>1. pc[c] = "file" /\ pc'[c] = "getline" /\ log' = log /\ line' = line /\ reply' = reply
    BY <1>4 DEF Seek, TypeOK, device
  <2>2. line'[c] = <<>> /\ reply'[c] = <<>>
    BY <2>1 DEF ReplyInv, ReplyOK
  <2>3. seekto'[c] = Asked(c)' /\ seekto'[c] \in Seeks /\ pos'[c] = SeekPos(seekto'[c])
    BY <1>4, SeekAsked
  <2>4. pos'[c] = Start(c)'
    BY <2>1, <2>3, ServiceAssumption DEF Start, SeekPos
  <2>5. ReplyOK(c)'
    BY <2>1, <2>2, <2>3, <2>4, ReplyBegins
  <2> QED BY <1>4, <2>1, <2>5, ReplyOwn DEF Step, Handle
<1>5. ASSUME NEW c \in Conn, GetLine(c) PROVE ReplyInv'
  <2>1. ReplyOK(c) /\ log' = log
    BY <1>5 DEF ReplyInv, GetLine, device
  <2>2. ReplyOK(c)'
    BY <1>5, <2>1, ReplyGetLine
  <2> QED BY <1>5, <2>1, <2>2, ReplyOwn DEF Step, Handle
<1>6. ASSUME NEW c \in Conn, NEW n \in 1 .. Len(line[c]), Send(c, n) PROVE ReplyInv'
  <2>1. ReplyOK(c) /\ log' = log
    BY <1>6 DEF ReplyInv, Send, device
  <2>2. ReplyOK(c)'
    BY <1>6, <2>1, ReplySend
  <2>3. Step(c)
    BY <1>6 DEF Step, Handle
  <2> QED BY <2>1, <2>2, <2>3, ReplyOwn
<1>7. CASE Crash
  <2>1. ASSUME NEW c \in Conn PROVE ReplyOK(c)'
    <3>1. pc'[c] \in {"recv", "done", "dead"} /\ line'[c] = <<>>
      BY <1>7 DEF Crash, ReceivedInv
    <3> QED BY <3>1 DEF ReplyOK
  <2> QED BY <2>1 DEF ReplyInv
<1>8. CASE UNCHANGED vars
  <2>1. UNCHANGED <<Contents, log, pc, received, ferror, pos, line, reply, seekto>>
    BY <1>8 DEF vars, thread, device, Contents
  <2>2. ASSUME NEW c \in Conn PROVE ReplyOK(c)'
    <3>1. Start(c)' = Start(c) /\ Asked(c)' = Asked(c)
      BY <2>1 DEF Start, SeekPos, Asked
    <3>2. Sent(c)' = Sent(c)
      BY <2>1, <3>1 DEF Sent
    <3> QED BY <2>1, <3>1, <3>2 DEF ReplyOK, ReplyInv
  <2> QED BY <2>2 DEF ReplyInv
<1> QED BY <1>1, <1>2, <1>3, <1>4, <1>5, <1>6, <1>7, <1>8 DEF Next, Step, Handle

-----------------------------------------------------------------------------

\* Before the first connection.
LEMMA InitIInv == Init => IInv
<1> SUFFICES ASSUME Init PROVE IInv
  OBVIOUS
<1>1. log = <<>> /\ pending = <<>>
  BY DEF Init, Device!Empty
<1>2. FlattenSeq(<<>>) = <<>>
  BY DEF FlattenSeq
<1>3. TypeOK
  BY <1>1, EmptySeq DEF Init, TypeOK
<1>4. LockInv
  BY ServiceAssumption DEF Init, LockInv, Holding
<1>5. ReceivedInv
  BY <1>2 DEF Init, ReceivedInv, Live
<1>6. RestInv
  BY DEF Init, RestInv
<1>7. CommandsAreWholePackets
  BY <1>1, EmptySeq DEF CommandsAreWholePackets
<1>8. ApartInv
  BY <1>1, EmptySeq DEF Init, ApartInv, Holding
<1>9. ReplyInv
  BY DEF Init, ReplyInv, ReplyOK
<1> QED BY <1>3, <1>4, <1>5, <1>6, <1>7, <1>8, <1>9 DEF IInv

\* The invariant holds in every reachable state.
LEMMA Invariance == Spec => []IInv
<1>1. IInv /\ [Next]_vars => IInv'
  BY TypeStep, LockStep, ReceivedStep, RestStep, WholeStep, ApartStep, ReplyStep DEF IInv
<1> QED BY InitIInv, <1>1, PTL DEF Spec

\* The variables of the service threads keep their types in every step,
\* whatever recv(), send() and the device do.
THEOREM TypeCorrect == Spec => []TypeOK
<1>1. IInv => TypeOK
  BY DEF IInv
<1> QED BY <1>1, Invariance, PTL

\* aesdsocket.c, service_thread: as long as no connection has received more than
\* a FILE's buffer holds, every command on the device is all that one connection
\* had received up to a chunk with a newline.
THEOREM PacketsAreWhole == Spec => []CommandsAreWholePackets
<1>1. IInv => CommandsAreWholePackets
  BY DEF IInv
<1> QED BY <1>1, Invariance, PTL

\* aesdsocket.c, service_thread: packets of any size keep apart on the device
\* as long as none was cut short.
THEOREM PacketsNeverMix == Spec => []PacketsStayApart
<1>1. ASSUME IInv PROVE PacketsStayApart
  <2> SUFFICES ASSUME ~torn, NEW i \in DOMAIN log
      PROVE \E c \in Conn : \E k \in 0 .. Len(FlattenSeq(received[c])) :
              IsPrefix(log[i], SubSeq(FlattenSeq(received[c]), k + 1, Len(FlattenSeq(received[c]))))
    BY <1>1 DEF IInv, ApartInv, PacketsStayApart
  <2>1. PICK c \in Conn : PartOf(log[i], FlattenSeq(received[c]))
    BY <1>1 DEF IInv, ApartInv
  <2>2. log \in Seq(Seq(Tokens)) /\ received[c] \in Seq(Seq(Tokens))
    BY <1>1, ServiceAssumption DEF IInv, TypeOK
  <2>3. PICK x \in Seq(Tokens), t \in Seq(Tokens) : x = log[i] /\ t = FlattenSeq(received[c])
    BY <2>2, FlattenType, ElementOfSeq
  <2>4. PartOf(x, t)
    BY <2>1, <2>3
  <2>5. \E k \in 0 .. Len(t) : IsPrefix(x, SubSeq(t, k + 1, Len(t)))
    BY <2>4, PartIsPrefix
  <2> QED BY <2>3, <2>5
<1> QED BY <1>1, Invariance, PTL

\* aesdsocket.c, writeback: a packet whose writeback() returned true got exactly
\* the device's bytes from the position it asked for, although getline() and
\* send() take several calls and other threads run in between, or nothing when
\* the device refused a part of it.
THEOREM ReplyIsExact == Spec => ReplyIsDeviceContents
<1>1. ASSUME IInv, [Next]_vars
      PROVE  [\A c \in Conn : pc[c] = "close" /\ pc'[c] = "recv" =>
               LET start == IF Asked(c) = NULL THEN 0 ELSE SeekPos(Asked(c))
               IN  reply[c] = IF ferror[c] THEN <<>>
                              ELSE SubSeq(Contents, start + 1, Len(Contents))]_vars
  <2>0. ASSUME NEW c \in Conn, pc[c] = "close", ferror[c] PROVE reply[c] = <<>>
    BY <1>1, <2>0 DEF IInv, ReplyInv, ReplyOK
  <2> SUFFICES ASSUME NEW c \in Conn, pc[c] = "close", ~ferror[c]
      PROVE LET start == IF Asked(c) = NULL THEN 0 ELSE SeekPos(Asked(c))
            IN  reply[c] = SubSeq(Contents, start + 1, Len(Contents))
    BY <2>0
  <2>1. ReplyOK(c) /\ TypeOK
    BY <1>1 DEF IInv, ReplyInv
  <2>2. line[c] = <<>> /\ seekto[c] = Asked(c) /\ Sent(c) /\ pos[c] >= Len(Contents)
    BY <2>1 DEF ReplyOK
  <2>3. PICK C \in Seq(Tokens) : C = Contents
    BY <2>1, FlattenType DEF Contents, TypeOK
  <2>4. PICK L \in Nat, q \in Nat, a \in Nat : L = Len(C) /\ q = pos[c] /\ a = Start(c)
    BY <2>1, StartType, LenProperties DEF TypeOK
  <2>5. PICK p \in Seq(Tokens) : p = reply[c] /\ p \o <<>> = p
    BY <2>1, ConcatEmptySeq DEF TypeOK
  <2>6. q >= L /\ (\/ q = a /\ p = <<>>
                   \/ q <= L /\ p = SubSeq(C, a + 1, q))
    BY <2>2, <2>3, <2>4, <2>5 DEF Sent
  <2>7. p = SubSeq(C, a + 1, L)
    <3>1. CASE q = a /\ p = <<>>
      <4>1. L < a + 1 /\ a + 1 \in Int /\ L \in Int
        BY <2>6, <3>1
      <4>2. SubSeq(C, a + 1, L) = <<>>
        BY <4>1, SubSeqEmpty
      <4> QED BY <3>1, <4>2
    <3>2. CASE q <= L /\ p = SubSeq(C, a + 1, q)
      <4>1. q = L
        BY <2>6, <3>2
      <4> QED BY <3>2, <4>1
    <3> QED BY <2>6, <3>1, <3>2
  <2>8. a = IF Asked(c) = NULL THEN 0 ELSE SeekPos(Asked(c))
    BY <2>2, <2>4 DEF Start
  <2> QED BY <2>3, <2>4, <2>5, <2>7, <2>8
<1> QED BY <1>1, Invariance, PTL DEF Spec, ReplyIsDeviceContents

=============================================================================
