--------------------------- MODULE ListenerProofs ---------------------------
(***************************************************************************)
(* Proofs about the accept loop and its list of service threads, for any   *)
(* number of connections and list entries.                                 *)
(*                                                                         *)
(* The list is described by the sequence of its entries, s[1] .. s[n]:     *)
(* what an insertion and a removal do to the pointers is proved about that *)
(* sequence, without the rest of the state.                                *)
(***************************************************************************)
EXTENDS Listener, FiniteSetTheorems, NaturalsInduction, TLAPS

\* The pointer hd and the pointers nx link the different entries s[1] .. s[n].
IsList(hd, nx, n, s) ==
  /\ hd = IF n = 0 THEN NULL ELSE s[1]
  /\ \A i \in 1 .. n : nx[s[i]] = IF i = n THEN NULL ELSE s[i + 1]
  /\ \A i, j \in 1 .. n : s[i] = s[j] => i = j

Members(n, s) == {s[i] : i \in 1 .. n}

\* The list after an insertion at its head, and after its entry k is removed.
Pushed(n, s, e)  == [i \in 1 .. n + 1 |-> IF i = 1 THEN e ELSE s[i - 1]]
Dropped(n, s, k) == [i \in 1 .. n - 1 |-> IF i < k THEN s[i] ELSE s[i + 1]]

\* The entries on the list: all but the one that is about to be inserted.
Listed == IF main = "insert" THEN allocated \ {p_slist_entry} ELSE allocated

\* The list is s[1] .. s[n].
ListIs(n, s) ==
  /\ IsList(head, next, n, s)
  /\ Members(n, s) = Listed

ListInv == \E n \in Nat : \E s \in [1 .. n -> Entry] : ListIs(n, s)

\* The entries are those of the threads that run or wait to be joined, each with
\* its own, and the flag says which of them are done.
ThreadInv ==
  /\ allocated = {p_arg[c] : c \in Started}
  /\ \A c, d \in Started : p_arg[c] = p_arg[d] => c = d
  /\ \A c \in Started : b_is_thread_complete[p_arg[c]] <=> thread[c] # "running"

\* What main holds between two of its steps. The scan is at an entry of the list
\* or at its end, whatever the read of a freed entry found.
MainInv ==
  /\ main = "spawn" => h_recvfd \in Conn /\ thread[h_recvfd] = "none"
  /\ main = "insert" => p_slist_entry \in allocated
  /\ main = "scan" => p_slist_entry \in allocated \cup {NULL}
  /\ main = "exited" => allocated = {} /\ (exit_code = 0 <=> ~b_accept_connections)

\* The inductive invariant.
IInv == TypeOK /\ ListInv /\ ThreadInv /\ MainInv

-----------------------------------------------------------------------------
(* The list.                                                               *)

\* The pointers after SLIST_INSERT_HEAD of e.
Linked(nx, e, hd) == [nx EXCEPT ![e] = hd]

\* SLIST_INSERT_HEAD of an entry that is not on the list.
LEMMA PushList ==
  ASSUME NEW n \in Nat, NEW s \in [1 .. n -> Entry],
         NEW hd, NEW nx \in [Entry -> Entry \cup {NULL}], IsList(hd, nx, n, s),
         NEW e \in Entry, e \notin Members(n, s)
  PROVE  /\ Pushed(n, s, e) \in [1 .. n + 1 -> Entry]
         /\ IsList(e, Linked(nx, e, hd), n + 1, Pushed(n, s, e))
         /\ Members(n + 1, Pushed(n, s, e)) = Members(n, s) \cup {e}
<1> DEFINE t == Pushed(n, s, e)
<1>1. t \in [1 .. n + 1 -> Entry] /\ t[1] = e
  BY DEF Pushed
<1>2. \A i \in 1 .. n : i + 1 \in 1 .. n + 1 /\ t[i + 1] = s[i]
  BY DEF Pushed
<1>3. \A i \in 1 .. n + 1 : i # 1 => i - 1 \in 1 .. n /\ t[i] = s[i - 1]
  BY DEF Pushed
<1>4. \A i \in 1 .. n : s[i] \in Entry /\ s[i] # e
  BY DEF Members
<1> HIDE DEF t
<1>5. Members(n + 1, t) = Members(n, s) \cup {e}
  <2>1. ASSUME NEW x \in Members(n + 1, t) PROVE x \in Members(n, s) \cup {e}
    BY <1>1, <1>3 DEF Members
  <2>2. ASSUME NEW x \in Members(n, s) PROVE x \in Members(n + 1, t)
    BY <1>2 DEF Members
  <2>3. e \in Members(n + 1, t)
    BY <1>1 DEF Members
  <2> QED BY <2>1, <2>2, <2>3
<1>6. ASSUME NEW i \in 1 .. n + 1
      PROVE  Linked(nx, e, hd)[t[i]] = IF i = n + 1 THEN NULL ELSE t[i + 1]
  <2>1. CASE i = 1
    <3>1. Linked(nx, e, hd)[t[i]] = hd
      BY <1>1, <2>1 DEF Linked
    <3>2. n # 0 => t[2] = s[1] /\ 1 # n + 1
      BY <1>2
    <3> QED BY <2>1, <3>1, <3>2 DEF IsList
  <2>2. CASE i # 1
    <3>1. PICK j \in 1 .. n : i = j + 1
      BY <2>2
    <3>2. Linked(nx, e, hd)[t[i]] = nx[s[j]]
      BY <1>2, <1>4, <3>1 DEF Linked
    <3>3. nx[s[j]] = IF j = n THEN NULL ELSE s[j + 1]
      BY DEF IsList
    <3>4. j # n => j + 1 \in 1 .. n /\ t[(j + 1) + 1] = s[j + 1]
      BY <1>2
    <3> QED BY <3>1, <3>2, <3>3, <3>4
  <2> QED BY <2>1, <2>2
<1>7. ASSUME NEW i \in 1 .. n + 1, NEW j \in 1 .. n + 1, t[i] = t[j] PROVE i = j
  <2>1. CASE i = 1 \/ j = 1
    BY <1>1, <1>3, <1>4, <1>7, <2>1
  <2>2. CASE i # 1 /\ j # 1
    <3>1. PICK a \in 1 .. n, b \in 1 .. n : i = a + 1 /\ j = b + 1
      BY <2>2
    <3>2. s[a] = s[b]
      BY <1>2, <1>7, <3>1
    <3> QED BY <3>1, <3>2 DEF IsList
  <2> QED BY <2>1, <2>2
<1>8. IsList(e, Linked(nx, e, hd), n + 1, t)
  BY <1>1, <1>6, <1>7 DEF IsList
<1> QED BY <1>1, <1>5, <1>8 DEF t

\* The pointers after SLIST_REMOVE of e from a list of entries in A.
Unlinked(nx, A, e) == [f \in Entry |-> IF f \in A /\ nx[f] = e THEN nx[e] ELSE nx[f]]

\* SLIST_REMOVE of entry k, and SLIST_REMOVE_HEAD when k is 1.
LEMMA DropList ==
  ASSUME NEW n \in Nat, NEW s \in [1 .. n -> Entry],
         NEW hd, NEW nx \in [Entry -> Entry \cup {NULL}], IsList(hd, nx, n, s),
         NEW k \in 1 .. n
  PROVE  /\ n - 1 \in Nat
         /\ Dropped(n, s, k) \in [1 .. n - 1 -> Entry]
         /\ Members(n - 1, Dropped(n, s, k)) = Members(n, s) \ {s[k]}
         /\ k = 1 => IsList(nx[s[k]], nx, n - 1, Dropped(n, s, k))
         /\ k # 1 => IsList(hd, Unlinked(nx, Members(n, s), s[k]), n - 1, Dropped(n, s, k))
<1> DEFINE t == Dropped(n, s, k)
           place(i) == IF i < k THEN i ELSE i + 1
<1>1. n - 1 \in Nat
  OBVIOUS
<1>2. \A i \in 1 .. n - 1 : place(i) \in 1 .. n /\ place(i) # k /\ t[i] = s[place(i)]
  BY DEF Dropped
<1>3. t \in [1 .. n - 1 -> Entry]
  BY DEF Dropped
<1>4. \A i, j \in 1 .. n : s[i] = s[j] => i = j
  BY DEF IsList
<1>5. \A i \in 1 .. n : nx[s[i]] = IF i = n THEN NULL ELSE s[i + 1]
  BY DEF IsList
<1>6. hd = s[1] /\ s[1] \in Entry
  BY DEF IsList
<1>7. \A i \in 1 .. n : s[i] \in Entry /\ s[i] # NULL /\ s[i] \in Members(n, s)
  BY ListenerAssumption DEF Members
<1>8. \A i \in 1 .. n : i # k => \E j \in 1 .. n - 1 : place(j) = i
  <2> SUFFICES ASSUME NEW i \in 1 .. n, i # k PROVE \E j \in 1 .. n - 1 : place(j) = i
    OBVIOUS
  <2>1. CASE i < k
    BY <2>1
  <2>2. CASE i > k
    <3>1. i - 1 \in 1 .. n - 1 /\ ~(i - 1 < k) /\ (i - 1) + 1 = i
      BY <2>2
    <3> QED BY <3>1
  <2> QED BY <2>1, <2>2
<1>9. Members(n - 1, t) = Members(n, s) \ {s[k]}
  <2> HIDE DEF t
  <2>1. ASSUME NEW x \in Members(n - 1, t) PROVE x \in Members(n, s) \ {s[k]}
    <3>1. PICK i \in 1 .. n - 1 : x = t[i]
      BY DEF Members
    <3>2. PICK j \in 1 .. n : j = place(i) /\ j # k /\ x = s[j]
      BY <1>2, <3>1
    <3> QED BY <1>4, <1>7, <3>2
  <2>2. ASSUME NEW x \in Members(n, s) \ {s[k]} PROVE x \in Members(n - 1, t)
    <3>1. PICK i \in 1 .. n : x = s[i] /\ i # k
      BY DEF Members
    <3>2. PICK j \in 1 .. n - 1 : place(j) = i
      BY <1>8, <3>1
    <3> QED BY <1>2, <3>1, <3>2 DEF Members
  <2> QED BY <2>1, <2>2
<1>10. \A i, j \in 1 .. n - 1 : t[i] = t[j] => i = j
  <2> HIDE DEF t
  <2> SUFFICES ASSUME NEW i \in 1 .. n - 1, NEW j \in 1 .. n - 1, t[i] = t[j] PROVE i = j
    OBVIOUS
  <2>1. place(i) = place(j)
    BY <1>2, <1>4
  <2> QED BY <2>1
<1>11. CASE k = 1
  <2>1. \A i \in 1 .. n - 1 : i + 1 \in 1 .. n /\ t[i] = s[i + 1]
    BY <1>11 DEF Dropped
  <2> HIDE DEF t
  <2>2. ASSUME NEW i \in 1 .. n - 1 PROVE nx[t[i]] = IF i = n - 1 THEN NULL ELSE t[i + 1]
    <3>1. nx[s[i + 1]] = IF i + 1 = n THEN NULL ELSE s[(i + 1) + 1]
      BY <1>5, <2>1
    <3>2. i # n - 1 => t[i + 1] = s[(i + 1) + 1] /\ i + 1 # n
      BY <2>1
    <3> QED BY <2>1, <3>1, <3>2
  <2>3. nx[s[1]] = IF n - 1 = 0 THEN NULL ELSE t[1]
    <3>1. nx[s[1]] = IF 1 = n THEN NULL ELSE s[2]
      BY <1>5
    <3>2. n - 1 # 0 => t[1] = s[2]
      BY <2>1
    <3> QED BY <3>1, <3>2
  <2>4. IsList(nx[s[k]], nx, n - 1, t)
    BY <1>10, <1>11, <2>2, <2>3 DEF IsList
  <2> QED BY <1>1, <1>3, <1>9, <1>11, <2>4 DEF t
<1>12. CASE k # 1
  <2> DEFINE ux == Unlinked(nx, Members(n, s), s[k])
  <2>1. \A i \in 1 .. n : ux[s[i]] = IF nx[s[i]] = s[k] THEN nx[s[k]] ELSE nx[s[i]]
    BY <1>7 DEF Unlinked
  <2>2. \A i \in 1 .. n : nx[s[i]] = s[k] <=> i + 1 = k
    <3> SUFFICES ASSUME NEW i \in 1 .. n PROVE nx[s[i]] = s[k] <=> i + 1 = k
      OBVIOUS
    <3>1. CASE i = n
      BY <1>5, <1>7, <3>1
    <3>2. CASE i # n
      <4>1. i + 1 \in 1 .. n /\ nx[s[i]] = s[i + 1]
        BY <1>5, <3>2
      <4> QED BY <1>4, <4>1
    <3> QED BY <3>1, <3>2
  <2> HIDE DEF t, ux
  <2>3. ASSUME NEW i \in 1 .. n - 1 PROVE ux[t[i]] = IF i = n - 1 THEN NULL ELSE t[i + 1]
    <3>1. CASE i + 1 < k
      <4>1. i \in 1 .. n /\ t[i] = s[i] /\ i # n - 1 /\ i + 1 \in 1 .. n - 1 /\ t[i + 1] = s[i + 1] /\ i # n /\ i + 1 # k
        BY <1>2, <3>1
      <4> QED BY <1>5, <2>1, <2>2, <4>1
    <3>2. CASE i + 1 = k
      <4>1. i \in 1 .. n /\ t[i] = s[i] /\ (i # n - 1 => i + 1 \in 1 .. n - 1 /\ t[i + 1] = s[k + 1])
        BY <1>2, <3>2
      <4>2. nx[s[k]] = IF k = n THEN NULL ELSE s[k + 1]
        BY <1>5
      <4> QED BY <2>1, <2>2, <3>2, <4>1, <4>2
    <3>3. CASE i + 1 > k
      <4>1. PICK j \in 1 .. n : j = i + 1
        OBVIOUS
      <4>2. t[i] = s[j] /\ j + 1 # k
        BY <1>2, <3>3, <4>1
      <4>3. i # n - 1 => t[i + 1] = s[j + 1] /\ j # n
        BY <1>2, <3>3, <4>1
      <4>4. ux[s[j]] = IF j = n THEN NULL ELSE s[j + 1]
        BY <1>5, <2>1, <2>2, <4>2
      <4> QED BY <4>1, <4>2, <4>3, <4>4
    <3> QED BY <3>1, <3>2, <3>3
  <2>4. hd = IF n - 1 = 0 THEN NULL ELSE t[1]
    BY <1>2, <1>6, <1>12
  <2>5. IsList(hd, ux, n - 1, t)
    BY <1>10, <2>3, <2>4 DEF IsList
  <2> QED BY <1>1, <1>3, <1>9, <1>12, <2>5 DEF t, ux
<1> QED BY <1>11, <1>12

-----------------------------------------------------------------------------
(* The invariant.                                                          *)

\* No connection yet.
LEMMA InitIInv == Init => IInv
<1> SUFFICES ASSUME Init PROVE IInv
  OBVIOUS
<1>1. TypeOK /\ MainInv
  BY DEF Init, TypeOK, MainInv
<1>2. ThreadInv
  BY DEF Init, ThreadInv, Started
<1>3. ListInv
  <2> DEFINE s == [i \in 1 .. 0 |-> NULL]
  <2>1. s \in [1 .. 0 -> Entry] /\ IsList(head, next, 0, s)
    BY DEF Init, IsList
  <2>2. Members(0, s) = Listed
    BY DEF Init, Members, Listed
  <2> HIDE DEF s
  <2> QED BY <2>1, <2>2 DEF ListInv, ListIs
<1> QED BY <1>1, <1>2, <1>3 DEF IInv

\* A step that leaves the list alone.
LEMMA ListFrame ==
  ASSUME ListInv, UNCHANGED <<head, next, Listed>>
  PROVE  ListInv'
<1>1. PICK n \in Nat : \E s \in [1 .. n -> Entry] : ListIs(n, s)
  BY DEF ListInv
<1>2. PICK s \in [1 .. n -> Entry] : ListIs(n, s)
  BY <1>1
<1>3. IsList(head, next, n, s)' /\ (Members(n, s) = Listed)'
  BY <1>2 DEF IsList, Members, ListIs
<1> QED BY <1>3 DEF ListInv, ListIs

\* The head of a list that holds every entry is one of them, or NULL.
LEMMA HeadListed ==
  ASSUME ListInv, main # "insert"
  PROVE  head \in allocated \cup {NULL}
<1>1. PICK n \in Nat : \E s \in [1 .. n -> Entry] : ListIs(n, s)
  BY DEF ListInv
<1>2. PICK s \in [1 .. n -> Entry] : ListIs(n, s)
  BY <1>1
<1> QED BY <1>2 DEF ListIs, IsList, Members, Listed

\* What follows an entry of the list is an entry of it, or NULL.
LEMMA NextListed ==
  ASSUME ListInv, main # "insert", NEW e \in allocated
  PROVE  next[e] \in allocated \cup {NULL}
<1>1. PICK n \in Nat : \E s \in [1 .. n -> Entry] : ListIs(n, s)
  BY DEF ListInv
<1>2. PICK s \in [1 .. n -> Entry] : ListIs(n, s)
  BY <1>1
<1>3. PICK k \in 1 .. n : e = s[k]
  BY <1>2 DEF ListIs, Members, Listed
<1>4. next[s[k]] = IF k = n THEN NULL ELSE s[k + 1]
  BY <1>2 DEF ListIs, IsList
<1>5. k # n => k + 1 \in 1 .. n
  OBVIOUS
<1> QED BY <1>2, <1>3, <1>4, <1>5 DEF ListIs, Members, Listed

\* The thread of an entry is joined and the entry freed.
LEMMA ReleaseThreads ==
  ASSUME TypeOK, ThreadInv, NEW e \in allocated, Release(e)
  PROVE  /\ ThreadInv'
         /\ thread' \in [Conn -> {"none", "running", "flagged", "ended", "joined"}]
<1>1. \A c \in Conn : thread'[c] = IF p_arg[c] = e /\ thread[c] = "ended" THEN "joined" ELSE thread[c]
  BY DEF Release
<1>2. /\ thread' \in [Conn -> {"none", "running", "flagged", "ended", "joined"}]
      /\ UNCHANGED <<p_arg, b_is_thread_complete>> /\ allocated' = allocated \ {e}
  BY DEF Release, TypeOK
<1>3. \A c \in Conn : p_arg[c] = e => thread[c] \in {"ended", "joined"}
  BY DEF Release, Joined
<1>4. Started' = {c \in Started : p_arg[c] # e}
  BY <1>1, <1>3 DEF Started
<1>5. \A c \in Started' : thread'[c] = thread[c]
  BY <1>1, <1>4 DEF Started
<1>6. ThreadInv'
  <2>1. allocated' = {p_arg[c] : c \in Started'}
    BY <1>2, <1>4 DEF ThreadInv
  <2>2. \A c, d \in Started' : p_arg[c] = p_arg[d] => c = d
    BY <1>4 DEF ThreadInv
  <2>3. \A c \in Started' : b_is_thread_complete[p_arg[c]] <=> thread'[c] # "running"
    BY <1>4, <1>5 DEF ThreadInv
  <2> QED BY <1>2, <2>1, <2>2, <2>3 DEF ThreadInv
<1> QED BY <1>2, <1>6

\* A step of a service thread.
LEMMA ThreadStepIInv ==
  ASSUME IInv, NEW c \in Conn, ThreadStep(c)
  PROVE  IInv'
<1>1. CASE SetComplete(c)
  <2> USE <1>1 DEF SetComplete, list
  <2>1. c \in Started /\ p_arg[c] \in allocated /\ p_arg[c] \in Entry
    BY DEF IInv, ThreadInv, Started, TypeOK
  <2>2. TypeOK'
    BY <2>1 DEF IInv, TypeOK
  <2>3. Started' = Started
    BY DEF IInv, TypeOK, Started
  <2>4. ThreadInv'
    BY <2>1, <2>3 DEF IInv, TypeOK, ThreadInv, Started
  <2>5. MainInv'
    BY DEF IInv, TypeOK, MainInv, Alive
  <2>6. ListInv'
    <3>1. UNCHANGED <<head, next, Listed>>
      BY DEF Listed
    <3> QED BY <3>1, ListFrame DEF IInv
  <2> QED BY <2>2, <2>4, <2>5, <2>6 DEF IInv
<1>2. CASE ThreadReturns(c)
  <2> USE <1>2 DEF ThreadReturns, list
  <2>1. TypeOK'
    BY DEF IInv, TypeOK
  <2>2. Started' = Started /\ c \in Started
    BY DEF IInv, TypeOK, Started
  <2>3. ThreadInv'
    BY <2>2 DEF IInv, TypeOK, ThreadInv, Started
  <2>4. MainInv'
    BY DEF IInv, TypeOK, MainInv, Alive
  <2>5. ListInv'
    <3>1. UNCHANGED <<head, next, Listed>>
      BY DEF Listed
    <3> QED BY <3>1, ListFrame DEF IInv
  <2> QED BY <2>1, <2>3, <2>4, <2>5 DEF IInv
<1> QED BY <1>1, <1>2 DEF ThreadStep

\* A thread is started; its entry is not on the list yet.
LEMMA SpawnIInv ==
  ASSUME IInv, NEW e \in Entry, SpawnThread(e)
  PROVE  IInv'
<1> USE DEF SpawnThread
<1>1. /\ h_recvfd \in Conn /\ thread[h_recvfd] = "none" /\ e \notin allocated /\ TypeOK
      /\ \A c \in Conn : c # h_recvfd => thread'[c] = thread[c] /\ p_arg'[c] = p_arg[c]
      /\ thread'[h_recvfd] = "running" /\ p_arg'[h_recvfd] = e
  BY DEF IInv, MainInv, TypeOK
<1>2. TypeOK'
  BY <1>1 DEF TypeOK
<1>3. Started' = Started \cup {h_recvfd} /\ h_recvfd \notin Started
  BY <1>1 DEF Started
<1>4. \A c \in Started : p_arg'[c] = p_arg[c] /\ p_arg[c] \in allocated /\ thread'[c] = thread[c] /\ p_arg[c] # e
  BY <1>1, <1>3 DEF IInv, ThreadInv, Started
<1>5. ThreadInv'
  <2>1. allocated' = {p_arg'[c] : c \in Started'}
    BY <1>1, <1>3, <1>4 DEF IInv, ThreadInv
  <2>2. \A c, d \in Started' : p_arg'[c] = p_arg'[d] => c = d
    BY <1>1, <1>3, <1>4 DEF IInv, ThreadInv
  <2>3. \A c \in Started' : b_is_thread_complete'[p_arg'[c]] <=> thread'[c] # "running"
    <3>1. b_is_thread_complete'[e] = FALSE /\ \A f \in Entry : f # e => b_is_thread_complete'[f] = b_is_thread_complete[f]
      BY <1>1 DEF TypeOK
    <3> QED BY <1>1, <1>3, <1>4, <3>1 DEF IInv, ThreadInv, TypeOK
  <2> QED BY <2>1, <2>2, <2>3 DEF ThreadInv
<1>6. MainInv'
  BY DEF MainInv
<1>7. ListInv'
  <2>1. Listed' = Listed
    BY <1>1 DEF Listed
  <2> QED BY <2>1, ListFrame DEF IInv
<1> QED BY <1>2, <1>5, <1>6, <1>7 DEF IInv

\* The new entry is put at the head of the list.
LEMMA InsertIInv ==
  ASSUME IInv, Insert
  PROVE  IInv'
<1> USE DEF Insert, ScanFrom, worker
<1>1. TypeOK /\ p_slist_entry \in allocated /\ p_slist_entry \in Entry
  BY DEF IInv, MainInv, TypeOK
<1>2. TypeOK'
  BY <1>1 DEF TypeOK
<1>3. ThreadInv' /\ MainInv'
  BY DEF IInv, ThreadInv, MainInv, Started
<1>4. PICK n \in Nat : \E s \in [1 .. n -> Entry] : ListIs(n, s)
  BY DEF IInv, ListInv
<1>5. PICK s \in [1 .. n -> Entry] : ListIs(n, s)
  BY <1>4
<1>6. IsList(head, next, n, s) /\ Members(n, s) = allocated \ {p_slist_entry}
  BY <1>5 DEF ListIs, Listed
<1>7. PICK e \in Entry, hd \in Entry \cup {NULL}, nx \in [Entry -> Entry \cup {NULL}] :
        e = p_slist_entry /\ hd = head /\ nx = next
  BY <1>1 DEF TypeOK
<1>8. /\ Pushed(n, s, e) \in [1 .. n + 1 -> Entry]
      /\ IsList(e, Linked(nx, e, hd), n + 1, Pushed(n, s, e))
      /\ Members(n + 1, Pushed(n, s, e)) = Members(n, s) \cup {e}
  <2>1. IsList(hd, nx, n, s) /\ e \notin Members(n, s)
    BY <1>6, <1>7
  <2> QED BY <2>1, PushList
<1>9. IsList(head', next', n + 1, Pushed(n, s, e)) /\ Members(n + 1, Pushed(n, s, e)) = allocated
  BY <1>1, <1>6, <1>7, <1>8 DEF Linked
<1>10. ListInv'
  <2>1. PICK m \in Nat, t \in [1 .. n + 1 -> Entry] : m = n + 1 /\ t = Pushed(n, s, e)
    BY <1>8
  <2>2. t \in [1 .. m -> Entry] /\ IsList(head', next', m, t) /\ Members(m, t) = allocated
    BY <1>9, <2>1
  <2>3. IsList(head, next, m, t)' /\ (Members(m, t) = Listed)'
    BY <2>2 DEF Members, Listed, IsList
  <2> QED BY <2>2, <2>3 DEF ListInv, ListIs
<1> QED BY <1>2, <1>3, <1>10 DEF IInv

\* malloc or pthread_create failed, and the scan begins all the same.
LEMMA SpawnFailsIInv ==
  ASSUME IInv, SpawnFails
  PROVE  IInv'
<1> USE DEF SpawnFails, ScanFrom, worker
<1>1. TypeOK'
  BY DEF IInv, TypeOK
<1>2. ThreadInv'
  BY DEF IInv, ThreadInv, Started
<1>3. MainInv'
  BY HeadListed DEF IInv, MainInv
<1>4. ListInv'
  <2>1. UNCHANGED <<head, next, Listed>>
    BY DEF Listed
  <2> QED BY <2>1, ListFrame DEF IInv
<1> QED BY <1>1, <1>2, <1>3, <1>4 DEF IInv

\* The scan passes over a thread that is not complete.
LEMMA ScanSkipIInv ==
  ASSUME IInv, ScanSkip
  PROVE  IInv'
<1> USE DEF ScanSkip, worker
<1>1. TypeOK'
  BY DEF IInv, TypeOK
<1>2. ThreadInv'
  BY DEF IInv, ThreadInv, Started
<1>3. MainInv'
  BY NextListed DEF IInv, MainInv
<1>4. ListInv'
  <2>1. UNCHANGED <<head, next, Listed>>
    BY DEF Listed
  <2> QED BY <2>1, ListFrame DEF IInv
<1> QED BY <1>1, <1>2, <1>3, <1>4 DEF IInv

\* The scan joins a thread, unlinks and frees its entry and goes on wherever the
\* freed entry points to.
LEMMA ReapIInv ==
  ASSUME IInv, Reap
  PROVE  IInv'
<1> USE DEF Reap
<1>1. TypeOK /\ p_slist_entry \in Entry
  BY DEF IInv, TypeOK
<1>2. PICK n \in Nat : \E s \in [1 .. n -> Entry] : ListIs(n, s)
  BY DEF IInv, ListInv
<1>3. PICK s \in [1 .. n -> Entry] : ListIs(n, s)
  BY <1>2
<1>4. p_slist_entry \in Members(n, s)
  BY <1>3 DEF IInv, MainInv, ListIs, Listed
<1>5. PICK k \in 1 .. n : p_slist_entry = s[k] /\ s[k] \in Entry
  BY <1>1, <1>4 DEF Members
<1>6. IsList(head, next, n, s) /\ Members(n, s) = allocated /\ s[k] \in allocated
  <2>1. IsList(head, next, n, s) /\ Members(n, s) = allocated
    BY <1>3 DEF ListIs, Listed
  <2>2. s[k] \in Members(n, s)
    BY <1>5 DEF Members
  <2> QED BY <2>1, <2>2
<1>7. PICK hd \in Entry \cup {NULL}, nx \in [Entry -> Entry \cup {NULL}] : hd = head /\ nx = next
  BY <1>1 DEF TypeOK
<1>8. /\ n - 1 \in Nat
      /\ Dropped(n, s, k) \in [1 .. n - 1 -> Entry]
      /\ Members(n - 1, Dropped(n, s, k)) = Members(n, s) \ {s[k]}
      /\ k = 1 => IsList(nx[s[k]], nx, n - 1, Dropped(n, s, k))
      /\ k # 1 => IsList(hd, Unlinked(nx, Members(n, s), s[k]), n - 1, Dropped(n, s, k))
  <2>1. IsList(hd, nx, n, s)
    BY <1>6, <1>7
  <2> QED BY <1>5, <2>1, DropList
<1>9. /\ Release(s[k]) /\ SLIST_REMOVE(s[k])
      /\ p_slist_entry' \in {next[s[k]], NULL} \cup (allocated \ {s[k]})
  BY <1>5 DEF AfterFree
<1>10. /\ ThreadInv'
       /\ thread' \in [Conn -> {"none", "running", "flagged", "ended", "joined"}]
  BY <1>6, <1>9, ReleaseThreads DEF IInv
<1>11. allocated' = allocated \ {s[k]} /\ UNCHANGED <<p_arg, b_is_thread_complete>>
  BY <1>9 DEF Release
<1>12. head' \in Entry \cup {NULL} /\ next' \in [Entry -> Entry \cup {NULL}]
  <2>1. next[s[k]] \in Entry \cup {NULL}
    BY <1>1, <1>5 DEF TypeOK
  <2> QED BY <1>1, <1>9, <2>1 DEF SLIST_REMOVE, TypeOK
<1>13. TypeOK'
  <2>1. p_slist_entry' \in Entry \cup {NULL}
    BY <1>1, <1>5, <1>9 DEF TypeOK
  <2> QED BY <1>1, <1>10, <1>11, <1>12, <2>1 DEF TypeOK
<1>14. MainInv'
  <2>1. next[s[k]] # s[k]
    BY <1>5, <1>6, ListenerAssumption DEF IsList
  <2>2. next[s[k]] \in allocated \cup {NULL}
    BY <1>6, NextListed DEF IInv
  <2>3. p_slist_entry' \in allocated' \cup {NULL}
    BY <1>9, <1>11, <2>1, <2>2
  <2> QED BY <2>3 DEF MainInv
<1>15. PICK m \in Nat, t \in [1 .. n - 1 -> Entry] : m = n - 1 /\ t = Dropped(n, s, k)
  BY <1>8
<1>16. IsList(head', next', m, t)
  <2>1. head = s[1] /\ (head = s[k] <=> k = 1)
    BY <1>5, <1>6 DEF IsList
  <2>2. CASE k = 1
    <3>1. head' = nx[s[k]] /\ next' = nx
      BY <1>7, <1>9, <2>1, <2>2 DEF SLIST_REMOVE
    <3> QED BY <1>8, <1>15, <2>2, <3>1
  <2>3. CASE k # 1
    <3>1. head' = hd /\ next' = Unlinked(nx, allocated, s[k])
      BY <1>7, <1>9, <2>1, <2>3 DEF SLIST_REMOVE, Unlinked
    <3> QED BY <1>6, <1>8, <1>15, <2>3, <3>1
  <2> QED BY <2>2, <2>3
<1>17. Members(m, t) = Listed'
  BY <1>6, <1>8, <1>11, <1>15 DEF Listed
<1>18. ListInv'
  <2>1. t \in [1 .. m -> Entry]
    BY <1>15
  <2>2. IsList(head, next, m, t)' /\ (Members(m, t) = Listed)'
    BY <1>16, <1>17 DEF Members, IsList
  <2> QED BY <2>1, <2>2 DEF ListInv, ListIs
<1> QED BY <1>10, <1>13, <1>14, <1>18 DEF IInv

\* After the loop the head of the list is joined, unlinked and freed.
LEMMA DrainIInv ==
  ASSUME IInv, Drain
  PROVE  IInv'
<1> USE DEF Drain
<1>1. TypeOK /\ head \in Entry
  BY DEF IInv, TypeOK
<1>2. PICK n \in Nat : \E s \in [1 .. n -> Entry] : ListIs(n, s)
  BY DEF IInv, ListInv
<1>3. PICK s \in [1 .. n -> Entry] : ListIs(n, s)
  BY <1>2
<1>4. IsList(head, next, n, s) /\ Members(n, s) = allocated
  BY <1>3 DEF ListIs, Listed
<1>5. 1 \in 1 .. n /\ head = s[1] /\ s[1] \in allocated
  BY <1>4 DEF IsList, Members
<1>6. PICK hd \in Entry \cup {NULL}, nx \in [Entry -> Entry \cup {NULL}] : hd = head /\ nx = next
  BY <1>1 DEF TypeOK
<1>7. /\ n - 1 \in Nat
      /\ Dropped(n, s, 1) \in [1 .. n - 1 -> Entry]
      /\ Members(n - 1, Dropped(n, s, 1)) = Members(n, s) \ {s[1]}
      /\ IsList(nx[s[1]], nx, n - 1, Dropped(n, s, 1))
  <2>1. IsList(hd, nx, n, s)
    BY <1>4, <1>6
  <2> QED BY <1>5, <2>1, DropList
<1>8. /\ ThreadInv'
      /\ thread' \in [Conn -> {"none", "running", "flagged", "ended", "joined"}]
  BY <1>5, ReleaseThreads DEF IInv
<1>9. allocated' = allocated \ {s[1]} /\ UNCHANGED <<p_arg, b_is_thread_complete>>
  BY <1>5 DEF Release
<1>10. TypeOK'
  BY <1>1, <1>8, <1>9 DEF TypeOK
<1>11. MainInv'
  BY DEF MainInv
<1>12. PICK m \in Nat, t \in [1 .. n - 1 -> Entry] : m = n - 1 /\ t = Dropped(n, s, 1)
  BY <1>7
<1>13. ListInv'
  <2>1. t \in [1 .. m -> Entry]
    BY <1>12
  <2>2. IsList(head', next', m, t) /\ Members(m, t) = Listed'
    BY <1>4, <1>5, <1>6, <1>7, <1>9, <1>12 DEF Listed
  <2>3. IsList(head, next, m, t)' /\ (Members(m, t) = Listed)'
    BY <2>2 DEF Members, IsList
  <2> QED BY <2>1, <2>3 DEF ListInv, ListIs
<1> QED BY <1>8, <1>10, <1>11, <1>13 DEF IInv

\* The steps of main that leave the list and the threads alone, and the signal.
LEMMA QuietIInv ==
  ASSUME IInv, \/ signal_handler \/ Check \/ EnterAccept \/ AcceptFails
               \/ ScanEnd \/ ReapWild \/ UNCHANGED vars
               \/ \E c \in Conn : Accept(c)
  PROVE  IInv'
<1> USE DEF signal_handler, Check, EnterAccept, AcceptFails, ScanEnd, ReapWild, Accept,
            vars, list, worker
<1>1. UNCHANGED <<allocated, head, next, p_slist_entry, thread, p_arg, b_is_thread_complete>>
  OBVIOUS
<1>2. TypeOK'
  BY DEF IInv, TypeOK
<1>3. ThreadInv'
  BY <1>1 DEF IInv, ThreadInv, Started
<1>4. MainInv'
  BY DEF IInv, MainInv
<1>5. main' = "insert" <=> main = "insert"
  OBVIOUS
<1>6. ListInv'
  <2>1. UNCHANGED <<head, next, Listed>>
    BY <1>1, <1>5 DEF Listed
  <2> QED BY <2>1, ListFrame DEF IInv
<1> QED BY <1>2, <1>3, <1>4, <1>6 DEF IInv

\* The process ends with an empty list.
LEMMA ExitIInv ==
  ASSUME IInv, Exit
  PROVE  IInv'
<1> USE DEF Exit, list, worker
<1>1. TypeOK'
  BY DEF IInv, TypeOK
<1>2. ThreadInv'
  BY DEF IInv, ThreadInv, Started
<1>3. allocated = {}
  <2>1. PICK n \in Nat : \E s \in [1 .. n -> Entry] : ListIs(n, s)
    BY DEF IInv, ListInv
  <2>2. PICK s \in [1 .. n -> Entry] : ListIs(n, s)
    BY <2>1
  <2>3. IsList(head, next, n, s) /\ Members(n, s) = allocated /\ head = NULL
    BY <2>2 DEF ListIs, Listed, DrainDone
  <2>4. n = 0
    BY <2>3, ListenerAssumption DEF IsList
  <2> QED BY <2>3, <2>4 DEF Members
<1>4. MainInv'
  BY <1>3, ListenerAssumption DEF IInv, TypeOK, MainInv, EXIT_APP_FAILURE
<1>5. ListInv'
  <2>1. UNCHANGED <<head, next, Listed>>
    BY DEF Listed
  <2> QED BY <2>1, ListFrame DEF IInv
<1> QED BY <1>1, <1>2, <1>4, <1>5 DEF IInv

\* Every step keeps the invariant.
LEMMA StepIInv == IInv /\ [Next]_vars => IInv'
BY QuietIInv, ExitIInv, DrainIInv, ReapIInv, ScanSkipIInv, SpawnFailsIInv, InsertIInv, SpawnIInv,
   ThreadStepIInv
   DEF Next, MainStep

\* The invariant holds in every state.
LEMMA Invariance == Spec => []IInv
<1>1. Init => IInv
  BY InitIInv
<1>2. IInv /\ [Next]_vars => IInv'
  BY StepIInv
<1> QED BY <1>1, <1>2, PTL DEF Spec

-----------------------------------------------------------------------------
(* Following the pointers.                                                 *)

\* A list of different entries is no longer than there are entries.
LEMMA ListFits ==
  ASSUME NEW n \in Nat, NEW s \in [1 .. n -> Entry],
         \A i, j \in 1 .. n : s[i] = s[j] => i = j
  PROVE  Cardinality(Entry) \in Nat /\ n <= Cardinality(Entry)
<1>1. s \in Injection(1 .. n, Entry)
  BY DEF Injection, IsInjective
<1>2. Cardinality(1 .. n) <= Cardinality(Entry)
  BY <1>1, FS_Injection, ListenerAssumption
<1>3. Cardinality(1 .. n) = n
  BY FS_Interval
<1>4. Cardinality(Entry) \in Nat
  BY FS_CardinalityType, ListenerAssumption
<1> QED BY <1>2, <1>3, <1>4

\* A set of naturals has a least element: a claim about the entries of the list
\* is proved by looking at the first that fails it.
LEMMA LeastNat ==
  ASSUME NEW T \in SUBSET Nat, T # {}
  PROVE  \E n \in T : \A m \in T : n <= m
<1>1. PICK n \in T : \A m \in T : ~ (<<m, n>> \in OpToRel(<, Nat))
  BY NatLessThanWellFounded, WFMin
<1>2. \A m \in T : ~ (m < n)
  BY <1>1 DEF OpToRel
<1> QED BY <1>2

\* The right-hand side of the recursive definition in Chain.
ChainBody(f) ==
  [n \in 0 .. Cardinality(Entry) |->
     IF n = 0 THEN head ELSE IF f[n - 1] = NULL THEN NULL ELSE next[f[n - 1]]]

\* Chain visits the entries of the list one by one and then stays at its end.
LEMMA ChainVisits ==
  ASSUME NEW n \in Nat, NEW s \in [1 .. n -> Entry], IsList(head, next, n, s)
  PROVE  Chain = [i \in 0 .. Cardinality(Entry) |-> IF i < n THEN s[i + 1] ELSE NULL]
<1> DEFINE C == Cardinality(Entry)
           g == [i \in 0 .. C |-> IF i < n THEN s[i + 1] ELSE NULL]
<1>1. C \in Nat /\ n <= C
  BY ListFits DEF IsList
<1>2. \A i \in 1 .. n : s[i] # NULL
  BY ListenerAssumption
<1>3. g = ChainBody(g)
  <2>1. ASSUME NEW i \in 0 .. C
        PROVE  g[i] = IF i = 0 THEN head ELSE IF g[i - 1] = NULL THEN NULL ELSE next[g[i - 1]]
    <3>1. CASE i = 0
      BY <1>1, <3>1 DEF IsList
    <3>2. CASE i # 0
      <4>1. i - 1 \in 0 .. C /\ (i - 1) + 1 = i
        BY <1>1, <3>2
      <4>2. g[i - 1] = IF i - 1 < n THEN s[i] ELSE NULL
        BY <4>1
      <4>3. CASE i <= n
        <5>1. i \in 1 .. n /\ g[i - 1] = s[i] /\ s[i] # NULL
          BY <1>1, <1>2, <3>2, <4>2, <4>3
        <5>2. next[s[i]] = IF i = n THEN NULL ELSE s[i + 1]
          BY <5>1 DEF IsList
        <5>3. g[i] = IF i = n THEN NULL ELSE s[i + 1]
          BY <1>1, <4>3
        <5> QED BY <3>2, <5>1, <5>2, <5>3
      <4>4. CASE ~(i <= n)
        <5>1. g[i - 1] = NULL /\ g[i] = NULL
          BY <1>1, <4>2, <4>4
        <5> QED BY <3>2, <5>1
      <4> QED BY <4>3, <4>4
    <3> QED BY <3>1, <3>2
  <2>2. ChainBody(g) = [i \in 0 .. C |-> g[i]]
    BY <2>1 DEF ChainBody
  <2> QED BY <2>2
<1> HIDE DEF g
<1>4. Chain = CHOOSE f : f = ChainBody(f)
  BY DEF Chain, ChainBody
<1>5. Chain = ChainBody(Chain)
  BY <1>3, <1>4
<1> DEFINE T == {i \in 0 .. C : Chain[i] # g[i]}
<1>6. T = {}
  <2>1. SUFFICES ASSUME T # {} PROVE FALSE
    OBVIOUS
  <2>2. PICK i \in T : \A j \in T : i <= j
    <3>1. T \in SUBSET Nat
      BY <1>1
    <3> QED BY <2>1, <3>1, LeastNat
  <2>3. i \in 0 .. C /\ Chain[i] # g[i]
    BY <2>2
  <2>4. i # 0 => i - 1 \in 0 .. C /\ Chain[i - 1] = g[i - 1]
    BY <1>1, <2>2
  <2>5. /\ Chain[i] = IF i = 0 THEN head ELSE IF Chain[i - 1] = NULL THEN NULL ELSE next[Chain[i - 1]]
        /\ g[i] = IF i = 0 THEN head ELSE IF g[i - 1] = NULL THEN NULL ELSE next[g[i - 1]]
    BY <1>3, <1>5, <2>3 DEF ChainBody
  <2> QED BY <2>3, <2>4, <2>5
<1>7. Chain = [i \in 0 .. C |-> Chain[i]]
  BY <1>5 DEF ChainBody
<1>8. \A i \in 0 .. C : Chain[i] = g[i]
  BY <1>6
<1> QED BY <1>7, <1>8 DEF g

-----------------------------------------------------------------------------
(* The theorems.                                                           *)

\* Every variable keeps its type.
THEOREM TypeCorrect == Spec => []TypeOK
<1>1. IInv => TypeOK
  BY DEF IInv
<1> QED BY <1>1, Invariance, PTL

\* A service thread that still runs has its arguments in an entry that is
\* allocated, its own, and not marked as done: its last write, of
\* b_is_thread_complete, never hits freed memory or another thread's entry.
THEOREM ArgumentsOutliveThread == Spec => []ArgsStayValid
<1>1. IInv => ArgsStayValid
  <2> SUFFICES ASSUME IInv, NEW c \in Conn, thread[c] = "running"
               PROVE  /\ p_arg[c] \in allocated
                      /\ ~b_is_thread_complete[p_arg[c]]
                      /\ \A d \in Started : p_arg[d] = p_arg[c] => d = c
    BY DEF ArgsStayValid
  <2>1. c \in Started
    BY DEF Started
  <2> QED BY <2>1 DEF IInv, ThreadInv
<1> QED BY <1>1, Invariance, PTL

\* However many connections come and go, main's list ends, it holds exactly the
\* entries of the threads that were started and not joined, and nothing else is
\* allocated, whatever the scan reads in an entry it has freed: no thread is lost
\* to the loops that join.
THEOREM ListIsExact == Spec => []ListHoldsThreads
<1>1. IInv => ListHoldsThreads
  <2> SUFFICES ASSUME IInv, main \in {"check", "call", "accept", "spawn", "scan", "drain"}
               PROVE  /\ Chain[Cardinality(Entry)] = NULL
                      /\ {Chain[n] : n \in DOMAIN Chain} \ {NULL} = allocated
                      /\ allocated = {p_arg[c] : c \in Started}
    BY DEF ListHoldsThreads
  <2> DEFINE C == Cardinality(Entry)
  <2>1. PICK n \in Nat : \E s \in [1 .. n -> Entry] : ListIs(n, s)
    BY DEF IInv, ListInv
  <2>2. PICK s \in [1 .. n -> Entry] : ListIs(n, s)
    BY <2>1
  <2>3. IsList(head, next, n, s) /\ Members(n, s) = allocated
    BY <2>2 DEF ListIs, Listed
  <2>4. Chain = [i \in 0 .. C |-> IF i < n THEN s[i + 1] ELSE NULL]
    BY <2>3, ChainVisits
  <2>5. C \in Nat /\ n <= C
    BY <2>3, ListFits DEF IsList
  <2> HIDE DEF C
  <2>6. Chain[C] = NULL
    BY <2>4, <2>5
  <2>7. DOMAIN Chain = 0 .. C /\ \A i \in 0 .. C : Chain[i] = IF i < n THEN s[i + 1] ELSE NULL
    BY <2>4
  <2>8. ASSUME NEW x \in {Chain[i] : i \in DOMAIN Chain} \ {NULL} PROVE x \in Members(n, s)
    <3>1. PICK i \in 0 .. C : x = Chain[i] /\ i < n
      BY <2>7
    <3>2. i + 1 \in 1 .. n /\ x = s[i + 1]
      BY <2>7, <3>1
    <3> QED BY <3>2 DEF Members
  <2>9. ASSUME NEW x \in Members(n, s) PROVE x \in {Chain[i] : i \in DOMAIN Chain} \ {NULL}
    <3>1. PICK i \in 1 .. n : x = s[i]
      BY DEF Members
    <3>2. i - 1 \in 0 .. C /\ i - 1 < n /\ (i - 1) + 1 = i
      BY <2>5
    <3>3. Chain[i - 1] = x /\ x \in Entry
      BY <2>7, <3>1, <3>2
    <3> QED BY <2>7, <3>2, <3>3, ListenerAssumption
  <2> QED BY <2>3, <2>6, <2>8, <2>9 DEF IInv, ThreadInv, C
<1> QED BY <1>1, Invariance, PTL

\* main returns only when every thread has been joined and every entry freed,
\* and it reports success exactly when a signal has come.
THEOREM CleanExit == Spec => []ExitIsClean
<1>1. IInv => ExitIsClean
  <2> SUFFICES ASSUME IInv, main = "exited"
               PROVE  /\ Started = {} /\ allocated = {}
                      /\ exit_code = 0 <=> ~b_accept_connections
    BY DEF ExitIsClean
  <2>1. allocated = {} /\ (exit_code = 0 <=> ~b_accept_connections)
    BY DEF IInv, MainInv
  <2>2. \A c \in Started : p_arg[c] \in allocated
    BY DEF IInv, ThreadInv
  <2> QED BY <2>1, <2>2
<1> QED BY <1>1, Invariance, PTL

=============================================================================
