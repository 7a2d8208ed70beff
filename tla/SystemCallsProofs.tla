------------------------- MODULE SystemCallsProofs -------------------------
(***************************************************************************)
(* Proofs about the system call example, for any number of calls and any   *)
(* length of output.                                                       *)
(***************************************************************************)
EXTENDS SystemCalls, SequenceTheorems, TLAPS

-----------------------------------------------------------------------------
(* The inductive invariant.                                                *)

\* A call that has not returned is the last one, and the caller waits in it.
Order ==
  /\ caller = "wait" => n > 0 /\ result[n] = NULL /\ child[n].at # "none"
  /\ \A c \in Call : result[c] = NULL /\ c <= n => caller = "wait" /\ c = n
  /\ \A c \in Call : c > n => child[c] = NoChild /\ result[c] = NULL
  /\ \A c \in interrupted : result[c] = FALSE

\* What the stage of a child k, with b for its inherited text, says of its fields.
StageOK(k, b) ==
  /\ k.at = "zombie" => ~autoreap
  /\ k.status = "zero" => k.ran
  /\ k.at \notin {"zombie", "gone"} => k.status = NULL
  /\ k.at \notin {"running", "zombie", "gone"} => ~k.ran
  /\ k.at = "running" => k.ran
  /\ ~k.ran => k.offset = 0
  /\ k.at \in {"none", "forked", "opened"} => k.stdout = "terminal"
  /\ k.at = "none" => ~b

Stages == \A c \in Call : StageOK(child[c], buffered[c])

\* Only the current call and those whose wait was interrupted have a child that
\* is not gone, and only waitpid() or an ignored SIGCHLD makes a child go.
Alone ==
  \A c \in Call :
    /\ child[c].at \notin {"none", "gone"} =>
         c \in interrupted \/ (caller = "wait" /\ c = n)
    /\ ~autoreap /\ (c \in interrupted \/ result[c] = NULL) => child[c].at # "gone"

\* As long as no wait was interrupted: only the child of the call that opened
\* the file last writes to it, and the file is what it has written.
FileOfOpener ==
  interrupted = {} =>
    /\ \A c \in Call : child[c].at \in {"opened", "redirected"} => c = opener
    /\ \A c \in Call : child[c].at = "running" /\ child[c].stdout = "file" => c = opener
    /\ opener # 0 =>
         /\ opener <= n /\ child[opener].at \notin {"none", "forked"}
         /\ file = IF child[opener].ran THEN [i \in 1 .. child[opener].offset |-> opener]
                   ELSE IF /\ child[opener].at \in {"zombie", "gone"}
                           /\ buffered[opener] /\ child[opener].stdout = "file" THEN <<TEXT>>
                   ELSE <<>>

IInv == TypeOK /\ Order /\ Stages /\ Alone /\ ResultIsHonest /\ FileOfOpener

-----------------------------------------------------------------------------
(* The file.                                                               *)

\* A byte written into a file leaves a file; at its end it makes it longer by one.
LEMMA PutFile ==
  ASSUME NEW S, HOLE \in S, NEW f \in Seq(S), NEW offset \in Nat, NEW byte \in S
  PROVE  /\ Put(f, offset, byte) \in Seq(S)
         /\ offset = Len(f) =>
              Put(f, offset, byte) = [i \in 1 .. offset + 1 |-> IF i = offset + 1 THEN byte ELSE f[i]]
<1> DEFINE k == IF offset < Len(f) THEN Len(f) ELSE offset + 1
<1>1. k \in Nat /\ Len(f) \in Nat
  BY LenProperties
<1>2. \A i \in 1 .. Len(f) : f[i] \in S
  BY ElementOfSeq
<1>3. Put(f, offset, byte) \in [1 .. k -> S]
  BY <1>1, <1>2 DEF Put
<1>4. Put(f, offset, byte) \in Seq(S)
  <2> HIDE DEF k
  <2> QED BY <1>1, <1>3
<1>5. ASSUME offset = Len(f)
      PROVE  Put(f, offset, byte) = [i \in 1 .. offset + 1 |-> IF i = offset + 1 THEN byte ELSE f[i]]
  BY <1>1, <1>5 DEF Put
<1> QED BY <1>4, <1>5

\* The file of a command that has written k bytes, before and after the next.
LEMMA PutNext ==
  ASSUME NEW c \in Call, NEW k \in Nat
  PROVE  Put([i \in 1 .. k |-> c], k, c) = [i \in 1 .. k + 1 |-> c]
<1> DEFINE S == Call \cup {TEXT, HOLE}
           f == [i \in 1 .. k |-> c]
<1>1. f \in Seq(S) /\ Len(f) = k /\ HOLE \in S /\ c \in S
  OBVIOUS
<1>2. \A i \in 1 .. k : f[i] = c
  OBVIOUS
<1> HIDE DEF S, f
<1>3. Put(f, k, c) = [i \in 1 .. k + 1 |-> IF i = k + 1 THEN c ELSE f[i]]
  BY <1>1 DEF Put
<1>4. Put(f, k, c) = [i \in 1 .. k + 1 |-> c]
  BY <1>2, <1>3
<1> QED BY <1>4 DEF f

\* The text of a failing child in an empty file.
LEMMA PutText == Put(<<>>, 0, TEXT) = <<TEXT>>
BY DEF Put

-----------------------------------------------------------------------------
(* The invariant is inductive.                                             *)

\* The invariant holds before the first call.
LEMMA InitIInv == ASSUME Init PROVE IInv
<1> USE SystemCallsAssumption DEF Init
<1>0. NoChild \in Children
  BY DEF NoChild, Children
<1>1. TypeOK /\ n = 0
  <2>1. calls \in Seq(Functions) /\ n = 0
    BY DEF n
  <2>2. child \in [Call -> Children] /\ file \in Seq(Call \cup {TEXT, HOLE})
    BY <1>0
  <2> QED BY <2>1, <2>2 DEF TypeOK
<1>2. Order
  BY <1>1 DEF Order, Call
<1>3. Stages
  BY DEF Stages, StageOK, NoChild
<1>4. Alone
  BY DEF Alone, NoChild
<1>5. ResultIsHonest
  BY DEF ResultIsHonest
<1>6. FileOfOpener
  BY DEF FileOfOpener, NoChild
<1> QED BY <1>1, <1>2, <1>3, <1>4, <1>5, <1>6 DEF IInv

\* The call that is being made next: its number, and the calls before it.
LEMMA NextCall ==
  ASSUME TypeOK, NEW f \in Functions, n < MaxCalls, calls' = Append(calls, f)
  PROVE  /\ n \in Nat /\ n + 1 \in Call /\ n' = n + 1
         /\ calls' \in Seq(Functions) /\ n' <= MaxCalls
<1>1. calls \in Seq(Functions)
  BY DEF TypeOK
<1>2. n \in Nat
  BY <1>1, LenProperties DEF n
<1>3. calls' \in Seq(Functions) /\ Len(calls') = Len(calls) + 1
  BY <1>1, AppendProperties
<1> QED BY <1>2, <1>3, SystemCallsAssumption DEF n, Call

\* fork() starts the child of a call that nothing has happened to yet.
LEMMA ForkIInv ==
  ASSUME IInv, NEW f \in Functions, Fork(f)
  PROVE  IInv'
<1> USE SystemCallsAssumption
<1>1. /\ n \in Nat /\ n + 1 \in Call /\ n' = n + 1
      /\ calls' \in Seq(Functions) /\ n' <= MaxCalls
  BY NextCall DEF IInv, Fork
<1> DEFINE m == n + 1
<1>2. child[m] = NoChild /\ result[m] = NULL /\ caller = "idle"
  BY <1>1 DEF IInv, Order, Fork
<1>3. /\ child' \in [Call -> Children]
      /\ child'[m] = [NoChild EXCEPT !.at = "forked"]
      /\ \A c \in Call : c # m => child'[c] = child[c]
  <2>1. child \in [Call -> Children] /\ child' = [child EXCEPT ![m] = [@ EXCEPT !.at = "forked"]]
    BY DEF IInv, TypeOK, Fork
  <2>2. [NoChild EXCEPT !.at = "forked"] \in Children
    <3>1. NoChild \in Children
      BY DEF NoChild, Children
    <3> QED BY <3>1 DEF Children
  <2> QED BY <1>1, <1>2, <2>1, <2>2
<1>4. /\ child'[m].at = "forked" /\ child'[m].stdout = "terminal" /\ child'[m].offset = 0
      /\ child'[m].status = NULL /\ child'[m].ran = FALSE
  BY <1>3 DEF NoChild
<1>5. /\ buffered' \in [Call -> BOOLEAN]
      /\ \A c \in Call : c # m => buffered'[c] = buffered[c]
  BY <1>1 DEF IInv, TypeOK, Fork
<1>6. /\ caller' = "wait" /\ UNCHANGED <<result, file, autoreap, interrupted, opener>>
  BY DEF Fork
<1>7. m \notin interrupted
  BY <1>1, <1>2 DEF IInv, Order
<1>8. interrupted = {} => opener # m
  BY <1>1 DEF IInv, FileOfOpener
<1> HIDE DEF m
<1>10. TypeOK'
  BY <1>1, <1>3, <1>5, <1>6 DEF IInv, TypeOK
<1>11. Order'
  <2>1. \A c \in Call : c <= n' => c <= n \/ c = m
    BY <1>1 DEF m, Call
  <2>2. \A c \in Call : c > n' => c > n /\ c # m
    BY <1>1 DEF m, Call
  <2>3. n' = m /\ n' > 0
    BY <1>1 DEF m
  <2> QED BY <1>1, <1>2, <1>3, <1>4, <1>6, <2>1, <2>2, <2>3 DEF IInv, Order
<1>12. Stages'
  <2> SUFFICES ASSUME NEW c \in Call PROVE StageOK(child[c], buffered[c])'
    BY DEF Stages
  <2>1. CASE c = m
    BY <1>4, <2>1 DEF StageOK
  <2>2. CASE c # m
    BY <1>3, <1>5, <1>6, <2>2 DEF IInv, Stages, StageOK
  <2> QED BY <2>1, <2>2
<1>13. Alone'
  <2>1. n' = m
    BY <1>1 DEF m
  <2> QED BY <1>1, <1>2, <1>3, <1>4, <1>6, <1>7, <2>1 DEF IInv, Alone
<1>14. ResultIsHonest'
  BY <1>2, <1>3, <1>6 DEF IInv, ResultIsHonest
<1>15. FileOfOpener'
  <2>1. opener # 0 => opener \in Call
    BY DEF IInv, TypeOK, Call
  <2>2. interrupted = {} /\ opener # 0 => child'[opener] = child[opener] /\ buffered'[opener] = buffered[opener]
    BY <1>3, <1>5, <1>8, <2>1
  <2>3. opener <= n => opener <= n'
    BY <1>1, <2>1 DEF Call, IInv, TypeOK
  <2> QED BY <1>3, <1>4, <1>6, <1>8, <2>2, <2>3 DEF IInv, FileOfOpener
<1> QED BY <1>10, <1>11, <1>12, <1>13, <1>14, <1>15 DEF IInv

\* A call that cannot fork returns FALSE and has no child.
LEMMA ForkFailsIInv ==
  ASSUME IInv, NEW f \in Functions, ForkFails(f)
  PROVE  IInv'
<1> USE SystemCallsAssumption
<1>1. /\ n \in Nat /\ n + 1 \in Call /\ n' = n + 1
      /\ calls' \in Seq(Functions) /\ n' <= MaxCalls
  BY NextCall DEF IInv, ForkFails
<1> DEFINE m == n + 1
<1>2. child[m] = NoChild /\ result[m] = NULL /\ caller = "idle"
  BY <1>1 DEF IInv, Order, ForkFails
<1>3. /\ child[m].at = "none" /\ child[m].ran = FALSE
  BY <1>2 DEF NoChild
<1>4. /\ result' \in [Call -> BOOLEAN \cup {NULL}] /\ result'[m] = FALSE
      /\ \A c \in Call : c # m => result'[c] = result[c]
  BY <1>1 DEF IInv, TypeOK, ForkFails, Return
<1>5. caller' = "idle" /\ UNCHANGED <<child, file, buffered, autoreap, interrupted, opener>>
  BY DEF ForkFails, Return
<1>6. m \notin interrupted
  BY <1>1, <1>2 DEF IInv, Order
<1> HIDE DEF m
<1>10. TypeOK'
  BY <1>1, <1>4, <1>5 DEF IInv, TypeOK
<1>11. Order'
  <2>1. \A c \in Call : c <= n' => c <= n \/ c = m
    BY <1>1 DEF m, Call
  <2>2. \A c \in Call : c > n' => c > n /\ c # m
    BY <1>1 DEF m, Call
  <2>3. interrupted \subseteq Call
    BY DEF IInv, TypeOK
  <2> QED BY <1>1, <1>2, <1>4, <1>5, <1>6, <2>1, <2>2, <2>3 DEF IInv, Order
<1>12. Stages'
  BY <1>5 DEF IInv, Stages, StageOK
<1>13. Alone'
  BY <1>2, <1>3, <1>4, <1>5, <1>6 DEF IInv, Alone
<1>14. ResultIsHonest'
  BY <1>3, <1>4, <1>5 DEF IInv, ResultIsHonest
<1>15. FileOfOpener'
  <2>1. opener <= n => opener <= n'
    BY <1>1 DEF IInv, TypeOK
  <2> QED BY <1>5, <2>1 DEF IInv, FileOfOpener
<1> QED BY <1>10, <1>11, <1>12, <1>13, <1>14, <1>15 DEF IInv

\* The call that the caller waits in is the last one, and it has not returned.
LEMMA Waiting ==
  ASSUME IInv, caller = "wait"
  PROVE  n \in Call /\ result[n] = NULL /\ n \notin interrupted /\ child[n].at # "none"
<1>1. n \in Nat /\ n <= MaxCalls
  BY LenProperties DEF IInv, TypeOK, n
<1>2. n > 0 /\ result[n] = NULL /\ child[n].at # "none"
  BY DEF IInv, Order
<1>3. n \in Call
  BY <1>1, <1>2, SystemCallsAssumption DEF Call
<1>4. n \notin interrupted
  BY <1>2, SystemCallsAssumption DEF IInv, Order
<1> QED BY <1>2, <1>3, <1>4

\* waitpid() reaps the child of the call, and the call returns what became of it.
LEMMA WaitIInv ==
  ASSUME IInv, Wait
  PROVE  IInv'
<1> USE SystemCallsAssumption
<1>1. n \in Call /\ result[n] = NULL /\ n \notin interrupted /\ child[n].at = "zombie"
  BY Waiting DEF Wait, Terminated
<1>2. child[n] \in Children /\ child \in [Call -> Children]
  BY <1>1 DEF IInv, TypeOK
<1>3. child' = [child EXCEPT ![n] = [child[n] EXCEPT !.at = "gone"]]
  BY <1>1, <1>2 DEF Wait, Children
<1>4. [child[n] EXCEPT !.at = "gone"] \in Children
  BY <1>2 DEF Children
<1>5. /\ child' \in [Call -> Children]
      /\ child'[n].at = "gone" /\ child'[n].stdout = child[n].stdout
      /\ child'[n].offset = child[n].offset /\ child'[n].status = child[n].status
      /\ child'[n].ran = child[n].ran
      /\ \A c \in Call : c # n => child'[c] = child[c]
  BY <1>1, <1>2, <1>3, <1>4 DEF Children
<1>6. /\ result' \in [Call -> BOOLEAN \cup {NULL}]
      /\ result'[n] = (child[n].status = "zero") /\ result'[n] # NULL
      /\ \A c \in Call : c # n => result'[c] = result[c]
  BY <1>1 DEF IInv, TypeOK, Wait, Return, Succeeded
<1>7. caller = "wait" /\ caller' = "idle" /\ n' = n
      /\ UNCHANGED <<calls, file, buffered, autoreap, interrupted, opener>>
  BY DEF Wait, Return, n
<1>10. TypeOK'
  BY <1>5, <1>6, <1>7 DEF IInv, TypeOK
<1>11. Order'
  <2>1. \A c \in Call : c > n => c # n
    BY <1>1 DEF Call
  <2>2. \A c \in interrupted' : result'[c] = FALSE
    BY <1>1, <1>6, <1>7 DEF IInv, Order, TypeOK
  <2> QED BY <1>1, <1>5, <1>6, <1>7, <2>1, <2>2 DEF IInv, Order
<1>12. Stages'
  <2> SUFFICES ASSUME NEW c \in Call PROVE StageOK(child[c], buffered[c])'
    BY DEF Stages
  <2>1. CASE c = n
    BY <1>1, <1>5, <1>7, <2>1 DEF IInv, Stages, StageOK
  <2>2. CASE c # n
    BY <1>5, <1>7, <2>2 DEF IInv, Stages, StageOK
  <2> QED BY <2>1, <2>2
<1>13. Alone'
  BY <1>1, <1>5, <1>6, <1>7 DEF IInv, Alone
<1>14. ResultIsHonest'
  <2> SUFFICES ASSUME NEW c \in Call PROVE ResultIsHonest!(c)'
    BY DEF ResultIsHonest
  <2>1. CASE c = n
    <3>1. ~autoreap /\ (child[n].status = "zero" => child[n].ran)
      BY <1>1 DEF IInv, Stages, StageOK
    <3> QED BY <1>5, <1>6, <1>7, <2>1, <3>1
  <2>2. CASE c # n
    BY <1>5, <1>6, <1>7, <2>2 DEF IInv, ResultIsHonest
  <2> QED BY <2>1, <2>2
<1>15. FileOfOpener'
  <2>1. opener # 0 => opener \in Call
    BY DEF IInv, TypeOK, Call
  <2>2. ASSUME interrupted = {}, opener # 0
        PROVE  file = IF child'[opener].ran THEN [i \in 1 .. child'[opener].offset |-> opener]
                      ELSE IF /\ child'[opener].at \in {"zombie", "gone"}
                              /\ buffered[opener] /\ child'[opener].stdout = "file" THEN <<TEXT>>
                      ELSE <<>>
    <3>1. CASE opener = n
      BY <1>1, <1>5, <2>1, <2>2, <3>1 DEF IInv, FileOfOpener
    <3>2. CASE opener # n
      BY <1>5, <2>1, <2>2, <3>2 DEF IInv, FileOfOpener
    <3> QED BY <3>1, <3>2
  <2> QED BY <1>5, <1>7, <2>1, <2>2 DEF IInv, FileOfOpener
<1> QED BY <1>10, <1>11, <1>12, <1>13, <1>14, <1>15 DEF IInv

\* waitpid() fails, because of a signal or because there is no status to read.
LEMMA WaitFailsIInv ==
  ASSUME IInv, Interrupted \/ NoStatus
  PROVE  IInv'
<1> USE SystemCallsAssumption
<1>1. n \in Call /\ result[n] = NULL /\ n \notin interrupted /\ child[n].at # "none"
  BY Waiting DEF Interrupted, NoStatus
<1>2. /\ result' \in [Call -> BOOLEAN \cup {NULL}] /\ result'[n] = FALSE
      /\ \A c \in Call : c # n => result'[c] = result[c]
  BY <1>1 DEF IInv, TypeOK, Interrupted, NoStatus, Return
<1>3. caller = "wait" /\ caller' = "idle" /\ n' = n
      /\ UNCHANGED <<calls, child, file, buffered, autoreap, opener>>
  BY DEF Interrupted, NoStatus, Return, n
<1>4. \/ interrupted' = interrupted \cup {n} /\ child[n].at # "gone"
      \/ interrupted' = interrupted /\ child[n].at = "gone"
  BY DEF Interrupted, NoStatus
<1>5. child[n].at = "gone" => autoreap
  BY <1>1 DEF IInv, Alone
<1>10. TypeOK'
  BY <1>1, <1>2, <1>3, <1>4 DEF IInv, TypeOK
<1>11. Order'
  <2>1. \A c \in interrupted' : result'[c] = FALSE
    BY <1>1, <1>2, <1>4 DEF IInv, Order, TypeOK
  <2>2. \A c \in Call : c > n => c # n
    BY <1>1 DEF Call
  <2> QED BY <1>1, <1>2, <1>3, <2>1, <2>2 DEF IInv, Order
<1>12. Stages'
  BY <1>3 DEF IInv, Stages, StageOK
<1>13. Alone'
  BY <1>1, <1>2, <1>3, <1>4, <1>5 DEF IInv, Alone
<1>14. ResultIsHonest'
  BY <1>2, <1>3, <1>4, <1>5 DEF IInv, ResultIsHonest
<1>15. FileOfOpener'
  BY <1>3, <1>4 DEF IInv, FileOfOpener
<1> QED BY <1>10, <1>11, <1>12, <1>13, <1>14, <1>15 DEF IInv

\* What all steps of a child preserve. The child takes the state r.
LEMMA ChildFrame ==
  ASSUME IInv, NEW c \in Call, child[c].at \notin {"none", "zombie", "gone"},
         NEW r \in Children, r.at # "none", r.at = "gone" => autoreap,
         child' = [child EXCEPT ![c] = r], file' \in Seq(Call \cup {TEXT, HOLE}),
         opener' \in 0 .. MaxCalls,
         UNCHANGED <<caller, calls, result, buffered, autoreap, interrupted>>,
         StageOK(r, buffered[c])
  PROVE  /\ TypeOK' /\ Order' /\ Stages' /\ Alone' /\ ResultIsHonest'
         /\ child'[c] = r /\ \A d \in Call : d # c => child'[d] = child[d]
         /\ interrupted = {} => caller = "wait" /\ c = n /\ n \in Nat
         /\ n' = n
<1> USE SystemCallsAssumption
<1>1. child \in [Call -> Children] /\ calls \in Seq(Functions)
  BY DEF IInv, TypeOK
<1>2. n \in Nat /\ n' = n
  BY <1>1, LenProperties DEF n
<1>3. child' \in [Call -> Children] /\ child'[c] = r /\ \A d \in Call : d # c => child'[d] = child[d]
  BY <1>1
<1>4. TypeOK'
  BY <1>2, <1>3 DEF IInv, TypeOK
<1>5. ~(c > n)
  BY DEF IInv, Order, NoChild
<1>6. Order'
  <2>1. caller = "wait" => n > 0 /\ result[n] = NULL /\ child[n].at # "none"
    BY DEF IInv, Order
  <2>2. caller = "wait" => n \in Call
    BY Waiting
  <2>3. caller = "wait" => child'[n].at # "none"
    BY <1>3, <2>1, <2>2
  <2> QED BY <1>2, <1>3, <1>5, <2>1, <2>3 DEF IInv, Order
<1>7. c \in interrupted \/ (caller = "wait" /\ c = n)
  BY DEF IInv, Alone
<1>8. Alone'
  BY <1>2, <1>3, <1>7 DEF IInv, Alone
<1>9. ResultIsHonest'
  <2> SUFFICES ASSUME NEW d \in Call, result[d] # NULL PROVE ResultIsHonest!(d)'
    BY DEF ResultIsHonest
  <2>1. CASE d # c
    BY <1>3, <2>1 DEF IInv, ResultIsHonest
  <2>2. CASE d = c
    <3>1. result[c] = FALSE
      BY <1>7, <2>2 DEF IInv, Order
    <3> QED BY <1>3, <2>2, <3>1
  <2> QED BY <2>1, <2>2
<1>10. Stages'
  BY <1>3 DEF IInv, Stages, StageOK
<1> QED BY <1>2, <1>3, <1>4, <1>6, <1>7, <1>8, <1>9, <1>10

\* What a child that gives up becomes, and what it leaves in the file.
LEMMA QuitEffect ==
  ASSUME IInv, NEW c \in Call, child[c].at \in {"forked", "opened", "redirected"}, Quit(c),
         NEW r, r = [child[c] EXCEPT !.at = Exited, !.status = "nonzero"]
  PROVE  /\ child' = [child EXCEPT ![c] = r]
         /\ r \in Children /\ r.at \in {"zombie", "gone"}
         /\ r.at = "gone" => autoreap
         /\ r.at = "zombie" => ~autoreap
         /\ r.status = "nonzero" /\ r.stdout = child[c].stdout
         /\ r.offset = child[c].offset /\ r.ran = child[c].ran
         /\ file' = IF buffered[c] /\ child[c].stdout = "file" THEN Put(file, 0, TEXT) ELSE file
         /\ file' \in Seq(Call \cup {TEXT, HOLE})
<1>1. child \in [Call -> Children] /\ child[c] \in Children /\ autoreap \in BOOLEAN
  BY DEF IInv, TypeOK
<1>2. child' = [child EXCEPT ![c] = r]
  BY <1>1 DEF Quit, Children
<1>3. Exited \in {"zombie", "gone"} /\ (Exited = "gone" <=> autoreap)
  BY <1>1 DEF Exited
<1>4. /\ r \in Children /\ r.at = Exited /\ r.status = "nonzero" /\ r.stdout = child[c].stdout
      /\ r.offset = child[c].offset /\ r.ran = child[c].ran
  BY <1>1, <1>3 DEF Children
<1>5. file' = IF buffered[c] /\ child[c].stdout = "file" THEN Put(file, 0, TEXT) ELSE file
  BY DEF Quit
<1>6. file' \in Seq(Call \cup {TEXT, HOLE})
  <2> DEFINE S == Call \cup {TEXT, HOLE}
  <2>1. file \in Seq(S) /\ HOLE \in S /\ TEXT \in S
    BY DEF IInv, TypeOK
  <2> HIDE DEF S
  <2>2. Put(file, 0, TEXT) \in Seq(S)
    BY <2>1, PutFile
  <2>3. file' \in Seq(S)
    BY <1>5, <2>1, <2>2
  <2> QED BY <2>3 DEF S
<1> QED BY <1>2, <1>3, <1>4, <1>5, <1>6

\* A child opens the file, or fails to.
LEMMA OpenIInv ==
  ASSUME IInv, NEW c \in Call, Open(c)
  PROVE  IInv'
<1> USE SystemCallsAssumption
<1>1. /\ child[c].at = "forked" /\ child[c] \in Children /\ child \in [Call -> Children]
      /\ StageOK(child[c], buffered[c]) /\ opener \in 0 .. MaxCalls /\ c \in 1 .. MaxCalls
      /\ UNCHANGED <<caller, calls, result, buffered, autoreap, interrupted>>
  BY DEF Open, IInv, TypeOK, Stages, Call
<1>2. CASE child' = [child EXCEPT ![c].at = "opened"] /\ file' = Opened /\ opener' = c
  <2> DEFINE r == [child[c] EXCEPT !.at = "opened"]
  <2>1. /\ r \in Children /\ r.at = "opened" /\ r.stdout = child[c].stdout
        /\ r.offset = child[c].offset /\ r.status = child[c].status /\ r.ran = child[c].ran
    BY <1>1 DEF Children
  <2>2. child' = [child EXCEPT ![c] = r]
    BY <1>1, <1>2
  <2> HIDE DEF r
  <2>3. file' = <<>> /\ file' \in Seq(Call \cup {TEXT, HOLE}) /\ opener' \in 0 .. MaxCalls
    BY <1>1, <1>2 DEF Opened
  <2>4. StageOK(r, buffered[c])
    BY <1>1, <2>1 DEF StageOK
  <2>5. /\ TypeOK' /\ Order' /\ Stages' /\ Alone' /\ ResultIsHonest'
        /\ child'[c] = r /\ \A d \in Call : d # c => child'[d] = child[d]
        /\ interrupted = {} => caller = "wait" /\ c = n /\ n \in Nat
        /\ n' = n
    BY <1>1, <2>1, <2>2, <2>3, <2>4, ChildFrame
  <2>6. FileOfOpener'
    <3> SUFFICES ASSUME interrupted = {} PROVE FileOfOpener'
      BY <1>1 DEF FileOfOpener
    <3>1. \A d \in Call : d # c => child[d].at \in {"none", "gone"}
      BY <2>5 DEF IInv, Alone
    <3>2. ~r.ran
      BY <1>1, <2>1 DEF StageOK
    <3> QED BY <1>2, <2>1, <2>3, <2>5, <3>1, <3>2 DEF FileOfOpener
  <2> QED BY <2>5, <2>6 DEF IInv
<1>3. CASE Quit(c) /\ opener' = opener
  <2> DEFINE r == [child[c] EXCEPT !.at = Exited, !.status = "nonzero"]
  <2>1. /\ child' = [child EXCEPT ![c] = r]
        /\ r \in Children /\ r.at \in {"zombie", "gone"}
        /\ r.at = "gone" => autoreap
        /\ r.at = "zombie" => ~autoreap
        /\ r.status = "nonzero" /\ r.stdout = child[c].stdout
        /\ r.offset = child[c].offset /\ r.ran = child[c].ran
        /\ file' = IF buffered[c] /\ child[c].stdout = "file" THEN Put(file, 0, TEXT) ELSE file
        /\ file' \in Seq(Call \cup {TEXT, HOLE})
    BY <1>1, <1>3, QuitEffect
  <2> HIDE DEF r
  <2>2. StageOK(r, buffered[c]) /\ child[c].stdout = "terminal" /\ file' = file
    BY <1>1, <2>1 DEF StageOK
  <2>3. /\ TypeOK' /\ Order' /\ Stages' /\ Alone' /\ ResultIsHonest'
        /\ child'[c] = r /\ \A d \in Call : d # c => child'[d] = child[d]
        /\ interrupted = {} => caller = "wait" /\ c = n /\ n \in Nat
        /\ n' = n
    BY <1>1, <1>3, <2>1, <2>2, ChildFrame
  <2>4. FileOfOpener'
    <3>1. interrupted = {} => opener # c
      BY <1>1 DEF IInv, FileOfOpener
    <3>2. opener # 0 => opener \in Call
      BY <1>1 DEF Call
    <3> QED BY <1>1, <1>3, <2>1, <2>2, <2>3, <3>1, <3>2 DEF IInv, FileOfOpener
  <2> QED BY <2>3, <2>4 DEF IInv
<1> QED BY <1>2, <1>3 DEF Open

\* A child makes the file its stdout, or fails to.
LEMMA Dup2IInv ==
  ASSUME IInv, NEW c \in Call, Dup2(c)
  PROVE  IInv'
<1> USE SystemCallsAssumption
<1>1. /\ child[c].at = "opened" /\ child[c] \in Children /\ child \in [Call -> Children]
      /\ StageOK(child[c], buffered[c]) /\ opener \in 0 .. MaxCalls /\ c \in 1 .. MaxCalls
      /\ UNCHANGED <<caller, calls, result, buffered, autoreap, interrupted, opener>>
      /\ file \in Seq(Call \cup {TEXT, HOLE})
  BY DEF Dup2, IInv, TypeOK, Stages, Call
<1>2. interrupted = {} => c = opener /\ file = <<>> /\ opener # 0
  BY <1>1 DEF IInv, FileOfOpener, StageOK
<1>3. CASE child' = [child EXCEPT ![c].at = "redirected", ![c].stdout = "file"] /\ file' = file
  <2> DEFINE r == [child[c] EXCEPT !.at = "redirected", !.stdout = "file"]
  <2>1. /\ r \in Children /\ r.at = "redirected" /\ r.stdout = "file"
        /\ r.offset = child[c].offset /\ r.status = child[c].status /\ r.ran = child[c].ran
    BY <1>1 DEF Children
  <2>2. child' = [child EXCEPT ![c] = r]
    BY <1>1, <1>3
  <2> HIDE DEF r
  <2>3. StageOK(r, buffered[c]) /\ ~r.ran
    BY <1>1, <2>1 DEF StageOK
  <2>4. /\ TypeOK' /\ Order' /\ Stages' /\ Alone' /\ ResultIsHonest'
        /\ child'[c] = r /\ \A d \in Call : d # c => child'[d] = child[d]
        /\ interrupted = {} => caller = "wait" /\ c = n /\ n \in Nat
        /\ n' = n
    BY <1>1, <1>3, <2>1, <2>2, <2>3, ChildFrame
  <2>5. FileOfOpener'
    BY <1>1, <1>2, <1>3, <2>1, <2>3, <2>4 DEF IInv, FileOfOpener
  <2> QED BY <2>4, <2>5 DEF IInv
<1>4. CASE Quit(c)
  <2> DEFINE r == [child[c] EXCEPT !.at = Exited, !.status = "nonzero"]
  <2>1. /\ child' = [child EXCEPT ![c] = r]
        /\ r \in Children /\ r.at \in {"zombie", "gone"}
        /\ r.at = "gone" => autoreap
        /\ r.at = "zombie" => ~autoreap
        /\ r.status = "nonzero" /\ r.stdout = child[c].stdout
        /\ r.offset = child[c].offset /\ r.ran = child[c].ran
        /\ file' = IF buffered[c] /\ child[c].stdout = "file" THEN Put(file, 0, TEXT) ELSE file
        /\ file' \in Seq(Call \cup {TEXT, HOLE})
    BY <1>1, <1>4, QuitEffect
  <2> HIDE DEF r
  <2>2. StageOK(r, buffered[c]) /\ r.stdout = "terminal" /\ file' = file /\ ~r.ran
    BY <1>1, <2>1 DEF StageOK
  <2>3. /\ TypeOK' /\ Order' /\ Stages' /\ Alone' /\ ResultIsHonest'
        /\ child'[c] = r /\ \A d \in Call : d # c => child'[d] = child[d]
        /\ interrupted = {} => caller = "wait" /\ c = n /\ n \in Nat
        /\ n' = n
    BY <1>1, <2>1, <2>2, ChildFrame
  <2>4. FileOfOpener'
    BY <1>1, <1>2, <2>1, <2>2, <2>3 DEF IInv, FileOfOpener
  <2> QED BY <2>3, <2>4 DEF IInv
<1> QED BY <1>3, <1>4 DEF Dup2

\* A command takes the place of a child, or cannot be executed.
LEMMA ExecIInv ==
  ASSUME IInv, NEW c \in Call, Exec(c)
  PROVE  IInv'
<1> USE SystemCallsAssumption
<1>1. /\ child[c].at \in {"forked", "redirected"}
      /\ child[c] \in Children /\ child \in [Call -> Children]
      /\ StageOK(child[c], buffered[c]) /\ opener \in 0 .. MaxCalls /\ c \in 1 .. MaxCalls
      /\ UNCHANGED <<caller, calls, result, buffered, autoreap, interrupted, opener>>
      /\ file \in Seq(Call \cup {TEXT, HOLE})
  BY DEF Exec, IInv, TypeOK, Stages, Call
<1>2. /\ interrupted = {} /\ child[c].at = "redirected" => c = opener /\ file = <<>>
      /\ interrupted = {} /\ child[c].at = "forked" => c # opener /\ child[c].stdout = "terminal"
  BY <1>1 DEF IInv, FileOfOpener, StageOK
<1>3. (opener # 0 => opener \in Call) /\ c # 0 /\ ~child[c].ran /\ child[c].offset = 0
  BY <1>1 DEF Call, StageOK
<1>4. CASE child' = [child EXCEPT ![c].at = "running", ![c].ran = TRUE] /\ file' = file
  <2> DEFINE r == [child[c] EXCEPT !.at = "running", !.ran = TRUE]
  <2>1. /\ r \in Children /\ r.at = "running" /\ r.ran = TRUE /\ r.stdout = child[c].stdout
        /\ r.offset = child[c].offset /\ r.status = child[c].status
    BY <1>1 DEF Children
  <2>2. child' = [child EXCEPT ![c] = r]
    BY <1>1, <1>4
  <2> HIDE DEF r
  <2>3. StageOK(r, buffered[c])
    BY <1>1, <2>1 DEF StageOK
  <2>4. /\ TypeOK' /\ Order' /\ Stages' /\ Alone' /\ ResultIsHonest'
        /\ child'[c] = r /\ \A d \in Call : d # c => child'[d] = child[d]
        /\ interrupted = {} => caller = "wait" /\ c = n /\ n \in Nat
        /\ n' = n
    BY <1>1, <1>4, <2>1, <2>2, <2>3, ChildFrame
  <2>5. [i \in 1 .. 0 |-> c] = <<>>
    OBVIOUS
  <2>6. CASE child[c].at = "redirected"
    BY <1>1, <1>2, <1>3, <1>4, <2>1, <2>4, <2>5, <2>6 DEF IInv, FileOfOpener
  <2>7. CASE child[c].at = "forked"
    BY <1>1, <1>2, <1>3, <1>4, <2>1, <2>4, <2>7 DEF IInv, FileOfOpener
  <2> QED BY <1>1, <2>4, <2>6, <2>7 DEF IInv
<1>5. CASE Quit(c)
  <2> DEFINE r == [child[c] EXCEPT !.at = Exited, !.status = "nonzero"]
  <2>1. /\ child' = [child EXCEPT ![c] = r]
        /\ r \in Children /\ r.at \in {"zombie", "gone"}
        /\ r.at = "gone" => autoreap
        /\ r.at = "zombie" => ~autoreap
        /\ r.status = "nonzero" /\ r.stdout = child[c].stdout
        /\ r.offset = child[c].offset /\ r.ran = child[c].ran
        /\ file' = IF buffered[c] /\ child[c].stdout = "file" THEN Put(file, 0, TEXT) ELSE file
        /\ file' \in Seq(Call \cup {TEXT, HOLE})
    BY <1>1, <1>5, QuitEffect
  <2> HIDE DEF r
  <2>2. StageOK(r, buffered[c]) /\ ~r.ran
    BY <1>1, <1>3, <2>1 DEF StageOK
  <2>3. /\ TypeOK' /\ Order' /\ Stages' /\ Alone' /\ ResultIsHonest'
        /\ child'[c] = r /\ \A d \in Call : d # c => child'[d] = child[d]
        /\ interrupted = {} => caller = "wait" /\ c = n /\ n \in Nat
        /\ n' = n
    BY <1>1, <2>1, <2>2, ChildFrame
  <2>4. CASE child[c].at = "redirected"
    BY <1>1, <1>2, <1>3, <2>1, <2>2, <2>3, <2>4, PutText DEF IInv, FileOfOpener
  <2>5. CASE child[c].at = "forked"
    BY <1>1, <1>2, <1>3, <2>1, <2>2, <2>3, <2>5 DEF IInv, FileOfOpener
  <2> QED BY <1>1, <2>3, <2>4, <2>5 DEF IInv
<1> QED BY <1>4, <1>5 DEF Exec

\* A command writes a byte of its output.
LEMMA WriteIInv ==
  ASSUME IInv, NEW c \in Call, Write(c)
  PROVE  IInv'
<1> USE SystemCallsAssumption
<1>1. /\ child[c].at = "running" /\ child[c].stdout = "file" /\ child[c].offset < MaxOutput
      /\ child[c] \in Children /\ child \in [Call -> Children]
      /\ StageOK(child[c], buffered[c]) /\ opener \in 0 .. MaxCalls /\ c \in 1 .. MaxCalls
      /\ UNCHANGED <<caller, calls, result, buffered, autoreap, interrupted, opener>>
      /\ file \in Seq(Call \cup {TEXT, HOLE}) /\ file' = Put(file, child[c].offset, c)
  BY DEF Write, IInv, TypeOK, Stages, Call
<1> DEFINE k == child[c].offset
           r == [child[c] EXCEPT !.offset = k + 1]
<1>2. k \in Nat /\ child[c].ran
  BY <1>1 DEF Children, StageOK
<1>3. /\ r \in Children /\ r.at = "running" /\ r.stdout = "file" /\ r.offset = k + 1
      /\ r.status = child[c].status /\ r.ran = child[c].ran
  BY <1>1 DEF Children
<1>4. child' = [child EXCEPT ![c] = r]
  BY <1>1 DEF Write
<1> HIDE DEF r
<1>5. file' \in Seq(Call \cup {TEXT, HOLE})
  <2> DEFINE S == Call \cup {TEXT, HOLE}
  <2>1. file \in Seq(S) /\ HOLE \in S /\ c \in S
    BY <1>1
  <2> HIDE DEF S
  <2>2. file' \in Seq(S)
    BY <1>1, <1>2, <2>1, PutFile
  <2> QED BY <2>2 DEF S
<1>6. StageOK(r, buffered[c])
  BY <1>1, <1>3 DEF StageOK
<1>7. /\ TypeOK' /\ Order' /\ Stages' /\ Alone' /\ ResultIsHonest'
      /\ child'[c] = r /\ \A d \in Call : d # c => child'[d] = child[d]
      /\ interrupted = {} => caller = "wait" /\ c = n /\ n \in Nat
      /\ n' = n
  BY <1>1, <1>3, <1>4, <1>5, <1>6, ChildFrame
<1>8. FileOfOpener'
  <2> SUFFICES ASSUME interrupted = {} PROVE FileOfOpener'
    BY <1>1 DEF FileOfOpener
  <2>1. c = opener /\ opener # 0
    BY <1>1 DEF IInv, FileOfOpener
  <2>2. file = [i \in 1 .. k |-> c]
    BY <1>2, <2>1 DEF IInv, FileOfOpener
  <2>3. file' = [i \in 1 .. k + 1 |-> c]
    BY <1>1, <1>2, <2>2, PutNext
  <2> HIDE DEF k
  <2> QED BY <1>1, <1>2, <1>3, <1>7, <2>1, <2>3 DEF IInv, FileOfOpener
<1> QED BY <1>7, <1>8 DEF IInv

\* A command ends.
LEMMA EndIInv ==
  ASSUME IInv, NEW c \in Call, NEW status \in {"zero", "nonzero", "signal"}, End(c, status)
  PROVE  IInv'
<1> USE SystemCallsAssumption
<1>1. /\ child[c].at = "running" /\ child[c] \in Children /\ child \in [Call -> Children]
      /\ StageOK(child[c], buffered[c]) /\ opener \in 0 .. MaxCalls /\ c \in 1 .. MaxCalls
      /\ UNCHANGED <<caller, calls, result, file, buffered, autoreap, interrupted, opener>>
      /\ file \in Seq(Call \cup {TEXT, HOLE}) /\ autoreap \in BOOLEAN
  BY DEF End, IInv, TypeOK, Stages, Call
<1> DEFINE r == [child[c] EXCEPT !.at = Exited, !.status = status]
<1>2. Exited \in {"zombie", "gone"} /\ (Exited = "gone" <=> autoreap)
  BY <1>1 DEF Exited
<1>3. /\ r \in Children /\ r.at = Exited /\ r.stdout = child[c].stdout
      /\ r.offset = child[c].offset /\ r.status = status /\ r.ran = child[c].ran
  BY <1>1, <1>2 DEF Children
<1>4. child' = [child EXCEPT ![c] = r]
  BY <1>1 DEF End
<1> HIDE DEF r
<1>5. StageOK(r, buffered[c]) /\ r.ran /\ child[c].ran
  BY <1>1, <1>2, <1>3 DEF StageOK
<1>6. /\ TypeOK' /\ Order' /\ Stages' /\ Alone' /\ ResultIsHonest'
      /\ child'[c] = r /\ \A d \in Call : d # c => child'[d] = child[d]
      /\ interrupted = {} => caller = "wait" /\ c = n /\ n \in Nat
      /\ n' = n
  BY <1>1, <1>2, <1>3, <1>4, <1>5, ChildFrame
<1>7. FileOfOpener'
  <2>1. opener # 0 => opener \in Call
    BY <1>1 DEF Call
  <2>2. CASE opener = c
    BY <1>1, <1>2, <1>3, <1>5, <1>6, <2>1, <2>2 DEF IInv, FileOfOpener
  <2>3. CASE opener # c
    BY <1>1, <1>2, <1>3, <1>6, <2>1, <2>3 DEF IInv, FileOfOpener
  <2> QED BY <2>2, <2>3
<1> QED BY <1>6, <1>7 DEF IInv

\* Every step preserves the invariant.
LEMMA StepIInv == ASSUME IInv, [Next]_vars PROVE IInv'
<1>1. ASSUME NEW f \in Functions, Fork(f) \/ ForkFails(f) PROVE IInv'
  BY <1>1, ForkIInv, ForkFailsIInv
<1>2. CASE do_system \/ do_exec \/ do_exec_redirect
  BY <1>1, <1>2 DEF do_system, do_exec, do_exec_redirect, Functions
<1>3. CASE Wait
  BY <1>3, WaitIInv
<1>4. CASE Interrupted \/ NoStatus
  BY <1>4, WaitFailsIInv
<1>5. ASSUME NEW c \in Call, ChildStep(c) PROVE IInv'
  BY <1>5, OpenIInv, Dup2IInv, ExecIInv, WriteIInv, EndIInv DEF ChildStep
<1>6. CASE UNCHANGED vars
  BY <1>6 DEF IInv, vars, TypeOK, Order, Stages, StageOK, Alone, ResultIsHonest, FileOfOpener, n, Exited
<1> QED BY <1>2, <1>3, <1>4, <1>5, <1>6 DEF Next

\* The invariant holds in every reachable state.
LEMMA Invariance == Spec => []IInv
BY InitIInv, StepIInv, PTL DEF Spec

-----------------------------------------------------------------------------
(* The properties.                                                         *)

\* Every variable of the system call example has its type in every reachable
\* state.
THEOREM TypeCorrect == Spec => []TypeOK
<1>1. IInv => TypeOK
  BY DEF IInv
<1> QED BY <1>1, Invariance, PTL

\* do_system, do_exec and do_exec_redirect report success exactly when their
\* command was started, ended with status 0 and left a status to be read.
THEOREM HonestResult == Spec => []ResultIsHonest
<1>1. IInv => ResultIsHonest
  BY DEF IInv
<1> QED BY <1>1, Invariance, PTL

\* Between calls only an interrupted wait has left a child behind.
THEOREM NoChildLeft == Spec => []ChildrenAreReaped
<1>1. IInv => ChildrenAreReaped
  BY DEF IInv, Alone, ChildrenAreReaped
<1> QED BY <1>1, Invariance, PTL

\* Between calls, when no wait was interrupted, the file of do_exec_redirect
\* holds what the last redirected command wrote, however the commands before it
\* ended.
THEOREM OutputOfLastCommand == Spec => []OutputIsCommands
<1>1. ASSUME IInv PROVE OutputIsCommands
  <2> SUFFICES ASSUME caller = "idle", interrupted = {}, opener # 0
               PROVE  OutputIsCommands
    BY DEF OutputIsCommands
  <2>1. opener \in Call
    BY <1>1 DEF IInv, TypeOK, Call
  <2>2. child[opener].at = "gone"
    BY <1>1, <2>1 DEF IInv, Alone, FileOfOpener
  <2> QED BY <1>1, <2>2 DEF IInv, FileOfOpener, OutputIsCommands
<1> QED BY <1>1, Invariance, PTL

=============================================================================
