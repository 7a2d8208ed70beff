-------------------------- MODULE ThreadingProofs --------------------------
(***************************************************************************)
(* Proofs about the threading example, for any number of threads.          *)
(***************************************************************************)
EXTENDS Threading, TLAPS

\* What a thread knows of itself: its status is that of its calls so far, it was
\* started, and the result in its data is stored by its last step only.
Record ==
  \A t \in Thread :
    /\ b_status[t] = (t \notin erred)
    /\ pc[t] \in {"none", "failed"} => thread_complete_success[t] = NULL
    /\ pc[t] \notin {"none", "failed"} => started[t] = TRUE
    /\ pc[t] = "returned" => thread_complete_success[t] = b_status[t]

\* The inductive invariant.
IInv == TypeOK /\ HoldersExclude /\ DataOutlivesThread /\ Record

-----------------------------------------------------------------------------

\* Before any thread is started.
LEMMA InitIInv == Init => IInv
BY DEF Init, IInv, TypeOK, HoldersExclude, DataOutlivesThread, Record

\* What a call of thread t leaves of the statuses.
CalledFrame(t) ==
  /\ b_status' \in [Thread -> BOOLEAN]
  /\ erred \subseteq erred' /\ erred' \subseteq Thread
  /\ \A u \in Thread : b_status'[u] = (u \notin erred')
  /\ \A u \in Thread : u # t => b_status'[u] = b_status[u]

\* A call of thread t that returns leaves its status that of its calls.
LEMMA CalledRecord ==
  ASSUME IInv, NEW t \in Thread, NEW ok \in BOOLEAN, Called(t, ok)
  PROVE  CalledFrame(t) /\ (~ok => t \in erred')
BY DEF IInv, TypeOK, Record, Called, Note, CalledFrame

\* Every step of a thread or of the caller keeps the invariant.
LEMMA StepIInv == IInv /\ [Next]_vars => IInv'
<1> SUFFICES ASSUME IInv, [Next]_vars PROVE IInv'
  OBVIOUS
<1> USE DEF IInv, TypeOK, HoldersExclude, DataOutlivesThread, Record, result, ghost, Goto
<1>1. CASE CallerLock
  BY <1>1, ThreadingAssumption DEF CallerLock
<1>2. CASE CallerUnlock
  BY <1>2, ThreadingAssumption DEF CallerUnlock
<1>3. ASSUME NEW t \in Thread, start_thread_obtaining_mutex(t) PROVE IInv'
  BY <1>3 DEF start_thread_obtaining_mutex
<1>4. ASSUME NEW t \in Thread, StartFails(t) PROVE IInv'
  BY <1>4 DEF StartFails
<1>5. ASSUME NEW t \in Thread, Join(t) PROVE IInv'
  BY <1>5 DEF Join
<1>6. ASSUME NEW t \in Thread, SleepToObtain(t) PROVE IInv'
  <2>1. PICK ok \in BOOLEAN : Called(t, ok)
    BY <1>6 DEF SleepToObtain, Sleep
  <2> HIDE DEF IInv
  <2>2. CalledFrame(t)
    BY <2>1, CalledRecord
  <2> QED BY <1>6, <2>2 DEF SleepToObtain, Sleep, CalledFrame, IInv
<1>7. ASSUME NEW t \in Thread, SleepToRelease(t) PROVE IInv'
  <2>1. PICK ok \in BOOLEAN : Called(t, ok)
    BY <1>7 DEF SleepToRelease, Sleep
  <2> HIDE DEF IInv
  <2>2. CalledFrame(t)
    BY <2>1, CalledRecord
  <2> QED BY <1>7, <2>2 DEF SleepToRelease, Sleep, CalledFrame, IInv
<1>8. ASSUME NEW t \in Thread, Lock(t) PROVE IInv'
  <2>1. PICK ok \in BOOLEAN : Called(t, ok)
    BY <1>8 DEF Lock, Sleep
  <2> HIDE DEF IInv
  <2>2. CalledFrame(t)
    BY <2>1, CalledRecord
  <2> QED BY <1>8, <2>2, ThreadingAssumption DEF Lock, Sleep, CalledFrame, IInv
<1>9. ASSUME NEW t \in Thread, LockFails(t) PROVE IInv'
  <2> HIDE DEF IInv
  <2>1. CalledFrame(t) /\ t \in erred'
    BY <1>9, CalledRecord DEF LockFails
  <2> QED BY <1>9, <2>1 DEF LockFails, CalledFrame, IInv
<1>10. ASSUME NEW t \in Thread, Unlock(t) PROVE IInv'
  <2>1. PICK ok \in BOOLEAN : Called(t, ok)
    BY <1>10 DEF Unlock, Sleep
  <2> HIDE DEF IInv
  <2>2. CalledFrame(t)
    BY <2>1, CalledRecord
  <2> QED BY <1>10, <2>2, ThreadingAssumption DEF Unlock, Sleep, CalledFrame, IInv
<1>11. ASSUME NEW t \in Thread, Complete(t) PROVE IInv'
  BY <1>11 DEF Complete, Kept
<1>12. CASE UNCHANGED vars
  BY <1>12 DEF vars
<1> QED
  BY <1>1, <1>2, <1>3, <1>4, <1>5, <1>6, <1>7, <1>8, <1>9, <1>10, <1>11, <1>12
     DEF Next, threadfunc

\* The invariant holds in every reachable state.
LEMMA Invariance == Spec => []IInv
BY InitIInv, StepIInv, PTL DEF Spec

\* Every variable of the threads and of their caller keeps its type.
THEOREM TypeCorrect == Spec => []TypeOK
<1>1. IInv => TypeOK
  BY DEF IInv
<1> QED BY <1>1, Invariance, PTL

\* Between its lock and its unlock a thread holds the mutex, alone, however many
\* threads compete and whichever of their sleeps and unlocks fail, as long as no
\* lock has failed.
THEOREM MutualExclusion == Spec => []HoldersExclude
<1>1. IInv => HoldersExclude
  BY DEF IInv
<1> QED BY <1>1, Invariance, PTL

\* The thread_data that start_thread_obtaining_mutex allocates is there until
\* the thread has been joined.
THEOREM NoUseAfterFree == Spec => []DataOutlivesThread
<1>1. IInv => DataOutlivesThread
  BY DEF IInv
<1> QED BY <1>1, Invariance, PTL

\* thread_complete_success is set exactly when every call of threadfunc succeeded.
THEOREM HonestResult == Spec => []SuccessIsHonest
<1>1. IInv => SuccessIsHonest
  BY DEF IInv, TypeOK, Record, SuccessIsHonest
<1> QED BY <1>1, Invariance, PTL

=============================================================================
