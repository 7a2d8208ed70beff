----------------------------- MODULE Threading -----------------------------
(***************************************************************************)
(* examples/threading: start_thread_obtaining_mutex starts threads that    *)
(* sleep, take a mutex, sleep again and release it.  The caller, which is  *)
(* not part of the repository, shares the mutex, joins the threads and     *)
(* frees their thread_data, as threading.h asks of it.                     *)
(***************************************************************************)
EXTENDS Integers

CONSTANTS Thread, CALLER, NULL

ASSUME ThreadingAssumption == CALLER \notin Thread /\ NULL \notin Thread \cup BOOLEAN

VARIABLES
  pc,                       \* where each thread is
  mutex,                    \* who holds it, or NULL
  allocated,                \* threads whose thread_data is allocated
  b_status,                 \* of threadfunc
  thread_complete_success,  \* in the thread's data, or NULL
  started,                  \* what start_thread_obtaining_mutex returned, or NULL
  erred, lockFailed         \* threads in which a call, or the lock, failed, for the properties

result == <<thread_complete_success, started>>
ghost  == <<erred, lockFailed>>
vars   == <<pc, mutex, allocated, b_status, result, ghost>>

Init ==
  /\ pc = [t \in Thread |-> "none"]
  /\ mutex = NULL
  /\ allocated = {}
  /\ b_status = [t \in Thread |-> TRUE]
  /\ thread_complete_success = [t \in Thread |-> NULL]
  /\ started = [t \in Thread |-> NULL]
  /\ erred = {} /\ lockFailed = {}

Goto(t, label) == pc' = [pc EXCEPT ![t] = label]

-----------------------------------------------------------------------------
(* The caller.                                                             *)

start_thread_obtaining_mutex(t) ==
  /\ pc[t] = "none"
  /\ allocated' = allocated \cup {t}
  /\ started' = [started EXCEPT ![t] = TRUE]
  /\ Goto(t, "sleep")
  /\ UNCHANGED <<mutex, b_status, thread_complete_success, ghost>>

\* malloc() fails, or pthread_create() does: then the data stays allocated, and
\* nobody knows its address any more.
StartFails(t) ==
  /\ pc[t] = "none"
  /\ allocated' \in {allocated, allocated \cup {t}}
  /\ started' = [started EXCEPT ![t] = FALSE]
  /\ Goto(t, "failed")
  /\ UNCHANGED <<mutex, b_status, thread_complete_success, ghost>>

\* The caller takes the mutex that it passes to the threads, and releases it.
CallerLock ==
  /\ mutex = NULL /\ mutex' = CALLER
  /\ UNCHANGED <<pc, allocated, b_status, result, ghost>>

CallerUnlock ==
  /\ mutex = CALLER /\ mutex' = NULL
  /\ UNCHANGED <<pc, allocated, b_status, result, ghost>>

\* pthread_join() returns the thread's data, and the caller frees it.
Join(t) ==
  /\ pc[t] = "returned"
  /\ allocated' = allocated \ {t}
  /\ Goto(t, "joined")
  /\ UNCHANGED <<mutex, b_status, result, ghost>>

-----------------------------------------------------------------------------
(* threadfunc: a call that fails is noted, and the function goes on.       *)

\* Mutant: the status is that of the last call.
NoteLast(t, ok) == b_status' = [b_status EXCEPT ![t] = ok]

\* b_status after a call of thread t.
Note(t, ok) == b_status' = [b_status EXCEPT ![t] = @ /\ ok]

\* A call of thread t returns.
Called(t, ok) ==
  /\ Note(t, ok)
  /\ erred' = IF ok THEN erred ELSE erred \cup {t}

\* usleep(wait_to_obtain_ms), then usleep(wait_to_release_ms).
Sleep(t, label, next) ==
  /\ pc[t] = label
  /\ \E ok \in BOOLEAN : Called(t, ok)
  /\ Goto(t, next)
  /\ UNCHANGED <<mutex, allocated, result, lockFailed>>

SleepToObtain(t) == Sleep(t, "sleep", "lock")

Lock(t) ==
  /\ pc[t] = "lock" /\ mutex = NULL
  /\ mutex' = t
  /\ Called(t, TRUE)
  /\ Goto(t, "hold")
  /\ UNCHANGED <<allocated, result, lockFailed>>

\* The thread goes on without the mutex.
LockFails(t) ==
  /\ pc[t] = "lock"
  /\ Called(t, FALSE)
  /\ lockFailed' = lockFailed \cup {t}
  /\ Goto(t, "hold")
  /\ UNCHANGED <<mutex, allocated, result>>

\* Mutant: the mutex is released before the sleep.
SleepToReleaseUnlocked(t) ==
  /\ pc[t] = "hold" /\ mutex' = NULL
  /\ \E ok \in BOOLEAN : Called(t, ok)
  /\ Goto(t, "unlock")
  /\ UNCHANGED <<allocated, result, lockFailed>>

\* Mutant: a failed sleep returns at once.
SleepToReleaseReturns(t) ==
  /\ pc[t] = "hold"
  /\ \E ok \in BOOLEAN : Called(t, ok) /\ Goto(t, IF ok THEN "unlock" ELSE "store")
  /\ UNCHANGED <<mutex, allocated, result, lockFailed>>

SleepToRelease(t) == Sleep(t, "hold", "unlock")

\* A thread without the mutex releases that of another thread, or gets an error
\* when the mutex checks its owner.
Unlock(t) ==
  /\ pc[t] = "unlock"
  /\ \/ mutex' = NULL /\ Called(t, TRUE)
     \/ mutex # t /\ Called(t, FALSE) /\ UNCHANGED mutex
  /\ Goto(t, "store")
  /\ UNCHANGED <<allocated, result, lockFailed>>

\* Mutant: the thread frees its data itself.
KeptFreed(t) == allocated' = allocated \ {t}

\* The data is left to whoever joins the thread.
Kept(t) == UNCHANGED allocated

\* Mutant: the status is not stored, and the field keeps what malloc() returned.
CompleteUnset(t) ==
  /\ pc[t] = "store"
  /\ Kept(t)
  /\ Goto(t, "returned")
  /\ UNCHANGED <<mutex, b_status, result, ghost>>

\* The result is stored in the data, and the thread returns it.
Complete(t) ==
  /\ pc[t] = "store"
  /\ thread_complete_success' = [thread_complete_success EXCEPT ![t] = b_status[t]]
  /\ Kept(t)
  /\ Goto(t, "returned")
  /\ UNCHANGED <<mutex, b_status, started, ghost>>

-----------------------------------------------------------------------------

threadfunc(t) == SleepToObtain(t) \/ SleepToRelease(t) \/ Unlock(t) \/ Complete(t)

Next ==
  \/ CallerLock \/ CallerUnlock
  \/ \E t \in Thread :
       \/ start_thread_obtaining_mutex(t) \/ StartFails(t) \/ Join(t)
       \/ threadfunc(t) \/ Lock(t) \/ LockFails(t)

\* Threads run, a thread that waits for the mutex is not overtaken for ever, and
\* the caller releases the mutex. No lock need fail, and nobody need be joined.
Fairness ==
  /\ WF_vars(CallerUnlock)
  /\ \A t \in Thread : WF_vars(threadfunc(t)) /\ SF_vars(Lock(t))

Spec == Init /\ [][Next]_vars /\ Fairness

-----------------------------------------------------------------------------
(* Properties.                                                             *)

\* Every variable has its type: the joiner of a thread finds a result in its
\* data, in which malloc() has left thread_complete_success unset (NULL).
TypeOK ==
  /\ pc \in [Thread -> {"none", "failed", "sleep", "lock", "hold", "unlock", "store", "returned", "joined"}]
  /\ mutex \in Thread \cup {CALLER, NULL}
  /\ allocated \subseteq Thread
  /\ b_status \in [Thread -> BOOLEAN]
  /\ thread_complete_success \in [Thread -> BOOLEAN \cup {NULL}]
  /\ \A t \in Thread : pc[t] \in {"returned", "joined"} => thread_complete_success[t] \in BOOLEAN
  /\ started \in [Thread -> BOOLEAN \cup {NULL}]
  /\ erred \subseteq Thread /\ lockFailed \subseteq Thread

\* From its lock to its unlock a thread holds the mutex, so that neither another
\* thread nor the caller is in between, unless the lock of some thread has
\* failed: that thread does not stop and may release the mutex of another one.
HoldersExclude ==
  lockFailed = {} => \A t \in Thread : pc[t] \in {"hold", "unlock"} => mutex = t

\* The data of a thread is allocated from before the thread runs until it has
\* been joined, and of a thread that was not started it is never used.
DataOutlivesThread ==
  \A t \in Thread :
    /\ pc[t] \in {"sleep", "lock", "hold", "unlock", "store", "returned"} => t \in allocated
    /\ pc[t] = "joined" => t \notin allocated
    /\ pc[t] = "failed" => thread_complete_success[t] = NULL

\* The joiner of a thread reads success exactly when none of its calls failed,
\* and start_thread_obtaining_mutex has told it that there is a thread.
SuccessIsHonest ==
  \A t \in Thread : pc[t] = "returned" =>
    started[t] /\ (thread_complete_success[t] <=> t \notin erred)

\* A thread that was started returns, whatever the others and the caller do with
\* the mutex, and whichever of its calls fail.
ThreadsReturn == \A t \in Thread : pc[t] = "sleep" ~> pc[t] \in {"returned", "joined"}

=============================================================================
