---------------------------- MODULE SystemCalls ----------------------------
(***************************************************************************)
(* examples/systemcalls: a process that runs one command after the other   *)
(* with do_system, do_exec and do_exec_redirect, the children these fork,  *)
(* and the file that do_exec_redirect sends their output to.               *)
(*                                                                         *)
(* A command is named by the number of its call, and so is each byte it    *)
(* writes.  All redirected calls name the same file.                       *)
(***************************************************************************)
EXTENDS Integers, Sequences

CONSTANTS
  MaxCalls,   \* bound: calls the process makes
  MaxOutput,  \* bound: bytes a command writes
  NULL

ASSUME SystemCallsAssumption ==
  /\ MaxCalls \in Nat /\ MaxOutput \in Nat
  /\ NULL \notin BOOLEAN /\ NULL \notin {"zero", "nonzero", "signal"}

VARIABLES
  caller,       \* "idle", or in "wait" for the child of the last call
  calls,        \* the functions called so far, in order
  child,        \* the child of each call
  result,       \* what each call returned, or NULL
  file,         \* contents of outputfile
  buffered,     \* whether each child has inherited text the caller's stdio has not written
  autoreap,     \* whether the caller ignores SIGCHLD, so that children leave no zombie
  interrupted,  \* calls whose waitpid() a signal has cut short, for the properties
  opener        \* the last call that truncated the file, or 0, for the properties

vars == <<caller, calls, child, result, file, buffered, autoreap, interrupted, opener>>

Call      == 1 .. MaxCalls
Functions == {"do_system", "do_exec", "do_exec_redirect"}
n         == Len(calls)

\* Bytes that no command wrote: the caller's unwritten text, and a hole.
TEXT == 0
HOLE == -1

\* The states of a child.
Children ==
  [at : {"none", "forked", "opened", "redirected", "running", "zombie", "gone"},
   stdout : {"terminal", "file"}, offset : 0 .. MaxOutput,
   status : {NULL, "zero", "nonzero", "signal"}, ran : BOOLEAN]

NoChild == [at |-> "none", stdout |-> "terminal", offset |-> 0, status |-> NULL, ran |-> FALSE]

Init ==
  /\ caller = "idle" /\ calls = <<>>
  /\ child = [c \in Call |-> NoChild]
  /\ result = [c \in Call |-> NULL]
  /\ file = <<>>
  /\ buffered = [c \in Call |-> FALSE]
  /\ autoreap \in BOOLEAN
  /\ interrupted = {} /\ opener = 0

Return(c, value) ==
  /\ result' = [result EXCEPT ![c] = value]
  /\ caller' = "idle"

-----------------------------------------------------------------------------
(* The caller.                                                             *)

\* fork() succeeds, here or inside of system(). The child inherits what the
\* caller's stdio holds; a child of system() never writes it.
Fork(f) ==
  /\ caller = "idle" /\ n < MaxCalls
  /\ calls' = Append(calls, f)
  /\ child' = [child EXCEPT ![n + 1].at = "forked"]
  /\ \E b \in BOOLEAN : buffered' = [buffered EXCEPT ![n + 1] = b /\ f # "do_system"]
  /\ caller' = "wait"
  /\ UNCHANGED <<result, file, autoreap, interrupted, opener>>

\* fork() fails, or do_system(NULL) asks for a shell: no command runs.
ForkFails(f) ==
  /\ caller = "idle" /\ n < MaxCalls
  /\ calls' = Append(calls, f)
  /\ Return(n + 1, FALSE)
  /\ UNCHANGED <<child, file, buffered, autoreap, interrupted, opener>>

\* Mutant: waitpid() with WNOHANG.
TerminatedNotAwaited(c) == TRUE

\* What waitpid() waits for.
Terminated(c) == child[c].at = "zombie"

\* Mutant: WEXITSTATUS without WIFEXITED, which is 0 for a child that a signal killed.
SucceededUnchecked(c) == child[c].status \in {"zero", "signal"}

\* WIFEXITED, and WEXITSTATUS is 0.
Succeeded(c) == child[c].status = "zero"

\* waitpid() has reaped the child.
Wait ==
  /\ caller = "wait" /\ Terminated(n)
  /\ child' = [child EXCEPT ![n].at = IF @ = "zombie" THEN "gone" ELSE @]
  /\ Return(n, Succeeded(n))
  /\ UNCHANGED <<calls, file, buffered, autoreap, interrupted, opener>>

\* A signal interrupts waitpid(), which system() does not let happen, and the
\* call leaves its child behind.
Interrupted ==
  /\ caller = "wait" /\ calls[n] # "do_system" /\ child[n].at # "gone"
  /\ interrupted' = interrupted \cup {n}
  /\ Return(n, FALSE)
  /\ UNCHANGED <<calls, child, file, buffered, autoreap, opener>>

\* Mutant: the wait is repeated after every failure, not only after EINTR.
NoStatusRetries == caller = "wait" /\ child[n].at = "gone" /\ UNCHANGED vars

\* waitpid() fails because the child is gone and has left no status.
NoStatus ==
  /\ caller = "wait" /\ child[n].at = "gone"
  /\ Return(n, FALSE)
  /\ UNCHANGED <<calls, child, file, buffered, autoreap, interrupted, opener>>

-----------------------------------------------------------------------------
(* A child.                                                                *)

\* A byte written at an offset of its own: no O_APPEND.
Put(f, offset, byte) ==
  [i \in 1 .. IF offset < Len(f) THEN Len(f) ELSE offset + 1 |->
     IF i = offset + 1 THEN byte ELSE IF i <= Len(f) THEN f[i] ELSE HOLE]

Exited == IF autoreap THEN "gone" ELSE "zombie"

\* Mutant: the child does not exit but returns to the caller's code.
QuitForgotten(c) == child' = [child EXCEPT ![c].at = "returned"] /\ UNCHANGED file

\* exit(1) writes the text that the child has inherited, wherever its stdout
\* leads by now. A child of system() leaves with _exit().
Quit(c) ==
  /\ child' = [child EXCEPT ![c].at = Exited, ![c].status = "nonzero"]
  /\ file' = IF buffered[c] /\ child[c].stdout = "file" THEN Put(file, 0, TEXT) ELSE file

\* Mutant: without O_TRUNC.
OpenedKeeps == file

\* O_CREAT and O_TRUNC.
Opened == <<>>

Open(c) ==
  /\ child[c].at = "forked" /\ calls[c] = "do_exec_redirect"
  /\ \/ child' = [child EXCEPT ![c].at = "opened"] /\ file' = Opened /\ opener' = c
     \/ Quit(c) /\ UNCHANGED opener
  /\ UNCHANGED <<caller, calls, result, buffered, autoreap, interrupted>>

Dup2(c) ==
  /\ child[c].at = "opened"
  /\ \/ child' = [child EXCEPT ![c].at = "redirected", ![c].stdout = "file"] /\ UNCHANGED file
     \/ Quit(c)
  /\ UNCHANGED <<caller, calls, result, buffered, autoreap, interrupted, opener>>

\* execv(), or the shell that system() starts: the command replaces the child's
\* memory, and with it the inherited text.
Exec(c) ==
  /\ \/ child[c].at = "redirected"
     \/ child[c].at = "forked" /\ calls[c] # "do_exec_redirect"
  /\ \/ child' = [child EXCEPT ![c].at = "running", ![c].ran = TRUE] /\ UNCHANGED file
     \/ Quit(c)
  /\ UNCHANGED <<caller, calls, result, buffered, autoreap, interrupted, opener>>

\* The command writes a byte.
Write(c) ==
  /\ child[c].at = "running" /\ child[c].stdout = "file" /\ child[c].offset < MaxOutput
  /\ file' = Put(file, child[c].offset, c)
  /\ child' = [child EXCEPT ![c].offset = @ + 1]
  /\ UNCHANGED <<caller, calls, result, buffered, autoreap, interrupted, opener>>

\* The command ends.
End(c, status) ==
  /\ child[c].at = "running"
  /\ child' = [child EXCEPT ![c].at = Exited, ![c].status = status]
  /\ UNCHANGED <<caller, calls, result, file, buffered, autoreap, interrupted, opener>>

-----------------------------------------------------------------------------

\* The three functions, as the caller enters them. They differ in what the child
\* does first (Open, Exec), and in whether a signal may interrupt the wait.
do_system        == Fork("do_system") \/ ForkFails("do_system")
do_exec          == Fork("do_exec") \/ ForkFails("do_exec")
do_exec_redirect == Fork("do_exec_redirect") \/ ForkFails("do_exec_redirect")

ChildStep(c) ==
  \/ Open(c) \/ Dup2(c) \/ Exec(c) \/ Write(c)
  \/ \E status \in {"zero", "nonzero", "signal"} : End(c, status)

Next ==
  \/ do_system \/ do_exec \/ do_exec_redirect
  \/ Wait \/ Interrupted \/ NoStatus
  \/ \E c \in Call : ChildStep(c)

\* The caller returns from a wait that is over, and commands end. No signal need
\* come.
Fairness == WF_vars(Wait \/ NoStatus) /\ \A c \in Call : WF_vars(ChildStep(c))

Spec == Init /\ [][Next]_vars /\ Fairness

-----------------------------------------------------------------------------
(* Properties.                                                             *)

\* Every variable has its type.
TypeOK ==
  /\ caller \in {"idle", "wait"}
  /\ calls \in Seq(Functions) /\ n <= MaxCalls
  /\ child \in [Call -> Children]
  /\ result \in [Call -> BOOLEAN \cup {NULL}]
  /\ file \in Seq(Call \cup {TEXT, HOLE})
  /\ buffered \in [Call -> BOOLEAN] /\ autoreap \in BOOLEAN
  /\ interrupted \subseteq Call /\ opener \in 0 .. MaxCalls

\* A call that has returned reports success exactly when its command was
\* started, has ended by itself with status 0, and its status was there to be
\* read: no failure of fork, open, dup2 or exec and no signal passes for
\* success, and a command that still runs does not either.
ResultIsHonest ==
  \A c \in Call : result[c] # NULL =>
    (result[c] <=> /\ child[c].ran /\ child[c].at = "gone" /\ child[c].status = "zero"
                   /\ ~autoreap)

\* Between calls the caller has no child left, alive or zombie, except those of
\* the calls whose wait was interrupted.
ChildrenAreReaped ==
  caller = "idle" => \A c \in Call \ interrupted : child[c].at \in {"none", "gone"}

\* Between calls, when no wait was ever interrupted, the file holds exactly what
\* the last command that was redirected to it wrote. When that command could
\* not be started, it holds nothing, or the text that the caller's stdio had not
\* yet written and the failing child wrote to its redirected stdout.
OutputIsCommands ==
  caller = "idle" /\ interrupted = {} /\ opener # 0 =>
    file = IF child[opener].ran THEN [i \in 1 .. child[opener].offset |-> opener]
           ELSE IF buffered[opener] /\ child[opener].stdout = "file" THEN <<TEXT>>
           ELSE <<>>

\* A call returns, whatever fails in the child.
CallsReturn == caller = "wait" ~> caller = "idle"

=============================================================================
