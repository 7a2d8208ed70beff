------------------------------ MODULE Listener ------------------------------
(***************************************************************************)
(* The main thread of the socket server (server/aesdsocket.c, main): it    *)
(* accepts connections, starts a service thread for each, keeps them on a  *)
(* singly linked list (sys/queue.h) and joins and frees the ones that are  *)
(* done, while SIGINT or SIGTERM may arrive at any time.                   *)
(*                                                                         *)
(* What a service thread does between its start and its end is             *)
(* SocketService; here it runs, sets b_is_thread_complete in its list      *)
(* entry and returns.                                                      *)
(***************************************************************************)
EXTENDS Integers, FiniteSets

CONSTANTS
  Conn,     \* connections that peers may open, each with its service thread
  Entry,    \* addresses of struct slist_entry_s
  NULL

ASSUME ListenerAssumption == NULL \notin Entry \cup Conn /\ IsFiniteSet(Entry)

VARIABLES
  main,                  \* where the main thread is
  b_accept_connections,
  h_recvfd,              \* the connection main has accepted last, or NULL
  fds,                   \* connections whose descriptor is open
  allocated,             \* list entries that are allocated
  head, next,            \* the list
  b_is_thread_complete,  \* of each entry
  p_slist_entry,         \* cursor of the loops, or the entry to insert
  thread,                \* state of each connection's thread
  p_arg,                 \* the entry each thread was started with
  exit_code              \* what main returned, or NULL

list   == <<allocated, head, next, p_slist_entry>>
worker == <<thread, p_arg, b_is_thread_complete>>
vars   == <<main, b_accept_connections, h_recvfd, fds, list, worker, exit_code>>

EXIT_APP_FAILURE == -1

\* A signal may have come since the handlers were installed (Startup).
Init ==
  /\ main = "check" /\ b_accept_connections \in BOOLEAN
  /\ h_recvfd = NULL /\ fds = {}
  /\ allocated = {} /\ head = NULL /\ next = [e \in Entry |-> NULL]
  /\ p_slist_entry = NULL
  /\ thread = [c \in Conn |-> "none"] /\ p_arg = [c \in Conn |-> NULL]
  /\ b_is_thread_complete = [e \in Entry |-> FALSE]
  /\ exit_code = NULL

-----------------------------------------------------------------------------
(* Signals and accept().                                                   *)

\* SIGINT or SIGTERM: the handler clears the flag, and an accept() that is
\* blocked fails with EINTR (sa_flags is 0), which leaves the loop. Before and
\* after accept() the signal has no effect but the flag.
signal_handler ==
  /\ main \notin {"exited", "crashed"}
  /\ b_accept_connections \/ main = "accept"
  /\ b_accept_connections' = FALSE
  /\ main' = IF main = "accept" THEN "drain" ELSE main
  /\ UNCHANGED <<h_recvfd, fds, list, worker, exit_code>>

\* Mutant: the loop never looks at the flag.
CheckAlways ==
  /\ main = "check"
  /\ main' = "call"
  /\ UNCHANGED <<b_accept_connections, h_recvfd, fds, list, worker, exit_code>>

\* The loop condition.
Check ==
  /\ main = "check"
  /\ main' = IF b_accept_connections THEN "call" ELSE "drain"
  /\ UNCHANGED <<b_accept_connections, h_recvfd, fds, list, worker, exit_code>>

\* The system call begins: from here on a signal interrupts it.
EnterAccept ==
  /\ main = "call"
  /\ main' = "accept"
  /\ UNCHANGED <<b_accept_connections, h_recvfd, fds, list, worker, exit_code>>

Accept(c) ==
  /\ main = "accept" /\ thread[c] = "none" /\ c \notin fds
  /\ fds' = fds \cup {c}
  /\ h_recvfd' = c
  /\ main' = "spawn"
  /\ UNCHANGED <<b_accept_connections, list, worker, exit_code>>

\* Mutant: the break is missing, and -1 is taken for a connection.
AcceptFailsGoesOn ==
  /\ main = "accept"
  /\ h_recvfd' = -1
  /\ main' = "spawn"
  /\ UNCHANGED <<b_accept_connections, fds, list, worker, exit_code>>

\* Any other failure, such as too many open descriptors, also leaves the loop.
AcceptFails ==
  /\ main = "accept"
  /\ main' = "drain"
  /\ UNCHANGED <<b_accept_connections, h_recvfd, fds, list, worker, exit_code>>

-----------------------------------------------------------------------------
(* Starting a thread.                                                      *)

\* The scan for closed threads begins with entry e, the head of the list.
ScanFrom(e) ==
  /\ main' = "scan"
  /\ p_slist_entry' = e

\* The thread runs at once, before its entry is on the list.
SpawnThread(e) ==
  /\ main = "spawn" /\ e \in Entry \ allocated
  /\ allocated' = allocated \cup {e}
  /\ b_is_thread_complete' = [b_is_thread_complete EXCEPT ![e] = FALSE]
  /\ p_arg' = [p_arg EXCEPT ![h_recvfd] = e]
  /\ thread' = [thread EXCEPT ![h_recvfd] = "running"]
  /\ p_slist_entry' = e
  /\ main' = "insert"
  /\ UNCHANGED <<b_accept_connections, h_recvfd, fds, head, next, exit_code>>

\* malloc or pthread_create fails: no entry is left, and the connection has no
\* thread.
SpawnFails ==
  /\ main = "spawn"
  /\ ScanFrom(head)
  /\ UNCHANGED <<b_accept_connections, h_recvfd, fds, allocated, head, next, worker, exit_code>>

\* SLIST_INSERT_HEAD
Insert ==
  /\ main = "insert"
  /\ next' = [next EXCEPT ![p_slist_entry] = head]
  /\ head' = p_slist_entry
  /\ ScanFrom(p_slist_entry)
  /\ UNCHANGED <<b_accept_connections, h_recvfd, fds, allocated, worker, exit_code>>

-----------------------------------------------------------------------------
(* Joining the threads that are done.                                      *)

ScanEnd ==
  /\ main = "scan" /\ p_slist_entry = NULL
  /\ main' = "check"
  /\ UNCHANGED <<b_accept_connections, h_recvfd, fds, list, worker, exit_code>>

ScanSkip ==
  /\ main = "scan" /\ p_slist_entry # NULL
  /\ ~b_is_thread_complete[p_slist_entry]
  /\ p_slist_entry' = next[p_slist_entry]
  /\ UNCHANGED <<main, b_accept_connections, h_recvfd, fds, allocated, head, next, worker, exit_code>>

\* Mutant: an entry in the middle of the list takes the rest of it along.
SLIST_REMOVE_Truncates(e) ==
  IF head = e
  THEN head' = next[e] /\ UNCHANGED next
  ELSE /\ next' = [f \in Entry |-> IF f \in allocated /\ next[f] = e THEN NULL ELSE next[f]]
       /\ UNCHANGED head

\* The entry's predecessor, or the head, gets its successor. The entry keeps
\* its own pointer.
SLIST_REMOVE(e) ==
  IF head = e
  THEN head' = next[e] /\ UNCHANGED next
  ELSE /\ next' = [f \in Entry |-> IF f \in allocated /\ next[f] = e THEN next[e] ELSE next[f]]
       /\ UNCHANGED head

NotJoined(e) == TRUE   \* mutant: the thread is not waited for

\* pthread_join of the entry's thread returns.
Joined(e) == \A c \in Conn : p_arg[c] = e => thread[c] \in {"ended", "joined"}

\* The thread is joined and the entry freed.
Release(e) ==
  /\ Joined(e)
  /\ thread' = [c \in Conn |-> IF p_arg[c] = e /\ thread[c] = "ended" THEN "joined" ELSE thread[c]]
  /\ allocated' = allocated \ {e}
  /\ UNCHANGED <<p_arg, b_is_thread_complete>>

\* SLIST_NEXT of the entry that was just freed, a read of freed memory. The
\* allocator may have left the pointer alone, or something else has been written
\* over it: then the loop ends, or it goes on with another entry of the list.
AfterFree(e) == {next[e], NULL} \cup (allocated \ {e})

Reap ==
  /\ main = "scan" /\ p_slist_entry # NULL
  /\ b_is_thread_complete[p_slist_entry]
  /\ Release(p_slist_entry)
  /\ SLIST_REMOVE(p_slist_entry)
  /\ \E e \in AfterFree(p_slist_entry) : p_slist_entry' = e
  /\ UNCHANGED <<main, b_accept_connections, h_recvfd, fds, exit_code>>

\* The last outcome of the read of freed memory: what it finds points to no entry
\* of the list, and the process dies of it.
ReapWild ==
  /\ main = "scan" /\ p_slist_entry # NULL
  /\ b_is_thread_complete[p_slist_entry]
  /\ Joined(p_slist_entry)
  /\ main' = "crashed"
  /\ UNCHANGED <<b_accept_connections, h_recvfd, fds, list, worker, exit_code>>

-----------------------------------------------------------------------------
(* Leaving.                                                                *)

\* Join the head of the list, unlink it and free it.
Drain ==
  /\ main = "drain" /\ head # NULL
  /\ Release(head)
  /\ head' = next[head]
  /\ UNCHANGED <<main, b_accept_connections, h_recvfd, fds, next, p_slist_entry, exit_code>>

\* Mutant: the loop ends when one entry is left.
DrainDoneEarly == \A e \in Entry : head = e => next[e] = NULL

\* SLIST_EMPTY
DrainDone == head = NULL

Exit ==
  /\ main = "drain" /\ DrainDone
  /\ main' = "exited"
  /\ exit_code' = IF b_accept_connections THEN EXIT_APP_FAILURE ELSE 0
  /\ UNCHANGED <<b_accept_connections, h_recvfd, fds, list, worker>>

-----------------------------------------------------------------------------
(* The service threads.                                                    *)

Alive == main \notin {"exited", "crashed"}

\* The thread's last access to its entry. It does not close h_recvfd.
SetComplete(c) ==
  /\ Alive /\ thread[c] = "running"
  /\ b_is_thread_complete' = [b_is_thread_complete EXCEPT ![p_arg[c]] = TRUE]
  /\ thread' = [thread EXCEPT ![c] = "flagged"]
  /\ UNCHANGED <<main, b_accept_connections, h_recvfd, fds, list, p_arg, exit_code>>

ThreadReturns(c) ==
  /\ Alive /\ thread[c] = "flagged"
  /\ thread' = [thread EXCEPT ![c] = "ended"]
  /\ UNCHANGED <<main, b_accept_connections, h_recvfd, fds, list, p_arg, b_is_thread_complete, exit_code>>

-----------------------------------------------------------------------------

\* What main does without waiting for a peer.
MainStep ==
  \/ Check \/ EnterAccept
  \/ SpawnFails \/ (\E e \in Entry : SpawnThread(e)) \/ Insert
  \/ ScanEnd \/ ScanSkip \/ Reap \/ ReapWild
  \/ Drain \/ Exit

ThreadStep(c) == SetComplete(c) \/ ThreadReturns(c)

Next ==
  \/ signal_handler
  \/ MainStep
  \/ AcceptFails
  \/ \E c \in Conn : Accept(c) \/ ThreadStep(c)

Spec == Init /\ [][Next]_vars

\* Main keeps running, and every peer closes its connection in the end, so that
\* its thread returns. No peer need ever connect, and no signal need come.
Fairness == WF_vars(MainStep) /\ \A c \in Conn : WF_vars(ThreadStep(c))

FairSpec == Spec /\ Fairness

-----------------------------------------------------------------------------
(* Properties.                                                             *)

\* Every variable has its type.
TypeOK ==
  /\ main \in {"check", "call", "accept", "spawn", "insert", "scan", "drain", "exited", "crashed"}
  /\ b_accept_connections \in BOOLEAN
  /\ h_recvfd \in Conn \cup {NULL} /\ fds \subseteq Conn
  /\ allocated \subseteq Entry
  /\ head \in Entry \cup {NULL} /\ p_slist_entry \in Entry \cup {NULL}
  /\ next \in [Entry -> Entry \cup {NULL}]
  /\ b_is_thread_complete \in [Entry -> BOOLEAN]
  /\ thread \in [Conn -> {"none", "running", "flagged", "ended", "joined"}]
  /\ p_arg \in [Conn -> Entry \cup {NULL}]
  /\ exit_code \in {NULL, 0, EXIT_APP_FAILURE}

\* Threads that were started and not joined.
Started == {c \in Conn : thread[c] \in {"running", "flagged", "ended"}}

\* A thread that still runs has its arguments in an allocated entry that no
\* other thread has and whose flag it has not set, so its last write hits
\* neither freed memory nor another connection's flag.
ArgsStayValid ==
  \A c \in Conn : thread[c] = "running" =>
    /\ p_arg[c] \in allocated
    /\ ~b_is_thread_complete[p_arg[c]]
    /\ \A d \in Started : p_arg[d] = p_arg[c] => d = c

\* The addresses that following the list n times leads to.
Chain ==
  LET walk[n \in 0 .. Cardinality(Entry)] ==
        IF n = 0 THEN head
        ELSE IF walk[n - 1] = NULL THEN NULL ELSE next[walk[n - 1]]
  IN  walk

\* Outside of a step on the list: the list ends, it holds exactly the entries of
\* the threads that were started and not joined, and nothing else is allocated,
\* wherever the scan goes after it has freed an entry. A thread that is missing
\* from the list would never be joined or freed.
ListHoldsThreads ==
  main \in {"check", "call", "accept", "spawn", "scan", "drain"} =>
    /\ Chain[Cardinality(Entry)] = NULL
    /\ {Chain[n] : n \in DOMAIN Chain} \ {NULL} = allocated
    /\ allocated = {p_arg[c] : c \in Started}

\* The process ends only when every thread has been joined and every entry
\* freed, and it reports success only after a signal.
ExitIsClean ==
  main = "exited" =>
    /\ Started = {} /\ allocated = {}
    /\ exit_code = 0 <=> ~b_accept_connections

\* A signal that arrives while main is neither in accept() nor about to call it
\* ends the process, once the peers have closed their connections.
SignalOutsideAcceptTerminates ==
  ~b_accept_connections /\ main \notin {"call", "accept"} ~> ~Alive

-----------------------------------------------------------------------------
(* What the comments of the code say and the code does not do.             *)

\* aesdsocket.c:64: the handler redirects SIGINT and SIGTERM "to gracefully exit
\* application".
SignalTerminates == ~b_accept_connections ~> ~Alive

=============================================================================
