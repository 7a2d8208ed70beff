------------------------------ MODULE Startup ------------------------------
(***************************************************************************)
(* The start of the socket server (server/aesdsocket.c, main up to         *)
(* listen(), bind_to_address, daemonize_process, assign_signal_handler),   *)
(* with the descriptor table of the process that goes on.  What it does    *)
(* after listen() is Listener.                                             *)
(***************************************************************************)
EXTENDS Integers, Sequences, FiniteSetsExt

CONSTANTS
  Addresses,   \* length of the list that getaddrinfo() returns
  MaxFd,       \* the largest descriptor the process may have
  STD, DEVNULL, CLOSED,   \* what a descriptor may be, besides a socket
  NULL

ASSUME StartupAssumption ==
  /\ Addresses \in Nat \ {0} /\ MaxFd \in Nat /\ MaxFd >= 2
  /\ {STD, DEVNULL, CLOSED, NULL} \cap Int = {}
  /\ STD # DEVNULL /\ STD # CLOSED /\ DEVNULL # CLOSED

VARIABLES
  pc,                    \* where main is
  b_daemonize, b_status, \* the option -d, the result of daemonize_process
  files,                 \* what each descriptor refers to
  h_sockfd, null_fd,
  p_addr_node,           \* the address to try next
  bound,                 \* sockets bound to the port, named by their address
  process,               \* "launched" by the user, or the "child" it has forked
  session,               \* whether the process leads its own session
  handlers,              \* signals with a handler
  b_accept_connections,
  launcher,              \* exit code that whoever ran the command has seen, or NULL
  inherited,             \* standard descriptors open at the start, for the properties
  failed                 \* whether a call has failed, for the properties

args   == <<b_daemonize, inherited>>
net    == <<h_sockfd, p_addr_node, bound>>
daemon == <<b_status, null_fd, process, session>>
sig    == <<handlers, b_accept_connections>>
vars   == <<pc, args, files, net, daemon, sig, launcher, failed>>

Fds     == 0 .. MaxFd
Std     == 0 .. 2
Signals == {"SIGINT", "SIGTERM"}
EXIT_FAILURE == -1

\* Mutant: the loop takes one address too many.
SocketsOneMore == 1 .. Addresses + 1

\* The addresses of the list, which also name the sockets made for them.
Sockets == 1 .. Addresses

Init ==
  /\ inherited \in SUBSET Std
  /\ files = [fd \in Fds |-> IF fd \in inherited THEN STD ELSE CLOSED]
  /\ pc = "args" /\ b_daemonize = FALSE /\ b_status = TRUE
  /\ h_sockfd = 0 /\ null_fd = -1 /\ p_addr_node = 1 /\ bound = {}
  /\ process = "launched" /\ session = FALSE
  /\ handlers = {} /\ b_accept_connections = TRUE
  /\ launcher = NULL /\ failed = FALSE

Closed == {fd \in Fds : files[fd] = CLOSED}

\* exit(EXIT_FAILURE). The launcher of a daemon has seen the parent's exit.
Quit ==
  /\ pc' = "exited"
  /\ launcher' = IF process = "child" THEN launcher ELSE EXIT_FAILURE

-----------------------------------------------------------------------------
(* main, up to the socket.                                                 *)

\* Too many arguments or an unknown option end the program.
Arguments ==
  /\ pc = "args"
  /\ \/ pc' = "resolve" /\ b_daemonize' \in BOOLEAN /\ UNCHANGED <<launcher, failed>>
     \/ Quit /\ failed' = TRUE /\ UNCHANGED b_daemonize
  /\ UNCHANGED <<files, net, daemon, sig, inherited>>

Resolve ==
  /\ pc = "resolve"
  /\ \/ pc' = "address" /\ UNCHANGED <<launcher, failed>>
     \/ Quit /\ failed' = TRUE
  /\ UNCHANGED <<args, files, net, daemon, sig>>

\* Mutant: `continue` in a loop that does not advance.
NextAddressSame == p_addr_node

NextAddress == p_addr_node + 1

\* socket() fails, or there is no descriptor left.
SocketFails ==
  /\ pc = "address" /\ p_addr_node \in Sockets
  /\ h_sockfd' = -1
  /\ p_addr_node' = NextAddress
  /\ failed' = TRUE
  /\ UNCHANGED <<pc, args, files, bound, daemon, sig, launcher>>

\* setsockopt() or bind() fails. The socket stays open.
BindFails ==
  /\ pc = "address" /\ p_addr_node \in Sockets /\ Closed # {}
  /\ h_sockfd' = Min(Closed)
  /\ files' = [files EXCEPT ![Min(Closed)] = p_addr_node]
  /\ p_addr_node' = NextAddress
  /\ failed' = TRUE
  /\ UNCHANGED <<pc, args, bound, daemon, sig, launcher>>

\* bind_to_address has succeeded: main goes on.
Bound == pc' = IF b_daemonize THEN "fork" ELSE "signals"

\* Mutant: the loop goes on after a socket was bound.
BreakForgotten == p_addr_node' = p_addr_node + 1 /\ UNCHANGED pc

\* The break of the loop over the addresses.
Break == Bound /\ UNCHANGED p_addr_node

\* The socket is bound and the loop ends.
BindOk ==
  /\ pc = "address" /\ p_addr_node \in Sockets /\ Closed # {}
  /\ h_sockfd' = Min(Closed)
  /\ files' = [files EXCEPT ![Min(Closed)] = p_addr_node]
  /\ bound' = bound \cup {p_addr_node}
  /\ Break
  /\ UNCHANGED <<args, daemon, sig, launcher, failed>>

\* Mutant: the end of the list counts as success.
NotBoundIgnored == Bound /\ UNCHANGED launcher

\* p_addr_node is NULL: bind_to_address has failed, and main exits.
NotBound == Quit

NoAddress ==
  /\ pc = "address" /\ p_addr_node \notin Sockets
  /\ NotBound
  /\ UNCHANGED <<args, files, net, daemon, sig, failed>>

-----------------------------------------------------------------------------
(* daemonize_process.                                                      *)

\* The parent exits with success. When fork() fails the process goes on in the
\* foreground, and daemonize_process still reports success.
Fork ==
  /\ pc = "fork"
  /\ \/ pc' = "detach" /\ process' = "child" /\ launcher' = 0 /\ UNCHANGED failed
     \/ pc' = "signals" /\ failed' = TRUE /\ UNCHANGED <<process, launcher>>
  /\ UNCHANGED <<args, files, net, b_status, null_fd, session, sig>>

\* setsid, chdir and fcloseall, each only when the one before succeeded. What
\* fails is noted and the function goes on. glibc's fcloseall leaves the
\* descriptors of the streams open, other C libraries close them.
Detach ==
  /\ pc = "detach"
  /\ \/ /\ session' \in BOOLEAN
        /\ b_status' = FALSE /\ failed' = TRUE
        /\ UNCHANGED files
     \/ /\ session' = TRUE
        /\ files' \in {files, [fd \in Fds |-> IF fd \in Std THEN CLOSED ELSE files[fd]]}
        /\ UNCHANGED <<b_status, failed>>
  /\ pc' = "null"
  /\ UNCHANGED <<args, net, null_fd, process, sig, launcher>>

\* open("/dev/null")
OpenNull ==
  /\ pc = "null"
  /\ \/ /\ Closed # {}
        /\ null_fd' = Min(Closed)
        /\ files' = [files EXCEPT ![Min(Closed)] = DEVNULL]
        /\ pc' = "redirect"
        /\ UNCHANGED <<b_status, failed>>
     \/ /\ b_status' = FALSE /\ failed' = TRUE
        /\ pc' = "daemonized"
        /\ UNCHANGED <<files, null_fd>>
  /\ UNCHANGED <<args, net, process, session, sig, launcher>>

\* Mutant: standard input is forgotten.
RedirectionsTwo == <<1, 2>>

\* The order of the dup2() calls: stdout, stderr, stdin.
Redirections == <<1, 2, 0>>

\* The first n of them succeed; then null_fd is closed, also when it is itself
\* one of the three.
Redirect ==
  /\ pc = "redirect"
  /\ \E n \in 0 .. Len(Redirections), closes \in BOOLEAN :
       LET redirected == {Redirections[i] : i \in 1 .. n}
           ok == n = Len(Redirections) /\ closes
       IN  /\ files' = [fd \in Fds |-> IF fd = null_fd THEN CLOSED
                                       ELSE IF fd \in redirected THEN DEVNULL ELSE files[fd]]
           /\ b_status' = (b_status /\ ok)
           /\ failed' = (failed \/ ~ok)
  /\ pc' = "daemonized"
  /\ UNCHANGED <<args, net, null_fd, process, session, sig, launcher>>

Daemonized ==
  /\ pc = "daemonized"
  /\ \/ b_status /\ pc' = "signals" /\ UNCHANGED launcher
     \/ ~b_status /\ Quit
  /\ UNCHANGED <<args, files, net, daemon, sig, failed>>

-----------------------------------------------------------------------------
(* main, up to listen().                                                   *)

\* Both calls of sigaction() are made, whatever the first one returned.
assign_signal_handler ==
  /\ pc = "signals"
  /\ handlers' \in SUBSET Signals
  /\ \/ handlers' = Signals /\ pc' = "listen" /\ UNCHANGED <<launcher, failed>>
     \/ handlers' # Signals /\ Quit /\ failed' = TRUE
  /\ UNCHANGED <<args, files, net, daemon, b_accept_connections>>

\* listen() takes any socket, also one that is not bound, and nothing else.
Listen ==
  /\ pc = "listen" /\ h_sockfd \in Fds /\ files[h_sockfd] \in Sockets
  /\ pc' = "serving"
  /\ UNCHANGED <<args, files, net, daemon, sig, launcher, failed>>

ListenFails ==
  /\ pc = "listen"
  /\ Quit
  /\ failed' = (failed \/ (h_sockfd \in Fds /\ files[h_sockfd] \in Sockets))
  /\ UNCHANGED <<args, files, net, daemon, sig>>

\* SIGINT or SIGTERM arrives during the start: without a handler it kills the
\* process, with one the accept loop will find the flag cleared.
Signal(s) ==
  /\ pc \notin {"serving", "exited", "killed"}
  /\ IF s \in handlers
     THEN b_accept_connections' = FALSE /\ UNCHANGED pc
     ELSE pc' = "killed" /\ UNCHANGED b_accept_connections
  /\ UNCHANGED <<args, files, net, daemon, handlers, launcher, failed>>

-----------------------------------------------------------------------------

Step ==
  \/ Arguments \/ Resolve \/ SocketFails \/ BindFails \/ BindOk \/ NoAddress
  \/ Fork \/ Detach \/ OpenNull \/ Redirect \/ Daemonized
  \/ assign_signal_handler \/ Listen \/ ListenFails

Next == Step \/ \E s \in Signals : Signal(s)

\* The process keeps running: none of these calls waits for anybody.
Spec == Init /\ [][Next]_vars /\ WF_vars(Step)

-----------------------------------------------------------------------------
(* Properties.                                                             *)

\* Every variable has its type.
TypeOK ==
  /\ pc \in {"args", "resolve", "address", "fork", "detach", "null", "redirect", "daemonized",
             "signals", "listen", "serving", "exited", "killed"}
  /\ b_daemonize \in BOOLEAN /\ b_status \in BOOLEAN
  /\ files \in [Fds -> {STD, DEVNULL, CLOSED} \cup Sockets]
  /\ h_sockfd \in Fds \cup {-1} /\ null_fd \in Fds \cup {-1}
  /\ p_addr_node \in 1 .. Addresses + 1 /\ bound \subseteq Sockets
  /\ process \in {"launched", "child"} /\ session \in BOOLEAN
  /\ handlers \subseteq Signals /\ b_accept_connections \in BOOLEAN
  /\ launcher \in {NULL, 0, EXIT_FAILURE}
  /\ inherited \subseteq Std /\ failed \in BOOLEAN

\* A server that serves does so on the socket that bind_to_address bound to the
\* port: not on one whose bind() failed, which listen() would give a random
\* port, and not on a descriptor that the redirection of a daemon has replaced.
ServesOnBoundSocket ==
  pc = "serving" => h_sockfd \in Fds /\ files[h_sockfd] \in bound

\* A server started with -d that serves has forked, leads its own session and
\* has kept none of the launcher's descriptors, except when fork() failed.
DaemonIsDetached ==
  pc = "serving" /\ b_daemonize =>
    \/ failed /\ process = "launched"
    \/ process = "child" /\ session /\ \A fd \in Fds : files[fd] # STD

\* The server gives up only when a call has failed, or when it was started as a
\* daemon with a standard descriptor closed: then the socket gets that number
\* and daemonize_process replaces it by /dev/null.
GivesUpOnlyOnFailure ==
  pc = "exited" => failed \/ (b_daemonize /\ inherited # Std /\ h_sockfd \in Std)

\* The start ends: the server serves, has given up or was killed, however many
\* addresses and descriptors fail.
StartupEnds == <>(pc \in {"serving", "exited", "killed"})

=============================================================================
