--------------------------- MODULE StartupProofs ---------------------------
(***************************************************************************)
(* Proofs about the start of the server, for any number of addresses and   *)
(* of descriptors.                                                         *)
(***************************************************************************)
EXTENDS Startup, WellFoundedInduction, TLAPS

-----------------------------------------------------------------------------
(* The inductive invariant.                                                *)

BoundPcs   == {"fork", "detach", "null", "redirect", "daemonized", "signals", "listen", "serving"}
DaemonPcs  == {"detach", "null", "redirect", "daemonized"}
ServingPcs == {"signals", "listen", "serving"}

\* Before a socket is bound: descriptors are only taken, one socket of the list
\* is bound at the most, and the list advances only after a failure.
Search ==
  /\ pc \in {"args", "resolve", "address"} =>
       /\ bound = {} /\ process = "launched"
       /\ \A fd \in Std : files[fd] = CLOSED => fd \notin inherited
  /\ pc \in {"args", "resolve"} => p_addr_node = 1
  /\ p_addr_node > 1 => failed

\* h_sockfd is the bound socket, unless it has the number of a standard
\* descriptor that was closed at the start and was replaced by the daemon.
SocketKept ==
  pc \in BoundPcs =>
    /\ h_sockfd \in Fds
    /\ h_sockfd \in Std => h_sockfd \notin inherited
    /\ \/ files[h_sockfd] \in bound
       \/ files[h_sockfd] \in {DEVNULL, CLOSED} /\ b_daemonize /\ h_sockfd \in Std

\* How far daemonize_process has come with the session and the descriptors.
Detaching ==
  /\ \A fd \in Fds : files[fd] = STD => fd \in Std
  /\ pc = "fork" => b_daemonize /\ process = "launched"
  /\ pc \in DaemonPcs => b_daemonize /\ process = "child"
  /\ pc \in {"null", "redirect", "daemonized"} /\ b_status => session
  /\ pc = "redirect" => null_fd \in Fds /\ files[null_fd] = DEVNULL
  /\ pc = "daemonized" /\ b_status => \A fd \in Fds : files[fd] # STD
  /\ ~b_status => failed
  /\ pc \in ServingPcs /\ b_daemonize =>
       \/ failed /\ process = "launched"
       \/ process = "child" /\ session /\ \A fd \in Fds : files[fd] # STD

IInv ==
  /\ TypeOK /\ Search /\ SocketKept /\ Detaching
  /\ ServesOnBoundSocket /\ GivesUpOnlyOnFailure

-----------------------------------------------------------------------------

\* The lowest closed descriptor is one of them.
LEMMA LowestClosed ==
  ASSUME Closed # {}
  PROVE  Min(Closed) \in Closed
<1>1. Closed \in SUBSET Nat
  BY StartupAssumption DEF Closed, Fds
<1>2. PICK n \in Closed : \A m \in Closed : ~ (<<m, n>> \in OpToRel(<, Nat))
  BY <1>1, NatLessThanWellFounded, WFMin
<1>3. \A m \in Closed : ~ (m < n)
  BY <1>1, <1>2 DEF OpToRel
<1>4. \A m \in Closed : n <= m
  BY <1>1, <1>3
<1> QED BY <1>4 DEF Min

\* Before main has looked at its arguments.
LEMMA InitIInv == Init => IInv
<1> SUFFICES ASSUME Init PROVE IInv
  OBVIOUS
<1> USE StartupAssumption DEF Init
<1>1. TypeOK
  <2>1. files \in [Fds -> {STD, DEVNULL, CLOSED} \cup Sockets]
    OBVIOUS
  <2>2. p_addr_node \in 1 .. Addresses + 1 /\ h_sockfd \in Fds
    BY DEF Fds
  <2> QED BY <2>1, <2>2 DEF TypeOK
<1>2. Search /\ SocketKept /\ ServesOnBoundSocket /\ GivesUpOnlyOnFailure
  BY DEF Search, SocketKept, ServesOnBoundSocket, GivesUpOnlyOnFailure, BoundPcs, Fds, Std
<1>3. Detaching
  BY DEF Detaching, DaemonPcs, ServingPcs
<1> QED BY <1>1, <1>2, <1>3 DEF IInv

\* Every step of the start, and a signal, keeps the invariant.
LEMMA StepIInv == IInv /\ [Next]_vars => IInv'
<1> SUFFICES ASSUME IInv, [Next]_vars PROVE IInv'
  OBVIOUS
<1> USE StartupAssumption DEF args, net, daemon, sig, Quit
<1>0. /\ TypeOK /\ Search /\ SocketKept /\ Detaching
      /\ ServesOnBoundSocket /\ GivesUpOnlyOnFailure
      /\ Std \subseteq Fds /\ Fds \subseteq Int
      /\ DEVNULL \notin Sockets /\ CLOSED \notin Sockets /\ STD \notin Sockets
  BY DEF IInv, Std, Fds, Sockets
<1>1. CASE Arguments
  <2>1. TypeOK'
    BY <1>0, <1>1 DEF Arguments, TypeOK
  <2>2. Search'
    BY <1>0, <1>1 DEF Arguments, TypeOK, Search
  <2>3. SocketKept' /\ ServesOnBoundSocket'
    BY <1>0, <1>1 DEF Arguments, TypeOK, Search, SocketKept, ServesOnBoundSocket, Detaching,
       BoundPcs, DaemonPcs
  <2>4. Detaching'
    BY <1>0, <1>1 DEF Arguments, TypeOK, Search, Detaching, DaemonPcs,
       ServingPcs
  <2>5. GivesUpOnlyOnFailure'
    BY <1>0, <1>1 DEF Arguments, TypeOK, Search, SocketKept, Detaching, GivesUpOnlyOnFailure, BoundPcs
  <2> QED BY <2>1, <2>2, <2>3, <2>4, <2>5 DEF IInv
<1>2. CASE Resolve
  <2>1. TypeOK'
    BY <1>0, <1>2 DEF Resolve, TypeOK
  <2>2. Search'
    BY <1>0, <1>2 DEF Resolve, TypeOK, Search
  <2>3. SocketKept' /\ ServesOnBoundSocket'
    BY <1>0, <1>2 DEF Resolve, TypeOK, Search, SocketKept, ServesOnBoundSocket, Detaching,
       BoundPcs, DaemonPcs
  <2>4. Detaching'
    BY <1>0, <1>2 DEF Resolve, TypeOK, Search, Detaching, DaemonPcs,
       ServingPcs
  <2>5. GivesUpOnlyOnFailure'
    BY <1>0, <1>2 DEF Resolve, TypeOK, Search, SocketKept, Detaching, GivesUpOnlyOnFailure, BoundPcs
  <2> QED BY <2>1, <2>2, <2>3, <2>4, <2>5 DEF IInv
<1>3. CASE SocketFails
  <2>1. TypeOK'
    BY <1>0, <1>3 DEF SocketFails, NextAddress, Sockets, TypeOK
  <2>2. Search'
    BY <1>0, <1>3 DEF SocketFails, NextAddress, Sockets, TypeOK, Search
  <2>3. SocketKept' /\ ServesOnBoundSocket'
    BY <1>0, <1>3 DEF SocketFails, NextAddress, Sockets, TypeOK, Search, SocketKept, ServesOnBoundSocket, Detaching,
       BoundPcs, DaemonPcs
  <2>4. Detaching'
    BY <1>0, <1>3 DEF SocketFails, NextAddress, Sockets, TypeOK, Search, Detaching, DaemonPcs,
       ServingPcs
  <2>5. GivesUpOnlyOnFailure'
    BY <1>0, <1>3 DEF SocketFails, NextAddress, Sockets, TypeOK, Search, SocketKept, Detaching, GivesUpOnlyOnFailure, BoundPcs
  <2> QED BY <2>1, <2>2, <2>3, <2>4, <2>5 DEF IInv
<1>4. CASE BindFails
  <2>0. Closed # {} => Min(Closed) \in Fds /\ files[Min(Closed)] = CLOSED
    BY LowestClosed DEF Closed
  <2>1. TypeOK'
    BY <1>0, <1>4, <2>0 DEF BindFails, NextAddress, Sockets, TypeOK
  <2>2. Search'
    BY <1>0, <1>4, <2>0 DEF BindFails, NextAddress, Sockets, TypeOK, Search
  <2>3. SocketKept' /\ ServesOnBoundSocket'
    BY <1>0, <1>4, <2>0 DEF BindFails, NextAddress, Sockets, TypeOK, Search, SocketKept, ServesOnBoundSocket, Detaching,
       BoundPcs, DaemonPcs
  <2>4. Detaching'
    BY <1>0, <1>4, <2>0 DEF BindFails, NextAddress, Sockets, TypeOK, Search, Detaching, DaemonPcs,
       ServingPcs
  <2>5. GivesUpOnlyOnFailure'
    BY <1>0, <1>4, <2>0 DEF BindFails, NextAddress, Sockets, TypeOK, Search, SocketKept, Detaching, GivesUpOnlyOnFailure, BoundPcs
  <2> QED BY <2>1, <2>2, <2>3, <2>4, <2>5 DEF IInv
<1>5. CASE BindOk
  <2>0. Closed # {} => Min(Closed) \in Fds /\ files[Min(Closed)] = CLOSED
    BY LowestClosed DEF Closed
  <2>1. TypeOK'
    BY <1>0, <1>5, <2>0 DEF BindOk, Break, Bound, Sockets, TypeOK
  <2>2. Search'
    BY <1>0, <1>5, <2>0 DEF BindOk, Break, Bound, Sockets, TypeOK, Search
  <2>3. SocketKept' /\ ServesOnBoundSocket'
    BY <1>0, <1>5, <2>0 DEF BindOk, Break, Bound, Sockets, TypeOK, Search, SocketKept, ServesOnBoundSocket, Detaching,
       BoundPcs, DaemonPcs
  <2>4. Detaching'
    BY <1>0, <1>5, <2>0 DEF BindOk, Break, Bound, Sockets, TypeOK, Search, Detaching, DaemonPcs,
       ServingPcs
  <2>5. GivesUpOnlyOnFailure'
    BY <1>0, <1>5, <2>0 DEF BindOk, Break, Bound, Sockets, TypeOK, Search, SocketKept, Detaching, GivesUpOnlyOnFailure, BoundPcs
  <2> QED BY <2>1, <2>2, <2>3, <2>4, <2>5 DEF IInv
<1>6. CASE NoAddress
  <2>1. TypeOK'
    BY <1>0, <1>6 DEF NoAddress, NotBound, Sockets, TypeOK
  <2>2. Search'
    BY <1>0, <1>6 DEF NoAddress, NotBound, Sockets, TypeOK, Search
  <2>3. SocketKept' /\ ServesOnBoundSocket'
    BY <1>0, <1>6 DEF NoAddress, NotBound, Sockets, TypeOK, Search, SocketKept, ServesOnBoundSocket, Detaching,
       BoundPcs, DaemonPcs
  <2>4. Detaching'
    BY <1>0, <1>6 DEF NoAddress, NotBound, Sockets, TypeOK, Search, Detaching, DaemonPcs,
       ServingPcs
  <2>5. GivesUpOnlyOnFailure'
    BY <1>0, <1>6 DEF NoAddress, NotBound, Sockets, TypeOK, Search, SocketKept, Detaching, GivesUpOnlyOnFailure, BoundPcs
  <2> QED BY <2>1, <2>2, <2>3, <2>4, <2>5 DEF IInv
<1>7. CASE Fork
  <2>1. TypeOK'
    BY <1>0, <1>7 DEF Fork, TypeOK
  <2>2. Search'
    BY <1>0, <1>7 DEF Fork, TypeOK, Search
  <2>3. SocketKept' /\ ServesOnBoundSocket'
    BY <1>0, <1>7 DEF Fork, TypeOK, Search, SocketKept, ServesOnBoundSocket, Detaching,
       BoundPcs, DaemonPcs
  <2>4. Detaching'
    BY <1>0, <1>7 DEF Fork, TypeOK, Search, Detaching, DaemonPcs,
       ServingPcs
  <2>5. GivesUpOnlyOnFailure'
    BY <1>0, <1>7 DEF Fork, TypeOK, Search, SocketKept, Detaching, GivesUpOnlyOnFailure, BoundPcs
  <2> QED BY <2>1, <2>2, <2>3, <2>4, <2>5 DEF IInv
<1>8. CASE Detach
  <2>1. TypeOK'
    BY <1>0, <1>8 DEF Detach, TypeOK
  <2>2. Search'
    BY <1>0, <1>8 DEF Detach, TypeOK, Search
  <2>3. SocketKept' /\ ServesOnBoundSocket'
    BY <1>0, <1>8 DEF Detach, TypeOK, Search, SocketKept, ServesOnBoundSocket, Detaching,
       BoundPcs, DaemonPcs
  <2>4. Detaching'
    BY <1>0, <1>8 DEF Detach, TypeOK, Search, Detaching, DaemonPcs,
       ServingPcs
  <2>5. GivesUpOnlyOnFailure'
    BY <1>0, <1>8 DEF Detach, TypeOK, Search, SocketKept, Detaching, GivesUpOnlyOnFailure, BoundPcs
  <2> QED BY <2>1, <2>2, <2>3, <2>4, <2>5 DEF IInv
<1>9. CASE OpenNull
  <2>1. /\ pc = "null" /\ pc' \in {"redirect", "daemonized"}
        /\ UNCHANGED <<args, net, process, session, sig, launcher>>
    BY <1>9 DEF OpenNull
  <2>2. Closed # {} => Min(Closed) \in Fds /\ files[Min(Closed)] = CLOSED
    BY LowestClosed DEF Closed
  <2>3. \A fd \in Fds : \/ files'[fd] = files[fd]
                        \/ files[fd] = CLOSED /\ files'[fd] = DEVNULL
    BY <1>0, <1>9, <2>2 DEF OpenNull, TypeOK
  <2>4. TypeOK'
    BY <1>0, <1>9, <2>2 DEF OpenNull, TypeOK
  <2>5. Search'
    BY <1>0, <1>9 DEF OpenNull, TypeOK, Search
  <2>6. SocketKept' /\ ServesOnBoundSocket'
    <3>1. /\ h_sockfd \in Fds /\ (h_sockfd \in Std => h_sockfd \notin inherited)
          /\ \/ files[h_sockfd] \in bound
             \/ files[h_sockfd] \in {DEVNULL, CLOSED} /\ h_sockfd \in Std
          /\ b_daemonize /\ CLOSED \notin bound
      BY <1>0, <2>1 DEF TypeOK, SocketKept, Detaching, BoundPcs, DaemonPcs
    <3>2. UNCHANGED <<h_sockfd, bound, inherited, b_daemonize>> /\ pc' # "serving"
      BY <2>1
    <3> QED BY <2>3, <3>1, <3>2 DEF SocketKept, ServesOnBoundSocket
  <2>7. Detaching'
    BY <1>0, <1>9, <2>2 DEF OpenNull, TypeOK, Detaching, DaemonPcs, ServingPcs
  <2>8. GivesUpOnlyOnFailure'
    BY <2>1 DEF GivesUpOnlyOnFailure
  <2> QED BY <2>4, <2>5, <2>6, <2>7, <2>8 DEF IInv
<1>10. CASE Redirect
  <2>1. PICK n \in 0 .. 3, closes \in BOOLEAN :
          LET redirected == {Redirections[i] : i \in 1 .. n}
              ok == n = 3 /\ closes
          IN  /\ files' = [fd \in Fds |-> IF fd = null_fd THEN CLOSED
                                          ELSE IF fd \in redirected THEN DEVNULL ELSE files[fd]]
              /\ b_status' = (b_status /\ ok)
              /\ failed' = (failed \/ ~ok)
    BY <1>10 DEF Redirect, Redirections
  <2> DEFINE redirected == {Redirections[i] : i \in 1 .. n}
  <2>2. /\ redirected \subseteq Std
        /\ n = 3 => redirected = Std
    <3>1. Redirections[1] = 1 /\ Redirections[2] = 2 /\ Redirections[3] = 0
      BY DEF Redirections
    <3>2. Std = {0, 1, 2}
      BY DEF Std
    <3>3. n = 3 => 1 .. n = {1, 2, 3}
      OBVIOUS
    <3>4. \A i \in 1 .. n : i = 1 \/ i = 2 \/ i = 3
      OBVIOUS
    <3> QED BY <3>1, <3>2, <3>3, <3>4
  <2> HIDE DEF redirected
  <2>3. /\ pc = "redirect" /\ pc' = "daemonized"
        /\ UNCHANGED <<args, net, null_fd, process, session, sig, launcher>>
    BY <1>10 DEF Redirect
  <2>4. /\ files' \in [Fds -> {STD, DEVNULL, CLOSED} \cup Sockets]
        /\ \A fd \in Fds : files'[fd] = IF fd = null_fd THEN CLOSED
                                        ELSE IF fd \in redirected THEN DEVNULL ELSE files[fd]
    BY <1>0, <2>1 DEF redirected, TypeOK
  <2>5. /\ b_status' \in BOOLEAN /\ failed' \in BOOLEAN
        /\ b_status' => b_status /\ n = 3
        /\ failed => failed'
        /\ ~b_status' => ~b_status \/ failed'
    BY <1>0, <2>1 DEF TypeOK
  <2>6. TypeOK'
    BY <1>0, <2>3, <2>4, <2>5 DEF TypeOK
  <2>7. Search'
    BY <1>0, <2>3, <2>5 DEF Search
  <2>8. SocketKept' /\ ServesOnBoundSocket'
    <3>1. /\ h_sockfd \in Fds /\ (h_sockfd \in Std => h_sockfd \notin inherited)
          /\ \/ files[h_sockfd] \in bound
             \/ files[h_sockfd] \in {DEVNULL, CLOSED} /\ h_sockfd \in Std
          /\ b_daemonize /\ files[null_fd] = DEVNULL /\ DEVNULL \notin bound
      BY <1>0, <2>3 DEF TypeOK, SocketKept, Detaching, BoundPcs, DaemonPcs
    <3>2. \/ files'[h_sockfd] \in bound
          \/ files'[h_sockfd] \in {DEVNULL, CLOSED} /\ h_sockfd \in Std
      BY <2>2, <2>4, <3>1
    <3>3. UNCHANGED <<h_sockfd, bound, inherited, b_daemonize>> /\ pc' # "serving"
      BY <2>3
    <3> QED BY <3>1, <3>2, <3>3 DEF SocketKept, ServesOnBoundSocket
  <2>9. Detaching'
    <3>1. \A fd \in Fds : files'[fd] = STD => fd \in Std
      BY <1>0, <2>4 DEF Detaching
    <3>2. b_status' => session
      BY <1>0, <2>3, <2>5 DEF Detaching
    <3>3. b_status' => \A fd \in Fds : files'[fd] # STD
      BY <1>0, <2>2, <2>4, <2>5 DEF Detaching
    <3>4. ~b_status' => failed'
      BY <1>0, <2>5 DEF Detaching
    <3>5. b_daemonize /\ process = "child"
      BY <1>0, <2>3 DEF Detaching, DaemonPcs
    <3> QED BY <2>3, <3>1, <3>2, <3>3, <3>4, <3>5 DEF Detaching, DaemonPcs, ServingPcs
  <2>10. GivesUpOnlyOnFailure'
    BY <2>3 DEF GivesUpOnlyOnFailure
  <2> QED BY <2>6, <2>7, <2>8, <2>9, <2>10 DEF IInv
<1>11. CASE Daemonized
  <2>1. TypeOK'
    BY <1>0, <1>11 DEF Daemonized, TypeOK
  <2>2. Search'
    BY <1>0, <1>11 DEF Daemonized, TypeOK, Search
  <2>3. SocketKept' /\ ServesOnBoundSocket'
    BY <1>0, <1>11 DEF Daemonized, TypeOK, Search, SocketKept, ServesOnBoundSocket, Detaching,
       BoundPcs, DaemonPcs
  <2>4. Detaching'
    BY <1>0, <1>11 DEF Daemonized, TypeOK, Search, Detaching, DaemonPcs,
       ServingPcs
  <2>5. GivesUpOnlyOnFailure'
    BY <1>0, <1>11 DEF Daemonized, TypeOK, Search, SocketKept, Detaching, GivesUpOnlyOnFailure, BoundPcs
  <2> QED BY <2>1, <2>2, <2>3, <2>4, <2>5 DEF IInv
<1>12. CASE assign_signal_handler
  <2>1. TypeOK'
    BY <1>0, <1>12 DEF assign_signal_handler, TypeOK
  <2>2. Search'
    BY <1>0, <1>12 DEF assign_signal_handler, TypeOK, Search
  <2>3. SocketKept' /\ ServesOnBoundSocket'
    BY <1>0, <1>12 DEF assign_signal_handler, TypeOK, Search, SocketKept, ServesOnBoundSocket, Detaching,
       BoundPcs, DaemonPcs
  <2>4. Detaching'
    BY <1>0, <1>12 DEF assign_signal_handler, TypeOK, Search, Detaching, DaemonPcs,
       ServingPcs
  <2>5. GivesUpOnlyOnFailure'
    BY <1>0, <1>12 DEF assign_signal_handler, TypeOK, Search, SocketKept, Detaching, GivesUpOnlyOnFailure, BoundPcs
  <2> QED BY <2>1, <2>2, <2>3, <2>4, <2>5 DEF IInv
<1>13. CASE Listen
  <2>1. TypeOK'
    BY <1>0, <1>13 DEF Listen, Sockets, TypeOK
  <2>2. Search'
    BY <1>0, <1>13 DEF Listen, Sockets, TypeOK, Search
  <2>3. SocketKept' /\ ServesOnBoundSocket'
    BY <1>0, <1>13 DEF Listen, Sockets, TypeOK, Search, SocketKept, ServesOnBoundSocket, Detaching,
       BoundPcs, DaemonPcs
  <2>4. Detaching'
    BY <1>0, <1>13 DEF Listen, Sockets, TypeOK, Search, Detaching, DaemonPcs,
       ServingPcs
  <2>5. GivesUpOnlyOnFailure'
    BY <1>0, <1>13 DEF Listen, Sockets, TypeOK, Search, SocketKept, Detaching, GivesUpOnlyOnFailure, BoundPcs
  <2> QED BY <2>1, <2>2, <2>3, <2>4, <2>5 DEF IInv
<1>14. CASE ListenFails
  <2>1. TypeOK'
    BY <1>0, <1>14 DEF ListenFails, Sockets, TypeOK
  <2>2. Search'
    BY <1>0, <1>14 DEF ListenFails, Sockets, TypeOK, Search
  <2>3. SocketKept' /\ ServesOnBoundSocket'
    BY <1>0, <1>14 DEF ListenFails, Sockets, TypeOK, Search, SocketKept, ServesOnBoundSocket, Detaching,
       BoundPcs, DaemonPcs
  <2>4. Detaching'
    BY <1>0, <1>14 DEF ListenFails, Sockets, TypeOK, Search, Detaching, DaemonPcs,
       ServingPcs
  <2>5. GivesUpOnlyOnFailure'
    BY <1>0, <1>14 DEF ListenFails, Sockets, TypeOK, Search, SocketKept, Detaching, GivesUpOnlyOnFailure, BoundPcs
  <2> QED BY <2>1, <2>2, <2>3, <2>4, <2>5 DEF IInv
<1>15. ASSUME NEW s \in Signals, Signal(s) PROVE IInv'
  <2>1. /\ pc \notin {"serving", "exited", "killed"}
        /\ UNCHANGED <<args, files, net, daemon, handlers, launcher, failed>>
    BY <1>15 DEF Signal
  <2>2. CASE b_accept_connections' = FALSE /\ UNCHANGED pc
    <3>1. TypeOK'
      BY <1>0, <2>1, <2>2 DEF TypeOK
    <3> QED
      BY <1>0, <2>1, <2>2, <3>1
         DEF IInv, Search, SocketKept, Detaching, ServesOnBoundSocket, GivesUpOnlyOnFailure
  <2>3. CASE pc' = "killed" /\ UNCHANGED b_accept_connections
    BY <1>0, <2>1, <2>3
       DEF IInv, TypeOK, Search, SocketKept, Detaching, ServesOnBoundSocket, GivesUpOnlyOnFailure,
           BoundPcs, DaemonPcs, ServingPcs
  <2> QED BY <1>15, <2>2, <2>3 DEF Signal
<1>16. CASE UNCHANGED vars
  BY <1>0, <1>16
     DEF vars, IInv, TypeOK, Search, SocketKept, Detaching, ServesOnBoundSocket, GivesUpOnlyOnFailure
<1> QED
  BY <1>1, <1>2, <1>3, <1>4, <1>5, <1>6, <1>7, <1>8, <1>9, <1>10, <1>11, <1>12, <1>13,
     <1>14, <1>15, <1>16 DEF Next, Step

\* The invariant holds in every reachable state.
LEMMA Invariance == Spec => []IInv
BY InitIInv, StepIInv, PTL DEF Spec

\* Every variable of the start keeps its type.
THEOREM TypeCorrect == Spec => []TypeOK
<1>1. IInv => TypeOK
  BY DEF IInv
<1> QED BY <1>1, Invariance, PTL

\* A server that comes to serve does so on the socket bound to the port,
\* whichever addresses failed before and whichever descriptors were open.
THEOREM BoundSocket == Spec => []ServesOnBoundSocket
<1>1. IInv => ServesOnBoundSocket
  BY DEF IInv, ServesOnBoundSocket
<1> QED BY <1>1, Invariance, PTL

\* A daemon that serves has nothing left of its launcher, unless fork() failed.
THEOREM Detached == Spec => []DaemonIsDetached
<1>1. IInv => DaemonIsDetached
  BY DEF IInv, Detaching, DaemonIsDetached, ServingPcs
<1> QED BY <1>1, Invariance, PTL

\* Without a failed call only a daemon whose socket has the number of a standard
\* descriptor gives up.
THEOREM NoSpuriousExit == Spec => []GivesUpOnlyOnFailure
<1>1. IInv => GivesUpOnlyOnFailure
  BY DEF IInv
<1> QED BY <1>1, Invariance, PTL

=============================================================================
