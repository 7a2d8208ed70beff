---------------------------- MODULE SocketService ----------------------------
(***************************************************************************)
(* The service threads of the socket server (server/aesdsocket.c,          *)
(* service_thread and writeback): one thread per connection, one process   *)
(* mutex, and /dev/aesdchar, which is used through what the driver         *)
(* promises (CommandLog).  The process may die at any time and be started  *)
(* again; the device outlives it.                                          *)
(*                                                                         *)
(* Bytes are tokens.  "AESDCHAR_IOCSEEKTO:c,o" is one token, a record with *)
(* its two numbers; it is never stored on the device.                      *)
(***************************************************************************)
EXTENDS Integers, Sequences, SequencesExt

CONSTANTS
  Conn,          \* connections, each with its service thread
  Chunks,        \* what one recv() may return: nonempty sequences of tokens
  NL,            \* the newline
  Seeks,         \* seek commands: records [write_cmd, write_cmd_offset]
  NULL,
  MaxWriteOps,   \* commands the device holds
  StdioBuf,      \* size of a FILE's buffer
  DeviceFails,   \* whether a write to the device may fail
  MaxRecv        \* bound: recv() calls that return data, per connection

Tokens == UNION {Range(chunk) : chunk \in Chunks}

\* The numbers of a seek command are scanned as unsigned.
ASSUME ServiceAssumption ==
  /\ NULL \notin Conn /\ NULL \notin Seeks
  /\ Chunks \subseteq Seq(Tokens) /\ <<>> \notin Chunks
  /\ Seeks \subseteq [write_cmd : Nat, write_cmd_offset : Nat]
  /\ MaxWriteOps \in Nat \ {0}
  /\ StdioBuf \in Nat \ {0}
  /\ DeviceFails \in BOOLEAN
  /\ MaxRecv \in Nat

VARIABLES
  log, pending,  \* the device
  mutex,         \* thread that holds the process mutex, or NULL
  pc,            \* where the thread is
  p_malloc_buf,  \* bytes received on the connection
  received,      \* chunks received, for the properties
  rest,          \* what of the packet has not been given to the device
  ferror,        \* whether the FILE's error flag is set
  pos,           \* position of the next getline() in the device
  line,          \* what send() has not sent of the current line
  reply,         \* what was sent since the thread took the mutex, for the properties
  seekto,        \* arguments of the ioctl of this packet, or NULL
  torn           \* whether a packet was cut short on the device, for the properties

device == <<log, pending>>
thread == <<pc, p_malloc_buf, received, rest, ferror, pos, line, reply, seekto>>
vars   == <<device, mutex, thread, torn>>

\* The module is loaded as long as the server runs.
Device == INSTANCE CommandLog WITH present <- TRUE

\* The bytes of the device, oldest command first.
Contents == FlattenSeq(log)

-----------------------------------------------------------------------------

Init ==
  /\ Device!Empty
  /\ mutex = NULL
  /\ pc = [c \in Conn |-> "recv"]
  /\ p_malloc_buf = [c \in Conn |-> <<>>]
  /\ received = [c \in Conn |-> <<>>]
  /\ rest = [c \in Conn |-> <<>>]
  /\ ferror = [c \in Conn |-> FALSE]
  /\ pos = [c \in Conn |-> 0]
  /\ line = [c \in Conn |-> <<>>]
  /\ reply = [c \in Conn |-> <<>>]
  /\ seekto = [c \in Conn |-> NULL]
  /\ torn = FALSE

\* Mutant: the buffer starts afresh with every recv().
GrowReplaces(c, chunk) == chunk

\* realloc and strcpy or strcat: the buffer is never emptied, also not after a
\* packet has been handled.
Grow(c, chunk) == p_malloc_buf[c] \o chunk

\* recv() returns bytes. The newline is looked for in these bytes alone.
Recv(c, chunk) ==
  /\ pc[c] = "recv" /\ Len(received[c]) < MaxRecv
  /\ p_malloc_buf' = [p_malloc_buf EXCEPT ![c] = Grow(c, chunk)]
  /\ received' = [received EXCEPT ![c] = Append(@, chunk)]
  /\ pc' = [pc EXCEPT ![c] = IF Contains(chunk, NL) THEN "lock" ELSE "recv"]
  /\ UNCHANGED <<device, mutex, rest, ferror, pos, line, reply, seekto, torn>>

\* The peer closes, recv() fails or realloc() fails: the thread ends.
Finish(c) ==
  /\ pc[c] = "recv"
  /\ pc' = [pc EXCEPT ![c] = "done"]
  /\ p_malloc_buf' = [p_malloc_buf EXCEPT ![c] = <<>>]
  /\ UNCHANGED <<device, mutex, received, rest, ferror, pos, line, reply, seekto, torn>>

\* Mutant: a lock that does not wait.
FreeAlways == TRUE

Free == mutex = NULL

\* pthread_mutex_lock
Lock(c) ==
  /\ pc[c] = "lock" /\ Free
  /\ mutex' = c
  /\ pc' = [pc EXCEPT ![c] = "file"]
  /\ rest' = [rest EXCEPT ![c] = p_malloc_buf[c]]
  /\ ferror' = [ferror EXCEPT ![c] = FALSE]
  /\ pos' = [pos EXCEPT ![c] = 0]
  /\ reply' = [reply EXCEPT ![c] = <<>>]
  /\ seekto' = [seekto EXCEPT ![c] = NULL]
  /\ UNCHANGED <<device, p_malloc_buf, received, line, torn>>

-----------------------------------------------------------------------------
(* With the mutex: open the device, store the packet or seek.              *)

\* strstr: a seek command anywhere in the buffer.
HasCommand(c) == \E i \in DOMAIN p_malloc_buf[c] : p_malloc_buf[c][i] \in Seeks

\* How many bytes the next write() of stdio takes: fprintf writes as many full
\* buffers as there are at once and keeps what remains, which getline flushes.
Piece(s) == IF Len(s) < StdioBuf THEN Len(s) ELSE Len(s) - (Len(s) % StdioBuf)

\* fopen, fprintf of the whole buffer and the flush. A freshly opened file is
\* read from position 0. A last piece without a newline stays in the driver's
\* write buffer.
Store(c) ==
  LET n     == Piece(rest[c])
      piece == SubSeq(rest[c], 1, n)
      last  == n = Len(rest[c])
  IN  /\ pc[c] = "file" /\ ~HasCommand(c)
      /\ Device!Write(piece)
      /\ rest' = [rest EXCEPT ![c] = SubSeq(@, n + 1, Len(@))]
      /\ pc' = [pc EXCEPT ![c] = IF last THEN "getline" ELSE "file"]
      /\ torn' = (torn \/ (last /\ ~Contains(piece, NL)))
      /\ UNCHANGED <<mutex, p_malloc_buf, received, ferror, pos, line, reply, seekto>>

\* The device refuses the bytes, of fprintf itself or of the flush. The C library
\* drops them and sets the FILE's error flag.
StoreFails(c) ==
  /\ DeviceFails
  /\ pc[c] = "file" /\ ~HasCommand(c)
  /\ rest' = [rest EXCEPT ![c] = <<>>]
  /\ ferror' = [ferror EXCEPT ![c] = TRUE]
  /\ pc' = [pc EXCEPT ![c] = "getline"]
  /\ torn' = (torn \/ rest[c] # p_malloc_buf[c])
  /\ UNCHANGED <<device, mutex, p_malloc_buf, received, pos, line, reply, seekto>>

\* sscanf matches at the start of the buffer only; when something else is there
\* the two numbers are whatever was on the stack.
ScannedArgs(c) == IF p_malloc_buf[c][1] \in Seeks THEN {p_malloc_buf[c][1]} ELSE Seeks

\* Mutant: a seek that is refused leaves its error as the position.
SeekPosError(s) ==
  IF s.write_cmd < Len(log) /\ s.write_cmd_offset < Len(log[s.write_cmd + 1])
  THEN Len(FlattenSeq(SubSeq(log, 1, s.write_cmd))) + s.write_cmd_offset
  ELSE -22

\* Where AESDCHAR_IOCSEEKTO leaves a freshly opened file (AesdChar, aesd_ioctl);
\* a seek that is refused leaves it at 0.
SeekPos(s) ==
  LET k == s.write_cmd % MaxWriteOps
  IN  IF /\ s.write_cmd <= MaxWriteOps
         /\ k < Len(log)
         /\ s.write_cmd_offset < Len(log[k + 1])
      THEN Len(FlattenSeq(SubSeq(log, 1, k))) + s.write_cmd_offset
      ELSE 0

Seek(c) ==
  /\ pc[c] = "file" /\ HasCommand(c)
  /\ \E s \in ScannedArgs(c) :
       /\ seekto' = [seekto EXCEPT ![c] = s]
       /\ pos' = [pos EXCEPT ![c] = SeekPos(s)]
  /\ pc' = [pc EXCEPT ![c] = "getline"]
  /\ UNCHANGED <<device, mutex, p_malloc_buf, received, rest, ferror, line, reply, torn>>

-----------------------------------------------------------------------------
(* writeback(), and the end of the packet.                                 *)

\* Bytes of the line that starts at position n: up to its newline or the end.
LineAt(n) ==
  LET ahead == SubSeq(Contents, n + 1, Len(Contents))
      ends == {i \in DOMAIN ahead : ahead[i] = NL}
  IN  IF ends = {} THEN ahead
      ELSE SubSeq(ahead, 1, CHOOSE i \in ends : \A j \in ends : i <= j)

\* getline() returns the next line, or nothing more. From a FILE with its error
\* flag set the C library reads nothing.
GetLine(c) ==
  /\ pc[c] = "getline"
  /\ IF ~ferror[c] /\ pos[c] < Len(Contents)
     THEN /\ line' = [line EXCEPT ![c] = LineAt(pos[c])]
          /\ pos' = [pos EXCEPT ![c] = @ + Len(LineAt(pos[c]))]
          /\ pc' = [pc EXCEPT ![c] = "send"]
     ELSE /\ pc' = [pc EXCEPT ![c] = "close"]
          /\ UNCHANGED <<line, pos>>
  /\ UNCHANGED <<device, mutex, p_malloc_buf, received, rest, ferror, reply, seekto, torn>>

\* Mutant: a send() that took less is not repeated.
UnsentDropped(c, n) == <<>>

\* What is left of the line after send() took n bytes.
Unsent(c, n) == SubSeq(line[c], n + 1, Len(line[c]))

\* send() takes n bytes, as many as the peer has room for.
Send(c, n) ==
  /\ pc[c] = "send" /\ n <= Len(line[c])
  /\ reply' = [reply EXCEPT ![c] = @ \o SubSeq(line[c], 1, n)]
  /\ line' = [line EXCEPT ![c] = Unsent(c, n)]
  /\ pc' = [pc EXCEPT ![c] = IF Unsent(c, n) = <<>> THEN "getline" ELSE "send"]
  /\ UNCHANGED <<device, mutex, p_malloc_buf, received, rest, ferror, pos, seekto, torn>>

\* The peer is gone: writeback gives up; the thread finds out at the next recv().
SendFails(c) ==
  /\ pc[c] = "send"
  /\ line' = [line EXCEPT ![c] = <<>>]
  /\ pc' = [pc EXCEPT ![c] = "failed"]
  /\ UNCHANGED <<device, mutex, p_malloc_buf, received, rest, ferror, pos, reply, seekto, torn>>

\* Mutant: a failed writeback skips the unlock.
CloseKeepsMutex(c) ==
  /\ pc[c] \in {"close", "failed"}
  /\ mutex' = IF pc[c] = "failed" THEN mutex ELSE NULL
  /\ pc' = [pc EXCEPT ![c] = "recv"]
  /\ UNCHANGED <<device, p_malloc_buf, received, rest, ferror, pos, line, reply, seekto, torn>>

\* fclose and unlock.
Close(c) ==
  /\ pc[c] \in {"close", "failed"}
  /\ mutex' = NULL
  /\ pc' = [pc EXCEPT ![c] = "recv"]
  /\ UNCHANGED <<device, p_malloc_buf, received, rest, ferror, pos, line, reply, seekto, torn>>

-----------------------------------------------------------------------------
(* The end of the process.                                                 *)

\* A thread is between two writes of one packet.
Storing(c) == pc[c] = "file" /\ ~HasCommand(c) /\ rest[c] # p_malloc_buf[c]

\* The process dies, for example in the fprintf or fileno of a thread whose
\* fopen has failed and left a null FILE, and is started again. Its threads and
\* the mutex go with it. A connection on which nothing has arrived may as well
\* be one to the new process.
Crash ==
  /\ \E c \in Conn : pc[c] \notin {"done", "dead"} /\ received[c] # <<>>
  /\ pc' = [c \in Conn |-> IF received[c] = <<>> \/ pc[c] = "done" THEN pc[c] ELSE "dead"]
  /\ p_malloc_buf' = [c \in Conn |-> <<>>]
  /\ rest' = [c \in Conn |-> <<>>]
  /\ line' = [c \in Conn |-> <<>>]
  /\ mutex' = NULL
  /\ torn' = (torn \/ \E c \in Conn : Storing(c))
  /\ UNCHANGED <<device, received, ferror, pos, reply, seekto>>

-----------------------------------------------------------------------------

\* What a thread does of its own accord once it has the mutex.
Handle(c) == Store(c) \/ StoreFails(c) \/ Seek(c) \/ GetLine(c) \/ Close(c)

Step(c) ==
  \/ \E chunk \in Chunks : Recv(c, chunk)
  \/ Finish(c) \/ Lock(c) \/ Handle(c) \/ SendFails(c)
  \/ \E n \in 1 .. Len(line[c]) : Send(c, n)

Next == Crash \/ \E c \in Conn : Step(c)

Spec == Init /\ [][Next]_vars

\* A thread that can run does, and one that waits for the mutex is not overtaken
\* for ever by others that get it. A thread in send() depends on its peer: the
\* socket has no timeout, and no fairness is assumed of it.
Fairness == \A c \in Conn : WF_vars(Handle(c)) /\ SF_vars(Lock(c))

FairSpec == Spec /\ Fairness

-----------------------------------------------------------------------------
(* Properties.                                                             *)

\* Every variable has its type.
TypeOK ==
  /\ log \in Seq(Seq(Tokens)) /\ pending \in Seq(Tokens)
  /\ mutex \in Conn \cup {NULL}
  /\ pc \in [Conn -> {"recv", "lock", "file", "getline", "send", "close", "failed", "done", "dead"}]
  /\ p_malloc_buf \in [Conn -> Seq(Tokens)]
  /\ received \in [Conn -> Seq(Chunks)]
  /\ rest \in [Conn -> Seq(Tokens)] /\ torn \in BOOLEAN
  /\ ferror \in [Conn -> BOOLEAN]
  /\ pos \in [Conn -> Nat]
  /\ line \in [Conn -> Seq(Tokens)] /\ reply \in [Conn -> Seq(Tokens)]
  /\ seekto \in [Conn -> Seeks \cup {NULL}]

\* The seek that the reply to a packet is for: that of the connection's first
\* bytes, or the one that the thread did.
Asked(c) == IF received[c][1][1] \in Seeks THEN received[c][1][1] ELSE seekto[c]

\* A thread that finishes a packet whose writeback did not fail has sent exactly
\* what the device holds at that moment from the position the packet asked for:
\* no line is missing, repeated or torn by another connection's packet, however
\* the sends were cut and however the threads interleaved. When the device has
\* refused a part of the packet nothing at all has been sent, and writeback()
\* calls that a success too. A connection that begins with a seek command gets
\* that position; one that sends it later gets the position of whatever numbers
\* sscanf left behind.
ReplyIsDeviceContents ==
  [][\A c \in Conn : pc[c] = "close" /\ pc'[c] = "recv" =>
       LET start == IF Asked(c) = NULL THEN 0 ELSE SeekPos(Asked(c))
       IN  reply[c] = IF ferror[c] THEN <<>>
                      ELSE SubSeq(Contents, start + 1, Len(Contents))]_vars

\* What a connection had received after its first k calls of recv().
ReceivedUpTo(c, k) == FlattenSeq(SubSeq(received[c], 1, k))

\* As long as no connection has received more than fits in a FILE's buffer,
\* every command on the device is what a single connection had received up to
\* and including a chunk with a newline, and nothing waits in the driver's write
\* buffer: packets of several connections never mix and none is stored in part,
\* also when the process dies between any two steps and starts again.
CommandsAreWholePackets ==
  (\A c \in Conn : Len(FlattenSeq(received[c])) <= StdioBuf) =>
    /\ pending = <<>>
    /\ \A i \in DOMAIN log :
         \E c \in Conn : \E k \in DOMAIN received[c] :
           Contains(received[c][k], NL) /\ log[i] = ReceivedUpTo(c, k)

\* A larger packet reaches the device in pieces, each perhaps a command of its
\* own. As long as none was cut short, by a crash, by a write that failed after
\* the first piece, or because its last piece has no newline, nothing of it is
\* left in the driver's write buffer when the mutex is free, and no command
\* joins bytes of two connections.
PacketsStayApart ==
  ~torn =>
    /\ mutex = NULL => pending = <<>>
    /\ \A i \in DOMAIN log :
         \E c \in Conn : \E k \in 0 .. Len(FlattenSeq(received[c])) :
           IsPrefix(log[i], SubSeq(FlattenSeq(received[c]), k + 1, Len(FlattenSeq(received[c]))))

\* No peer keeps its thread in send() for ever: it reads, or it closes.
PeersRead == \A c \in Conn : []<>(pc[c] # "send")

\* If no peer keeps its thread in send() for ever, a packet that was received
\* completely is handled and its thread is back at recv(), whatever writes fail
\* and whoever else wants the mutex, unless the process dies.
PacketsAreHandled ==
  PeersRead => \A c \in Conn : pc[c] = "lock" ~> pc[c] \in {"recv", "done", "dead"}

-----------------------------------------------------------------------------
(* What the comments of the code say and the code does not do.             *)

\* aesdsocket.c:5: the server "receives bytes from it till a \n is received. After
\* that, it appends data to a file [..] and reads all content from that file and
\* writes it back on the socket connection". A peer that takes what it is sent
\* gets its packet handled. It does not while another peer takes nothing, because
\* that peer's thread is in send() with the mutex.
ReadersAreServed ==
  \A c \in Conn :
    []<>(pc[c] # "send") => (pc[c] = "lock" ~> pc[c] \in {"recv", "done", "dead"})

\* aesdsocket.c:5: the server "receives bytes from it till a \n is received.
\* After that, it appends data to a file": one packet adds its own bytes. With
\* one connection and a large device, the bytes stored are no more than the
\* bytes received.
PacketsAreStoredOnce ==
  \A c \in Conn : Conn = {c} => Len(Contents) <= Len(FlattenSeq(received[c]))

=============================================================================
