# Verification of the aesdchar driver and the aesdsocket server

The repository holds a Linux character device, `/dev/aesdchar`, that keeps the
last ten newline-terminated writes, and a TCP server, `aesdsocket`, that stores
every packet it receives on that device and sends the device's contents back.
Around them are two exercises, on threads and on child processes, a `writer`
program and scripts. This directory holds TLA+ models of the driver, the server
and the two exercises, the TLC runs that check them on small instances, and
TLAPS proofs of their safety properties for every instance.

## Inventory

| Component | State | Operations | Interaction | What makes it correct |
|---|---|---|---|---|
| Circular buffer (`aesd-char-driver/aesd-circular-buffer.c`) | entry array, `in_offs`, `out_offs`, `full` | init, add_entry, find_entry_offset_for_fpos, FOREACH | called by the driver, which locks and owns the memory | an entry added is the newest and replaces the oldest of a full buffer; the search finds exactly the byte asked for |
| Driver (`aesd-char-driver/main.c`) | the buffer, the write buffer of an unfinished command, a mutex, `f_pos` of each open file, the kernel heap | load, unload, open, release, read, write, llseek, ioctl | called by any number of processes | mutual exclusion on every path, one owner per block, the device is a log of commands, calls return |
| Service threads (`server/aesdsocket.c`, `service_thread`, `writeback`) | receive buffer of each connection, the process mutex | recv, store or seek, send back, finish | one thread per connection; the device and the mutex are shared | packets are stored whole and unmixed, replies are the contents of the device, every packet is handled while peers read |
| Accept loop (`main` from `listen` on, `signal_handler`) | `b_accept_connections`, linked list of threads | accept, start, reap, join all, exit | starts the threads, reads the flag each sets in its list entry; signals | no freed entry is used by a thread, no thread is lost, a signal ends the server |
| Startup (`main` to `listen`, `bind_to_address`, `daemonize_process`, `assign_signal_handler`) | descriptor table, bound sockets, parent and child process, signal handlers | resolve, bind, fork, detach, redirect, handle signals | before any thread exists; hands socket and flag to the accept loop; signals | the process that serves has the bound socket and, as a daemon, nothing of its launcher |
| Timer (`timer_callback`) | | | compiled out (`USE_AESD_CHAR_DEVICE` is 1) | |
| Threading example (`examples/threading`) | thread data, a mutex | start a thread that sleeps, locks, sleeps, unlocks | the caller owns mutex and thread, joins and frees | holders exclude each other, data outlives its thread, the result says what happened |
| System call example (`examples/systemcalls`) | children, an output file | do_system, do_exec, do_exec_redirect | fork, exec and wait; the child inherits descriptors and stdio buffers | results say what the command did, no child is left, the file holds the output |
| `finder-app/writer.c` | a file | open, write, close once | none with the rest | reports the first failure |
| Scripts (`finder-app/*.sh`, `aesdchar_load`, `aesdsocket-start-stop`, tests) | | | build, load, start | |

Hard parts: the device mutex and its error paths; the write buffer that all
openers share; memory that changes owner from write buffer to entry to nobody;
a full ring, whose offsets look like those of an empty one; size_t arithmetic
that wraps; the server's mutex, held over many steps and over blocking sends;
threads that run before they are on the list and set a flag that main reads;
signals between a test and a system call; a process that dies between two writes
of a packet; descriptor numbers that depend on what was open before; children
that outlive the call that made them. `PROJECT.json` lists these as hazards
with their lines and the properties aimed at them.

## Modules

* `CircularBuffer` - the C structure as a record and the functions as operators.
  The search's loop is written as the first of the slots it may visit
  (`Visits`: all of them when the offsets are equal, because it is a do-while
  loop) whose running sum covers the position (`Covers`, with the wrapping
  `current_string_size - 1`).
* `AesdChar` - the driver. `pc[p]` is where process p is in a file operation:
  `lock` waits in `mutex_lock_interruptible`, `locked` has the mutex, `copy` is
  between `krealloc` and `copy_from_user` in a write, `measured` is SEEK_END
  after the unlock. `allocated` and `heap` are the kernel heap; reading freed
  memory gives `Garbage`, so use after free shows in the bytes as well as in
  the ownership. `krealloc` may move the block or not; which of the two
  allocations may fail is a constant (`KreallocFails`). A read behind an empty
  buffer copies from a null base plus an offset: it faults, which
  `copy_to_user` may report or which kills the process with the mutex held
  (`oops`, `dead`).
* `CommandLog` - what the device promises while it is there (`present`): the last
  `MaxWriteOps` commands and the bytes of the unfinished one. Loading the module
  makes it empty, and only removing it loses what is stored.
  `AesdChar!ImplementsCommandLog` is its specification under the mapping "bytes
  behind the entries, oldest first", with `loaded` for `present`.
* `SocketService` - the service threads, using the device through `CommandLog`
  (`Device!Write`). A seek command is one token with its two numbers. stdio is
  modelled by what it does here: `fprintf` gives the device as many full buffers
  as the packet has (`Piece`, with `StdioBuf` bytes each) in one write and keeps
  what remains for the first `getline` to flush. When a write fails, that of
  `fprintf` or that of the flush, glibc drops the bytes and sets the stream's
  error flag (`ferror`): `getline` then returns -1 at once, so that nothing is
  sent and `writeback` reports success. `rest` is what the device has not been
  given yet. `send` takes as much as the peer has room for, or waits. The
  process may die at any time (`Crash`), as it does when `fopen` fails and
  `fprintf` gets a null stream: the device keeps what it has, threads and mutex
  are gone, and connections that come later are served by the next process.
  `torn` notes that a packet was cut short on the device.
* `Listener` - the main thread. `call` is between the loop condition and
  `accept`, `accept` is inside of it; a signal matters differently in the two.
  The list is `head` and `next`. A thread runs, sets `b_is_thread_complete` in
  its entry and returns; `pthread_join` waits for the return. The scan reads the
  next pointer of an entry that it has freed (`AfterFree`): it finds the old
  pointer, null, another entry, or an address that kills the process
  (`ReapWild`). The flag
  `b_accept_connections` is either value at first: `Startup` may have handled a
  signal already.
* `Startup` - main up to `listen`, with `files`, what each descriptor of the
  process that goes on refers to. A new descriptor is the lowest closed one, and
  any of the standard three may be closed when the program is launched. A socket
  whose `bind` failed stays open. After `fork` the model follows the child; the
  parent's success is what the launcher sees. A failed `fork` leaves a server in
  the foreground. `fcloseall` closes the standard descriptors or leaves them
  (C libraries differ), the three `dup2` calls stop at the first that fails, and
  `null_fd` is closed behind them even when it is one of the three. A signal
  kills the process before the handlers are set and clears the flag after it.
* `SystemCalls` - the three functions called one after the other. A command is
  named by the number of its call, and so are the bytes it writes. A child goes
  from `forked` through `opened` and `redirected` to `running`, and is a `zombie`
  until its parent waits for it, or `gone` at once when the caller ignores
  SIGCHLD. A redirected child writes at an offset of its own. `exit(1)` of a child
  that could not run its command flushes the text it inherited in stdio buffers
  (`buffered`). A signal may cut `waitpid` short (`Interrupted`) and the child goes
  on beside the next calls.
* `Threading` - threads of `start_thread_obtaining_mutex` and the code that calls
  it. The caller (`CallerLock`, `CallerUnlock`, `Join`) is not part of the
  repository; it does what `threading.h` asks of it. Every call of `threadfunc`
  may fail, is noted in `b_status`, and the thread goes on.
* `MCAesdChar`, `MCSocketService`, `MCListener`, `MCStartup`, `MCSystemCalls`,
  `MCThreading` - the same with small values.
* `CircularBufferProofs`, `AesdCharProofs`, `AesdCharLogProofs`,
  `SocketServiceProofs`, `ListenerProofs`, `StartupProofs`, `SystemCallsProofs`,
  `ThreadingProofs` - theorems about the module of that name;
  `AesdCharLogProofs` has those about what the driver stores.

Definitions named "mutant" in a comment are faulty variants of the definition
that follows them. No specification uses them; each breaks a property, which
shows that the property depends on that piece of code.

## Runs

| Run | Instance | Checks |
|---|---|---|
| `driver_safety` | 2 processes, 2 slots, 4 blocks, 2 loads, bytes x and newline, failing copies and first allocations | `TypeOK`, `LockDiscipline`, `Ownership`, `UnloadKeepsOnlyPending`, and the refinement `ImplementsCommandLog` |
| `driver_files` | 1 process, 3 slots, commands of 1 to 3 bytes with bytes behind the newline, read sizes 1 and 9, all seeks | `FindIsExact`, `ReadIsExact`, `SeekToFromStart`, `SeekEndFindsLastByte` |
| `driver_faults` | 2 processes, 1 slot, all allocation and copy failures, seeks behind an empty device | `LockDiscipline`, `CallsReturnOrOops` under fairness |
| `service` | 2 connections, 2 chunks each of 1 to 3 bytes, a stdio buffer of 4, 2 commands on the device, failing writes and sends, a process that dies and restarts | `TypeOK`, `CommandsAreWholePackets`, `PacketsStayApart`, `ReplyIsDeviceContents`, `PacketsAreHandled` under fairness |
| `listener` | 3 connections, 3 list entries, signals at any time, failing thread starts, any outcome of the read of a freed entry | `TypeOK`, `ArgsStayValid`, `ListHoldsThreads`, `ExitIsClean`, `SignalOutsideAcceptTerminates` under fairness |
| `startup` | 3 addresses, 6 descriptors, any standard descriptors closed, every call failing, signals at any time | `TypeOK`, `ServesOnBoundSocket`, `DaemonIsDetached`, `GivesUpOnlyOnFailure`, `StartupEnds` under fairness |
| `systemcalls` | 2 calls of any of the functions, 2 bytes of output each, every call failing, interrupted waits, SIGCHLD ignored or not | `TypeOK`, `ResultIsHonest`, `ChildrenAreReaped`, `OutputIsCommands`, `CallsReturn` under fairness |
| `threading` | 3 threads and the caller, every call failing | `TypeOK`, `HoldersExclude`, `DataOutlivesThread`, `SuccessIsHonest`, `ThreadsReturn` under fairness |

The other four runs end with a counterexample; each states what a comment of the
code says and the code does not do. `PROJECT.json` quotes the lines.

| Run | Property | What it shows |
|---|---|---|
| `dangling_entry` | `EntriesAreAllocated` | after a failed `krealloc` the freed write buffer stays in use |
| `service_append_once` | `PacketsAreStoredOnce` | the receive buffer is never emptied, so a second packet stores the first one again |
| `service_stalled_peer` | `ReadersAreServed` | a peer that takes nothing keeps its thread in `send` with the mutex, and nobody else is served |
| `listener_lost_signal` | `SignalTerminates` | a signal between the loop condition and `accept` does not end the server |

These are the ones that take an order of steps to see. Where a single call, or
the absence of one, does something else than its comment says, the models do what
the code does, and the passing properties are about the rest:

* SEEK_END of a full ring takes it for an empty one (equal offsets end the loop
  at `main.c:203`) and counts from -1, against `main.c:206-207`, "add them all up
  to find the size of the entire file", and `main.c:214`. `SeekEndFindsLastByte`
  claims nothing of a full ring.
* The search in an empty ring finds an unused entry for every position
  (`aesd-circular-buffer.c:41`, zero minus one), against lines 26-27, "NULL if this
  position is not available". `FindIsExact` is about rings with an entry. A read
  there faults, and may oops with the mutex held.
* AESDCHAR_IOCSEEKTO accepts `write_cmd` equal to the size of the ring as command 0
  (`main.c:255`), against `main.c:257`, and adds to the position of the file
  (`main.c:278`), against the "zero referenced" of `aesd_ioctl.h:27` and `:31`.
  `SeekToFromStart` is about the other numbers, from position 0.
* Removing the module leaks the write buffer of an unfinished command
  (`main.c:359`), against `main.c:358`, "free allocated buffers".
  `UnloadKeepsOnlyPending` says that this is all that leaks.
* No one closes the descriptor of a connection (`aesdsocket.c:443`), against
  `aesdsocket.c:674`.
* The scan for closed threads reads the next pointer of an entry it has freed
  (`aesdsocket.c:648`; `server/valgrind-out.txt:124` reports the read of an earlier
  build). It may end early, against lines 633-634; the threads it leaves are found
  by a later scan or joined at the end. `ListHoldsThreads`, `ArgsStayValid` and
  `ExitIsClean` hold wherever it goes; nothing is claimed of how many a scan finds.
* A failed `fork` is logged and taken for success (`aesdsocket.c:246`): the server
  stays in the foreground, against `aesdsocket.c:235`. `DaemonIsDetached` excuses
  it.
* A child of `do_exec_redirect` that fails behind the redirection writes its
  caller's buffered text into the output file (`systemcalls.c:206`), against
  `systemcalls.c:147`; an interrupted wait returns while the child has the file
  open (`systemcalls.c:214`), against `systemcalls.c:148`. `OutputIsCommands`
  describes the first and is about calls whose wait was not interrupted.

Behaviour met on the way, of which no comment says otherwise, and kept in the
models:

* Driver: a failing `copy_to_user` is reported as end of file.
* Service threads: `sscanf` finds a seek command only at the start of the receive
  buffer, and the numbers are otherwise uninitialised (`ScannedArgs`, any
  numbers). A packet larger than the stdio buffer becomes several writes, so that
  its last piece may wait in the driver for another connection's newline
  (`torn`). A packet that the device refused is answered with nothing, and
  `writeback` calls that a success.
* Startup: with `-d` and a standard descriptor closed at launch the socket may get
  that number, is replaced by /dev/null, and the daemon gives up after its
  launcher has seen success. An address whose `bind` failed keeps its descriptor.
* System calls: the child of an interrupted call may still write into a file that
  a later call has opened.
* Threading: a thread whose lock failed goes on and may release the mutex of
  another one; the thread data is lost when `pthread_create` fails. The waits are
  called milliseconds and passed to `usleep`, which takes microseconds; the model
  has no time.

### Bounds

Two processes are enough for every pair of interleaved operations; what more
could do follows from the proofs, which hold for any number. Rings of one, two
and three slots reach empty, partly filled, full and wrapped rings, the last
with several wraps because nothing bounds the number of writes; the bound on
the pending bytes (`MaxPending`) limits the length of a command only. `MaxLoads`
2 gives a load after an unload. `driver_safety` reads with count 0, which takes
the mutex without moving the file; reads that move it are in `driver_files` and
`driver_faults`. `SizeMod` 64 stands for 2^64: it is far above every size that
occurs, so the only difference that wraps is the one the code gets wrong, zero
minus one. In `service`, two recv() calls per connection give a packet in
pieces, a second packet on the same connection and a seek after a packet; with a
stdio buffer of four bytes these packets fit in one write, fill it exactly or
need two, the last of them with or without a newline; a device of two commands
evicts. In `listener`, three entries give a list with a
middle to remove from, and a freed address is used again. In `startup`, three
sockets that stay open besides the standard descriptors use up all six, so that a
call fails for want of one. In `systemcalls`, a second call meets the child that
an interrupted first one left behind, and two bytes let both write into each
other's output. In `threading`, three threads let one release the mutex of the
second while the third takes it.

TLC may identify states that differ in the names of blocks (`SYMMETRY`), and in
the driver's safety runs in the results of calls that returned (`VIEW
NoResults`), which no later step reads; the properties about results are about
the step that returns. Runs with liveness use neither. The runs do not check
for deadlock: module and server may stop.

### Fairness

* `AesdChar`: a process in the driver keeps running (weak fairness of `Body`),
  and a process waiting for the mutex gets it if it is released again and again
  (strong fairness of `Acquire`): the kernel's mutex hands the lock to a waiter
  that was overtaken too often. Nobody need ever call, and nobody need be
  interrupted by a signal.
* `SocketService`: weak fairness of what a thread does of its own accord
  (`Handle`), and strong fairness of `Lock`. The latter is weaker than what a
  futex queue gives in practice and more than POSIX promises. Nothing is assumed
  of `send`, which waits for the peer without a timeout: `PacketsAreHandled` has
  "no peer keeps its thread in `send` for ever" (`PeersRead`) as its premise, and
  the run `service_stalled_peer` shows that the premise is needed of every peer,
  not only of the one that is to be served.
* `Listener`: main keeps running, and every peer closes in the end. No peer need
  connect, and no signal need come.
* `Startup`: the process keeps running; none of its calls waits for anybody.
* `SystemCalls`: a wait that is over returns, and each child keeps running and
  ends, without which `waitpid` may wait for ever. No signal need come.
* `Threading`: threads run, a waiting thread is not overtaken for ever (strong
  fairness of `Lock`), and the caller releases the mutex it took. No lock need
  fail, and nobody need be joined.

## Proofs

The theorems hold for every value of the constants that satisfies the `ASSUME`
of the module: any number of processes, connections, threads, blocks, slots,
addresses and calls, any bytes. Every safety invariant and every action property
of the passing runs is a theorem, and so is the refinement. Each inductive
invariant was checked by TLC on the instance of its run as well.

What is assumed of the constants, and why the code gives it:

* The sizes that the code sizes arrays with are positive (`MaxWriteOps`,
  `StdioBuf`), null is none of the values it stands beside (`NullAssumption`, the
  `NULL \notin ...` of the others), and named values differ
  (`StartupAssumption`: the launcher's files, /dev/null and a closed descriptor).
* `ListenerAssumption`: there are finitely many list entries, as there is
  finitely much memory. Without it "the list ends" would not follow.
* `ServiceAssumption`: what `recv` returns is not empty, and the numbers of a seek
  command are natural numbers, as they are scanned with `%u`.

Some results have a hypothesis of their own. `MemorySafety`,
`UnloadLeavesOnlyPending` and `RefinesCommandLog` suppose that the write buffer
never fails to grow; the run `dangling_entry` shows why. `SearchAgrees` and
`ReadsAreExact` suppose that the stored bytes fit in a `size_t`, `Len(Contents)`
at most, or below, `SizeMod`: with more the search's sums wrap, and 2^64 bytes of
kernel memory do not exist.

### The driver

* `FindExact`: in a well-formed ring with at least one entry and fewer than
  `SizeMod` bytes, the search for a position returns the entry and offset of
  that byte, and null behind the last byte. `SizeUpTo` is a recursive function;
  that it is the running sum is proved with a least-counterexample argument
  (`LeastNat`) from the well-foundedness of the natural numbers.
* `AddEntryAppends`: the stored entries after add_entry are the ones before with
  the new one appended, without the oldest when the ring was full, and the ring
  stays well formed.
* `TypeCorrect`: `TypeOK`, inductive together with `CallShape`, which says that a
  process behind the mutex is in the operation its step belongs to.
* `MutualExclusion`: `LockDiscipline`, inductive together with `Occupancy`: the
  module is loaded while a file is open, so the mutex is never initialised under
  a caller.
* `MemorySafety`: `Ownership`. The inductive invariant is `HeapInv`: it adds that
  the ring is well formed, so that the slot a commit overwrites is the evicted
  one or empty, that only orphans are allocated while the module is away, and
  that a write past its allocation has a write buffer. A step outside of the
  mutex cannot disturb it because of `LockDiscipline`.
* `UnloadLeavesOnlyPending`: the action property follows from `Ownership`.
* `RefinesCommandLog`: `ImplementsCommandLog`, as initial condition and step
  simulation: a load, a removal or a write of the abstract device, or a stutter.
  Ownership is what makes it true: the write that fills or moves the
  write buffer, and the free of an evicted block, leave the bytes behind every
  other entry alone. `AddEntryAppends` turns the commit into the abstract append.
* `SearchAgrees`, `ReadsAreExact`: `FindIsExact` and `ReadIsExact`. They need the
  weaker `RingInv` (the ring is well formed and an entry with bytes has a block),
  which holds without the assumption on allocations: after a failed `krealloc`
  the bytes may be garbage, but the search and the read agree on them. That
  `FlattenSeq` puts an entry's bytes where the running sum says is proved, like
  the sums, by the least counterexample.
* `SeekToIsExact`, `SeekEndIsExact`: `SeekToFromStart` and
  `SeekEndFindsLastByte`. The second is about a ring that is not full, and needs
  that the size measured before the unlock is still that of the device, which is
  what "only process" gives.

### The service threads

`IInv` of `SocketServiceProofs` has, beside the types:

* `LockInv`, a thread is between lock and unlock exactly when the mutex is its
  own, from which every frame argument follows: nobody else is in the device;
* `ReceivedInv`, the buffer of a live thread is everything its connection has
  received (the code never empties it), and a thread leaves `recv` with a newline;
* `RestInv`, a packet that fits in the FILE's buffer is given to the device in one
  write, and a larger one leaves less than a buffer behind;
* `CommandsAreWholePackets` itself, and `ApartInv`: as long as nothing was cut
  short, what waits in the driver followed by what is left of the packet is the
  end of what the holder's connection has received, and nothing waits otherwise;
* `ReplyInv`: what was sent and what is left of the line are the device's bytes
  from the start of the reply to the position of `getline`, and nothing is sent
  once the error flag is set.

`PacketsAreWhole`, `PacketsNeverMix` (`PacketsStayApart`) and `ReplyIsExact`
(`ReplyIsDeviceContents`) follow. Crashes, restarts, failing writes and sends
are in the proof as they are in the model.

### The accept loop

`IInv` of `ListenerProofs` describes the linked list by the sequence of its
entries, s[1] .. s[n] (`ListInv`): head and `next` link them in that order,
they are different, and they are the allocated entries but the one about to be
inserted. While `main` scans, the cursor is at some entry of the list or null:
where the read of a freed entry has sent it does not matter, because removal finds
its place from the head. Insertion and removal are proved as operations on
sequences (`PushList`, `DropList`). `ThreadInv` says that each started thread has
an entry of its own whose flag tells whether it is done. `ArgumentsOutliveThread`
and `CleanExit` follow at once; `ListIsExact` also needs that the recursive function that walks the list visits
s[1] .. s[n] and ends (`ChainVisits`), once more by the least counterexample.

### Startup and the exercises

* `StartupProofs`: `SocketKept` is the strengthening. From `bind` on `h_sockfd` is
  the bound socket, unless it has the number of a standard descriptor and the
  daemon has replaced it; then `listen` fails, so that `ServesOnBoundSocket`
  holds all the same. `Search` says that the addresses advance only after a
  failure, `Detaching` how far the daemon has come; `DaemonIsDetached` and
  `GivesUpOnlyOnFailure` follow.
* `SystemCallsProofs`: `Order` (a call that has not returned is the last),
  `Stages` (what the stage of a child says of its fields), `Alone` (only the
  current call and the interrupted ones have a child) and `FileOfOpener` (the
  file is what the child that opened it last has written, as long as no wait was
  interrupted).
* `ThreadingProofs`: `Record`, a thread's status is that of its calls so far, with
  the three safety invariants.

### Model-checked only

Liveness (`CallsReturnOrOops`, `PacketsAreHandled`,
`SignalOutsideAcceptTerminates`, `StartupEnds`, `CallsReturn`, `ThreadsReturn`) is
out of the prover's reach, and the runs that end with a counterexample have
nothing to prove.

## Not modelled

* Writes of length zero, and more than 2 GB on the device (`int file_size`).
* Failure to register the device: `insmod` fails and nothing changes.
* In the service threads: NUL bytes in a packet, which end the C string; other
  writers of the device, which the mutex does not keep out; a failing `inet_ntop`
  or mutex call. A death of the process is one step, whatever its cause, and the
  restart is that of whoever started it.
* In the accept loop: when what is read from a freed list entry points to no
  entry of the list the process is taken to die; that such an address should pass
  for a complete entry, to be joined and freed, is left out. Signals are delivered
  to the main thread, which the kernel prefers.
* Other C libraries: what stdio does after a failed write is taken from glibc.
* In the startup: the working directory and the system log.
* The timer, which is compiled out; `writer`, one `fopen`, `fprintf`, `fclose`
  sequence of a single process that returns at the first failure and keeps no
  state between calls; the shell scripts, which build, load, start and search
  files; the test harness, whose tests are in a submodule.

## Plan

1. `CircularBuffer`, `AesdChar`, `CommandLog`, their runs and the proofs above -
   done.
2. `SocketService` over `CommandLog`, `Listener` - done.
3. `Startup`: descriptors, the two processes after fork and the hand-off to
   `Listener` - done.
4. `SystemCalls` and `Threading`; larger packets, crash and restart in
   `SocketService` - done.
5. Proofs of every safety invariant, action property and refinement of the
   passing runs - done.
6. What the comments promise and the code does not do: four runs that end with a
   counterexample, the rest described above - done.
7. Still to do: how the driver's `Ownership` fares after a failed `krealloc` (what
   still holds then, and for how long), mutual exclusion of the service threads
   as a property of its own, and `SEEK_END` and reads that race with other writers,
   for which no property is stated yet.
