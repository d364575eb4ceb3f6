# Verification of hplsp

TLA+ models of the concurrent and stateful parts of this repository (notes and code on
Linux server programming), with TLC configurations that check them on small instances
and TLAPS proofs of what matters most for instances of any size.

`PROJECT.json` lists components, runs, mutants, the map from definitions to source lines,
findings, hazards and theorems.

## 1. The system

| Component | State | Operations | What is hard |
|---|---|---|---|
| message queue, `thrdpool/msgqueue.c` | two lists, `get_head`, `put_head`, `put_tail`, `msg_cnt`, `nonblock`, two mutexes, two condition variables | put, get (with the list swap), set_nonblock, set_block | two mutexes over shared lists, signals sent outside the mutex, a flag written without one |
| thread pool, `thrdpool/thrdpool.c` | `nthreads`, `tid`, `terminate`, mutex, the queue | create, schedule, increase, destroy, worker routine | destruction from inside, threads joining one another, unlocked reads, a condition variable on a stack |
| loggers, `netbridge/Logger.cc` | per thread: line, level; per logger: a map of buffers, `shutdown_`; manager: `logs_`, `busyLogs_`, `shutdown_`, I/O thread | Start, Stop, CreateLog, log statements, Flush, AddBusyLog, Update, Run | buffers written without a lock, Stop racing with everything |
| buffers, `netbridge/Buffer.{h,cc}` | positions, capacity, memory; a list of buffers and its total | push, pop, peek, consume, reserve, shrink, clear, swap, move; vector push, pop, clear | long call sequences, growth and compaction at the edges |
| log file, `netbridge/MmapFile.cc`, with the choice of file in `Logger.cc` | descriptor, mapping, size, offset, sync position; the number of the next file | Open, Write, Sync, Truncate, Close; change of file | growth and remapping, failing calls, the death of the process between two steps |
| event loop, `netbridge/EventLoop.cc` | loop of a thread, `running_` | construct, Loop, destroy | use from another thread |
| poller and channels, `chapter9` | descriptor, event array | wait, HandleEvent | growth of the array, an uninitialized loop variable |
| server loop, `chapter10/event.cc` | epoll set, socket pair, `stop_server` | signal handler, accept, read signals | signals between any two steps, edge-triggered events, a socket pair that fills up |
| timer list, `chapter11/LSTTimer.h` | head, tail, links | add, adjust | order of the list |
| thread-safe list, `threadsafe_list.hpp` | nodes with a mutex each | push_front, for_each, find_first_if, remove_if | hand-over-hand locking |
| time, slice, sockets, demos, tests | little or none | | |

Interaction: the pool's workers get tasks from the message queue, and callers of
`thrdpool_schedule` put them there. `Logger` keeps a `Buffer` per thread; its I/O thread
writes to an `OMmapFile` and stamps lines with `Time`. The other parts stand alone.

What makes each correct, in a sentence:

- *message queue*: a FIFO queue to its callers; whoever waits is woken; bounded in blocking mode;
- *thread pool*: a task is run once or handed back; threads end and are joined once;
  memory is released after its last use;
- *loggers*: a line is written once, whole and in its thread's order; Stop ends;
- *buffers*: a byte queue, whatever happens to its memory;
- *log files*: every line written is in a file, whole, once and in order, whatever dies when;
- *server loop*: a stop signal, and nothing else, ends it; no event is forgotten;
- *thread-safe list*: nobody touches a deleted node, no part of the list is lost, and no
  traversal passes over what it is looking for.

## 2. Modules

| Module | Models | Used by |
|---|---|---|
| `FifoQueue` | what the message queue promises: put and get take effect at one instant | `MsgQueue` (refinement) |
| `MsgQueue`, `MCMsgQueue` | `msgqueue.c` | |
| `ThrdPool`, `MCThrdPool` | `thrdpool.c` over the FIFO queue | |
| `Logger`, `MCLogger` | `Logger.cc` | |
| `MmapFile` | `MmapFile.cc`: operators on the objects and the files | `LogFile` |
| `LogFile` | `_WriteLog` and the change of file in `Logger.cc`, over `MmapFile` | |
| `ThreadsafeList` | `threadsafe_list.hpp` | |
| `SignalLoop` | `chapter10/event.cc` | |
| `ByteQueue` | what `Buffer` and `BufferVector` promise | `Buffer` (refinement) |
| `Buffer`, `MCBuffer` | `Buffer.h`, `Buffer.cc` | |
| `MsgQueueProofs`, `ThrdPoolProofs`, `LoggerProofs`, `LogFileProofs`, `BufferProofs`, `ThreadsafeListProofs`, `SignalLoopProofs` | theorems about the module of that name | |
| `RecursionProofs` | lemmas about recursive functions | `LogFileProofs`, `BufferProofs` |

An `MC` module adds the symmetry sets. Operators whose comment describes a wrong variant
of the operation that follows (`PutCheckOffByOne`, `DrainForgotten`, ...) are mutants: no
specification uses them, and each shows that a property notices the bug it describes.

### MsgQueue

A thread is at a program counter between two accesses of shared state; one action is one
access: lock, test, sleep (which releases the mutex), wake (which takes it), link, unlock,
signal. A chain of intrusive links is a sequence; `get_head`, `put_head` and `put_tail` name
the chain they point into. `GetTest` reads `*get_head` and, if it is null, makes the
first assignment of `__msgqueue_swap` (`get_head = put_head`, before `put_mutex`). The
test of `nonblock` and going to sleep are two steps because `msgqueue_set_nonblock` writes
it without the mutex; this is why `CloseLock` matters. `Limit` computes `msg_max - 1` in
`size_t`. Messages are reused: one may be put again once no list and no thread holds it.

### ThrdPool

The queue is the abstract one: `Refinement` shows that `MsgQueue` implements it. Only the
signal at the end of `msgqueue_put` is kept as a step (`ScheduleSignal`), because it
touches the queue's memory after the message can be taken. `alive` says which of the
pool's memory, mutex and queue are allocated and `Uses` which of them a thread's next step
touches. `terminate` holds the thread in whose frame the condition variable lives.
`pthread_create` may fail at any call. `Quiet` states what a task that destroys the pool
may assume: TRUE, no thread outside the pool is inside a call; FALSE, it may be.

### Logger

A thread composes text in its thread-local line, and `Flush` appends its suffix (thread ID and
newline, a piece of text like any other: `AppendTid`) and frames the line (level, length,
text) into the thread's buffer of the logger. `operator<<` keeps a line below
`kMaxCharPerLog`, `Flush` does not look: a line that it prints because the logger is stopped is not
reset, and gains a suffix with every further Flush (`FlushConsole`). What lies behind `tmpBuffer_`
in memory, into which such a line would grow, is not modelled. Steps of `Flush`: mark the buffer in use under the
logger's mutex; push; release; report busy. `Update` (with `Log`, the parser of frames)
moves out the buffers not in use and writes them in any order: only the I/O thread calls
it and writes to `out`, so nobody can tell it from several steps. `Run` is split where it
releases `mutex_` and `logsMutex_`; its wait times out after 1 ms, so it may go on at any
moment. The final loop holds `logsMutex_` throughout, as does `Stop` while it shuts down one logger
after the other (`StopLock`, `Shutdown`, `StopUnlock`; `LogsMutexFree`). The constructor of a
logger resets the line of the thread that calls it (`CreateLog`, `CreateNull`). Log statements
nest when an argument logs (`MaxNest`); an argument does not create loggers. All loggers have the
same levels enabled. Where the code asserts, the model goes on as a build without assertions does
(`FlushNothing`). The prefix of a line (time, level) and colours are left out,
and the null logger has no state: nothing is ever written to it. The file behind `out` is the
subject of `LogFile`.

### MmapFile and LogFile

`MmapFile` has one operator for each member of `OMmapFile`, on `obj` (the members of the
objects) and `disk` (what the kernel has of each file, padding included: the mapping is
shared, so what `memcpy` writes outlives the process). `leaked` counts what `Truncate`
maps and nobody can unmap, `handed` the bytes given to `msync`. `LogFile` is the inside of
`Update` in `Logger`, step by step: is the file full, close, open the next, make room, copy. The
I/O thread alone takes these steps; what comes between them is the destruction of another
logger, a call that fails and the end of the process. `open` that fails hits
`assert(false)`; `mmap` that fails leaves the loop with a file and no memory, and the copy
that follows ends the process (`CopyFaults`) unless making room has mapped the file again.
A process killed inside `memcpy` has copied some of the bytes, in any order. A restarted process has another ID, so
its files have other names; files are not shared between processes. A line is a run of
equal bytes, its number; its length is more than what Flush appends (`Suffix`). It has no limit
in the code, as the suffix may be appended again and again; `MaxLen` is a bound of the model,
and lines longer than `kMaxCharPerLog` are below it. The name of a file is the pair of process and `seq_`: time and directory
cannot make two such names equal. `Open` without `bAppend` and `Truncate` to a smaller size
have no caller.

### ThreadsafeList

One action is one access to shared memory: lock head, read the link, lock the next node,
let go of the last, test, unlink, unlock, delete. `push_front` has one critical section and
is one step. A deleted node may be allocated again, by any `push_front`. The history variables
say what the properties compare with: `stable`, the nodes in the list since a traversal
began, and `doomed`, the nodes that removers ahead of a find are going to remove when it begins.
`After`, the nodes behind a place, is the least set closed under the links, which can be
reasoned about without induction.
`for_each` and the destructor do not compile when they are instantiated.

### SignalLoop

The handler runs with all signals blocked in the process's only thread: it is one step that may come
between any two steps of `main`. It makes a sleeping `epoll_wait` return EINTR, even with
`SA_RESTART`; one that runs before the call, or when there is something to report, does not.
Edge triggering: an arrival puts the descriptor on `ready`; `epoll_wait` reports what is on
it and still readable, and empties it. The order of events in a batch is any order. The
connections are never read or closed; they share one event and use up the descriptors
(`MaxConn`). `PipeCap <= RecvMax` is assumed: a one-byte message of a local
socket takes several hundred bytes of its send buffer, so some 280 fit where `recv` reads 1024.

### Buffer

A buffer is a record of `readPos_`, `writePos_`, `capacity_` and its memory; operations are
operators on records, and actions apply them to buffers outside and inside a vector. Between
calls, memory outside the readable part is `Junk`, which is not a byte: reading there would
break the refinement. `call` is a history variable: the last call and the bytes it took or
gave, which makes the refinement tell a lost byte from a popped one. A moved-from buffer
is not used until it is assigned or swapped (`moved`): `_MoveFrom` leaves a capacity without
memory in it unless it was large. `PushData` produces what `PushDataAt` returns, all or nothing
(`Taken`); that a vector of less than `kMaxBufferSize` bytes, half of what a `size_t` counts, never
meets the second is part of what is proved.

## 3. Runs

| Run | Checks | Instance |
|---|---|---|
| `MsgQueueModes` | `ListShape`, `TakeSafe`, `NoLostGetWakeup`, `NoLostPutWakeup`, `ImplementsFifo` | 2 producers, 2 consumers, a closer, an opener, 3 messages, maxlen 1, spurious wake-ups |
| `MsgQueueLive` | `PendingBound`, `Delivered`, `CloseReleases` | a producer, 2 consumers, a closer, 3 messages, maxlen 1, no spurious wake-ups |
| `ThrdPool` | `NoUseAfterFree`, `SignalSafe`, `TasksConserved`, `JoinChain`, `CountRight`, `CheckTellsDestroyer`, `ShutdownCompletes`, `TasksSettled`, no deadlock | main, 3 workers, 2 tasks, 2 threads at first |
| `ThrdPoolLateSignal` | `NoUseAfterFree` is violated | 1 worker, `Quiet` FALSE |
| `LoggerSafe` | `BufferOwned`, `FramesWhole`, `ExactlyOnce`, `ProgramOrder`, `EndedClean`, `StoppedDrained` | 2 threads, 2 loggers, 4 pieces of text, 2 starts, 1 stop |
| `LoggerLive` | `EventuallyWritten`, `StopReturns` | 2 threads, 2 loggers, 3 pieces, 1 start, 1 stop |
| `LoggerNested` | `FlushLevel` is violated | statements nested twice |
| `LogFile` | `OneWriter`, `Kept`, `FileBound`, `SyncCovers`, `LineEnds` | 2 loggers, 3 lines of 3 to 5 bytes, files of 2, 4, 8 and 16 bytes, full at 7, 2 processes, 1 failing call |
| `BufferQueue` | `BuffersSound`, `TotalRight`, `ImplementsQueue` | 2 buffers, 2 bytes, sizes 2 to 5 |
| `ThreadsafeList` | `OffDeletedNodes`, `NoNodeLost`, `NothingSkipped`, `NoOvertaking`, `Returns`, no deadlock | 3 threads, 2 nodes, 2 values |
| `SignalLoop` | `StopAsked`, `NoForgottenSignal`, `StopHonoured` | 3 signals, one of them to stop, a socket pair for 2, 2 connections waiting, 2 accepted |
| `ServerBacklog` | `ConnectionsServed` is violated | 1 signal, otherwise the same |

Every module that has runs of its own states a `TypeOK`. It is part of, or follows from, the
inductive invariant of its proofs (`LoggerProofs` has the types it needs in `Types`); the runs
spend their time on the other properties.

What the newer properties say:

- `Kept`: leaving out padding and the line a process died in, a logger's files hold exactly
  what it wrote, and padding is only in files of processes that died.
- `ExactlyOnce`: no piece of text is lost or in two places among lines, buffers and outputs. The
  console is excused: a line printed there stays in `tmpBuffer_` and may be printed again, or
  written with the next line.
- `OneWriter`: no two loggers write one file and none is opened twice. `FileBound`: no line begins
  where `kMaxCharPerLog` would not fit below `kDefaultLogSize`, so that only the last line of a file,
  which may be longer, reaches past it; and of every file, closed ones too, the mappings that
  nobody can unmap stay below twice its length. Together they stay below twice what was
  written: they grow as long as the process logs, and under no other bound. `SyncCovers`: after `Update` every byte of an open file has been
  given to `msync`. `LineEnds`: the loop that looks for a file ends.
- `OffDeletedNodes`, `NoNodeLost`: memory safety of the list. `NothingSkipped`: what was in
  the list when a traversal began, is still there and matches is ahead of it, so
  `find_first_if` finds the first and `remove_if` leaves none. `NoOvertaking`: a find never
  sees what an earlier `remove_if` is going to remove. `Returns`: a call that has the
  mutex of head returns.
- `StopAsked`: only a stop signal ends the server. `NoForgottenSignal`: a signal in the socket
  pair has an event to come. `StopHonoured`: a stop signal in the socket pair ends the server.

**Bounds.** The queue needs two of each kind: a second producer to fill the list while the
first has yet to signal, a second consumer to wait for `get_mutex` behind a sleeper
(`MsgQueueModes`); with more messages than `2 * maxlen` a producer must sleep (`MsgQueueLive`).
The pool needs three workers for a chain of joins with a link in the middle, one of them
added later; two tasks let one schedule another, add a thread or destroy the pool while main does the
same. Four pieces of text, what Flush appends included, and a threshold that one line
of three pieces exceeds let a logger be busy, a buffer be reused and a line overflow, by
`operator<<` or by suffixes. `LoggerSafe` does not nest statements and `LoggerNested` does; the
proofs of the same invariants are for every `MaxNest`. Three
lines let a logger fill a file, which has then grown twice, and begin the next, while another
shares `seq_`; lines of up to two bytes more than `kMaxCharPerLog` make a file pass 7 bytes. The
buffer sizes let a buffer be grown in each of the three ways, compacted, shrunk to a
capacity below `kDefaultSize`, and freed by Shrink; two byte values show order. Two nodes
let removals be neighbours, and three threads let a third push meanwhile. A socket
pair for two of three signals fills up. `MaxMsg`,
`MaxStart`, `MaxStop`, `MaxNest`, `MaxPush`, `MaxStream`, `MaxLen`, `MaxLine`, `MaxPid` and `MaxFail` are bounds
of the models, not of the code; `PipeCap`, `MaxBacklog` and `MaxConn` stand for limits of the
kernel.

**Deadlock** is checked in the runs of the queue, the pool and the list. In those of the queue this
says little, as a closer that is idle can always call: that nobody sleeps for ever is what `Delivered`
and `CloseReleases` say, in a run without spurious wake-ups to hide it. The other runs turn the check off: a program may stop
logging, a process may die and the server may end.

**Fairness.** A thread that can run does (WF), and one that competes for a mutex again and
again gets it (SF): without both, no code with mutexes makes progress. Consumers come back
(WF of `GetCall`), as the loop of `__thrdpool_routine` does. Tasks return (SF of
`TaskReturns`; the task may make calls, so returning is enabled only now and then). For the
logger: the I/O thread runs, a Flush that has begun ends and Stop goes on; nobody has to
log. In `LogFile` the I/O thread goes on while it writes a line. In the list a thread that
has entered it runs (WF); nothing is assumed of the mutex of head, which need not be fair. In the
server loop the process runs and the kernel delivers pending signals. Nothing is assumed about who
calls what when.

## 4. Findings

- `ThrdPoolLateSignal`: a task may destroy the pool (`thrdpool.h`) while the
  `thrdpool_schedule` that queued it has unlocked and not yet signalled; it then signals a
  freed queue. `ThrdPool` shows that in a pool created with threads this is the
  only use after free: with no thread outside the pool inside a call, there is none. (A pool
  created without threads: see below.)
- `LoggerNested`: an argument that logs resets the level of the statement around it, whose
  Flush fails its assertion (or, without assertions, drops the line).
- `ServerBacklog`: of two clients that connect before the loop looks, the second is not
  accepted until a third connects; chapter 9 says of edge-triggered epoll that an event
  is not reported again.

Two more that were checked and have no run of their own: with `maxlen` 0 the queue is
unbounded, not bounded by 0 as `msgqueue.h` has it (the unsigned `msg_max - 1` wraps; `PendingBound`
asks for a positive `maxlen`); and a worker started by `thrdpool_increase` in a pool created
with no threads reads `nthreads` before it is counted and frees the pool (`CheckTellsDestroyer`
fails with `nthreads0 = 0`, one worker and one task).

Seen while modelling, with no line of the repository that says otherwise: the final loop of
`Run` may drop a logger before `Stop` shuts it down, and what is flushed to it later stays
in its buffers; `Flush` to a stopped logger prints the line and does not reset it, so that it
grows by a suffix with each Flush, without a check; a logger
that is always busy starves the others; a moved-from `Buffer` below 8 KiB is not usable;
a header written with `PushDataAt` before its body is lost if the body makes the buffer grow;
`thrdpool_create` overwrites the error of a failed thread with 0; `Sync` gives `msync` an
address that is seldom a multiple of the page size, and does not look at its result (what it
was asked to write reaches the disk when the kernel likes; it outlives the process, not
the machine); a file is changed without a Sync; `Flush` does not set `lastLogMSecond_` when the second
changes, so that a line may keep the microseconds of the line before; a signal that comes while `main` closes its
descriptors, after `pipefd[0]`, ends the process with SIGPIPE; a stop signal that finds the
socket pair full is dropped.

## 5. Proofs

The theorems hold for any number of threads, buffers, messages and so on, and for any value
of the other parameters that the `ASSUME`s of the modules allow. Each is `Spec => []P` for
the property named, or the refinement; each `Invariance` is `Spec => []IInv`.

| Module | Theorem | States |
|---|---|---|
| `MsgQueueProofs` | `Invariance`, `Types` | `IInv`, `TypeOK` |
| | `Shape`, `NoNullDereference` | `ListShape`, `TakeSafe` |
| | `ConsumersAreWoken`, `ProducersAreWoken` | `NoLostGetWakeup`, `NoLostPutWakeup` |
| | `Bound` | `PendingBound` |
| | `Refinement` | `ImplementsFifo` |
| `ThrdPoolProofs` | `Invariance` | `IInv` |
| | `MemorySafe`, `SignalReachesWaiter` | `NoUseAfterFree`, `SignalSafe` |
| | `EveryThreadJoined`, `NoTaskLost` | `JoinChain`, `TasksConserved` |
| | `CountExact`, `CheckExact` | `CountRight`, `CheckTellsDestroyer` |
| `LoggerProofs` | `Invariance` | `IInv` |
| | `BufferStays`, `EndsClean`, `NothingLeftBehind` | `BufferOwned`, `EndedClean`, `StoppedDrained` |
| | `TextInvariance`, `TypesHold` | `TextInv`, `TypeOK` |
| | `FramesStayWhole`, `WrittenInOrder`, `WrittenOnce` | `FramesWhole`, `ProgramOrder`, `ExactlyOnce` |
| | `LevelOfStatement` | `FlushLevel`, if `MaxNest <= 1` |
| `LogFileProofs` | `Invariance`, `Types` | `IInv`, `TypeOK` |
| | `NamesUnique`, `FileBounded`, `AllSynced` | `OneWriter`, `FileBound`, `SyncCovers` |
| | `TextInvariance`, `TextKept` | `TInv`, `Kept` |
| `BufferProofs` | `Invariance`, `Types` | `IInv`, `TypeOK` |
| | `AlwaysSound`, `TotalCounted` | `BuffersSound`, `TotalRight` |
| | `Refinement` | `ImplementsQueue` |
| `ThreadsafeListProofs` | `Invariance` | `IInv` |
| | `NodesAlive`, `ListWhole` | `OffDeletedNodes`, `NoNodeLost` |
| | `NoMatchPassed`, `FindStaysBehind` | `NothingSkipped`, `NoOvertaking` |
| `SignalLoopProofs` | `Invariance` | `IInv` |
| | `OnlyWhenAsked`, `NothingForgotten` | `StopAsked`, `NoForgottenSignal` |

**Assumptions.** Besides the types of the parameters and special values being special
(`NULL`, `Nobody`, `NoFile`, `Junk`), the modules assume `PipeCap <= RecvMax` (section 2),
`kMaxCharPerLog <= kDefaultLogSize`, `kDefaultSize >= 2` for buffers (it is 256),
`MaxStream < kMaxBufferSize`, and that the threads that log are finitely many. The theorems of `ThrdPoolProofs` have two hypotheses. `Quiet`: a task
destroys the pool only when no thread outside is inside a call; `ThrdPoolLateSignal` shows what
happens otherwise. And `nthreads0 > 0`: in a pool created with no threads
`CheckTellsDestroyer` fails (section 4). The run `ThrdPool` is an instance of both.
`LevelOfStatement` has the hypothesis that log statements are not nested, without which
`LoggerNested` refutes it.

**Message queue.** The inductive invariant has three parts. *Control*: types, `Locks` (a mutex
belongs to the thread between its lock and unlock), `Sleepers` (who sleeps is in the matching
wait), `Carried` (a put in progress has a message). *Structure*: `ListShape`, `SwapCount` (the count
a swap is about to return is the length of the get list) and `TakeSafe`: the count is what
lets the consumer dereference the head after `put_mutex` is gone. *Wakeups*: the two
no-lost-wake-up properties and `Blocking`: what a thread saw when it decided to sleep still
holds, except that the mode may have changed, and then a closer has yet to take `put_mutex`
and signal. `Bound` adds that the get list holds at most what one swap gave it.
`Refinement` maps the queue to get list followed by put list (to the put list alone while a swap
has both names on it) and shows, action by action, which abstract step is taken.

**Thread pool.** Nothing here is inductive alone. `Ending` says that one thread ends the pool and
what the others can tell from `nonblock` and `terminate`; `Counting` that `nthreads` counts who
has not left, so that who reads zero is alone (`Alone`) and may free; `Chain` that the
threads that left are linked by their local `tid` into one chain ending at `pool->tid`, so that
each is joined once. That the chain has no cycle is said without induction: every set
of threads without the last has a member that no member of the set will join.

**Loggers.** `BufferOwned` and `StoppedDrained` need only that a thread is in a statement where
the code says so. `EndedClean` needs what Start, Stop and the I/O thread know of each other
(`Phases`): above all that an I/O thread that has seen `shutdown_` leaves `busyLogs_` empty for good.

The three properties of the text need an invariant of their own (`TextInv`), in two layers. *Frames*:
every buffer holds the frames of lines that are not empty (`AllFramed`), because a thread at `push` has
text (`Composing`), and a line that a constructor may throw away has been printed or refused (`Settled`).
`LogFrames` shows that `_Log` then finds exactly those lines: its recursion goes
from frame to frame, and a chain through known positions has a known value (`ChainValue`). This is
`FramesWhole`, and it lets the rest speak of the text alone. *Places* (`Placed`): a piece belongs to the
thread that composed it (`Authored`); what a thread composed later is behind, in every place and from
line to buffer to output (`Rising`); no piece has reached two loggers (`Apart`); what was accepted is
somewhere or was printed (`Present`). None of these is inductive alone: that a pushed line is
in no other logger follows from `Rising`, that Update keeps the order from `Authored`. One lemma says of
each move that it keeps `Placed`: `PlacedComposed`, `PlacedDropped`, `PlacedPushed`, `PlacedUpdated`,
`PlacedPrinted`; the actions are then shown to be such moves. For Update that means that the sequence in
which it writes the buffers has each of them (`OrderFacts`, by counting: hence finitely many threads)
and that they lie one behind the other in what it writes (`GatherFlat`). `ProgramOrder` is part of `Rising`;
for `ExactlyOnce`, `OnePlace` compares each two places a piece could be in.

**Log files.** `OneWriter` follows from `NamesTaken`: every file has an older process or a smaller
number than the next name. `FileBound` has an invariant of its own, `BInv`, on top of where the I/O thread is when it makes
room (`Where`). `_AssureSpace` at least doubles a size it changes, so that the size of an open file
exceeds all its forgotten mappings (`Leaks`); and it stops at the first size that is enough, so that
a file which has grown is smaller than twice the text it grew for (`Grown`), whatever the length of
a line. What `Close` cuts off therefore leaves more than half (`Forgotten`), also when the process dies. `SyncCovers` is proved from a
stronger claim, of every file the I/O thread is not working on (`Synced`). `Kept` needs what the bytes
of a file are (`TInv`): text up to the offset and zeros behind it while it is open (`Content`), the line
in progress being in no file yet (`Fresh`), and text and nothing else once this process has closed it
(`Trimmed`). Only the last file of a logger grows (`LastFile`), so that appending to it appends to the
text of all (`AllTextGrows`).

**Buffers.** The invariant is small (usable buffers are good, the vector counts its bytes); the
work is one lemma per member of `Buffer`: from a good buffer it makes a good one, with this much
to read. The same lemmas give `BuffersSound` and the refinement.

**Thread-safe list.** `Owned` says which mutexes a thread holds where, `Linked` that no node has two
links to it, `Spots` where each traversal is, `Doomed` that whoever will remove a node is ahead of
every find that must not see it. A claim about what is reachable is proved by giving a closed set.

**Server loop.** `StopAsked` needs that every stop signal in the pair was delivered and that `errno`
is `EINTR` when the loop looks; `NoForgottenSignal` that one `recv` empties the pair and that a
batch is handled before the next.

**Recursion.** The library's induction theorems have an operator as parameter, which none of the
provers can instantiate. `RecursionProofs` states induction for a set instead (`SetInduction`, from
the well-foundedness of `<`), and with it that the functions behind `NewSize`, `Grow`,
`RoundUp2Power`, `FlattenSeq` and `Log` exist, and what is needed of their values: that the sizes are large
enough, and no larger than one doubling of a size that was not (`GrowthStops`); that `FlattenSeq` of two sequences, one behind the other, is one whole behind the other
(`FlattenConcat`) and where each part lies in the whole (`FlattenAt`); and what `Log` collects
along known positions (`ChainValue`).

**Only model-checked**: the liveness properties (`Delivered`, `CloseReleases`, `ShutdownCompletes`,
`TasksSettled`, `EventuallyWritten`, `StopReturns`, `LineEnds`, `Returns`, `StopHonoured`), as fairness and
ENABLED are out of the prover's reach. Every invariant, action property and refinement that a passing run
checks is also proved.

## 6. Not modelled, and the plan

- *Timer list*: unfinished. `add_timer(timer, last_head)`, to which every insertion but the
  first and every adjustment leads, has an empty body.
- *Poller and channels*: `EPoller::wait` does not compile (it copies a `Channel`, whose
  `unique_ptr` member cannot be copied), and its loop variable is not initialized.
- *Event loop*: `Loop` sets a flag, waits five seconds for nothing and clears it; there is one
  step to take, and its assertion says who may take it.
- *Time*, *Slice*: functions of their arguments without steps; questions for unit tests.
  (`Slice::compare` compares as many bytes as the longer of the two has.)
- *Sockets and addresses*, the debug stream, the daemon and the demos keep no state that could be
  checked; tests were read for how the components are used.
- Of modelled components: `Logger::Init`, the prefix of a line (time, level) and colours; `for_each` and the destructor of
  the list; failures of `main` before its loop.

What is left is liveness: the proofs would need well-founded arguments under weak fairness, which stay
with TLC. Of the model, `Logger::Init` and the prefix of a line (section 4
says what was seen there) would be the next to add.
