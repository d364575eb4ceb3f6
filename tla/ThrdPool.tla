------------------------------- MODULE ThrdPool -------------------------------
(***************************************************************************)
(* thrdpool/thrdpool.c: worker threads that run tasks from a message queue.*)
(* The pool keeps a count of its threads and the ID of the last one that   *)
(* left; each leaving thread joins the one before it, and whoever destroys *)
(* the pool joins the last.  A task may schedule tasks, add threads, and   *)
(* destroy the pool it runs in.                                            *)
(*                                                                         *)
(* The queue is the FIFO queue that MsgQueue is proved to implement:       *)
(* putting and getting are steps, a get waits by not being enabled.  Of    *)
(* msgqueue_put the part after the message is linked is kept as a step of  *)
(* its own, because it still touches the queue's memory (msgqueue.c:98-99).*)
(*                                                                         *)
(* nthreads and terminate are read without the mutex at thrdpool.c:51 and  *)
(* :61: those reads are steps of their own.                                *)
(***************************************************************************)
EXTENDS Naturals, Sequences, FiniteSets

CONSTANTS Main,      (* the thread that calls thrdpool_create              *)
          Clients,   (* other threads outside the pool that use it         *)
          Workers,   (* the pthread_t values of pool threads               *)
          Tasks,     (* the tasks                                          *)
          NULL,      (* the null pointer, and the zero thread ID           *)
          nthreads0, (* the nthreads argument of thrdpool_create           *)
          Quiet      (* TRUE: a task destroys the pool only when no thread
                        outside it is inside a call of the pool            *)

External == {Main} \cup Clients
Threads  == External \cup Workers

ASSUME ConstantsOK ==
  /\ NULL \notin Threads \cup Tasks
  /\ External \cap Workers = {}
  /\ nthreads0 \in Nat
  /\ Quiet \in BOOLEAN

VARIABLES
  alive,     (* which of the pool, its mutex and its queue are allocated   *)
  nthreads,  (* pool->nthreads                                             *)
  tid,       (* pool->tid: the last thread that left, or zero              *)
  mutex,     (* who owns pool->mutex                                       *)
  terminate, (* pool->terminate: whose frame holds the condition variable  *)
  asleep,    (* threads asleep on that condition variable                  *)
  q,         (* the tasks in pool->msgqueue                                *)
  nonblock,  (* its mode                                                   *)
  pc,        (* where each thread is                                       *)
  task,      (* the task a worker runs                                     *)
  prev,      (* the local tid of __thrdpool_routine                        *)
  started,   (* the pool threads created                                   *)
  detached,  (* those that have been detached                              *)
  joins,     (* how often pthread_join was called on each                  *)
  created,   (* thrdpool_create has returned the pool                      *)
  destroyer, (* who called thrdpool_destroy                                *)
  scheduled, (* the tasks given to thrdpool_schedule                       *)
  runs,      (* how often each task was run                                *)
  pended     (* how often each task was handed to pending()                *)

pool    == <<alive, nthreads, tid, mutex, terminate, asleep>>
queue   == <<q, nonblock>>
threads == <<task, prev, started, detached, joins>>
ghost   == <<created, destroyer, scheduled, runs, pended>>
vars    == <<pool, queue, pc, threads, ghost>>

CreatePCs == {"create", "create_test", "create_count", "create_fail"}
IncPCs    == {"inc_lock", "inc_create", "inc_count", "inc_unlock"}
TermPCs   == {"term_lock", "term_nonblock", "term_set", "term_test", "term_wait",
              "term_join", "drain", "free"}
WorkPCs   == {"none", "loop", "get", "check", "exit_lock", "exit_unlock", "exit_join",
              "ended"}
PCs       == {"idle", "done", "run", "put_signal"} \cup CreatePCs \cup IncPCs \cup TermPCs
             \cup WorkPCs

TypeOK ==
  /\ alive \in SUBSET {"pool", "mutex", "queue"}
  /\ nthreads \in Nat
  /\ tid \in Workers \cup {NULL}
  /\ mutex \in Threads \cup {NULL}
  /\ terminate \in Threads \cup {NULL}
  /\ asleep \in SUBSET Threads
  /\ q \in Seq(Tasks)
  /\ nonblock \in BOOLEAN
  /\ pc \in [Threads -> PCs]
  /\ task \in [Workers -> Tasks \cup {NULL}]
  /\ prev \in [Workers -> Workers \cup {NULL}]
  /\ started \in SUBSET Workers
  /\ detached \in SUBSET Workers
  /\ joins \in [Workers -> Nat]
  /\ created \in BOOLEAN
  /\ destroyer \in Threads \cup {NULL}
  /\ scheduled \in SUBSET Tasks
  /\ runs \in [Tasks -> Nat]
  /\ pended \in [Tasks -> Nat]

Init ==
  /\ alive = {}
  /\ nthreads = 0
  /\ tid = NULL
  /\ mutex = NULL
  /\ terminate = NULL
  /\ asleep = {}
  /\ q = <<>>
  /\ nonblock = FALSE
  /\ pc = [t \in Threads |-> IF t = Main THEN "create"
                             ELSE IF t \in Clients THEN "idle" ELSE "none"]
  /\ task = [w \in Workers |-> NULL]
  /\ prev = [w \in Workers |-> NULL]
  /\ started = {}
  /\ detached = {}
  /\ joins = [w \in Workers |-> 0]
  /\ created = FALSE
  /\ destroyer = NULL
  /\ scheduled = {}
  /\ runs = [k \in Tasks |-> 0]
  /\ pended = [k \in Tasks |-> 0]

-----------------------------------------------------------------------------
At(t, l) == pc[t] = l
Goto(t, l) == pc' = [pc EXCEPT ![t] = l]
InPool(t) == t \in Workers

(* Where a call of the pool returns to. *)
Home(t) == IF InPool(t) THEN "run" ELSE "idle"

(* The pool is there for threads outside it from the return of thrdpool_create to
   the call of thrdpool_destroy; a task has it for as long as it runs, unless it
   is the one that destroyed it.                                             *)
MayCall(t) ==
  /\ At(t, Home(t))
  /\ InPool(t) => destroyer # t
  /\ ~InPool(t) => created /\ destroyer = NULL

(* pthread_create: a new thread starts, or there is none to be had. *)
Spawn(t, ok, fail) ==
  \/ \E w \in Workers \ started :
       /\ started' = started \cup {w}
       /\ pc' = [pc EXCEPT ![t] = ok, ![w] = "loop"]
  \/ /\ Goto(t, fail)
     /\ UNCHANGED started

-----------------------------------------------------------------------------
(* thrdpool_create and __thrdpool_create_threads.  When a thread cannot be
   created, __thrdpool_terminate(0, pool) ends those that were.              *)

Create ==
  /\ At(Main, "create")
  /\ alive' = {"pool", "mutex", "queue"}
  /\ Goto(Main, "create_test")
  /\ UNCHANGED <<nthreads, tid, mutex, terminate, asleep, queue, threads, ghost>>

CreateThread ==
  /\ At(Main, "create_test")
  /\ nthreads < nthreads0
  /\ Spawn(Main, "create_count", "term_lock")
  /\ UNCHANGED <<pool, queue, task, prev, detached, joins, ghost>>

CreateCount ==
  /\ At(Main, "create_count")
  /\ nthreads' = nthreads + 1
  /\ Goto(Main, "create_test")
  /\ UNCHANGED <<alive, tid, mutex, terminate, asleep, queue, threads, ghost>>

CreateDone ==
  /\ At(Main, "create_test")
  /\ nthreads = nthreads0
  /\ created' = TRUE
  /\ Goto(Main, "idle")
  /\ UNCHANGED <<pool, queue, threads, destroyer, scheduled, runs, pended>>

(* The cleanup of a thrdpool_create that returns NULL. *)
CreateFail ==
  /\ At(Main, "create_fail")
  /\ alive' = {}
  /\ Goto(Main, "done")
  /\ UNCHANGED <<nthreads, tid, mutex, terminate, asleep, queue, threads, ghost>>

-----------------------------------------------------------------------------
(* thrdpool_schedule: the task is linked, then the queue is signalled. *)

Schedule(t, k) ==
  /\ MayCall(t)
  /\ k \notin scheduled
  /\ scheduled' = scheduled \cup {k}
  /\ q' = Append(q, k)
  /\ Goto(t, "put_signal")
  /\ UNCHANGED <<pool, nonblock, threads, created, destroyer, runs, pended>>

ScheduleSignal(t) ==
  /\ At(t, "put_signal")
  /\ Goto(t, Home(t))
  /\ UNCHANGED <<pool, queue, threads, ghost>>

-----------------------------------------------------------------------------
(* thrdpool_increase. *)

Increase(t) ==
  /\ MayCall(t)
  /\ Goto(t, "inc_lock")
  /\ UNCHANGED <<pool, queue, threads, ghost>>

IncreaseLock(t) ==
  /\ At(t, "inc_lock")
  /\ mutex = NULL
  /\ mutex' = t
  /\ Goto(t, "inc_create")
  /\ UNCHANGED <<alive, nthreads, tid, terminate, asleep, queue, threads, ghost>>

IncreaseCreate(t) ==
  /\ At(t, "inc_create")
  /\ Spawn(t, "inc_count", "inc_unlock")
  /\ UNCHANGED <<pool, queue, task, prev, detached, joins, ghost>>

IncreaseCount(t) ==
  /\ At(t, "inc_count")
  /\ nthreads' = nthreads + 1
  /\ Goto(t, "inc_unlock")
  /\ UNCHANGED <<alive, tid, mutex, terminate, asleep, queue, threads, ghost>>

IncreaseUnlock(t) ==
  /\ At(t, "inc_unlock")
  /\ mutex' = NULL
  /\ Goto(t, Home(t))
  /\ UNCHANGED <<alive, nthreads, tid, terminate, asleep, queue, threads, ghost>>

-----------------------------------------------------------------------------
(* thrdpool_destroy, and __thrdpool_terminate which thrdpool_create shares. *)

Destroy(t) ==
  /\ MayCall(t)
  /\ destroyer = NULL
  /\ Quiet \/ ~InPool(t) => \A u \in External \ {t} : At(u, "idle")
  /\ destroyer' = t
  /\ Goto(t, "term_lock")
  /\ UNCHANGED <<pool, queue, threads, created, scheduled, runs, pended>>

(* Terminating without the mutex. *)
TermLockForgotten(t) ==
  /\ At(t, "term_lock")
  /\ Goto(t, "term_nonblock")
  /\ UNCHANGED <<pool, queue, threads, ghost>>

TermLock(t) ==
  /\ At(t, "term_lock")
  /\ mutex = NULL
  /\ mutex' = t
  /\ Goto(t, "term_nonblock")
  /\ UNCHANGED <<alive, nthreads, tid, terminate, asleep, queue, threads, ghost>>

(* msgqueue_set_nonblock: every get that finds the queue empty returns NULL. *)
TermNonblock(t) ==
  /\ At(t, "term_nonblock")
  /\ nonblock' = TRUE
  /\ Goto(t, "term_set")
  /\ UNCHANGED <<pool, q, threads, ghost>>

(* A task that destroys its pool and still counts its own thread. *)
TermSetCountsItself(t) ==
  /\ At(t, "term_set")
  /\ terminate' = t
  /\ detached' = IF InPool(t) THEN detached \cup {t} ELSE detached
  /\ Goto(t, "term_test")
  /\ UNCHANGED <<alive, nthreads, tid, mutex, asleep, queue, task, prev, started, joins,
                 ghost>>

TermSet(t) ==
  /\ At(t, "term_set")
  /\ terminate' = t
  /\ \/ /\ InPool(t)
        /\ detached' = detached \cup {t}
        /\ nthreads' = nthreads - 1
     \/ /\ ~InPool(t)
        /\ UNCHANGED <<detached, nthreads>>
  /\ Goto(t, "term_test")
  /\ UNCHANGED <<alive, tid, mutex, asleep, queue, task, prev, started, joins, ghost>>

(* Terminating without waiting for the threads to leave. *)
TermTestNoWait(t) ==
  /\ At(t, "term_test")
  /\ mutex' = NULL
  /\ Goto(t, "term_join")
  /\ UNCHANGED <<alive, nthreads, tid, terminate, asleep, queue, threads, ghost>>

(* while (nthreads > 0) wait; then unlock. *)
TermTest(t) ==
  /\ At(t, "term_test")
  /\ mutex' = NULL
  /\ \/ /\ nthreads > 0
        /\ asleep' = asleep \cup {t}
        /\ Goto(t, "term_wait")
     \/ /\ nthreads = 0
        /\ UNCHANGED asleep
        /\ Goto(t, "term_join")
  /\ UNCHANGED <<alive, nthreads, tid, terminate, queue, threads, ghost>>

TermWake(t) ==
  /\ At(t, "term_wait")
  /\ t \notin asleep
  /\ mutex = NULL
  /\ mutex' = t
  /\ Goto(t, "term_test")
  /\ UNCHANGED <<alive, nthreads, tid, terminate, asleep, queue, threads, ghost>>

(* pthread_join(w): wait until w has ended, and release it. *)
Join(w) ==
  /\ pc[w] = "ended"
  /\ joins' = [joins EXCEPT ![w] = @ + 1]

TermJoin(t) ==
  /\ At(t, "term_join")
  /\ IF tid = NULL THEN UNCHANGED joins ELSE Join(tid)
  /\ Goto(t, IF destroyer = t THEN "drain" ELSE "create_fail")
  /\ UNCHANGED <<pool, queue, task, prev, started, detached, ghost>>

(* Destroying the pool with tasks in its queue. *)
DrainForgotten(t) ==
  /\ At(t, "drain")
  /\ Goto(t, "free")
  /\ UNCHANGED <<pool, queue, threads, ghost>>

(* The tasks nobody took go to pending(). *)
Drain(t) ==
  /\ At(t, "drain")
  /\ \/ /\ q # <<>>
        /\ pended' = [pended EXCEPT ![Head(q)] = @ + 1]
        /\ q' = Tail(q)
        /\ UNCHANGED pc
     \/ /\ q = <<>>
        /\ Goto(t, "free")
        /\ UNCHANGED <<q, pended>>
  /\ UNCHANGED <<pool, nonblock, threads, created, destroyer, scheduled, runs>>

(* A destroy that releases all, wherever it is called. *)
FreeAlways(t) ==
  /\ At(t, "free")
  /\ alive' = {}
  /\ Goto(t, IF InPool(t) THEN "run" ELSE "done")
  /\ UNCHANGED <<nthreads, tid, mutex, terminate, asleep, queue, threads, ghost>>

(* A task that destroys its pool leaves the pool's own memory to its worker. *)
Free(t) ==
  /\ At(t, "free")
  /\ alive' = IF InPool(t) THEN {"pool"} ELSE {}
  /\ Goto(t, IF InPool(t) THEN "run" ELSE "done")
  /\ UNCHANGED <<nthreads, tid, mutex, terminate, asleep, queue, threads, ghost>>

-----------------------------------------------------------------------------
(* __thrdpool_routine. *)

WorkerLoop(w) ==
  /\ At(w, "loop")
  /\ Goto(w, IF terminate = NULL THEN "get" ELSE "exit_lock")
  /\ UNCHANGED <<pool, queue, threads, ghost>>

(* msgqueue_get, and the start of the task. *)
WorkerGet(w) ==
  /\ At(w, "get")
  /\ q # <<>>
  /\ task' = [task EXCEPT ![w] = Head(q)]
  /\ runs' = [runs EXCEPT ![Head(q)] = @ + 1]
  /\ q' = Tail(q)
  /\ Goto(w, "run")
  /\ UNCHANGED <<pool, nonblock, prev, started, detached, joins, created, destroyer,
                 scheduled, pended>>

WorkerGetNull(w) ==
  /\ At(w, "get")
  /\ q = <<>> /\ nonblock
  /\ Goto(w, "exit_lock")
  /\ UNCHANGED <<pool, queue, threads, ghost>>

TaskReturns(w) ==
  /\ At(w, "run")
  /\ task' = [task EXCEPT ![w] = NULL]
  /\ Goto(w, "check")
  /\ UNCHANGED <<pool, queue, prev, started, detached, joins, ghost>>

(* thrdpool.c:61: was the pool destroyed by the task? *)
WorkerCheck(w) ==
  /\ At(w, "check")
  /\ \/ /\ nthreads = 0
        /\ alive' = alive \ {"pool"}
        /\ Goto(w, "ended")
     \/ /\ nthreads > 0
        /\ Goto(w, "loop")
        /\ UNCHANGED alive
  /\ UNCHANGED <<nthreads, tid, mutex, terminate, asleep, queue, threads, ghost>>

(* A thread that leaves without making itself the one to be joined. *)
ExitLockKeepsTid(w) ==
  /\ At(w, "exit_lock")
  /\ mutex = NULL
  /\ mutex' = w
  /\ prev' = [prev EXCEPT ![w] = tid]
  /\ nthreads' = nthreads - 1
  /\ asleep' = IF nthreads = 1 THEN asleep \ {terminate} ELSE asleep
  /\ Goto(w, "exit_unlock")
  /\ UNCHANGED <<alive, tid, terminate, queue, task, started, detached, joins, ghost>>

(* A thread that leaves without waking the one that waits for all to leave. *)
ExitLockSilent(w) ==
  /\ At(w, "exit_lock")
  /\ mutex = NULL
  /\ mutex' = w
  /\ prev' = [prev EXCEPT ![w] = tid]
  /\ tid' = w
  /\ nthreads' = nthreads - 1
  /\ Goto(w, "exit_unlock")
  /\ UNCHANGED <<alive, terminate, asleep, queue, task, started, detached, joins, ghost>>

ExitLock(w) ==
  /\ At(w, "exit_lock")
  /\ mutex = NULL
  /\ mutex' = w
  /\ prev' = [prev EXCEPT ![w] = tid]
  /\ tid' = w
  /\ nthreads' = nthreads - 1
  /\ asleep' = IF nthreads = 1 THEN asleep \ {terminate} ELSE asleep
  /\ Goto(w, "exit_unlock")
  /\ UNCHANGED <<alive, terminate, queue, task, started, detached, joins, ghost>>

ExitUnlock(w) ==
  /\ At(w, "exit_unlock")
  /\ mutex' = NULL
  /\ Goto(w, IF prev[w] = NULL THEN "ended" ELSE "exit_join")
  /\ UNCHANGED <<alive, nthreads, tid, terminate, asleep, queue, threads, ghost>>

ExitJoin(w) ==
  /\ At(w, "exit_join")
  /\ Join(prev[w])
  /\ Goto(w, "ended")
  /\ UNCHANGED <<pool, queue, task, prev, started, detached, ghost>>

-----------------------------------------------------------------------------
(* POSIX lets pthread_cond_wait return without a signal. *)
SpuriousWake(t) ==
  /\ t \in asleep
  /\ asleep' = asleep \ {t}
  /\ UNCHANGED <<alive, nthreads, tid, mutex, terminate, queue, pc, threads, ghost>>

(* The program goes on without the pool. *)
Over ==
  /\ alive = {} /\ ~At(Main, "create")
  /\ \A w \in started : pc[w] = "ended"
Finished == Over /\ UNCHANGED vars

Acquire(t) ==
  IncreaseLock(t) \/ TermLock(t) \/ TermWake(t) \/ (InPool(t) /\ ExitLock(t))

Terminate(t) ==
  TermNonblock(t) \/ TermSet(t) \/ TermTest(t) \/ TermJoin(t) \/ Drain(t) \/ Free(t)

Worker(w) ==
  \/ WorkerLoop(w) \/ WorkerGet(w) \/ WorkerGetNull(w) \/ TaskReturns(w) \/ WorkerCheck(w)
  \/ ExitUnlock(w) \/ ExitJoin(w)

Run(t) ==
  \/ ScheduleSignal(t)
  \/ IncreaseCreate(t) \/ IncreaseCount(t) \/ IncreaseUnlock(t)
  \/ Terminate(t)
  \/ InPool(t) /\ Worker(t)

CreatePool == Create \/ CreateThread \/ CreateCount \/ CreateDone \/ CreateFail

Call(t) == (\E k \in Tasks : Schedule(t, k)) \/ Increase(t) \/ Destroy(t)

Next ==
  \/ CreatePool
  \/ \E t \in Threads : Call(t) \/ Acquire(t) \/ Run(t) \/ SpuriousWake(t)
  \/ Finished

Spec == Init /\ [][Next]_vars

(* Threads keep running, mutexes are obtained, and tasks return. *)
FairSpec ==
  /\ Spec
  /\ WF_vars(CreatePool)
  /\ \A t \in Threads : WF_vars(Run(t)) /\ SF_vars(Acquire(t))
  /\ \A w \in Workers : SF_vars(TaskReturns(w))

-----------------------------------------------------------------------------
(* The parts of the pool's memory that a thread's next step touches. *)
Uses(t) ==
  CASE pc[t] \in CreatePCs \ {"create"}                   -> {"pool", "mutex", "queue"}
    [] pc[t] \in TermPCs \ {"term_join", "drain"}         -> {"pool", "mutex", "queue"}
    [] pc[t] \in IncPCs \cup {"exit_lock", "exit_unlock"} -> {"pool", "mutex"}
    [] pc[t] \in {"get", "drain"}                         -> {"pool", "queue"}
    [] pc[t] \in {"loop", "check", "term_join"}           -> {"pool"}
    [] pc[t] = "put_signal"                               -> {"queue"}
    [] OTHER                                              -> {}

(* No thread touches the pool, its mutex or its queue after thrdpool_destroy (or a
   failed thrdpool_create, or the worker whose task destroyed the pool) has
   released it: not a worker between its signal and its unlock
   (thrdpool.c:73-75), not a call of thrdpool_schedule about to signal.      *)
NoUseAfterFree == \A t \in Threads : Uses(t) \subseteq alive

(* When the last worker signals pool->terminate (thrdpool.c:72-73) the pointer is
   set and the frame it points into is the one of a thread still waiting in
   __thrdpool_terminate, although workers can be on their way out as soon as
   msgqueue_set_nonblock is called, before the pointer is set.               *)
SignalSafe ==
  \A w \in Workers :
    pc[w] = "exit_lock" /\ mutex = NULL /\ nthreads = 1 =>
      terminate # NULL /\ pc[terminate] = "term_wait"

(* Occurrences of task k in the queue. *)
Queued(k) == Cardinality({i \in 1..Len(q) : q[i] = k})

(* A scheduled task is queued, or was run once, or was handed to pending() once;
   thrdpool_destroy leaves none behind, not even one that a running task
   schedules while the pool is being destroyed (thrdpool.h:39-41).           *)
TasksConserved ==
  /\ \A k \in Tasks :
       Queued(k) + runs[k] + pended[k] = IF k \in scheduled THEN 1 ELSE 0
  /\ "queue" \notin alive => q = <<>>

(* Threads join one another.  No thread is joined twice, or joined and detached, and
   nobody waits for itself; and when the pool's mutex is gone, every thread was
   joined except the one whose task destroyed the pool.                      *)
JoinChain ==
  /\ \A w \in Workers : joins[w] <= IF w \in detached THEN 0 ELSE 1
  /\ \A w \in Workers : pc[w] = "exit_join" => prev[w] \notin {w} \cup detached
  /\ "mutex" \notin alive => \A w \in started : w \in detached <=> joins[w] = 0

(* Pool threads that are counted in nthreads, once their creator gets to it. *)
Counted ==
  {w \in started \ detached : pc[w] \notin {"exit_unlock", "exit_join", "ended"}}
Uncounted == {t \in Threads : pc[t] \in {"create_count", "inc_count"}}

(* nthreads is the number of pool threads that have not left, less the one that was
   just created and is running before its creator counts it (thrdpool.c:114-116,
   :197-199).                                                                *)
CountRight == nthreads + Cardinality(Uncounted) = Cardinality(Counted)

(* thrdpool.c:61-62: "Thread pool was destroyed by the task." A worker back from a
   task finds nthreads = 0 exactly if its own task has destroyed the pool.   *)
CheckTellsDestroyer ==
  \A w \in Workers : pc[w] = "check" => (nthreads = 0 <=> destroyer = w)

(* Who starts to terminate the pool, from outside, from a task or because a thread
   could not be created, gets to the end: all threads end and all memory is
   released.                                                                 *)
ShutdownCompletes ==
  (\E t \in Threads : pc[t] = "term_lock") ~> Over

(* Every scheduled task is run or handed to pending(). *)
TasksSettled ==
  \A k \in Tasks : k \in scheduled ~> runs[k] + pended[k] = 1
=============================================================================
