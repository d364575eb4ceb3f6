---------------------------- MODULE ThrdPoolProofs ----------------------------
(***************************************************************************)
(* Proofs about ThrdPool, for any number of clients, threads and tasks,    *)
(* under two hypotheses: thrdpool_create is asked for at least one thread, *)
(* and a task destroys the pool only when no thread outside it is inside a *)
(* call of the pool (Quiet).  Both are needed: without either the model    *)
(* reaches states in which some of the properties fail.                    *)
(*                                                                         *)
(* None of the properties is inductive alone.  They rest on who may be     *)
(* where (Places, Creation), on there being one thread at a time that ends *)
(* the pool and on what it has announced (Ending), on nthreads being the   *)
(* number of threads that have not left (Counting), so that who reads zero *)
(* is the only one left (Alone), and on the threads that left being linked *)
(* through their local tid into one chain that ends at pool->tid (Chain).  *)
(* Chain says that the links have no cycle by saying that every set of     *)
(* threads without the last has a member that no member of it will join.   *)
(***************************************************************************)
EXTENDS ThrdPool, TLAPS, FiniteSetTheorems, SequenceTheorems

(* Where a thread has the mutex, and where threads outside and in the pool can be. *)
HoldsMutex == {"inc_create", "inc_count", "inc_unlock", "term_nonblock", "term_set",
               "term_test", "exit_unlock"}
OutPCs == {"idle", "done", "put_signal"} \cup CreatePCs \cup IncPCs \cup TermPCs
InPCs  == {"run", "put_signal"} \cup IncPCs \cup TermPCs \cup WorkPCs

(* Only Main creates the pool, and the threads of the pool are those created. *)
Places ==
  /\ \A t \in External : pc[t] \in OutPCs /\ (pc[t] \in CreatePCs => t = Main)
  /\ \A w \in Workers : pc[w] \in InPCs /\ (pc[w] = "none" <=> w \notin started)

(* The mutex belongs to the thread between its lock and its unlock. *)
Locks == \A t \in Threads : mutex = t <=> pc[t] \in HoldsMutex

(* Until thrdpool_create returns the pool, nobody else has it. *)
Creation ==
  /\ created => pc[Main] \notin CreatePCs
  /\ ~created => /\ pc[Main] \in CreatePCs \cup TermPCs \cup {"done"}
                 /\ destroyer = NULL /\ scheduled = {}
                 /\ \A c \in Clients : c # Main => pc[c] = "idle"
                 /\ \A w \in Workers : pc[w] \in {"none", "loop", "get", "exit_lock",
                                                  "exit_unlock", "exit_join", "ended"}
  /\ pc[Main] \in {"create", "create_test", "create_count"} => ~nonblock /\ terminate = NULL
  /\ pc[Main] = "create" => started = {}

(* Where a thread is that has set pool->terminate: still in __thrdpool_terminate or
   done with it, or a worker back in the task that called it. *)
After == {"term_test", "term_wait", "term_join", "drain", "free", "create_fail", "done"}
Back  == {"run", "check", "ended"}

(* Thread t has announced the end of the pool. *)
Announced(t) == pc[t] \in After \/ (destroyer = t /\ pc[t] \in Back)

(* One thread ends the pool; others see that through nonblock, then terminate. *)
Ending ==
  /\ \A t \in Threads : pc[t] \in TermPCs \cup {"done"} =>
       destroyer = t \/ (t = Main /\ ~created /\ pc[t] \notin {"drain", "free"})
  /\ \A t \in External : destroyer = t => pc[t] \in TermPCs \cup {"done"}
  /\ \A t \in Workers : destroyer = t => pc[t] \in TermPCs \cup Back
  /\ destroyer # NULL => \A u \in External : u # destroyer => pc[u] = "idle"
  /\ \A t \in Threads : terminate = t <=> Announced(t)
  /\ \A w \in Workers : w \in detached <=> terminate = w
  /\ nonblock /\ terminate = NULL => \E t \in Threads : pc[t] = "term_set"
  /\ terminate # NULL => nonblock
  /\ \A t \in Threads : pc[t] = "term_set" => nonblock
  /\ \A w \in Workers : pc[w] = "exit_lock" => nonblock
  /\ \A w \in Workers : pc[w] \in {"exit_unlock", "exit_join", "ended"} => terminate # NULL

(* Thread t has seen that all threads have left. *)
SawAll(t) ==
  \/ pc[t] \in {"term_join", "drain", "free", "create_fail", "done"}
  \/ destroyer = t /\ pc[t] \in Back

(* Who saw nthreads = 0 is the only one left. *)
Alone ==
  (\E t \in Threads : SawAll(t)) =>
     /\ nthreads = 0
     /\ \A w \in started : w # destroyer => pc[w] \in {"exit_join", "ended"}

(* Thread t has released the pool, or all of it but the pool's own memory. *)
Released(t) == pc[t] = "done" \/ (destroyer = t /\ pc[t] \in Back)

(* The pool is allocated from thrdpool_create until somebody has released it. *)
Allocated ==
  /\ pc[Main] # "create" /\ (\A t \in Threads : ~Released(t)) => alive = {"pool", "mutex", "queue"}
  /\ \A w \in Workers : destroyer = w /\ pc[w] \in {"run", "check"} => "pool" \in alive

(* nthreads is right, and a pool in use has a thread. *)
Counting ==
  /\ IsFiniteSet(started)
  /\ CountRight
  /\ created /\ terminate = NULL => nthreads > 0

(* The threads that left by the exit of __thrdpool_routine. *)
Left == {w \in Workers : \/ pc[w] \in {"exit_unlock", "exit_join"}
                         \/ pc[w] = "ended" /\ destroyer # w}

(* Thread t has joined the last thread that left. *)
JoinedLast(t) ==
  \/ pc[t] \in {"drain", "free", "create_fail", "done"}
  \/ destroyer = t /\ pc[t] \in Back

(* The threads that left form one chain through prev, from pool->tid to NULL. *)
Chain ==
  /\ tid \in Left \cup {NULL}
  /\ \A w \in Left : prev[w] \in Left \cup {NULL} /\ prev[w] # w /\ prev[w] # tid
  /\ \A u, w \in Left : u # w => prev[u] # prev[w]
  /\ \A w \in Left : w # tid => \E u \in Left : prev[u] = w
  /\ \A S \in SUBSET Left : S # {} /\ tid \notin S =>
       \E w \in S : \A u \in Left : prev[u] = w => u \notin S

(* A thread was joined exactly if the next in the chain has ended, or for the last
   one if the thread that ends the pool has joined it. *)
Joining ==
  /\ \A w \in Workers : joins[w] \in {0, 1}
  /\ \A w \in Workers \ Left : joins[w] = 0
  /\ \A w \in Left : joins[w] = 1 => pc[w] = "ended"
  /\ \A w \in Left : prev[w] # NULL => (joins[prev[w]] = 1 <=> pc[w] = "ended")
  /\ tid # NULL => (joins[tid] = 1 <=> \E t \in Threads : JoinedLast(t))
  /\ \A w \in Workers : pc[w] = "exit_join" => prev[w] # NULL

(* A scheduled task is in the queue once, or was taken from it once. *)
Work ==
  /\ \A i, j \in 1..Len(q) : q[i] = q[j] => i = j
  /\ \A i \in 1..Len(q) : q[i] \in scheduled /\ runs[q[i]] = 0 /\ pended[q[i]] = 0
  /\ \A k \in Tasks : runs[k] + pended[k] <= 1
  /\ \A k \in Tasks : runs[k] + pended[k] = 1 => k \in scheduled
  /\ \A k \in scheduled : runs[k] + pended[k] = 0 => \E i \in 1..Len(q) : q[i] = k
  /\ (\E t \in Threads : pc[t] = "free" \/ Released(t)) => q = <<>>

(* The inductive invariant. *)
IInv == /\ TypeOK /\ Places /\ Locks /\ Creation /\ Ending /\ Alone /\ Allocated /\ Counting
        /\ Chain /\ Joining /\ Work

(* Every step keeps threads to the code they may run, and the mutex with the
   thread between its lock and its unlock. *)
LEMMA PlacesStep == ASSUME IInv, Next PROVE Places' /\ Locks'
<1> USE ConstantsOK DEF IInv, TypeOK, Places, Locks, HoldsMutex, OutPCs, InPCs, CreatePCs,
      IncPCs, TermPCs, WorkPCs, PCs, External, Threads
<1> USE DEF At, Goto, Home, InPool, MayCall, pool, queue, threads, ghost, vars
<1>1. CASE Create
  BY <1>1 DEF Create
<1>2. CASE CreateThread
  <2>1. UNCHANGED mutex /\ pc[Main] = "create_test"
    BY <1>2 DEF CreateThread
  <2>2. CASE UNCHANGED started /\ pc' = [pc EXCEPT ![Main] = "term_lock"]
    BY <2>1, <2>2
  <2>3. ASSUME NEW v \in Workers \ started, started' = started \cup {v},
               pc' = [pc EXCEPT ![Main] = "create_count", ![v] = "loop"]
        PROVE  Places' /\ Locks'
    <3>1. Places'
      BY <2>1, <2>3
    <3>2. Locks'
      BY <2>1, <2>3
    <3> QED
      BY <3>1, <3>2
  <2> QED
    BY <1>2, <2>2, <2>3 DEF CreateThread, Spawn
<1>3. CASE CreateCount
  BY <1>3 DEF CreateCount
<1>4. CASE CreateDone
  BY <1>4 DEF CreateDone
<1>5. CASE CreateFail
  BY <1>5 DEF CreateFail
<1>6. ASSUME NEW t \in Threads, NEW k \in Tasks, Schedule(t, k) PROVE Places' /\ Locks'
  BY <1>6 DEF Schedule
<1>7. ASSUME NEW t \in Threads, Increase(t) PROVE Places' /\ Locks'
  BY <1>7 DEF Increase
<1>8. ASSUME NEW t \in Threads, Destroy(t) PROVE Places' /\ Locks'
  BY <1>8 DEF Destroy
<1>9. ASSUME NEW t \in Threads, IncreaseLock(t) PROVE Places' /\ Locks'
  BY <1>9 DEF IncreaseLock
<1>10. ASSUME NEW t \in Threads, TermLock(t) PROVE Places' /\ Locks'
  BY <1>10 DEF TermLock
<1>11. ASSUME NEW t \in Threads, TermWake(t) PROVE Places' /\ Locks'
  BY <1>11 DEF TermWake
<1>12. ASSUME NEW w \in Workers, ExitLock(w) PROVE Places' /\ Locks'
  BY <1>12 DEF ExitLock
<1>13. ASSUME NEW t \in Threads, ScheduleSignal(t) PROVE Places' /\ Locks'
  BY <1>13 DEF ScheduleSignal
<1>14. ASSUME NEW t \in Threads, IncreaseCreate(t) PROVE Places' /\ Locks'
  <2>1. UNCHANGED mutex /\ pc[t] = "inc_create"
    BY <1>14 DEF IncreaseCreate
  <2>2. CASE UNCHANGED started /\ pc' = [pc EXCEPT ![t] = "inc_unlock"]
    BY <2>1, <2>2
  <2>3. ASSUME NEW v \in Workers \ started, started' = started \cup {v},
               pc' = [pc EXCEPT ![t] = "inc_count", ![v] = "loop"]
        PROVE  Places' /\ Locks'
    BY <2>1, <2>3, ZenonT(40)
  <2> QED
    BY <1>14, <2>2, <2>3 DEF IncreaseCreate, Spawn
<1>15. ASSUME NEW t \in Threads, IncreaseCount(t) PROVE Places' /\ Locks'
  BY <1>15 DEF IncreaseCount
<1>16. ASSUME NEW t \in Threads, IncreaseUnlock(t) PROVE Places' /\ Locks'
  BY <1>16 DEF IncreaseUnlock
<1>17. ASSUME NEW t \in Threads, TermNonblock(t) PROVE Places' /\ Locks'
  BY <1>17 DEF TermNonblock
<1>18. ASSUME NEW t \in Threads, TermSet(t) PROVE Places' /\ Locks'
  BY <1>18 DEF TermSet
<1>19. ASSUME NEW t \in Threads, TermTest(t) PROVE Places' /\ Locks'
  <2>1. PICK l \in {"term_wait", "term_join"} :
          /\ pc[t] = "term_test" /\ mutex' = NULL /\ UNCHANGED started
          /\ pc' = [pc EXCEPT ![t] = l]
    BY <1>19 DEF TermTest
  <2> QED
    BY <2>1
<1>20. ASSUME NEW t \in Threads, TermJoin(t) PROVE Places' /\ Locks'
  <2>1. PICK l \in {"drain", "create_fail"} :
          /\ pc[t] = "term_join" /\ UNCHANGED <<mutex, started>>
          /\ l = "create_fail" => destroyer # t
          /\ pc' = [pc EXCEPT ![t] = l]
    BY <1>20 DEF TermJoin
  <2>2. destroyer # t => t = Main
    BY <2>1 DEF Ending
  <2> QED
    BY <2>1, <2>2, ZenonT(40)
<1>21. ASSUME NEW t \in Threads, Drain(t) PROVE Places' /\ Locks'
  <2>1. PICK l \in {"drain", "free"} :
          /\ pc[t] = "drain" /\ UNCHANGED <<mutex, started>>
          /\ pc' = [pc EXCEPT ![t] = l]
    BY <1>21 DEF Drain
  <2> QED
    BY <2>1
<1>22. ASSUME NEW t \in Threads, Free(t) PROVE Places' /\ Locks'
  BY <1>22 DEF Free
<1>23. ASSUME NEW w \in Workers, WorkerLoop(w) PROVE Places' /\ Locks'
  BY <1>23 DEF WorkerLoop
<1>24. ASSUME NEW w \in Workers, WorkerGet(w) PROVE Places' /\ Locks'
  BY <1>24 DEF WorkerGet
<1>25. ASSUME NEW w \in Workers, WorkerGetNull(w) PROVE Places' /\ Locks'
  BY <1>25 DEF WorkerGetNull
<1>26. ASSUME NEW w \in Workers, TaskReturns(w) PROVE Places' /\ Locks'
  BY <1>26 DEF TaskReturns
<1>27. ASSUME NEW w \in Workers, WorkerCheck(w) PROVE Places' /\ Locks'
  <2>1. PICK l \in {"ended", "loop"} :
          /\ pc[w] = "check" /\ UNCHANGED <<mutex, started>>
          /\ pc' = [pc EXCEPT ![w] = l]
    BY <1>27 DEF WorkerCheck
  <2> QED
    BY <2>1
<1>28. ASSUME NEW w \in Workers, ExitUnlock(w) PROVE Places' /\ Locks'
  BY <1>28 DEF ExitUnlock
<1>29. ASSUME NEW w \in Workers, ExitJoin(w) PROVE Places' /\ Locks'
  BY <1>29 DEF ExitJoin
<1>30. ASSUME NEW t \in Threads, SpuriousWake(t) PROVE Places' /\ Locks'
  BY <1>30 DEF SpuriousWake
<1>31. CASE Finished
  BY <1>31 DEF Finished
<1> QED
  BY <1>1, <1>2, <1>3, <1>4, <1>5, <1>6, <1>7, <1>8, <1>9, <1>10, <1>11, <1>12, <1>13,
     <1>14, <1>15, <1>16, <1>17, <1>18, <1>19, <1>20, <1>21, <1>22, <1>23, <1>24,
     <1>25, <1>26, <1>27, <1>28, <1>29, <1>30, <1>31
     DEF Next, CreatePool, Call, Acquire, Run, Terminate, Worker, InPool

(* Sets with an element, and with two, count at least that many. *)
LEMMA AtLeastOne ==
  ASSUME NEW S, IsFiniteSet(S), NEW a \in S
  PROVE  Cardinality(S) \in Nat /\ Cardinality(S) >= 1
<1>1. Cardinality(S) \in Nat /\ Cardinality(S) # 0
  BY FS_EmptySet, FS_CardinalityType
<1> QED
  BY <1>1

(* A finite set with two members counts at least two. *)
LEMMA AtLeastTwo ==
  ASSUME NEW S, IsFiniteSet(S), NEW a \in S, NEW b \in S, a # b
  PROVE  Cardinality(S) \in Nat /\ Cardinality(S) >= 2
<1>1. IsFiniteSet(S \ {a}) /\ Cardinality(S \ {a}) = Cardinality(S) - 1
  BY FS_RemoveElement
<1>2. Cardinality(S \ {a}) >= 1 /\ Cardinality(S \ {a}) \in Nat
  BY <1>1, AtLeastOne
<1>3. Cardinality(S) \in Nat
  BY AtLeastOne
<1> QED
  BY <1>1, <1>2, <1>3

(* At most one thread has created a thread and not yet counted it, and the counted
   threads are finitely many.                                                *)
LEMMA OneUncounted ==
  ASSUME IInv
  PROVE  /\ \A t, u \in Uncounted : t = u
         /\ IsFiniteSet(Counted)
         /\ Uncounted = {} => nthreads = Cardinality(Counted)
         /\ Uncounted # {} => nthreads + 1 = Cardinality(Counted)
<1> USE ConstantsOK DEF IInv, TypeOK, Places, Locks, Creation, Counting
<1>1. \A t, u \in Uncounted : t = u
  BY ZenonT(40) DEF Uncounted, HoldsMutex, Threads, External, CreatePCs, OutPCs, InPCs, TermPCs, WorkPCs,
     IncPCs
<1>2. IsFiniteSet(Counted)
  BY FS_Subset DEF Counted
<1>3. Cardinality(Counted) \in Nat
  BY <1>2, FS_CardinalityType
<1>4. Uncounted = {} => nthreads = Cardinality(Counted)
  <2>1. Cardinality({}) = 0
    BY FS_EmptySet
  <2> QED
    BY <2>1, <1>3 DEF CountRight
<1>5. Uncounted # {} => nthreads + 1 = Cardinality(Counted)
  <2> SUFFICES ASSUME NEW u \in Uncounted PROVE nthreads + 1 = Cardinality(Counted)
    OBVIOUS
  <2>1. Uncounted = {u}
    BY <1>1
  <2>2. Cardinality({u}) = 1
    BY FS_Singleton
  <2> QED
    BY <2>1, <2>2 DEF CountRight
<1> QED
  BY <1>1, <1>2, <1>4, <1>5

(* A worker back from a task that did not destroy the pool finds a thread counted:
   its own, whether or not another is just being created.                    *)
LEMMA CheckAnswers == ASSUME IInv PROVE CheckTellsDestroyer
<1> USE ConstantsOK
<1> SUFFICES ASSUME NEW w \in Workers, pc[w] = "check"
             PROVE  nthreads = 0 <=> destroyer = w
  BY DEF CheckTellsDestroyer
<1>1. CASE destroyer = w
  BY <1>1 DEF IInv, Alone, SawAll, Back, Threads
<1>2. CASE destroyer # w
  <2>1. created /\ w \in started /\ w \notin detached
    BY <1>2 DEF IInv, Creation, Places, Ending, Announced, After, Back, Threads
  <2>2. w \in Counted
    BY <2>1 DEF Counted
  <2>3. CASE terminate = NULL
    BY <1>2, <2>1, <2>3 DEF IInv, Counting, TypeOK
  <2>4. CASE terminate # NULL /\ Uncounted = {}
    BY <1>2, <2>2, <2>4, OneUncounted, AtLeastOne DEF IInv, TypeOK
  <2>5. ASSUME terminate # NULL, NEW u \in Uncounted PROVE nthreads # 0
    <3>1. destroyer = terminate
      BY <2>1, <2>5, ZenonT(40) DEF IInv, TypeOK, Ending, Announced, After, Back, Creation, CreatePCs,
                        TermPCs, Places, Threads, External, InPCs, WorkPCs, IncPCs
    <3>2. u \in Workers /\ pc[u] = "inc_count"
      BY <2>1, <2>5, <3>1 DEF IInv, Uncounted, Ending, Creation, CreatePCs, TermPCs, Places,
                              Threads, External, InPCs, WorkPCs, IncPCs
    <3>3. u \in Counted /\ u # w
      BY <3>2 DEF Counted, IInv, Ending, Places, Announced, After, Back, Threads
    <3>4. Cardinality(Counted) >= 2
      BY <2>2, <3>3, OneUncounted, AtLeastTwo
    <3> QED
      BY <3>4, OneUncounted, <2>5 DEF IInv, TypeOK
  <2> QED
    BY <1>2, <2>3, <2>4, <2>5
<1> QED
  BY <1>1, <1>2

(* A thread that gets the mutex to leave finds the end of the pool announced, and
   itself counted.                                                           *)
LEMMA LeaverCounted ==
  ASSUME IInv, NEW w \in Workers, pc[w] = "exit_lock", mutex = NULL
  PROVE  /\ terminate # NULL /\ terminate # w
         /\ Uncounted = {} /\ w \in Counted
         /\ nthreads = Cardinality(Counted) /\ nthreads > 0
<1> USE ConstantsOK DEF IInv, Threads
<1>1. terminate # NULL /\ terminate # w
  BY DEF Ending, Locks, HoldsMutex, TypeOK, Announced, After, Back
<1>2. w \in Counted
  BY <1>1 DEF Counted, Places, Ending
<1>3. Uncounted = {}
  <2>1. \A u \in Threads : pc[u] # "inc_count"
    BY DEF Locks, HoldsMutex
  <2>2. \A u \in Threads : pc[u] # "create_count"
    BY <1>1 DEF Creation, Places, CreatePCs, InPCs, WorkPCs, IncPCs, TermPCs, External
  <2> QED
    BY <2>1, <2>2 DEF Uncounted
<1>4. nthreads = Cardinality(Counted) /\ nthreads > 0
  BY <1>2, <1>3, OneUncounted, AtLeastOne DEF TypeOK
<1> QED
  BY <1>1, <1>2, <1>3, <1>4

(* A thread about to announce the end is the first to, and if it is of the pool it
   is counted.                                                               *)
LEMMA AnnouncerCounted ==
  ASSUME IInv, NEW t \in Threads, pc[t] = "term_set"
  PROVE  /\ terminate = NULL
         /\ Uncounted = {}
         /\ t \in Workers => t \in Counted /\ nthreads > 0
<1> USE ConstantsOK DEF IInv, Threads
<1>1. terminate = NULL
  <2> SUFFICES ASSUME NEW u \in Threads, terminate = u PROVE FALSE
    BY DEF TypeOK
  <2>1. Announced(u) /\ u # t
    BY DEF Ending, Announced, After, Back
  <2>2. destroyer = t \/ (t = Main /\ ~created)
    BY DEF Ending, TermPCs
  <2>3. destroyer = u \/ (u = Main /\ ~created)
    BY <2>1 DEF Ending, Announced, After, Back, TermPCs, Creation, Places, CreatePCs, InPCs,
       WorkPCs, IncPCs, External
  <2> QED
    BY <2>1, <2>2, <2>3 DEF Creation
<1>2. Uncounted = {}
  <2>1. mutex = t
    BY DEF Locks, HoldsMutex
  <2>2. pc[Main] # "create_count"
    BY DEF Ending, Creation, CreatePCs, TermPCs, Places
  <2> QED
    BY <2>1, <2>2 DEF Uncounted, Locks, HoldsMutex, Places, InPCs, WorkPCs, IncPCs, TermPCs,
       OutPCs, CreatePCs, External
<1>3. ASSUME t \in Workers PROVE t \in Counted /\ nthreads > 0
  <2>1. t \in Counted
    BY <1>1, <1>3 DEF Counted, Places, Ending
  <2> QED
    BY <1>2, <2>1, OneUncounted, AtLeastOne DEF TypeOK
<1> QED
  BY <1>1, <1>2, <1>3

(* Every step keeps what is known before thrdpool_create returns. *)
LEMMA CreationStep == ASSUME IInv, Next PROVE Creation'
<1> USE ConstantsOK DEF IInv, TypeOK, Places, Creation, OutPCs, InPCs, CreatePCs,
      IncPCs, TermPCs, WorkPCs, External, Threads
<1> USE DEF At, Goto, Home, InPool, MayCall, pool, queue, threads, ghost, vars
<1>1. CASE Create
  BY <1>1 DEF Create
<1>2. CASE CreateThread
  <2>1. pc[Main] = "create_test" /\ UNCHANGED <<created, destroyer, scheduled, nonblock, terminate>>
    BY <1>2 DEF CreateThread
  <2>2. CASE UNCHANGED started /\ pc' = [pc EXCEPT ![Main] = "term_lock"]
    BY <2>1, <2>2
  <2>3. ASSUME NEW v \in Workers \ started, started' = started \cup {v},
               pc' = [pc EXCEPT ![Main] = "create_count", ![v] = "loop"]
        PROVE  Creation'
    BY <2>1, <2>3
  <2> QED
    BY <1>2, <2>2, <2>3 DEF CreateThread, Spawn
<1>3. CASE CreateCount
  BY <1>3 DEF CreateCount
<1>4. CASE CreateDone
  BY <1>4 DEF CreateDone
<1>5. CASE CreateFail
  BY <1>5 DEF CreateFail
<1>6. ASSUME NEW t \in Threads, NEW k \in Tasks, Schedule(t, k) PROVE Creation'
  BY <1>6 DEF Schedule
<1>7. ASSUME NEW t \in Threads, Increase(t) PROVE Creation'
  BY <1>7 DEF Increase
<1>8. ASSUME NEW t \in Threads, Destroy(t) PROVE Creation'
  BY <1>8 DEF Destroy
<1>9. ASSUME NEW t \in Threads, IncreaseLock(t) PROVE Creation'
  BY <1>9 DEF IncreaseLock
<1>10. ASSUME NEW t \in Threads, TermLock(t) PROVE Creation'
  BY <1>10 DEF TermLock
<1>11. ASSUME NEW t \in Threads, TermWake(t) PROVE Creation'
  BY <1>11 DEF TermWake
<1>12. ASSUME NEW w \in Workers, ExitLock(w) PROVE Creation'
  BY <1>12 DEF ExitLock
<1>13. ASSUME NEW t \in Threads, ScheduleSignal(t) PROVE Creation'
  BY <1>13 DEF ScheduleSignal
<1>14. ASSUME NEW t \in Threads, IncreaseCreate(t) PROVE Creation'
  <2>1. pc[t] = "inc_create" /\ UNCHANGED <<created, destroyer, scheduled, nonblock, terminate>>
    BY <1>14 DEF IncreaseCreate
  <2>2. created /\ pc[Main] # "create"
    BY <2>1
  <2>3. CASE UNCHANGED started /\ pc' = [pc EXCEPT ![t] = "inc_unlock"]
    BY <2>1, <2>2, <2>3
  <2>4. ASSUME NEW v \in Workers \ started, started' = started \cup {v},
               pc' = [pc EXCEPT ![t] = "inc_count", ![v] = "loop"]
        PROVE  Creation'
    BY <2>1, <2>2, <2>4
  <2> QED
    BY <1>14, <2>3, <2>4 DEF IncreaseCreate, Spawn
<1>15. ASSUME NEW t \in Threads, IncreaseCount(t) PROVE Creation'
  BY <1>15 DEF IncreaseCount
<1>16. ASSUME NEW t \in Threads, IncreaseUnlock(t) PROVE Creation'
  BY <1>16 DEF IncreaseUnlock
<1>17. ASSUME NEW t \in Threads, TermNonblock(t) PROVE Creation'
  BY <1>17 DEF TermNonblock
<1>18. ASSUME NEW t \in Threads, TermSet(t) PROVE Creation'
  BY <1>18 DEF TermSet
<1>19. ASSUME NEW t \in Threads, TermTest(t) PROVE Creation'
  <2>1. PICK l \in {"term_wait", "term_join"} :
          /\ pc[t] = "term_test" /\ pc' = [pc EXCEPT ![t] = l]
          /\ UNCHANGED <<created, destroyer, scheduled, nonblock, terminate, started>>
    BY <1>19 DEF TermTest
  <2> QED
    BY <2>1
<1>20. ASSUME NEW t \in Threads, TermJoin(t) PROVE Creation'
  <2>1. PICK l \in {"drain", "create_fail"} :
          /\ pc[t] = "term_join" /\ pc' = [pc EXCEPT ![t] = l]
          /\ l = "create_fail" <=> destroyer # t
          /\ UNCHANGED <<created, destroyer, scheduled, nonblock, terminate, started>>
    BY <1>20 DEF TermJoin
  <2>2. destroyer # t <=> ~created
    BY <2>1 DEF Ending
  <2> QED
    BY <2>1, <2>2
<1>21. ASSUME NEW t \in Threads, Drain(t) PROVE Creation'
  <2>1. PICK l \in {"drain", "free"} :
          /\ pc[t] = "drain" /\ pc' = [pc EXCEPT ![t] = l]
          /\ UNCHANGED <<created, destroyer, scheduled, nonblock, terminate, started>>
    BY <1>21 DEF Drain
  <2>2. created
    BY <2>1 DEF Ending
  <2> QED
    BY <2>1, <2>2
<1>22. ASSUME NEW t \in Threads, Free(t) PROVE Creation'
  BY <1>22 DEF Free
<1>23. ASSUME NEW w \in Workers, WorkerLoop(w) PROVE Creation'
  BY <1>23 DEF WorkerLoop
<1>24. ASSUME NEW w \in Workers, WorkerGet(w) PROVE Creation'
  <2>1. 1 \in 1..Len(q)
    BY <1>24 DEF WorkerGet
  <2>2. created
    BY <2>1 DEF Work
  <2> QED
    BY <1>24, <2>2 DEF WorkerGet
<1>25. ASSUME NEW w \in Workers, WorkerGetNull(w) PROVE Creation'
  BY <1>25 DEF WorkerGetNull
<1>26. ASSUME NEW w \in Workers, TaskReturns(w) PROVE Creation'
  BY <1>26 DEF TaskReturns
<1>27. ASSUME NEW w \in Workers, WorkerCheck(w) PROVE Creation'
  BY <1>27, ZenonT(40) DEF WorkerCheck
<1>28. ASSUME NEW w \in Workers, ExitUnlock(w) PROVE Creation'
  BY <1>28 DEF ExitUnlock
<1>29. ASSUME NEW w \in Workers, ExitJoin(w) PROVE Creation'
  BY <1>29 DEF ExitJoin
<1>30. ASSUME NEW t \in Threads, SpuriousWake(t) PROVE Creation'
  BY <1>30 DEF SpuriousWake
<1>31. CASE Finished
  BY <1>31 DEF Finished
<1> QED
  BY <1>1, <1>2, <1>3, <1>4, <1>5, <1>6, <1>7, <1>8, <1>9, <1>10, <1>11, <1>12, <1>13,
     <1>14, <1>15, <1>16, <1>17, <1>18, <1>19, <1>20, <1>21, <1>22, <1>23, <1>24,
     <1>25, <1>26, <1>27, <1>28, <1>29, <1>30, <1>31
     DEF Next, CreatePool, Call, Acquire, Run, Terminate, Worker, InPool

(* Every step keeps what is known of who ends the pool and what it has announced,
   provided a task destroys the pool only when no thread outside is inside a
   call. *)
LEMMA EndingStep == ASSUME Quiet, IInv, Next PROVE Ending'
<1> USE ConstantsOK DEF IInv, TypeOK, Places, Creation, Ending, Locks, HoldsMutex,
      Announced, After, Back, OutPCs, InPCs, CreatePCs, IncPCs, TermPCs, WorkPCs, External, Threads
<1> USE DEF At, Goto, Home, InPool, MayCall, pool, queue, threads, ghost, vars
<1>1. CASE Create
  BY <1>1 DEF Create
<1>2. CASE CreateThread
  BY <1>2 DEF CreateThread, Spawn
<1>3. CASE CreateCount
  BY <1>3 DEF CreateCount
<1>4. CASE CreateDone
  BY <1>4 DEF CreateDone
<1>5. CASE CreateFail
  BY <1>5 DEF CreateFail
<1>6. ASSUME NEW t \in Threads, NEW k \in Tasks, Schedule(t, k) PROVE Ending'
  BY <1>6 DEF Schedule
<1>7. ASSUME NEW t \in Threads, Increase(t) PROVE Ending'
  BY <1>7 DEF Increase
<1>8. ASSUME NEW t \in Threads, Destroy(t) PROVE Ending'
  BY <1>8 DEF Destroy
<1>9. ASSUME NEW t \in Threads, IncreaseLock(t) PROVE Ending'
  BY <1>9 DEF IncreaseLock
<1>10. ASSUME NEW t \in Threads, TermLock(t) PROVE Ending'
  <2>1. pc[t] = "term_lock" /\ pc' = [pc EXCEPT ![t] = "term_nonblock"]
    BY <1>10 DEF TermLock
  <2>2. UNCHANGED <<created, destroyer, detached, nonblock, terminate>>
    BY <1>10 DEF TermLock
  <2> QED
    BY <2>1, <2>2
<1>11. ASSUME NEW t \in Threads, TermWake(t) PROVE Ending'
  BY <1>11 DEF TermWake
<1>12. ASSUME NEW w \in Workers, ExitLock(w) PROVE Ending'
  BY <1>12 DEF ExitLock
<1>13. ASSUME NEW t \in Threads, ScheduleSignal(t) PROVE Ending'
  BY <1>13 DEF ScheduleSignal
<1>14. ASSUME NEW t \in Threads, IncreaseCreate(t) PROVE Ending'
  <2>1. pc[t] = "inc_create" /\ UNCHANGED <<created, destroyer, detached, nonblock, terminate>>
    BY <1>14 DEF IncreaseCreate
  <2>2. CASE pc' = [pc EXCEPT ![t] = "inc_unlock"]
    BY <2>1, <2>2
  <2>3. ASSUME NEW v \in Workers \ started,
               pc' = [pc EXCEPT ![t] = "inc_count", ![v] = "loop"]
        PROVE  Ending'
    BY <2>1, <2>3
  <2> QED
    BY <1>14, <2>2, <2>3 DEF IncreaseCreate, Spawn
<1>15. ASSUME NEW t \in Threads, IncreaseCount(t) PROVE Ending'
  BY <1>15 DEF IncreaseCount
<1>16. ASSUME NEW t \in Threads, IncreaseUnlock(t) PROVE Ending'
  BY <1>16 DEF IncreaseUnlock
<1>17. ASSUME NEW t \in Threads, TermNonblock(t) PROVE Ending'
  <2>1. pc[t] = "term_nonblock" /\ pc' = [pc EXCEPT ![t] = "term_set"]
    BY <1>17 DEF TermNonblock
  <2>2. nonblock' = TRUE /\ UNCHANGED <<created, destroyer, detached, terminate>>
    BY <1>17 DEF TermNonblock
  <2>3. (nonblock /\ terminate = NULL => \E u \in Threads : pc[u] = "term_set")'
    BY <2>1
  <2>4. /\ (terminate # NULL => nonblock)'
        /\ (\A u \in Threads : pc[u] = "term_set" => nonblock)'
        /\ (\A w \in Workers : pc[w] = "exit_lock" => nonblock)'
    BY <2>2
  <2>5. /\ (\A w \in Workers : w \in detached <=> terminate = w)'
        /\ (\A w \in Workers : pc[w] \in {"exit_unlock", "exit_join", "ended"} => terminate # NULL)'
    BY <2>1, <2>2
  <2>6. (\A u \in Threads : terminate = u <=> Announced(u))'
    <3>1. \A u \in Threads : terminate = u <=> Announced(u)
      OBVIOUS
    <3>2. ASSUME NEW u \in Threads PROVE Announced(u)' <=> Announced(u)
      <4>1. CASE u = t
        <5>1. pc[u] = "term_nonblock" /\ pc'[u] = "term_set"
          BY <2>1, <4>1
        <5> QED
          BY <5>1 DEF Announced, After, Back
      <4>2. CASE u # t
        <5>1. pc'[u] = pc[u]
          BY <2>1, <4>2
        <5> QED
          BY <2>2, <5>1 DEF Announced
      <4> QED
        BY <4>1, <4>2
    <3> HIDE DEF IInv, TypeOK, Threads
    <3> QED
      BY <2>2, <3>1, <3>2
  <2>7. /\ (\A u \in Threads : pc[u] \in TermPCs \cup {"done"} =>
               destroyer = u \/ (u = Main /\ ~created /\ pc[u] \notin {"drain", "free"}))'
        /\ (\A u \in External : destroyer = u => pc[u] \in TermPCs \cup {"done"})'
        /\ (\A u \in Workers : destroyer = u => pc[u] \in TermPCs \cup Back)'
        /\ (destroyer # NULL => \A u \in External : u # destroyer => pc[u] = "idle")'
    BY <2>1, <2>2
  <2> QED
    BY <2>3, <2>4, <2>5, <2>6, <2>7
<1>18. ASSUME NEW t \in Threads, TermSet(t) PROVE Ending'
  <2>1. /\ pc[t] = "term_set" /\ pc' = [pc EXCEPT ![t] = "term_test"]
        /\ terminate' = t /\ nonblock /\ UNCHANGED <<created, destroyer, nonblock>>
    BY <1>18 DEF TermSet
  <2>2. detached' = IF t \in Workers THEN detached \cup {t} ELSE detached
    BY <1>18 DEF TermSet
  <2>3. terminate = NULL
    <3> SUFFICES ASSUME NEW u \in Threads, terminate = u PROVE FALSE
      OBVIOUS
    <3>1. Announced(u) /\ u # t
      BY <2>1
    <3>2. destroyer = t \/ (t = Main /\ ~created)
      BY <2>1
    <3>3. destroyer = u \/ (u = Main /\ ~created)
      BY <3>1, ZenonT(40)
    <3> QED
      BY <3>1, <3>2, <3>3
  <2> QED
    BY <2>1, <2>2, <2>3
<1>19. ASSUME NEW t \in Threads, TermTest(t) PROVE Ending'
  BY <1>19 DEF TermTest
<1>20. ASSUME NEW t \in Threads, TermJoin(t) PROVE Ending'
  BY <1>20 DEF TermJoin
<1>21. ASSUME NEW t \in Threads, Drain(t) PROVE Ending'
  BY <1>21 DEF Drain
<1>22. ASSUME NEW t \in Threads, Free(t) PROVE Ending'
  BY <1>22 DEF Free
<1>23. ASSUME NEW w \in Workers, WorkerLoop(w) PROVE Ending'
  BY <1>23 DEF WorkerLoop
<1>24. ASSUME NEW w \in Workers, WorkerGet(w) PROVE Ending'
  BY <1>24 DEF WorkerGet
<1>25. ASSUME NEW w \in Workers, WorkerGetNull(w) PROVE Ending'
  BY <1>25 DEF WorkerGetNull
<1>26. ASSUME NEW w \in Workers, TaskReturns(w) PROVE Ending'
  BY <1>26 DEF TaskReturns
<1>27. ASSUME NEW w \in Workers, WorkerCheck(w) PROVE Ending'
  <2>1. PICK l \in {"ended", "loop"} :
          /\ pc[w] = "check" /\ pc' = [pc EXCEPT ![w] = l]
          /\ nthreads = 0 <=> l = "ended"
          /\ UNCHANGED <<created, destroyer, detached, nonblock, terminate>>
    BY <1>27 DEF WorkerCheck
  <2>2. nthreads = 0 <=> destroyer = w
    BY <2>1, CheckAnswers DEF CheckTellsDestroyer
  <2> QED
    BY <2>1, <2>2
<1>28. ASSUME NEW w \in Workers, ExitUnlock(w) PROVE Ending'
  BY <1>28 DEF ExitUnlock
<1>29. ASSUME NEW w \in Workers, ExitJoin(w) PROVE Ending'
  BY <1>29 DEF ExitJoin
<1>30. ASSUME NEW t \in Threads, SpuriousWake(t) PROVE Ending'
  BY <1>30 DEF SpuriousWake
<1>31. CASE Finished
  BY <1>31 DEF Finished
<1> QED
  BY <1>1, <1>2, <1>3, <1>4, <1>5, <1>6, <1>7, <1>8, <1>9, <1>10, <1>11, <1>12, <1>13,
     <1>14, <1>15, <1>16, <1>17, <1>18, <1>19, <1>20, <1>21, <1>22, <1>23, <1>24,
     <1>25, <1>26, <1>27, <1>28, <1>29, <1>30, <1>31
     DEF Next, CreatePool, Call, Acquire, Run, Terminate, Worker, InPool

(* pthread_create, whether it starts a thread or not, leaves a set of workers started
   and every thread at a label. *)
LEMMA SpawnTypes ==
  ASSUME NEW t \in Threads, NEW ok \in PCs, NEW fail \in PCs, "loop" \in PCs,
         started \in SUBSET Workers, pc \in [Threads -> PCs], Spawn(t, ok, fail)
  PROVE  started' \in SUBSET Workers /\ pc' \in [Threads -> PCs]
<1>1. CASE Goto(t, fail) /\ UNCHANGED started
  BY <1>1 DEF Goto
<1>2. ASSUME NEW w \in Workers \ started, started' = started \cup {w},
             pc' = [pc EXCEPT ![t] = ok, ![w] = "loop"]
      PROVE  started' \in SUBSET Workers /\ pc' \in [Threads -> PCs]
  <2>1. started' \in SUBSET Workers
    BY <1>2
  <2>2. pc' \in [Threads -> PCs]
    BY <1>2
  <2> QED
    BY <2>1, <2>2
<1> QED
  BY <1>1, <1>2 DEF Spawn

(* Every step keeps the types: nthreads is taken down only by a thread that is
   counted. *)
LEMMA TypeStep == ASSUME IInv, Next PROVE TypeOK'
<1> USE ConstantsOK DEF IInv, TypeOK, PCs, CreatePCs, IncPCs, TermPCs, WorkPCs, External, Threads
<1> USE DEF At, Goto, Home, InPool, MayCall, Join, pool, queue, threads, ghost, vars
<1>1. CASE Create
  BY <1>1 DEF Create
<1>2. CASE CreateThread
  <2>1. started' \in SUBSET Workers /\ pc' \in [Threads -> PCs]
    <3>1. Spawn(Main, "create_count", "term_lock")
      BY <1>2 DEF CreateThread
    <3>2. /\ Main \in Threads /\ "create_count" \in PCs
          /\ "term_lock" \in PCs /\ "loop" \in PCs
      OBVIOUS
    <3>3. started \in SUBSET Workers /\ pc \in [Threads -> PCs]
      OBVIOUS
    <3> HIDE ConstantsOK DEF IInv, TypeOK, PCs, Threads
    <3> QED
      BY <3>1, <3>2, <3>3, SpawnTypes
  <2> QED
    BY <1>2, <2>1 DEF CreateThread
<1>3. CASE CreateCount
  BY <1>3 DEF CreateCount
<1>4. CASE CreateDone
  BY <1>4 DEF CreateDone
<1>5. CASE CreateFail
  BY <1>5 DEF CreateFail
<1>6. ASSUME NEW t \in Threads, NEW k \in Tasks, Schedule(t, k) PROVE TypeOK'
  BY <1>6 DEF Schedule
<1>7. ASSUME NEW t \in Threads, Increase(t) PROVE TypeOK'
  BY <1>7 DEF Increase
<1>8. ASSUME NEW t \in Threads, Destroy(t) PROVE TypeOK'
  BY <1>8 DEF Destroy
<1>9. ASSUME NEW t \in Threads, IncreaseLock(t) PROVE TypeOK'
  BY <1>9 DEF IncreaseLock
<1>10. ASSUME NEW t \in Threads, TermLock(t) PROVE TypeOK'
  BY <1>10 DEF TermLock
<1>11. ASSUME NEW t \in Threads, TermWake(t) PROVE TypeOK'
  BY <1>11 DEF TermWake
<1>12. ASSUME NEW w \in Workers, ExitLock(w) PROVE TypeOK'
  <2>1. nthreads' \in Nat
    BY <1>12, LeaverCounted DEF ExitLock
  <2>2. asleep' \in SUBSET Threads
    BY <1>12 DEF ExitLock
  <2> QED
    BY <1>12, <2>1, <2>2 DEF ExitLock
<1>13. ASSUME NEW t \in Threads, ScheduleSignal(t) PROVE TypeOK'
  BY <1>13 DEF ScheduleSignal
<1>14. ASSUME NEW t \in Threads, IncreaseCreate(t) PROVE TypeOK'
  <2>1. started' \in SUBSET Workers /\ pc' \in [Threads -> PCs]
    <3>1. Spawn(t, "inc_count", "inc_unlock")
      BY <1>14 DEF IncreaseCreate
    <3>2. "inc_count" \in PCs /\ "inc_unlock" \in PCs /\ "loop" \in PCs
      OBVIOUS
    <3>3. started \in SUBSET Workers /\ pc \in [Threads -> PCs]
      OBVIOUS
    <3> HIDE ConstantsOK DEF IInv, TypeOK, PCs, Threads
    <3> QED
      BY <1>14, <3>1, <3>2, <3>3, SpawnTypes
  <2> QED
    BY <1>14, <2>1 DEF IncreaseCreate
<1>15. ASSUME NEW t \in Threads, IncreaseCount(t) PROVE TypeOK'
  BY <1>15 DEF IncreaseCount
<1>16. ASSUME NEW t \in Threads, IncreaseUnlock(t) PROVE TypeOK'
  BY <1>16 DEF IncreaseUnlock
<1>17. ASSUME NEW t \in Threads, TermNonblock(t) PROVE TypeOK'
  BY <1>17 DEF TermNonblock
<1>18. ASSUME NEW t \in Threads, TermSet(t) PROVE TypeOK'
  <2>1. nthreads' \in Nat
    BY <1>18, AnnouncerCounted DEF TermSet
  <2>2. detached' \in SUBSET Workers
    BY <1>18 DEF TermSet
  <2> QED
    BY <1>18, <2>1, <2>2 DEF TermSet
<1>19. ASSUME NEW t \in Threads, TermTest(t) PROVE TypeOK'
  BY <1>19, ZenonT(40) DEF TermTest
<1>20. ASSUME NEW t \in Threads, TermJoin(t) PROVE TypeOK'
  BY <1>20 DEF TermJoin
<1>21. ASSUME NEW t \in Threads, Drain(t) PROVE TypeOK'
  <2>1. CASE q # <<>>
    <3>1. Head(q) \in Tasks /\ Tail(q) \in Seq(Tasks)
      BY <2>1
    <3>2. pended' = [pended EXCEPT ![Head(q)] = @ + 1] /\ q' = Tail(q) /\ UNCHANGED pc
      BY <1>21, <2>1 DEF Drain
    <3>3. pended' \in [Tasks -> Nat]
      BY <3>1, <3>2
    <3> QED
      BY <1>21, <3>1, <3>2, <3>3, SMTT(30) DEF Drain
  <2>2. CASE q = <<>>
    <3>1. pc' = [pc EXCEPT ![t] = "free"]
      BY <1>21, <2>2 DEF Drain
    <3>2. UNCHANGED <<pool, queue, threads, created, destroyer, scheduled, runs, pended>>
      BY <1>21, <2>2 DEF Drain
    <3>3. pc' \in [Threads -> PCs]
      BY <3>1
    <3> QED
      BY <3>2, <3>3
  <2> QED
    BY <2>1, <2>2
<1>22. ASSUME NEW t \in Threads, Free(t) PROVE TypeOK'
  BY <1>22 DEF Free
<1>23. ASSUME NEW w \in Workers, WorkerLoop(w) PROVE TypeOK'
  BY <1>23 DEF WorkerLoop
<1>24. ASSUME NEW w \in Workers, WorkerGet(w) PROVE TypeOK'
  BY <1>24 DEF WorkerGet
<1>25. ASSUME NEW w \in Workers, WorkerGetNull(w) PROVE TypeOK'
  BY <1>25 DEF WorkerGetNull
<1>26. ASSUME NEW w \in Workers, TaskReturns(w) PROVE TypeOK'
  BY <1>26 DEF TaskReturns
<1>27. ASSUME NEW w \in Workers, WorkerCheck(w) PROVE TypeOK'
  <2>1. pc' \in [Threads -> PCs] /\ alive' \in SUBSET {"pool", "mutex", "queue"}
    BY <1>27 DEF WorkerCheck
  <2> QED
    BY <1>27, <2>1 DEF WorkerCheck
<1>28. ASSUME NEW w \in Workers, ExitUnlock(w) PROVE TypeOK'
  BY <1>28 DEF ExitUnlock
<1>29. ASSUME NEW w \in Workers, ExitJoin(w) PROVE TypeOK'
  <2>1. joins' = [joins EXCEPT ![prev[w]] = joins[prev[w]] + 1] /\ prev[w] \in Workers \cup {NULL}
    BY <1>29 DEF ExitJoin
  <2>2. joins' \in [Workers -> Nat]
    <3>1. CASE prev[w] \in Workers
      BY <2>1, <3>1
    <3>2. CASE prev[w] = NULL
      BY <2>1, <3>2
    <3> QED
      BY <2>1, <3>1, <3>2
  <2> QED
    BY <1>29, <2>2 DEF ExitJoin
<1>30. ASSUME NEW t \in Threads, SpuriousWake(t) PROVE TypeOK'
  BY <1>30 DEF SpuriousWake
<1>31. CASE Finished
  BY <1>31 DEF Finished
<1> QED
  BY <1>1, <1>2, <1>3, <1>4, <1>5, <1>6, <1>7, <1>8, <1>9, <1>10, <1>11, <1>12, <1>13,
     <1>14, <1>15, <1>16, <1>17, <1>18, <1>19, <1>20, <1>21, <1>22, <1>23, <1>24,
     <1>25, <1>26, <1>27, <1>28, <1>29, <1>30, <1>31
     DEF Next, CreatePool, Call, Acquire, Run, Terminate, Worker, InPool

(* Once a thread has seen that all have left, nobody else is inside the pool. *)
LEMMA NobodyElse ==
  ASSUME IInv, NEW u \in Threads, SawAll(u)
  PROVE  \A t \in Threads : t # u => /\ pc[t] \in {"idle", "none", "exit_join", "ended"}
                                    /\ t # destroyer
<1> USE ConstantsOK DEF IInv, Threads
<1>1. u = destroyer \/ (u = Main /\ ~created)
  BY DEF SawAll, Ending, Back, TermPCs, Creation, CreatePCs, Places, InPCs, OutPCs, WorkPCs, IncPCs,
         External
<1>2. ASSUME NEW t \in Threads, t # u PROVE t # destroyer
  BY <1>1, <1>2 DEF Creation
<1>3. ASSUME NEW t \in External, t # u PROVE pc[t] = "idle"
  BY <1>1, <1>3 DEF Creation, Ending, External
<1>4. ASSUME NEW t \in Workers, t # u PROVE pc[t] \in {"none", "exit_join", "ended"}
  BY <1>2, <1>4 DEF Alone, Places
<1> QED
  BY <1>2, <1>3, <1>4

(* A thread that waits for the others to leave and counts none is the only one not
   to have left.                                                             *)
LEMMA NoneCounted ==
  ASSUME IInv, NEW t \in Threads, pc[t] = "term_test", nthreads = 0
  PROVE  \A w \in started : w # destroyer => pc[w] \in {"exit_join", "ended"}
<1> USE ConstantsOK DEF IInv, Threads
<1>1. Uncounted = {}
  <2>1. mutex = t
    BY DEF Locks, HoldsMutex
  <2>2. pc[Main] # "create_count"
    BY DEF Ending, Creation, CreatePCs, TermPCs, Places
  <2> QED
    BY <2>1, <2>2 DEF Uncounted, Locks, HoldsMutex, Places, InPCs, WorkPCs, IncPCs, TermPCs,
       OutPCs, CreatePCs, External
<1>2. Counted = {}
  <2> SUFFICES ASSUME NEW w \in Counted PROVE FALSE
    OBVIOUS
  <2> QED
    BY <1>1, OneUncounted, AtLeastOne DEF TypeOK
<1>3. terminate = t
  BY DEF Ending, Announced, After
<1>4. ASSUME NEW w \in started, w # destroyer PROVE w \notin detached
  BY <1>3, <1>4 DEF Ending, TermPCs, External, TypeOK
<1>5. \A w \in Workers : pc[w] # "exit_unlock"
  BY DEF Locks, HoldsMutex
<1> QED
  BY <1>2, <1>4, <1>5 DEF Counted, TypeOK

(* Every step keeps that who sees nthreads = 0 is the only one left in the pool. *)
LEMMA AloneStep == ASSUME IInv, Next PROVE Alone'
<1> USE ConstantsOK DEF IInv, TypeOK, Places, Creation, Ending, Alone, SawAll,
      Announced, After, Back, OutPCs, InPCs, CreatePCs, IncPCs, TermPCs, WorkPCs, External, Threads
<1> USE DEF At, Goto, Home, InPool, MayCall, pool, queue, threads, ghost, vars
<1>1. CASE Create
  BY <1>1 DEF Create
<1>2. CASE CreateThread
  BY <1>2 DEF CreateThread, Spawn
<1>3. CASE CreateCount
  BY <1>3 DEF CreateCount
<1>4. CASE CreateDone
  BY <1>4 DEF CreateDone
<1>5. CASE CreateFail
  BY <1>5 DEF CreateFail
<1>6. ASSUME NEW t \in Threads, NEW k \in Tasks, Schedule(t, k) PROVE Alone'
  BY <1>6 DEF Schedule
<1>7. ASSUME NEW t \in Threads, Increase(t) PROVE Alone'
  BY <1>7 DEF Increase
<1>8. ASSUME NEW t \in Threads, Destroy(t) PROVE Alone'
  BY <1>8 DEF Destroy
<1>9. ASSUME NEW t \in Threads, IncreaseLock(t) PROVE Alone'
  BY <1>9 DEF IncreaseLock
<1>10. ASSUME NEW t \in Threads, TermLock(t) PROVE Alone'
  BY <1>10 DEF TermLock
<1>11. ASSUME NEW t \in Threads, TermWake(t) PROVE Alone'
  BY <1>11 DEF TermWake
<1>12. ASSUME NEW w \in Workers, ExitLock(w) PROVE Alone'
  <2>0. pc[w] = "exit_lock"
    BY <1>12 DEF ExitLock
  <2>1. \A u \in Threads : ~SawAll(u)
    <3> SUFFICES ASSUME NEW u \in Threads, SawAll(u) PROVE FALSE
      OBVIOUS
    <3>1. w # u
      BY <2>0
    <3>2. pc[w] \in {"idle", "none", "exit_join", "ended"}
      BY <3>1, NobodyElse
    <3> QED
      BY <2>0, <3>2
  <2> QED
    BY <1>12, <2>1 DEF ExitLock
<1>13. ASSUME NEW t \in Threads, ScheduleSignal(t) PROVE Alone'
  BY <1>13 DEF ScheduleSignal
<1>14. ASSUME NEW t \in Threads, IncreaseCreate(t) PROVE Alone'
  <2>1. pc[t] = "inc_create" /\ UNCHANGED <<destroyer, nthreads>>
    BY <1>14 DEF IncreaseCreate
  <2>2. \A u \in Threads : ~SawAll(u)
    BY <2>1, NobodyElse
  <2>3. CASE pc' = [pc EXCEPT ![t] = "inc_unlock"]
    BY <2>1, <2>2, <2>3
  <2>4. ASSUME NEW v \in Workers \ started,
               pc' = [pc EXCEPT ![t] = "inc_count", ![v] = "loop"]
        PROVE  Alone'
    BY <2>1, <2>2, <2>4
  <2> QED
    BY <1>14, <2>3, <2>4 DEF IncreaseCreate, Spawn
<1>15. ASSUME NEW t \in Threads, IncreaseCount(t) PROVE Alone'
  <2>1. \A u \in Threads : ~SawAll(u)
    BY <1>15, NobodyElse DEF IncreaseCount
  <2> QED
    BY <1>15, <2>1 DEF IncreaseCount
<1>16. ASSUME NEW t \in Threads, IncreaseUnlock(t) PROVE Alone'
  BY <1>16 DEF IncreaseUnlock
<1>17. ASSUME NEW t \in Threads, TermNonblock(t) PROVE Alone'
  BY <1>17 DEF TermNonblock
<1>18. ASSUME NEW t \in Threads, TermSet(t) PROVE Alone'
  BY <1>18 DEF TermSet
<1>19. ASSUME NEW t \in Threads, TermTest(t) PROVE Alone'
  <2>1. CASE nthreads = 0
    <3>1. \A w \in started : w # destroyer => pc[w] \in {"exit_join", "ended"}
      BY <1>19, <2>1, NoneCounted DEF TermTest
    <3> QED
      BY <1>19, <2>1, <3>1 DEF TermTest
  <2>2. CASE nthreads # 0
    BY <1>19, <2>2 DEF TermTest
  <2> QED
    BY <2>1, <2>2
<1>20. ASSUME NEW t \in Threads, TermJoin(t) PROVE Alone'
  BY <1>20 DEF TermJoin
<1>21. ASSUME NEW t \in Threads, Drain(t) PROVE Alone'
  BY <1>21 DEF Drain
<1>22. ASSUME NEW t \in Threads, Free(t) PROVE Alone'
  BY <1>22 DEF Free
<1>23. ASSUME NEW w \in Workers, WorkerLoop(w) PROVE Alone'
  BY <1>23 DEF WorkerLoop
<1>24. ASSUME NEW w \in Workers, WorkerGet(w) PROVE Alone'
  BY <1>24 DEF WorkerGet
<1>25. ASSUME NEW w \in Workers, WorkerGetNull(w) PROVE Alone'
  BY <1>25 DEF WorkerGetNull
<1>26. ASSUME NEW w \in Workers, TaskReturns(w) PROVE Alone'
  BY <1>26 DEF TaskReturns
<1>27. ASSUME NEW w \in Workers, WorkerCheck(w) PROVE Alone'
  <2>1. PICK l \in {"ended", "loop"} :
          /\ pc[w] = "check" /\ pc' = [pc EXCEPT ![w] = l]
          /\ nthreads = 0 <=> l = "ended"
          /\ UNCHANGED <<nthreads, started, destroyer>>
    BY <1>27 DEF WorkerCheck
  <2>2. nthreads = 0 <=> destroyer = w
    BY <2>1, CheckAnswers DEF CheckTellsDestroyer
  <2> QED
    BY <2>1, <2>2
<1>28. ASSUME NEW w \in Workers, ExitUnlock(w) PROVE Alone'
  BY <1>28 DEF ExitUnlock
<1>29. ASSUME NEW w \in Workers, ExitJoin(w) PROVE Alone'
  BY <1>29 DEF ExitJoin
<1>30. ASSUME NEW t \in Threads, SpuriousWake(t) PROVE Alone'
  BY <1>30 DEF SpuriousWake
<1>31. CASE Finished
  BY <1>31 DEF Finished
<1> QED
  BY <1>1, <1>2, <1>3, <1>4, <1>5, <1>6, <1>7, <1>8, <1>9, <1>10, <1>11, <1>12, <1>13,
     <1>14, <1>15, <1>16, <1>17, <1>18, <1>19, <1>20, <1>21, <1>22, <1>23, <1>24,
     <1>25, <1>26, <1>27, <1>28, <1>29, <1>30, <1>31
     DEF Next, CreatePool, Call, Acquire, Run, Terminate, Worker, InPool

(* Every step keeps the pool allocated until its last user releases it. *)
LEMMA AllocatedStep == ASSUME IInv, Next PROVE Allocated'
<1> USE ConstantsOK DEF IInv, TypeOK, Places, Creation, Ending, Allocated, Released,
      Announced, After, Back, OutPCs, InPCs, CreatePCs, IncPCs, TermPCs, WorkPCs, External, Threads
<1> USE DEF At, Goto, Home, InPool, MayCall, pool, queue, threads, ghost, vars
<1>1. CASE Create
  BY <1>1 DEF Create
<1>2. CASE CreateThread
  BY <1>2 DEF CreateThread, Spawn
<1>3. CASE CreateCount
  BY <1>3 DEF CreateCount
<1>4. CASE CreateDone
  BY <1>4 DEF CreateDone
<1>5. CASE CreateFail
  BY <1>5 DEF CreateFail
<1>6. ASSUME NEW t \in Threads, NEW k \in Tasks, Schedule(t, k) PROVE Allocated'
  BY <1>6 DEF Schedule
<1>7. ASSUME NEW t \in Threads, Increase(t) PROVE Allocated'
  BY <1>7 DEF Increase
<1>8. ASSUME NEW t \in Threads, Destroy(t) PROVE Allocated'
  BY <1>8 DEF Destroy
<1>9. ASSUME NEW t \in Threads, IncreaseLock(t) PROVE Allocated'
  BY <1>9 DEF IncreaseLock
<1>10. ASSUME NEW t \in Threads, TermLock(t) PROVE Allocated'
  BY <1>10 DEF TermLock
<1>11. ASSUME NEW t \in Threads, TermWake(t) PROVE Allocated'
  BY <1>11 DEF TermWake
<1>12. ASSUME NEW w \in Workers, ExitLock(w) PROVE Allocated'
  BY <1>12 DEF ExitLock
<1>13. ASSUME NEW t \in Threads, ScheduleSignal(t) PROVE Allocated'
  BY <1>13 DEF ScheduleSignal
<1>14. ASSUME NEW t \in Threads, IncreaseCreate(t) PROVE Allocated'
  BY <1>14 DEF IncreaseCreate, Spawn
<1>15. ASSUME NEW t \in Threads, IncreaseCount(t) PROVE Allocated'
  BY <1>15 DEF IncreaseCount
<1>16. ASSUME NEW t \in Threads, IncreaseUnlock(t) PROVE Allocated'
  BY <1>16 DEF IncreaseUnlock
<1>17. ASSUME NEW t \in Threads, TermNonblock(t) PROVE Allocated'
  BY <1>17 DEF TermNonblock
<1>18. ASSUME NEW t \in Threads, TermSet(t) PROVE Allocated'
  BY <1>18 DEF TermSet
<1>19. ASSUME NEW t \in Threads, TermTest(t) PROVE Allocated'
  BY <1>19 DEF TermTest
<1>20. ASSUME NEW t \in Threads, TermJoin(t) PROVE Allocated'
  BY <1>20 DEF TermJoin
<1>21. ASSUME NEW t \in Threads, Drain(t) PROVE Allocated'
  BY <1>21 DEF Drain
<1>22. ASSUME NEW t \in Threads, Free(t) PROVE Allocated'
  BY <1>22 DEF Free
<1>23. ASSUME NEW w \in Workers, WorkerLoop(w) PROVE Allocated'
  BY <1>23 DEF WorkerLoop
<1>24. ASSUME NEW w \in Workers, WorkerGet(w) PROVE Allocated'
  BY <1>24 DEF WorkerGet
<1>25. ASSUME NEW w \in Workers, WorkerGetNull(w) PROVE Allocated'
  BY <1>25 DEF WorkerGetNull
<1>26. ASSUME NEW w \in Workers, TaskReturns(w) PROVE Allocated'
  BY <1>26 DEF TaskReturns
<1>27. ASSUME NEW w \in Workers, WorkerCheck(w) PROVE Allocated'
  <2>1. PICK l \in {"ended", "loop"} :
          /\ pc[w] = "check" /\ pc' = [pc EXCEPT ![w] = l]
          /\ nthreads = 0 <=> l = "ended"
          /\ l = "loop" => alive' = alive
          /\ UNCHANGED destroyer
    BY <1>27 DEF WorkerCheck
  <2>2. nthreads = 0 <=> destroyer = w
    BY <2>1, CheckAnswers DEF CheckTellsDestroyer
  <2> QED
    BY <2>1, <2>2
<1>28. ASSUME NEW w \in Workers, ExitUnlock(w) PROVE Allocated'
  BY <1>28 DEF ExitUnlock
<1>29. ASSUME NEW w \in Workers, ExitJoin(w) PROVE Allocated'
  BY <1>29 DEF ExitJoin
<1>30. ASSUME NEW t \in Threads, SpuriousWake(t) PROVE Allocated'
  BY <1>30 DEF SpuriousWake
<1>31. CASE Finished
  BY <1>31 DEF Finished
<1> QED
  BY <1>1, <1>2, <1>3, <1>4, <1>5, <1>6, <1>7, <1>8, <1>9, <1>10, <1>11, <1>12, <1>13,
     <1>14, <1>15, <1>16, <1>17, <1>18, <1>19, <1>20, <1>21, <1>22, <1>23, <1>24,
     <1>25, <1>26, <1>27, <1>28, <1>29, <1>30, <1>31
     DEF Next, CreatePool, Call, Acquire, Run, Terminate, Worker, InPool

(* Where a created thread is not counted yet by its creator, and where a thread of
   the pool is no longer counted.                                            *)
Adding == {"create_count", "inc_count"}
Gone   == {"exit_unlock", "exit_join", "ended"}

(* A step that moves one thread and neither counts nor leaves keeps the count. *)
LEMMA CountKept ==
  ASSUME IInv, NEW t \in Threads, NEW l, pc' = [pc EXCEPT ![t] = l],
         UNCHANGED <<nthreads, started, detached>>,
         l \in Adding <=> pc[t] \in Adding,
         t \in started \ detached => (l \in Gone <=> pc[t] \in Gone)
  PROVE  IsFiniteSet(started') /\ CountRight'
<1> USE DEF IInv, TypeOK
<1>1. Uncounted' = Uncounted
  BY DEF Uncounted, Adding
<1>2. Counted' = Counted
  BY ConstantsOK DEF Counted, Gone, Threads
<1> QED
  BY <1>1, <1>2 DEF CountRight, Counting

(* A new thread is one more to count, and its creator has yet to count it. *)
LEMMA CountSpawned ==
  ASSUME IInv, NEW t \in Threads, NEW v \in Workers \ started, NEW l \in Adding, v # t,
         pc[t] \notin Gone,
         Uncounted = {}, started' = started \cup {v}, UNCHANGED <<nthreads, detached>>,
         pc' = [pc EXCEPT ![t] = l, ![v] = "loop"]
  PROVE  IsFiniteSet(started') /\ CountRight'
<1> USE ConstantsOK DEF IInv, TypeOK, Threads
<1>1. IsFiniteSet(started')
  BY FS_AddElement DEF Counting
<1>2. Uncounted' = {t}
  BY DEF Uncounted, Adding
<1>3. Counted' = Counted \cup {v} /\ v \notin Counted
  <2>1. v \notin detached
    BY DEF Places, Ending, Announced, After, Back, Adding, Gone
  <2> QED
    BY <2>1 DEF Counted, Adding, Gone
<1>4. Cardinality(Counted') = Cardinality(Counted) + 1
  BY <1>3, OneUncounted, FS_AddElement
<1>5. Cardinality(Uncounted') = 1
  BY <1>2, FS_Singleton
<1> QED
  BY <1>1, <1>4, <1>5, OneUncounted DEF CountRight

(* Counting the new thread. *)
LEMMA CountAdded ==
  ASSUME IInv, NEW t \in Threads, pc[t] \in Adding, NEW l, l \notin Adding \cup Gone,
         nthreads' = nthreads + 1, pc' = [pc EXCEPT ![t] = l], UNCHANGED <<started, detached>>
  PROVE  IsFiniteSet(started') /\ CountRight'
<1> USE ConstantsOK DEF IInv, TypeOK, Threads
<1>1. t \in Uncounted
  BY DEF Uncounted, Adding
<1>2. Uncounted' = {}
  BY <1>1, OneUncounted DEF Uncounted, Adding
<1>3. Counted' = Counted
  BY DEF Counted, Adding, Gone
<1>4. Cardinality(Uncounted') = 0
  BY <1>2, FS_EmptySet
<1> QED
  BY <1>1, <1>3, <1>4, OneUncounted DEF CountRight, Counting

(* A thread of the pool that leaves, or that destroys the pool from a task, is one
   less to count.                                                            *)
LEMMA CountRemoved ==
  ASSUME IInv, NEW w \in Counted, Uncounted = {}, Uncounted' = {}, Counted' = Counted \ {w},
         UNCHANGED started, nthreads' = nthreads - 1
  PROVE  IsFiniteSet(started') /\ CountRight'
<1>1. Cardinality(Counted') = Cardinality(Counted) - 1
  BY OneUncounted, FS_RemoveElement
<1>2. Cardinality(Uncounted') = 0
  BY FS_EmptySet
<1>3. nthreads = Cardinality(Counted) /\ nthreads \in Nat
  BY OneUncounted DEF IInv, TypeOK
<1> QED
  BY <1>1, <1>2, <1>3 DEF CountRight, IInv, Counting

(* Every step keeps nthreads right, provided the pool is created with a thread. *)
LEMMA CountingStep == ASSUME nthreads0 > 0, IInv, Next PROVE Counting'
<1> USE ConstantsOK DEF IInv, TypeOK, External, Threads
<1> USE DEF At, Goto, Home, InPool, MayCall, pool, queue, threads, ghost, vars
<1> SUFFICES /\ IsFiniteSet(started') /\ CountRight'
             /\ (created /\ terminate = NULL => nthreads > 0)'
  BY DEF Counting
<1> DEFINE Goal == /\ IsFiniteSet(started') /\ CountRight'
                   /\ (created /\ terminate = NULL => nthreads > 0)'
<1> SUFFICES Goal
  OBVIOUS
<1> HIDE DEF Goal
<1>1. CASE Create
  <2>1. /\ pc' = [pc EXCEPT ![Main] = "create_test"] /\ UNCHANGED <<nthreads, started, detached>>
        /\ (created /\ terminate = NULL => nthreads > 0)'
        /\ "create_test" \in Adding <=> pc[Main] \in Adding
        /\ Main \in started \ detached => ("create_test" \in Gone <=> pc[Main] \in Gone)
    BY <1>1 DEF Create, Counting, Adding, Gone
  <2>2. Main \in Threads
    OBVIOUS
  <2> QED
    BY <2>1, <2>2, CountKept DEF Goal
<1>2. CASE CreateThread
  <2>1. /\ pc[Main] = "create_test" /\ UNCHANGED <<nthreads, detached>>
        /\ (created /\ terminate = NULL => nthreads > 0)'
    BY <1>2 DEF CreateThread, Counting
  <2>2. CASE UNCHANGED started /\ pc' = [pc EXCEPT ![Main] = "term_lock"]
    BY <2>1, <2>2, CountKept DEF Goal, Adding, Gone
  <2>3. ASSUME NEW v \in Workers \ started, started' = started \cup {v},
               pc' = [pc EXCEPT ![Main] = "create_count", ![v] = "loop"]
        PROVE  Goal
    <3>1. ~created /\ v # Main
      BY <2>1 DEF Creation, CreatePCs
    <3>2. Uncounted = {}
      BY <2>1, <3>1 DEF Uncounted, Creation, Places
    <3> QED
      BY <2>1, <2>3, <3>1, <3>2, CountSpawned DEF Goal, Adding, Gone
  <2> QED
    BY <1>2, <2>2, <2>3 DEF CreateThread, Spawn
<1>3. CASE CreateCount
  <2>1. /\ pc[Main] = "create_count" /\ pc' = [pc EXCEPT ![Main] = "create_test"]
        /\ nthreads' = nthreads + 1 /\ UNCHANGED <<started, detached>>
    BY <1>3 DEF CreateCount
  <2>2. IsFiniteSet(started') /\ CountRight'
    BY <2>1, CountAdded DEF Adding, Gone
  <2> QED
    BY <2>1, <2>2 DEF Goal
<1>4. CASE CreateDone
  <2>1. /\ pc' = [pc EXCEPT ![Main] = "idle"] /\ UNCHANGED <<nthreads, started, detached>>
        /\ (created /\ terminate = NULL => nthreads > 0)'
        /\ "idle" \in Adding <=> pc[Main] \in Adding
        /\ Main \in started \ detached => ("idle" \in Gone <=> pc[Main] \in Gone)
    BY <1>4 DEF CreateDone, Counting, Adding, Gone
  <2>2. Main \in Threads
    OBVIOUS
  <2> QED
    BY <2>1, <2>2, CountKept DEF Goal
<1>5. CASE CreateFail
  <2>1. /\ pc' = [pc EXCEPT ![Main] = "done"] /\ UNCHANGED <<nthreads, started, detached>>
        /\ (created /\ terminate = NULL => nthreads > 0)'
        /\ "done" \in Adding <=> pc[Main] \in Adding
        /\ Main \in started \ detached => ("done" \in Gone <=> pc[Main] \in Gone)
    BY <1>5 DEF CreateFail, Counting, Adding, Gone
  <2>2. Main \in Threads
    OBVIOUS
  <2> QED
    BY <2>1, <2>2, CountKept DEF Goal
<1>6. ASSUME NEW t \in Threads, NEW k \in Tasks, Schedule(t, k) PROVE Goal
  <2>1. /\ pc' = [pc EXCEPT ![t] = "put_signal"] /\ UNCHANGED <<nthreads, started, detached>>
        /\ (created /\ terminate = NULL => nthreads > 0)'
        /\ "put_signal" \in Adding <=> pc[t] \in Adding
        /\ t \in started \ detached => ("put_signal" \in Gone <=> pc[t] \in Gone)
    BY <1>6 DEF Schedule, Counting, Adding, Gone
  <2>2. t \in Threads
    OBVIOUS
  <2> QED
    BY <2>1, <2>2, CountKept DEF Goal
<1>7. ASSUME NEW t \in Threads, Increase(t) PROVE Goal
  <2>1. /\ pc' = [pc EXCEPT ![t] = "inc_lock"] /\ UNCHANGED <<nthreads, started, detached>>
        /\ (created /\ terminate = NULL => nthreads > 0)'
        /\ "inc_lock" \in Adding <=> pc[t] \in Adding
        /\ t \in started \ detached => ("inc_lock" \in Gone <=> pc[t] \in Gone)
    BY <1>7 DEF Increase, Counting, Adding, Gone
  <2>2. t \in Threads
    OBVIOUS
  <2> QED
    BY <2>1, <2>2, CountKept DEF Goal
<1>8. ASSUME NEW t \in Threads, Destroy(t) PROVE Goal
  <2>1. /\ pc' = [pc EXCEPT ![t] = "term_lock"] /\ UNCHANGED <<nthreads, started, detached>>
        /\ (created /\ terminate = NULL => nthreads > 0)'
        /\ "term_lock" \in Adding <=> pc[t] \in Adding
        /\ t \in started \ detached => ("term_lock" \in Gone <=> pc[t] \in Gone)
    BY <1>8 DEF Destroy, Counting, Adding, Gone
  <2>2. t \in Threads
    OBVIOUS
  <2> QED
    BY <2>1, <2>2, CountKept DEF Goal
<1>9. ASSUME NEW t \in Threads, IncreaseLock(t) PROVE Goal
  <2>1. /\ pc' = [pc EXCEPT ![t] = "inc_create"] /\ UNCHANGED <<nthreads, started, detached>>
        /\ (created /\ terminate = NULL => nthreads > 0)'
        /\ "inc_create" \in Adding <=> pc[t] \in Adding
        /\ t \in started \ detached => ("inc_create" \in Gone <=> pc[t] \in Gone)
    BY <1>9 DEF IncreaseLock, Counting, Adding, Gone
  <2>2. t \in Threads
    OBVIOUS
  <2> QED
    BY <2>1, <2>2, CountKept DEF Goal
<1>10. ASSUME NEW t \in Threads, TermLock(t) PROVE Goal
  <2>1. /\ pc' = [pc EXCEPT ![t] = "term_nonblock"] /\ UNCHANGED <<nthreads, started, detached>>
        /\ (created /\ terminate = NULL => nthreads > 0)'
        /\ "term_nonblock" \in Adding <=> pc[t] \in Adding
        /\ t \in started \ detached => ("term_nonblock" \in Gone <=> pc[t] \in Gone)
    BY <1>10 DEF TermLock, Counting, Adding, Gone
  <2>2. t \in Threads
    OBVIOUS
  <2> QED
    BY <2>1, <2>2, CountKept DEF Goal
<1>11. ASSUME NEW t \in Threads, TermWake(t) PROVE Goal
  <2>1. /\ pc' = [pc EXCEPT ![t] = "term_test"] /\ UNCHANGED <<nthreads, started, detached>>
        /\ (created /\ terminate = NULL => nthreads > 0)'
        /\ "term_test" \in Adding <=> pc[t] \in Adding
        /\ t \in started \ detached => ("term_test" \in Gone <=> pc[t] \in Gone)
    BY <1>11 DEF TermWake, Counting, Adding, Gone
  <2>2. t \in Threads
    OBVIOUS
  <2> QED
    BY <2>1, <2>2, CountKept DEF Goal
<1>12. ASSUME NEW w \in Workers, ExitLock(w) PROVE Goal
  <2>1. /\ pc[w] = "exit_lock" /\ mutex = NULL /\ pc' = [pc EXCEPT ![w] = "exit_unlock"]
        /\ nthreads' = nthreads - 1 /\ UNCHANGED <<started, detached, terminate>>
    BY <1>12 DEF ExitLock
  <2>2. terminate # NULL /\ Uncounted = {} /\ w \in Counted
    BY <2>1, LeaverCounted
  <2>3. Uncounted' = {}
    BY <2>1, <2>2 DEF Uncounted
  <2>4. Counted' = Counted \ {w}
    BY <2>1 DEF Counted
  <2> QED
    BY <2>1, <2>2, <2>3, <2>4, CountRemoved DEF Goal
<1>13. ASSUME NEW t \in Threads, ScheduleSignal(t) PROVE Goal
  <2>1. /\ pc' = [pc EXCEPT ![t] = Home(t)] /\ UNCHANGED <<nthreads, started, detached>>
        /\ (created /\ terminate = NULL => nthreads > 0)'
        /\ Home(t) \in Adding <=> pc[t] \in Adding
        /\ t \in started \ detached => (Home(t) \in Gone <=> pc[t] \in Gone)
    BY <1>13 DEF ScheduleSignal, Counting, Adding, Gone
  <2>2. t \in Threads
    OBVIOUS
  <2> QED
    BY <2>1, <2>2, CountKept DEF Goal
<1>14. ASSUME NEW t \in Threads, IncreaseCreate(t) PROVE Goal
  <2>1. /\ pc[t] = "inc_create" /\ UNCHANGED <<nthreads, detached>>
        /\ (created /\ terminate = NULL => nthreads > 0)'
    BY <1>14 DEF IncreaseCreate, Counting
  <2>2. CASE UNCHANGED started /\ pc' = [pc EXCEPT ![t] = "inc_unlock"]
    BY <2>1, <2>2, CountKept DEF Goal, Adding, Gone
  <2>3. ASSUME NEW v \in Workers \ started, started' = started \cup {v},
               pc' = [pc EXCEPT ![t] = "inc_count", ![v] = "loop"]
        PROVE  Goal
    <3>1. mutex = t /\ v # t
      BY <2>1 DEF Locks, HoldsMutex, Places
    <3>2. pc[Main] # "create_count"
      BY <2>1 DEF Creation, Places, CreatePCs, TermPCs
    <3>3. Uncounted = {}
      BY <2>1, <3>1, <3>2 DEF Uncounted, Locks, HoldsMutex, Places, InPCs, OutPCs, WorkPCs, IncPCs,
         TermPCs, CreatePCs
    <3> QED
      BY <2>1, <2>3, <3>1, <3>3, CountSpawned DEF Goal, Adding, Gone
  <2> QED
    BY <1>14, <2>2, <2>3 DEF IncreaseCreate, Spawn
<1>15. ASSUME NEW t \in Threads, IncreaseCount(t) PROVE Goal
  <2>1. /\ pc[t] = "inc_count" /\ pc' = [pc EXCEPT ![t] = "inc_unlock"]
        /\ nthreads' = nthreads + 1 /\ UNCHANGED <<started, detached>>
    BY <1>15 DEF IncreaseCount
  <2>2. IsFiniteSet(started') /\ CountRight'
    BY <2>1, CountAdded DEF Adding, Gone
  <2> QED
    BY <2>1, <2>2 DEF Goal
<1>16. ASSUME NEW t \in Threads, IncreaseUnlock(t) PROVE Goal
  <2>1. /\ pc' = [pc EXCEPT ![t] = Home(t)] /\ UNCHANGED <<nthreads, started, detached>>
        /\ (created /\ terminate = NULL => nthreads > 0)'
        /\ Home(t) \in Adding <=> pc[t] \in Adding
        /\ t \in started \ detached => (Home(t) \in Gone <=> pc[t] \in Gone)
    BY <1>16 DEF IncreaseUnlock, Counting, Adding, Gone
  <2>2. t \in Threads
    OBVIOUS
  <2> QED
    BY <2>1, <2>2, CountKept DEF Goal
<1>17. ASSUME NEW t \in Threads, TermNonblock(t) PROVE Goal
  <2>1. /\ pc' = [pc EXCEPT ![t] = "term_set"] /\ UNCHANGED <<nthreads, started, detached>>
        /\ (created /\ terminate = NULL => nthreads > 0)'
        /\ "term_set" \in Adding <=> pc[t] \in Adding
        /\ t \in started \ detached => ("term_set" \in Gone <=> pc[t] \in Gone)
    BY <1>17 DEF TermNonblock, Counting, Adding, Gone
  <2>2. t \in Threads
    OBVIOUS
  <2> QED
    BY <2>1, <2>2, CountKept DEF Goal
<1>18. ASSUME NEW t \in Threads, TermSet(t) PROVE Goal
  <2>1. pc[t] = "term_set" /\ pc' = [pc EXCEPT ![t] = "term_test"] /\ terminate' # NULL
    BY <1>18 DEF TermSet
  <2>2. CASE t \in Workers
    <3>1. UNCHANGED started /\ nthreads' = nthreads - 1 /\ detached' = detached \cup {t}
      BY <1>18, <2>2 DEF TermSet
    <3>2. Uncounted = {} /\ t \in Counted
      BY <2>1, <2>2, AnnouncerCounted
    <3>3. Uncounted' = {}
      BY <2>1, <3>2 DEF Uncounted
    <3>4. Counted' = Counted \ {t}
      BY <2>1, <3>1 DEF Counted
    <3> QED
      BY <2>1, <3>1, <3>2, <3>3, <3>4, CountRemoved DEF Goal
  <2>3. CASE t \notin Workers
    <3>1. UNCHANGED <<nthreads, started, detached>>
      BY <1>18, <2>3 DEF TermSet
    <3> QED
      BY <2>1, <2>3, <3>1, CountKept DEF Goal, Adding
  <2> QED
    BY <2>2, <2>3
<1>19. ASSUME NEW t \in Threads, TermTest(t) PROVE Goal
  <2>1. PICK l \in {"term_wait", "term_join"} :
          /\ pc' = [pc EXCEPT ![t] = l] /\ UNCHANGED <<nthreads, started, detached>>
          /\ (created /\ terminate = NULL => nthreads > 0)'
          /\ l \in Adding <=> pc[t] \in Adding
          /\ t \in started \ detached => (l \in Gone <=> pc[t] \in Gone)
    BY <1>19 DEF TermTest, Counting, Adding, Gone
  <2>2. t \in Threads
    OBVIOUS
  <2> QED
    BY <2>1, <2>2, CountKept DEF Goal
<1>20. ASSUME NEW t \in Threads, TermJoin(t) PROVE Goal
  <2>1. PICK l \in {"drain", "create_fail"} :
          /\ pc' = [pc EXCEPT ![t] = l] /\ UNCHANGED <<nthreads, started, detached>>
          /\ (created /\ terminate = NULL => nthreads > 0)'
          /\ l \in Adding <=> pc[t] \in Adding
          /\ t \in started \ detached => (l \in Gone <=> pc[t] \in Gone)
    BY <1>20 DEF TermJoin, Counting, Adding, Gone
  <2>2. t \in Threads
    OBVIOUS
  <2> QED
    BY <2>1, <2>2, CountKept DEF Goal
<1>21. ASSUME NEW t \in Threads, Drain(t) PROVE Goal
  <2>1. PICK l \in {"drain", "free"} :
          /\ pc' = [pc EXCEPT ![t] = l] /\ UNCHANGED <<nthreads, started, detached>>
          /\ (created /\ terminate = NULL => nthreads > 0)'
          /\ l \in Adding <=> pc[t] \in Adding
          /\ t \in started \ detached => (l \in Gone <=> pc[t] \in Gone)
    BY <1>21 DEF Drain, Counting, Adding, Gone
  <2>2. t \in Threads
    OBVIOUS
  <2> QED
    BY <2>1, <2>2, CountKept DEF Goal
<1>22. ASSUME NEW t \in Threads, Free(t) PROVE Goal
  <2>1. PICK l \in {"run", "done"} :
          /\ pc' = [pc EXCEPT ![t] = l] /\ UNCHANGED <<nthreads, started, detached>>
          /\ (created /\ terminate = NULL => nthreads > 0)'
          /\ l \in Adding <=> pc[t] \in Adding
          /\ t \in started \ detached => (l \in Gone <=> pc[t] \in Gone)
    BY <1>22 DEF Free, Counting, Adding, Gone
  <2>2. t \in Threads
    OBVIOUS
  <2> QED
    BY <2>1, <2>2, CountKept DEF Goal
<1>23. ASSUME NEW w \in Workers, WorkerLoop(w) PROVE Goal
  <2>1. PICK l \in {"get", "exit_lock"} :
          /\ pc' = [pc EXCEPT ![w] = l] /\ UNCHANGED <<nthreads, started, detached>>
          /\ (created /\ terminate = NULL => nthreads > 0)'
          /\ l \in Adding <=> pc[w] \in Adding
          /\ w \in started \ detached => (l \in Gone <=> pc[w] \in Gone)
    BY <1>23 DEF WorkerLoop, Counting, Adding, Gone
  <2>2. w \in Threads
    OBVIOUS
  <2> QED
    BY <2>1, <2>2, CountKept DEF Goal
<1>24. ASSUME NEW w \in Workers, WorkerGet(w) PROVE Goal
  <2>1. /\ pc' = [pc EXCEPT ![w] = "run"] /\ UNCHANGED <<nthreads, started, detached>>
        /\ (created /\ terminate = NULL => nthreads > 0)'
        /\ "run" \in Adding <=> pc[w] \in Adding
        /\ w \in started \ detached => ("run" \in Gone <=> pc[w] \in Gone)
    BY <1>24 DEF WorkerGet, Counting, Adding, Gone
  <2>2. w \in Threads
    OBVIOUS
  <2> QED
    BY <2>1, <2>2, CountKept DEF Goal
<1>25. ASSUME NEW w \in Workers, WorkerGetNull(w) PROVE Goal
  <2>1. /\ pc' = [pc EXCEPT ![w] = "exit_lock"] /\ UNCHANGED <<nthreads, started, detached>>
        /\ (created /\ terminate = NULL => nthreads > 0)'
        /\ "exit_lock" \in Adding <=> pc[w] \in Adding
        /\ w \in started \ detached => ("exit_lock" \in Gone <=> pc[w] \in Gone)
    BY <1>25 DEF WorkerGetNull, Counting, Adding, Gone
  <2>2. w \in Threads
    OBVIOUS
  <2> QED
    BY <2>1, <2>2, CountKept DEF Goal
<1>26. ASSUME NEW w \in Workers, TaskReturns(w) PROVE Goal
  <2>1. /\ pc' = [pc EXCEPT ![w] = "check"] /\ UNCHANGED <<nthreads, started, detached>>
        /\ (created /\ terminate = NULL => nthreads > 0)'
        /\ "check" \in Adding <=> pc[w] \in Adding
        /\ w \in started \ detached => ("check" \in Gone <=> pc[w] \in Gone)
    BY <1>26 DEF TaskReturns, Counting, Adding, Gone
  <2>2. w \in Threads
    OBVIOUS
  <2> QED
    BY <2>1, <2>2, CountKept DEF Goal
<1>27. ASSUME NEW w \in Workers, WorkerCheck(w) PROVE Goal
  <2>1. PICK l \in {"ended", "loop"} :
          /\ pc[w] = "check" /\ pc' = [pc EXCEPT ![w] = l]
          /\ nthreads = 0 <=> l = "ended"
          /\ UNCHANGED <<nthreads, started, detached>>
          /\ (created /\ terminate = NULL => nthreads > 0)'
    BY <1>27 DEF WorkerCheck, Counting
  <2>2. nthreads = 0 <=> destroyer = w
    BY <2>1, CheckAnswers DEF CheckTellsDestroyer
  <2>3. w \in started \ detached => l = "loop"
    BY <2>1, <2>2 DEF Ending, Announced, Back
  <2>4. l \in Adding <=> pc[w] \in Adding
    BY <2>1 DEF Adding
  <2>5. w \in started \ detached => (l \in Gone <=> pc[w] \in Gone)
    BY <2>1, <2>3 DEF Gone
  <2>6. w \in Threads
    OBVIOUS
  <2> QED
    BY <2>1, <2>4, <2>5, <2>6, CountKept DEF Goal
<1>28. ASSUME NEW w \in Workers, ExitUnlock(w) PROVE Goal
  <2>1. PICK l \in {"ended", "exit_join"} :
          /\ pc' = [pc EXCEPT ![w] = l] /\ UNCHANGED <<nthreads, started, detached>>
          /\ (created /\ terminate = NULL => nthreads > 0)'
          /\ l \in Adding <=> pc[w] \in Adding
          /\ w \in started \ detached => (l \in Gone <=> pc[w] \in Gone)
    BY <1>28 DEF ExitUnlock, Counting, Adding, Gone
  <2>2. w \in Threads
    OBVIOUS
  <2> QED
    BY <2>1, <2>2, CountKept DEF Goal
<1>29. ASSUME NEW w \in Workers, ExitJoin(w) PROVE Goal
  <2>1. /\ pc' = [pc EXCEPT ![w] = "ended"] /\ UNCHANGED <<nthreads, started, detached>>
        /\ (created /\ terminate = NULL => nthreads > 0)'
        /\ "ended" \in Adding <=> pc[w] \in Adding
        /\ w \in started \ detached => ("ended" \in Gone <=> pc[w] \in Gone)
    BY <1>29 DEF ExitJoin, Counting, Adding, Gone
  <2>2. w \in Threads
    OBVIOUS
  <2> QED
    BY <2>1, <2>2, CountKept DEF Goal
<1>30. ASSUME NEW t \in Threads, SpuriousWake(t) PROVE Goal
  BY <1>30 DEF SpuriousWake, Goal, Counting, CountRight, Counted, Uncounted
<1>31. CASE Finished
  BY <1>31 DEF Finished, Goal, Counting, CountRight, Counted, Uncounted
<1> QED
  BY <1>1, <1>2, <1>3, <1>4, <1>5, <1>6, <1>7, <1>8, <1>9, <1>10, <1>11, <1>12, <1>13,
     <1>14, <1>15, <1>16, <1>17, <1>18, <1>19, <1>20, <1>21, <1>22, <1>23, <1>24,
     <1>25, <1>26, <1>27, <1>28, <1>29, <1>30, <1>31
     DEF Next, CreatePool, Call, Acquire, Run, Terminate, Worker, InPool

(* A step that moves no thread that has left, makes none leave and joins none keeps
   the chain of threads that have left.                                      *)
LEMMA ChainKept ==
  ASSUME IInv, TypeOK', UNCHANGED <<tid, prev, joins>>,
         destroyer' = destroyer \/ (destroyer = NULL /\ pc'[destroyer'] # pc[destroyer']),
         \A u \in Threads : \/ pc'[u] = pc[u]
                            \/ /\ u \notin Left /\ u \notin Left'
                               /\ JoinedLast(u) <=> JoinedLast(u)'
  PROVE  Chain' /\ Joining'
<1> USE ConstantsOK DEF IInv, TypeOK, Threads
<1>1. \A w \in Workers : w \in Left <=> w \in Left'
  BY DEF Left
<1>2. Left' = Left
  BY <1>1 DEF Left
<1>3. \A u \in Threads : JoinedLast(u) <=> JoinedLast(u)'
  BY DEF JoinedLast
<1>4. Chain'
  BY <1>2, ZenonT(40) DEF Chain
<1>5. \A w \in Left : pc'[w] = pc[w]
  BY DEF Left
<1>6. \A w \in Workers : pc'[w] = "exit_join" => w \in Left
  BY <1>1 DEF Left
<1>7. Joining'
  BY <1>2, <1>3, <1>5, <1>6 DEF Joining
<1> QED
  BY <1>4, <1>7

(* A leaving thread becomes the last of the chain, and joins the last before it. *)
LEMMA ChainGrows ==
  ASSUME IInv, TypeOK', NEW w \in Workers, ExitLock(w) PROVE Chain' /\ Joining'
<1> USE ConstantsOK DEF IInv, TypeOK, Threads
<1>1. /\ pc[w] = "exit_lock" /\ pc' = [pc EXCEPT ![w] = "exit_unlock"]
      /\ prev' = [prev EXCEPT ![w] = tid] /\ tid' = w /\ UNCHANGED <<joins, destroyer>>
  BY DEF ExitLock, At, Goto, threads, ghost
<1>2. w \notin Left /\ w # NULL
  BY <1>1 DEF Left
<1>3. Left' = Left \cup {w}
  BY <1>1 DEF Left
<1>4. Left \subseteq Workers
  BY DEF Left
<1>5. prev'[w] = tid /\ \A u \in Left : prev'[u] = prev[u]
  BY <1>1, <1>2, <1>4
<1>6. \A u \in Left : pc'[u] = pc[u]
  BY <1>1, <1>2, <1>4
<1> HIDE DEF Left
<1>7. Chain'
  <2>1. (tid \in Left \cup {NULL})'
    BY <1>1, <1>3
  <2>2. (\A u \in Left : prev[u] \in Left \cup {NULL} /\ prev[u] # u /\ prev[u] # tid)'
    BY <1>1, <1>2, <1>3, <1>5 DEF Chain
  <2>3. (\A u, v \in Left : u # v => prev[u] # prev[v])'
    BY <1>1, <1>2, <1>3, <1>5 DEF Chain
  <2>4. ASSUME NEW v \in Left', v # w PROVE \E u \in Left' : prev'[u] = v
    <3>1. CASE v = tid
      BY <1>3, <1>5, <3>1
    <3>2. CASE v # tid
      <4>1. PICK u \in Left : prev[u] = v
        BY <1>3, <2>4, <3>2 DEF Chain
      <4> QED
        BY <1>3, <1>5, <4>1
    <3> QED
      BY <3>1, <3>2
  <2>5. ASSUME NEW S \in SUBSET Left', S # {}, w \notin S
        PROVE  \E x \in S : \A u \in Left' : prev'[u] = x => u \notin S
    <3>1. CASE tid \in S
      <4>1. \A u \in Left' : prev'[u] = tid => u \notin S
        BY <1>3, <1>5, <2>5 DEF Chain
      <4> QED
        BY <3>1, <4>1
    <3>2. CASE tid \notin S
      <4>1. S \in SUBSET Left
        BY <1>3, <2>5
      <4>2. PICK x \in S : \A u \in Left : prev[u] = x => u \notin S
        BY <2>5, <3>2, <4>1 DEF Chain
      <4>3. \A u \in Left' : prev'[u] = x => u \notin S
        BY <1>3, <1>5, <2>5, <4>2
      <4> QED
        BY <4>3
    <3> QED
      BY <3>1, <3>2
  <2> QED
    BY <1>1, <2>1, <2>2, <2>3, <2>4, <2>5 DEF Chain
<1>8. \A u \in Threads : ~SawAll(u)
  <2> SUFFICES ASSUME NEW u \in Threads, SawAll(u) PROVE FALSE
    OBVIOUS
  <2>1. w # u
    BY <1>1 DEF SawAll, Back
  <2>2. pc[w] \in {"idle", "none", "exit_join", "ended"}
    BY <2>1, NobodyElse
  <2> QED
    BY <1>1, <2>2
<1>9. \A u \in Threads : ~JoinedLast(u) /\ ~JoinedLast(u)'
  BY <1>1, <1>8 DEF JoinedLast, SawAll, Back
<1>10. Joining'
  <2>1. joins[w] = 0 /\ (tid # NULL => joins[tid] = 0)
    BY <1>2, <1>9 DEF Joining, Chain
  <2>2. /\ (\A v \in Workers : joins[v] \in {0, 1})'
        /\ (\A v \in Workers \ Left : joins[v] = 0)'
        /\ (\A v \in Workers : pc[v] = "exit_join" => prev[v] # NULL)'
    BY <1>1, <1>3 DEF Joining
  <2>3. (\A v \in Left : joins[v] = 1 => pc[v] = "ended")'
    BY <1>1, <1>3, <1>6, <2>1 DEF Joining
  <2>4. (\A v \in Left : prev[v] # NULL => (joins[prev[v]] = 1 <=> pc[v] = "ended"))'
    BY <1>1, <1>3, <1>5, <1>6, <2>1 DEF Joining
  <2>5. (tid # NULL => (joins[tid] = 1 <=> \E t \in Threads : JoinedLast(t)))'
    BY <1>1, <1>9, <2>1
  <2> QED
    BY <2>2, <2>3, <2>4, <2>5 DEF Joining
<1> QED
  BY <1>7, <1>10

(* A thread that has left joins the one before it, if there is one. *)
LEMMA ChainJoins ==
  ASSUME IInv, TypeOK', NEW w \in Workers, ExitUnlock(w) \/ ExitJoin(w)
  PROVE  Chain' /\ Joining'
<1> USE ConstantsOK DEF IInv, TypeOK, Threads
<1>1. PICK l \in {"ended", "exit_join"} :
        /\ pc[w] \in {"exit_unlock", "exit_join"} /\ pc' = [pc EXCEPT ![w] = l]
        /\ UNCHANGED <<tid, prev, destroyer>>
        /\ l = "exit_join" => prev[w] # NULL /\ joins' = joins
        /\ l = "ended" => IF prev[w] = NULL THEN joins' = joins
                          ELSE /\ joins' = [joins EXCEPT ![prev[w]] = joins[prev[w]] + 1]
                               /\ pc[prev[w]] = "ended"
  BY DEF ExitUnlock, ExitJoin, Join, At, Goto, threads, ghost, pool, Joining
<1>2. destroyer # w /\ w \in Left
  BY <1>1 DEF Ending, Back, TermPCs, Left
<1>3. Left' = Left
  BY <1>1, <1>2 DEF Left
<1>4. Chain'
  BY <1>1, <1>3, ZenonT(40) DEF Chain
<1>5. \A u \in Threads : JoinedLast(u) <=> JoinedLast(u)'
  BY <1>1, <1>2 DEF JoinedLast
<1>6. Left \subseteq Workers
  BY DEF Left
<1> HIDE DEF Left
<1>7. joins[w] = 0
  BY <1>1, <1>2 DEF Joining
<1>8. CASE l = "exit_join"
  <2>1. (\A v \in Workers : joins[v] \in {0, 1})'
    BY <1>1, <1>2, <1>3, <1>5, <1>6, <1>7, <1>8 DEF Joining
  <2>2. (\A v \in Workers \ Left : joins[v] = 0)'
    BY <1>1, <1>2, <1>3, <1>5, <1>6, <1>7, <1>8 DEF Joining
  <2>3. (\A v \in Left : joins[v] = 1 => pc[v] = "ended")'
    BY <1>1, <1>2, <1>3, <1>5, <1>6, <1>7, <1>8 DEF Joining
  <2>4. (\A v \in Left : prev[v] # NULL => (joins[prev[v]] = 1 <=> pc[v] = "ended"))'
    BY <1>1, <1>2, <1>3, <1>5, <1>6, <1>7, <1>8 DEF Joining
  <2>5. (tid # NULL => (joins[tid] = 1 <=> \E u \in Threads : JoinedLast(u)))'
    BY <1>1, <1>2, <1>3, <1>5, <1>6, <1>7, <1>8 DEF Joining
  <2>6. (\A v \in Workers : pc[v] = "exit_join" => prev[v] # NULL)'
    BY <1>1, <1>2, <1>3, <1>5, <1>6, <1>7, <1>8 DEF Joining
  <2> HIDE DEF IInv, TypeOK, Threads
  <2> QED
    BY <1>4, <2>1, <2>2, <2>3, <2>4, <2>5, <2>6 DEF Joining
<1>9. CASE l = "ended" /\ prev[w] = NULL
  <2>1. (\A v \in Workers : joins[v] \in {0, 1})'
    BY <1>1, <1>2, <1>3, <1>5, <1>6, <1>7, <1>9 DEF Joining
  <2>2. (\A v \in Workers \ Left : joins[v] = 0)'
    BY <1>1, <1>2, <1>3, <1>5, <1>6, <1>7, <1>9 DEF Joining
  <2>3. (\A v \in Left : joins[v] = 1 => pc[v] = "ended")'
    BY <1>1, <1>2, <1>3, <1>5, <1>6, <1>7, <1>9 DEF Joining
  <2>4. (\A v \in Left : prev[v] # NULL => (joins[prev[v]] = 1 <=> pc[v] = "ended"))'
    BY <1>1, <1>2, <1>3, <1>5, <1>6, <1>7, <1>9 DEF Joining
  <2>5. (tid # NULL => (joins[tid] = 1 <=> \E u \in Threads : JoinedLast(u)))'
    BY <1>1, <1>2, <1>3, <1>5, <1>6, <1>7, <1>9 DEF Joining
  <2>6. (\A v \in Workers : pc[v] = "exit_join" => prev[v] # NULL)'
    BY <1>1, <1>2, <1>3, <1>5, <1>6, <1>7, <1>9 DEF Joining
  <2> HIDE DEF IInv, TypeOK, Threads
  <2> QED
    BY <1>4, <2>1, <2>2, <2>3, <2>4, <2>5, <2>6 DEF Joining
<1>10. CASE l = "ended" /\ prev[w] # NULL
  <2> DEFINE p == prev[w]
  <2>1. p \in Left /\ p \in Workers /\ p # w /\ p # tid /\ joins[p] = 0 /\ pc[p] = "ended"
    BY <1>1, <1>2, <1>6, <1>10 DEF Chain, Joining
  <2>2. joins'[p] = 1 /\ \A v \in Workers : v # p => joins'[v] = joins[v]
    BY <1>1, <1>10, <2>1
  <2>3. pc'[w] = "ended" /\ \A v \in Threads : v # w => pc'[v] = pc[v]
    BY <1>1, <1>10
  <2>4. \A v \in Left : v # w => prev[v] # p
    BY <1>2 DEF Chain
  <2> HIDE DEF p
  <2>5. /\ (\A v \in Workers : joins[v] \in {0, 1})'
        /\ (\A v \in Workers \ Left : joins[v] = 0)'
    BY <1>3, <2>1, <2>2 DEF Joining
  <2>6. (\A v \in Left : joins[v] = 1 => pc[v] = "ended")'
    BY <1>3, <1>6, <2>1, <2>2, <2>3, ZenonT(40) DEF Joining
  <2>7. ASSUME NEW v \in Left, prev[v] # NULL PROVE joins'[prev[v]] = 1 <=> pc'[v] = "ended"
    <3>1. CASE v = w
      BY <2>2, <2>3, <3>1 DEF p
    <3>2. CASE v # w
      BY <1>6, <2>2, <2>3, <2>4, <2>7, <3>2, SMTT(30) DEF Joining, Chain
    <3> QED
      BY <3>1, <3>2
  <2>8. (tid # NULL => (joins[tid] = 1 <=> \E t \in Threads : JoinedLast(t)))'
    BY <1>1, <1>5, <2>1, <2>2 DEF Joining
  <2>9. (\A v \in Workers : pc[v] = "exit_join" => prev[v] # NULL)'
    BY <1>1, <2>3 DEF Joining
  <2>10. (\A v \in Left : prev[v] # NULL => (joins[prev[v]] = 1 <=> pc[v] = "ended"))'
    BY <1>1, <1>3, <2>7
  <2> HIDE DEF IInv, TypeOK, Threads
  <2> QED
    BY <1>4, <2>5, <2>6, <2>8, <2>9, <2>10 DEF Joining
<1> QED
  BY <1>4, <1>8, <1>9, <1>10

(* Who terminates the pool joins the last thread that left. *)
LEMMA LastJoined ==
  ASSUME IInv, TypeOK', NEW t \in Threads, TermJoin(t) PROVE Chain' /\ Joining'
<1> USE ConstantsOK DEF IInv, TypeOK, Threads
<1>1. PICK l \in {"drain", "create_fail"} :
        /\ pc[t] = "term_join" /\ pc' = [pc EXCEPT ![t] = l]
        /\ UNCHANGED <<tid, prev, destroyer>>
        /\ tid = NULL => joins' = joins
        /\ tid # NULL => pc[tid] = "ended" /\ joins' = [joins EXCEPT ![tid] = joins[tid] + 1]
  BY DEF TermJoin, Join, At, Goto, threads, ghost, pool
<1>2. t \notin Left /\ t \notin Left'
  BY <1>1 DEF Left
<1>3. Left' = Left
  BY <1>1, <1>2 DEF Left
<1>4. Chain'
  BY <1>1, <1>3, ZenonT(40) DEF Chain
<1>5. \A u \in Threads : ~JoinedLast(u)
  <2> SUFFICES ASSUME NEW u \in Threads, JoinedLast(u) PROVE FALSE
    OBVIOUS
  <2>1. SawAll(u) /\ u # t
    BY <1>1 DEF SawAll, JoinedLast, Back
  <2>2. pc[t] \in {"idle", "none", "exit_join", "ended"}
    BY <2>1, NobodyElse
  <2> QED
    BY <1>1, <2>2
<1>6. JoinedLast(t)'
  BY <1>1 DEF JoinedLast
<1>7. Left \subseteq Workers /\ \A v \in Left : pc'[v] = pc[v]
  BY <1>1, <1>2 DEF Left
<1>8. \A v \in Workers : pc'[v] = "exit_join" => pc[v] = "exit_join"
  BY <1>1
<1> HIDE DEF Left
<1>9. CASE tid = NULL
  <2>1. (\A v \in Workers : joins[v] \in {0, 1})'
    BY <1>1, <1>3, <1>7, <1>8, <1>9 DEF Joining
  <2>2. (\A v \in Workers \ Left : joins[v] = 0)'
    BY <1>1, <1>3, <1>7, <1>8, <1>9 DEF Joining
  <2>3. (\A v \in Left : joins[v] = 1 => pc[v] = "ended")'
    BY <1>1, <1>3, <1>7, <1>8, <1>9 DEF Joining
  <2>4. (\A v \in Left : prev[v] # NULL => (joins[prev[v]] = 1 <=> pc[v] = "ended"))'
    BY <1>1, <1>3, <1>7, <1>8, <1>9 DEF Joining
  <2>5. (tid # NULL => (joins[tid] = 1 <=> \E u \in Threads : JoinedLast(u)))'
    BY <1>1, <1>3, <1>7, <1>8, <1>9 DEF Joining
  <2>6. (\A v \in Workers : pc[v] = "exit_join" => prev[v] # NULL)'
    BY <1>1, <1>3, <1>7, <1>8, <1>9 DEF Joining
  <2> HIDE DEF IInv, TypeOK, Threads
  <2> QED
    BY <1>4, <2>1, <2>2, <2>3, <2>4, <2>5, <2>6 DEF Joining
<1>10. CASE tid # NULL
  <2>1. tid \in Workers /\ tid \in Left /\ joins[tid] = 0
    BY <1>5, <1>10 DEF Joining, Chain
  <2>2. joins'[tid] = 1 /\ \A v \in Workers : v # tid => joins'[v] = joins[v]
    BY <1>1, <1>10, <2>1
  <2>3. /\ (\A v \in Workers : joins[v] \in {0, 1})'
        /\ (\A v \in Workers \ Left : joins[v] = 0)'
    <3>1. ASSUME NEW v \in Workers PROVE joins'[v] \in {0, 1}
      BY <2>2 DEF Joining
    <3>2. ASSUME NEW v \in Workers, v \notin Left PROVE joins'[v] = 0
      BY <2>1, <2>2, <3>2 DEF Joining
    <3> HIDE DEF IInv, TypeOK, Threads
    <3> QED
      BY <1>3, <3>1, <3>2
  <2>4. (\A v \in Left : joins[v] = 1 => pc[v] = "ended")'
    BY <1>1, <1>3, <1>7, <1>10, <2>1, <2>2 DEF Joining
  <2>5. (\A v \in Left : prev[v] # NULL => (joins[prev[v]] = 1 <=> pc[v] = "ended"))'
    BY <1>1, <1>3, <1>7, <2>2 DEF Joining, Chain
  <2>6. (tid # NULL => (joins[tid] = 1 <=> \E u \in Threads : JoinedLast(u)))'
    BY <1>1, <1>6, <2>2
  <2>7. (\A v \in Workers : pc[v] = "exit_join" => prev[v] # NULL)'
    BY <1>1, <1>8 DEF Joining
  <2> HIDE DEF IInv, TypeOK, Threads
  <2> QED
    BY <1>4, <2>3, <2>4, <2>5, <2>6, <2>7 DEF Joining
<1> QED
  BY <1>4, <1>9, <1>10

(* Every step keeps the chain of threads that left, and who joined whom. *)
LEMMA ChainStep == ASSUME IInv, Next, TypeOK' PROVE Chain' /\ Joining'
<1> DEFINE Goal == Chain' /\ Joining'
           Idle == /\ UNCHANGED <<tid, prev, joins>>
                   /\ \/ destroyer' = destroyer
                      \/ destroyer = NULL /\ pc'[destroyer'] # pc[destroyer']
                   /\ \A u \in Threads :
                        \/ pc'[u] = pc[u]
                        \/ /\ u \notin Left /\ u \notin Left'
                           /\ JoinedLast(u) <=> JoinedLast(u)'
<1> HIDE DEF Goal, Idle
<1> USE ConstantsOK DEF IInv, TypeOK, Places, Ending, Left, JoinedLast, Back, TermPCs,
      External, Threads
<1> USE DEF At, Goto, Home, InPool, MayCall, pool, queue, threads, ghost, vars
<1>0. IInv /\ TypeOK'
  OBVIOUS
<1> SUFFICES Goal
  BY DEF Goal
<1>1. CASE Create
  <2>1. Idle
    BY <1>1 DEF Create, Idle
  <2> QED
    BY <1>0, <2>1, ChainKept DEF Idle, Goal
<1>2. CASE CreateThread
  <2>1. Idle
    BY <1>2 DEF CreateThread, Spawn, Idle
  <2> QED
    BY <1>0, <2>1, ChainKept DEF Idle, Goal
<1>3. CASE CreateCount
  <2>1. Idle
    BY <1>3 DEF CreateCount, Idle
  <2> QED
    BY <1>0, <2>1, ChainKept DEF Idle, Goal
<1>4. CASE CreateDone
  <2>1. Idle
    BY <1>4 DEF CreateDone, Idle
  <2> QED
    BY <1>0, <2>1, ChainKept DEF Idle, Goal
<1>5. CASE CreateFail
  <2>1. Idle
    BY <1>5 DEF CreateFail, Idle
  <2> QED
    BY <1>0, <2>1, ChainKept DEF Idle, Goal
<1>6. ASSUME NEW t \in Threads, NEW k \in Tasks, Schedule(t, k) PROVE Goal
  <2>1. Idle
    BY <1>6 DEF Schedule, Idle
  <2> QED
    BY <1>0, <2>1, ChainKept DEF Idle, Goal
<1>7. ASSUME NEW t \in Threads, Increase(t) PROVE Goal
  <2>1. Idle
    BY <1>7 DEF Increase, Idle
  <2> QED
    BY <1>0, <2>1, ChainKept DEF Idle, Goal
<1>8. ASSUME NEW t \in Threads, Destroy(t) PROVE Goal
  <2>1. Idle
    BY <1>8 DEF Destroy, Idle
  <2> QED
    BY <1>0, <2>1, ChainKept DEF Idle, Goal
<1>9. ASSUME NEW t \in Threads, IncreaseLock(t) PROVE Goal
  <2>1. Idle
    BY <1>9 DEF IncreaseLock, Idle
  <2> QED
    BY <1>0, <2>1, ChainKept DEF Idle, Goal
<1>10. ASSUME NEW t \in Threads, TermLock(t) PROVE Goal
  <2>1. Idle
    BY <1>10 DEF TermLock, Idle
  <2> QED
    BY <1>0, <2>1, ChainKept DEF Idle, Goal
<1>11. ASSUME NEW t \in Threads, TermWake(t) PROVE Goal
  <2>1. Idle
    BY <1>11 DEF TermWake, Idle
  <2> QED
    BY <1>0, <2>1, ChainKept DEF Idle, Goal
<1>12. ASSUME NEW w \in Workers, ExitLock(w) PROVE Goal
  BY <1>12, <1>0, ChainGrows DEF Goal
<1>13. ASSUME NEW t \in Threads, ScheduleSignal(t) PROVE Goal
  <2>1. Idle
    BY <1>13 DEF ScheduleSignal, Idle
  <2> QED
    BY <1>0, <2>1, ChainKept DEF Idle, Goal
<1>14. ASSUME NEW t \in Threads, IncreaseCreate(t) PROVE Goal
  <2>1. Idle
    BY <1>14 DEF IncreaseCreate, Spawn, Idle
  <2> QED
    BY <1>0, <2>1, ChainKept DEF Idle, Goal
<1>15. ASSUME NEW t \in Threads, IncreaseCount(t) PROVE Goal
  <2>1. Idle
    BY <1>15 DEF IncreaseCount, Idle
  <2> QED
    BY <1>0, <2>1, ChainKept DEF Idle, Goal
<1>16. ASSUME NEW t \in Threads, IncreaseUnlock(t) PROVE Goal
  <2>1. Idle
    BY <1>16 DEF IncreaseUnlock, Idle
  <2> QED
    BY <1>0, <2>1, ChainKept DEF Idle, Goal
<1>17. ASSUME NEW t \in Threads, TermNonblock(t) PROVE Goal
  <2>1. Idle
    BY <1>17 DEF TermNonblock, Idle
  <2> QED
    BY <1>0, <2>1, ChainKept DEF Idle, Goal
<1>18. ASSUME NEW t \in Threads, TermSet(t) PROVE Goal
  <2>1. Idle
    BY <1>18 DEF TermSet, Idle
  <2> QED
    BY <1>0, <2>1, ChainKept DEF Idle, Goal
<1>19. ASSUME NEW t \in Threads, TermTest(t) PROVE Goal
  <2>1. Idle
    BY <1>19 DEF TermTest, Idle
  <2> QED
    BY <1>0, <2>1, ChainKept DEF Idle, Goal
<1>20. ASSUME NEW t \in Threads, TermJoin(t) PROVE Goal
  BY <1>20, <1>0, LastJoined DEF Goal
<1>21. ASSUME NEW t \in Threads, Drain(t) PROVE Goal
  <2>1. Idle
    BY <1>21 DEF Drain, Idle
  <2> QED
    BY <1>0, <2>1, ChainKept DEF Idle, Goal
<1>22. ASSUME NEW t \in Threads, Free(t) PROVE Goal
  <2>1. Idle
    BY <1>22 DEF Free, Idle
  <2> QED
    BY <1>0, <2>1, ChainKept DEF Idle, Goal
<1>23. ASSUME NEW w \in Workers, WorkerLoop(w) PROVE Goal
  <2>1. Idle
    BY <1>23 DEF WorkerLoop, Idle
  <2> QED
    BY <1>0, <2>1, ChainKept DEF Idle, Goal
<1>24. ASSUME NEW w \in Workers, WorkerGet(w) PROVE Goal
  <2>1. Idle
    BY <1>24 DEF WorkerGet, Idle
  <2> QED
    BY <1>0, <2>1, ChainKept DEF Idle, Goal
<1>25. ASSUME NEW w \in Workers, WorkerGetNull(w) PROVE Goal
  <2>1. Idle
    BY <1>25 DEF WorkerGetNull, Idle
  <2> QED
    BY <1>0, <2>1, ChainKept DEF Idle, Goal
<1>26. ASSUME NEW w \in Workers, TaskReturns(w) PROVE Goal
  <2>1. Idle
    BY <1>26 DEF TaskReturns, Idle
  <2> QED
    BY <1>0, <2>1, ChainKept DEF Idle, Goal
<1>27. ASSUME NEW w \in Workers, WorkerCheck(w) PROVE Goal
  <2>1. Idle
    <3>1. PICK l \in {"ended", "loop"} :
            /\ pc[w] = "check" /\ pc' = [pc EXCEPT ![w] = l]
            /\ nthreads = 0 <=> l = "ended"
            /\ UNCHANGED <<tid, prev, joins, destroyer>>
      BY <1>27 DEF WorkerCheck
    <3>2. nthreads = 0 <=> destroyer = w
      BY <3>1, CheckAnswers DEF CheckTellsDestroyer
    <3> QED
      BY <3>1, <3>2 DEF Idle
  <2> QED
    BY <1>0, <2>1, ChainKept DEF Idle, Goal
<1>28. ASSUME NEW w \in Workers, ExitUnlock(w) PROVE Goal
  BY <1>28, <1>0, ChainJoins DEF Goal
<1>29. ASSUME NEW w \in Workers, ExitJoin(w) PROVE Goal
  BY <1>29, <1>0, ChainJoins DEF Goal
<1>30. ASSUME NEW t \in Threads, SpuriousWake(t) PROVE Goal
  <2>1. Idle
    BY <1>30 DEF SpuriousWake, Idle
  <2> QED
    BY <1>0, <2>1, ChainKept DEF Idle, Goal
<1>31. CASE Finished
  <2>1. Idle
    BY <1>31 DEF Finished, Idle
  <2> QED
    BY <1>0, <2>1, ChainKept DEF Idle, Goal
<1> QED
  BY <1>1, <1>2, <1>3, <1>4, <1>5, <1>6, <1>7, <1>8, <1>9, <1>10, <1>11, <1>12, <1>13,
     <1>14, <1>15, <1>16, <1>17, <1>18, <1>19, <1>20, <1>21, <1>22, <1>23, <1>24,
     <1>25, <1>26, <1>27, <1>28, <1>29, <1>30, <1>31
     DEF Next, CreatePool, Call, Acquire, Run, Terminate, Worker, InPool

(* Who frees the queue, or has, has seen it empty. *)
Emptied(t) == pc[t] = "free" \/ Released(t)

(* Who frees the queue has seen that all threads left. *)
LEMMA EmptiedAlone == ASSUME NEW t \in Threads, Emptied(t) PROVE SawAll(t)
  BY DEF Emptied, Released, SawAll

(* Taking the task at the head of the queue, to run it or to hand it to pending(). *)
LEMMA WorkTaken ==
  ASSUME IInv, q # <<>>, q' = Tail(q), UNCHANGED scheduled,
         \/ runs' = [runs EXCEPT ![Head(q)] = @ + 1] /\ UNCHANGED pended
         \/ pended' = [pended EXCEPT ![Head(q)] = @ + 1] /\ UNCHANGED runs,
         \A t \in Threads : Emptied(t)' => Emptied(t)
  PROVE  Work'
<1> USE DEF IInv, TypeOK
<1> DEFINE h == Head(q)
<1>1. /\ Len(q) \in Nat \ {0} /\ h = q[1] /\ h \in Tasks /\ 1 \in 1..Len(q)
      /\ Len(q') = Len(q) - 1
      /\ \A i \in 1..Len(q') : q'[i] = q[i + 1] /\ i + 1 \in 1..Len(q)
  OBVIOUS
<1>2. /\ runs'[h] + pended'[h] = 1 /\ h \in scheduled
      /\ \A k \in Tasks : k # h => runs'[k] = runs[k] /\ pended'[k] = pended[k]
      /\ \A k \in Tasks : runs[k] \in Nat /\ pended[k] \in Nat
  <2>1. h \in scheduled /\ runs[h] = 0 /\ pended[h] = 0
    BY <1>1 DEF Work
  <2> QED
    BY <1>1, <2>1
<1> HIDE DEF h
<1>3. ASSUME NEW i \in 1..Len(q')
      PROVE  /\ q'[i] # h /\ q'[i] = q[i + 1] /\ i + 1 \in 1..Len(q)
             /\ q[i + 1] \in Tasks
  <2>1. i + 1 # 1
    BY <1>1
  <2> QED
    BY <1>1, <2>1 DEF Work
<1>4. (\A i, j \in 1..Len(q) : q[i] = q[j] => i = j)'
  <2> SUFFICES ASSUME NEW i \in 1..Len(q'), NEW j \in 1..Len(q'), q'[i] = q'[j]
               PROVE  i = j
    OBVIOUS
  <2>1. i + 1 = j + 1
    BY <1>3 DEF Work
  <2> QED
    BY <1>1, <2>1
<1>5. (\A i \in 1..Len(q) : q[i] \in scheduled /\ runs[q[i]] = 0 /\ pended[q[i]] = 0)'
  <2> SUFFICES ASSUME NEW i \in 1..Len(q')
               PROVE  q'[i] \in scheduled' /\ runs'[q'[i]] = 0 /\ pended'[q'[i]] = 0
    OBVIOUS
  <2>1. q[i + 1] \in scheduled /\ runs[q[i + 1]] = 0 /\ pended[q[i + 1]] = 0
    BY <1>3 DEF Work
  <2> QED
    BY <1>2, <1>3, <2>1, SMTT(30)
<1>6. (\A k \in Tasks : runs[k] + pended[k] <= 1)'
  <2> SUFFICES ASSUME NEW k \in Tasks PROVE runs'[k] + pended'[k] <= 1
    OBVIOUS
  <2>1. CASE k = h
    BY <1>2, <2>1
  <2>2. CASE k # h
    BY <1>2, <2>2 DEF Work
  <2> QED
    BY <2>1, <2>2
<1>7. (\A k \in Tasks : runs[k] + pended[k] = 1 => k \in scheduled)'
  BY <1>2 DEF Work
<1>8. ASSUME NEW k \in scheduled, runs'[k] + pended'[k] = 0
      PROVE  \E i \in 1..Len(q') : q'[i] = k
  <2>1. k \in Tasks /\ k # h
    BY <1>2, <1>8
  <2>2. PICK j \in 1..Len(q) : q[j] = k
    BY <1>2, <1>8, <2>1 DEF Work
  <2>3. j # 1
    BY <1>1, <2>1, <2>2
  <2>4. j - 1 \in 1..Len(q') /\ (j - 1) + 1 = j
    BY <1>1, <2>2, <2>3
  <2>5. q'[j - 1] = k
    BY <1>3, <2>2, <2>4
  <2> QED
    BY <2>4, <2>5
<1>9. \A t \in Threads : ~Emptied(t)'
  BY DEF Work, Emptied
<1>10. ((\E t \in Threads : pc[t] = "free" \/ Released(t)) => q = <<>>)'
  BY <1>9 DEF Emptied
<1> HIDE DEF IInv, TypeOK
<1> QED
  BY <1>4, <1>5, <1>6, <1>7, <1>8, <1>10 DEF Work

(* A step that touches no task and frees nothing keeps the account of the tasks. *)
LEMMA WorkKept ==
  ASSUME IInv, UNCHANGED <<q, scheduled, runs, pended>>,
         \A t \in Threads : Emptied(t)' => Emptied(t) \/ q = <<>>
  PROVE  Work'
<1>1. ((\E t \in Threads : pc[t] = "free" \/ Released(t)) => q = <<>>)'
  BY DEF IInv, Work, Emptied
<1> QED
  BY <1>1 DEF IInv, Work

(* A task scheduled once is once in the queue. *)
LEMMA WorkPut ==
  ASSUME IInv, NEW t \in Threads, NEW k \in Tasks, Schedule(t, k) PROVE Work'
<1> USE ConstantsOK DEF IInv, TypeOK
<1>1. /\ MayCall(t) /\ k \notin scheduled /\ scheduled' = scheduled \cup {k}
      /\ q' = Append(q, k) /\ UNCHANGED <<runs, pended, destroyer>>
      /\ pc' = [pc EXCEPT ![t] = "put_signal"]
  BY DEF Schedule, Goto
<1>2. /\ Len(q) \in Nat /\ Len(q') = Len(q) + 1 /\ q'[Len(q')] = k
      /\ \A i \in 1..Len(q) : i \in 1..Len(q') /\ q'[i] = q[i]
      /\ \A i \in 1..Len(q') : i \in 1..Len(q) \/ i = Len(q')
  BY <1>1
<1>3. runs[k] = 0 /\ pended[k] = 0
  BY <1>1 DEF Work
<1>4. \A i \in 1..Len(q) : q[i] # k
  BY <1>1, SMTT(30) DEF Work
<1>5. (\A i, j \in 1..Len(q) : q[i] = q[j] => i = j)'
  <2> SUFFICES ASSUME NEW i \in 1..Len(q'), NEW j \in 1..Len(q'), q'[i] = q'[j]
               PROVE  i = j
    OBVIOUS
  <2>1. CASE i \in 1..Len(q) /\ j \in 1..Len(q)
    BY <1>2, <2>1 DEF Work
  <2>2. CASE i = Len(q') \/ j = Len(q')
    BY <1>2, <1>4, <2>2
  <2> QED
    BY <1>2, <2>1, <2>2
<1>6. (\A i \in 1..Len(q) : q[i] \in scheduled /\ runs[q[i]] = 0 /\ pended[q[i]] = 0)'
  <2> SUFFICES ASSUME NEW i \in 1..Len(q')
               PROVE  q'[i] \in scheduled' /\ runs'[q'[i]] = 0 /\ pended'[q'[i]] = 0
    OBVIOUS
  <2>1. CASE i \in 1..Len(q)
    <3>1. q'[i] = q[i]
      BY <1>2, <2>1
    <3>2. q[i] \in scheduled /\ runs[q[i]] = 0 /\ pended[q[i]] = 0
      BY <2>1 DEF Work
    <3> QED
      BY <1>1, <3>1, <3>2
  <2>2. CASE i = Len(q')
    BY <1>1, <1>2, <1>3, <2>2
  <2> QED
    BY <1>2, <2>1, <2>2
<1>7. (\A j \in Tasks : runs[j] + pended[j] <= 1)'
  BY <1>1 DEF Work
<1>8. (\A j \in Tasks : runs[j] + pended[j] = 1 => j \in scheduled)'
  BY <1>1 DEF Work
<1>9. ASSUME NEW j \in scheduled', runs'[j] + pended'[j] = 0
      PROVE  \E i \in 1..Len(q') : q'[i] = j
  <2>1. CASE j = k
    <3>1. Len(q') \in 1..Len(q')
      BY <1>2
    <3> QED
      BY <1>2, <2>1, <3>1
  <2>2. CASE j # k
    <3>1. PICK i \in 1..Len(q) : q[i] = j
      BY <1>1, <1>9, <2>2 DEF Work
    <3> QED
      BY <1>2, <3>1
  <2> QED
    BY <2>1, <2>2
<1>10. \A u \in Threads : ~Emptied(u)
  <2> SUFFICES ASSUME NEW u \in Threads, Emptied(u) PROVE FALSE
    OBVIOUS
  <2>1. SawAll(u)
    BY EmptiedAlone
  <2>2. CASE t = u
    BY <1>1, <2>2 DEF Emptied, Released, MayCall, At, Home, InPool, Back
  <2>3. CASE t # u /\ t \in Workers
    <3>1. pc[t] \in {"idle", "none", "exit_join", "ended"}
      BY <2>1, <2>3, NobodyElse
    <3> QED
      BY <1>1, <2>3, <3>1 DEF MayCall, At, Home, InPool
  <2>4. CASE t # u /\ t \notin Workers
    <3>1. created /\ destroyer = NULL
      BY <1>1, <2>4 DEF MayCall, InPool
    <3> QED
      BY <3>1 DEF Emptied, Released, Ending, TermPCs, Threads
  <2> QED
    BY <2>2, <2>3, <2>4
<1>11. ((\E u \in Threads : pc[u] = "free" \/ Released(u)) => q = <<>>)'
  BY <1>1, <1>10 DEF Emptied, Released, Back
<1> HIDE DEF IInv, TypeOK
<1> QED
  BY <1>5, <1>6, <1>7, <1>8, <1>9, <1>11 DEF Work

(* Every step keeps the account of the tasks. *)
LEMMA WorkStep == ASSUME IInv, Next PROVE Work'
<1> DEFINE Goal == Work'
           Idle == /\ UNCHANGED <<q, scheduled, runs, pended>>
                   /\ \A t \in Threads : Emptied(t)' => Emptied(t) \/ q = <<>>
<1> HIDE DEF Goal, Idle
<1> USE ConstantsOK DEF IInv, TypeOK, Places, Ending, Emptied, Released, Back, TermPCs, External,
      Threads
<1> USE DEF At, Goto, Home, InPool, MayCall, pool, queue, threads, ghost, vars
<1>0. IInv
  OBVIOUS
<1> SUFFICES Goal
  BY DEF Goal
<1>1. CASE Create
  <2>1. Idle
    BY <1>1 DEF Create, Idle
  <2> QED
    BY <1>0, <2>1, WorkKept DEF Idle, Goal
<1>2. CASE CreateThread
  <2>1. Idle
    BY <1>2 DEF CreateThread, Spawn, Idle
  <2> QED
    BY <1>0, <2>1, WorkKept DEF Idle, Goal
<1>3. CASE CreateCount
  <2>1. Idle
    BY <1>3 DEF CreateCount, Idle
  <2> QED
    BY <1>0, <2>1, WorkKept DEF Idle, Goal
<1>4. CASE CreateDone
  <2>1. Idle
    BY <1>4 DEF CreateDone, Idle
  <2> QED
    BY <1>0, <2>1, WorkKept DEF Idle, Goal
<1>5. CASE CreateFail
  <2>1. pc[Main] = "create_fail" /\ ~created /\ scheduled = {}
    BY <1>5 DEF CreateFail, Creation, CreatePCs
  <2>2. \A i \in 1..Len(q) : FALSE
    BY <2>1 DEF Work
  <2>3. q = <<>>
    BY <2>2
  <2>4. Idle
    BY <1>5, <2>3 DEF CreateFail, Idle
  <2> QED
    BY <1>0, <2>4, WorkKept DEF Idle, Goal
<1>6. ASSUME NEW t \in Threads, NEW k \in Tasks, Schedule(t, k) PROVE Goal
  BY <1>6, <1>0, WorkPut DEF Goal
<1>7. ASSUME NEW t \in Threads, Increase(t) PROVE Goal
  <2>1. Idle
    BY <1>7 DEF Increase, Idle
  <2> QED
    BY <1>0, <2>1, WorkKept DEF Idle, Goal
<1>8. ASSUME NEW t \in Threads, Destroy(t) PROVE Goal
  <2>1. Idle
    BY <1>8 DEF Destroy, Idle
  <2> QED
    BY <1>0, <2>1, WorkKept DEF Idle, Goal
<1>9. ASSUME NEW t \in Threads, IncreaseLock(t) PROVE Goal
  <2>1. Idle
    BY <1>9 DEF IncreaseLock, Idle
  <2> QED
    BY <1>0, <2>1, WorkKept DEF Idle, Goal
<1>10. ASSUME NEW t \in Threads, TermLock(t) PROVE Goal
  <2>1. Idle
    BY <1>10 DEF TermLock, Idle
  <2> QED
    BY <1>0, <2>1, WorkKept DEF Idle, Goal
<1>11. ASSUME NEW t \in Threads, TermWake(t) PROVE Goal
  <2>1. Idle
    BY <1>11 DEF TermWake, Idle
  <2> QED
    BY <1>0, <2>1, WorkKept DEF Idle, Goal
<1>12. ASSUME NEW w \in Workers, ExitLock(w) PROVE Goal
  <2>1. Idle
    BY <1>12 DEF ExitLock, Idle
  <2> QED
    BY <1>0, <2>1, WorkKept DEF Idle, Goal
<1>13. ASSUME NEW t \in Threads, ScheduleSignal(t) PROVE Goal
  <2>1. Idle
    BY <1>13 DEF ScheduleSignal, Idle
  <2> QED
    BY <1>0, <2>1, WorkKept DEF Idle, Goal
<1>14. ASSUME NEW t \in Threads, IncreaseCreate(t) PROVE Goal
  <2>1. Idle
    BY <1>14 DEF IncreaseCreate, Spawn, Idle
  <2> QED
    BY <1>0, <2>1, WorkKept DEF Idle, Goal
<1>15. ASSUME NEW t \in Threads, IncreaseCount(t) PROVE Goal
  <2>1. Idle
    BY <1>15 DEF IncreaseCount, Idle
  <2> QED
    BY <1>0, <2>1, WorkKept DEF Idle, Goal
<1>16. ASSUME NEW t \in Threads, IncreaseUnlock(t) PROVE Goal
  <2>1. Idle
    BY <1>16 DEF IncreaseUnlock, Idle
  <2> QED
    BY <1>0, <2>1, WorkKept DEF Idle, Goal
<1>17. ASSUME NEW t \in Threads, TermNonblock(t) PROVE Goal
  <2>1. Idle
    BY <1>17 DEF TermNonblock, Idle
  <2> QED
    BY <1>0, <2>1, WorkKept DEF Idle, Goal
<1>18. ASSUME NEW t \in Threads, TermSet(t) PROVE Goal
  <2>1. Idle
    BY <1>18 DEF TermSet, Idle
  <2> QED
    BY <1>0, <2>1, WorkKept DEF Idle, Goal
<1>19. ASSUME NEW t \in Threads, TermTest(t) PROVE Goal
  <2>1. Idle
    BY <1>19 DEF TermTest, Idle
  <2> QED
    BY <1>0, <2>1, WorkKept DEF Idle, Goal
<1>20. ASSUME NEW t \in Threads, TermJoin(t) PROVE Goal
  <2>1. Idle
    BY <1>20 DEF TermJoin, Idle
  <2> QED
    BY <1>0, <2>1, WorkKept DEF Idle, Goal
<1>21. ASSUME NEW t \in Threads, Drain(t) PROVE Goal
  <2>1. CASE q # <<>>
    <3>1. /\ q' = Tail(q) /\ UNCHANGED <<scheduled, runs>>
          /\ pended' = [pended EXCEPT ![Head(q)] = @ + 1]
      BY <1>21, <2>1 DEF Drain
    <3>2. \A u \in Threads : Emptied(u)' => Emptied(u)
      BY <1>21, <2>1 DEF Drain
    <3> QED
      BY <1>0, <2>1, <3>1, <3>2, WorkTaken DEF Goal
  <2>2. CASE q = <<>>
    <3>1. Idle
      BY <1>21, <2>2 DEF Drain, Idle
    <3> QED
      BY <1>0, <3>1, WorkKept DEF Idle, Goal
  <2> QED
    BY <2>1, <2>2
<1>22. ASSUME NEW t \in Threads, Free(t) PROVE Goal
  <2>1. Idle
    BY <1>22 DEF Free, Idle
  <2> QED
    BY <1>0, <2>1, WorkKept DEF Idle, Goal
<1>23. ASSUME NEW w \in Workers, WorkerLoop(w) PROVE Goal
  <2>1. Idle
    BY <1>23 DEF WorkerLoop, Idle
  <2> QED
    BY <1>0, <2>1, WorkKept DEF Idle, Goal
<1>24. ASSUME NEW w \in Workers, WorkerGet(w) PROVE Goal
  <2>1. /\ q # <<>> /\ q' = Tail(q) /\ UNCHANGED <<scheduled, pended>>
        /\ runs' = [runs EXCEPT ![Head(q)] = @ + 1]
    BY <1>24 DEF WorkerGet
  <2>2. \A t \in Threads : Emptied(t)' => Emptied(t)
    BY <1>24 DEF WorkerGet
  <2> QED
    BY <1>0, <2>1, <2>2, WorkTaken DEF Goal
<1>25. ASSUME NEW w \in Workers, WorkerGetNull(w) PROVE Goal
  <2>1. Idle
    BY <1>25 DEF WorkerGetNull, Idle
  <2> QED
    BY <1>0, <2>1, WorkKept DEF Idle, Goal
<1>26. ASSUME NEW w \in Workers, TaskReturns(w) PROVE Goal
  <2>1. Idle
    BY <1>26 DEF TaskReturns, Idle
  <2> QED
    BY <1>0, <2>1, WorkKept DEF Idle, Goal
<1>27. ASSUME NEW w \in Workers, WorkerCheck(w) PROVE Goal
  <2>1. Idle
    <3>1. PICK l \in {"ended", "loop"} :
            /\ pc[w] = "check" /\ pc' = [pc EXCEPT ![w] = l]
            /\ UNCHANGED <<q, scheduled, runs, pended, destroyer>>
      BY <1>27 DEF WorkerCheck
    <3> QED
      BY <3>1 DEF Idle
  <2> QED
    BY <1>0, <2>1, WorkKept DEF Idle, Goal
<1>28. ASSUME NEW w \in Workers, ExitUnlock(w) PROVE Goal
  <2>1. Idle
    BY <1>28 DEF ExitUnlock, Idle
  <2> QED
    BY <1>0, <2>1, WorkKept DEF Idle, Goal
<1>29. ASSUME NEW w \in Workers, ExitJoin(w) PROVE Goal
  <2>1. Idle
    BY <1>29 DEF ExitJoin, Idle
  <2> QED
    BY <1>0, <2>1, WorkKept DEF Idle, Goal
<1>30. ASSUME NEW t \in Threads, SpuriousWake(t) PROVE Goal
  <2>1. Idle
    BY <1>30 DEF SpuriousWake, Idle
  <2> QED
    BY <1>0, <2>1, WorkKept DEF Idle, Goal
<1>31. CASE Finished
  <2>1. Idle
    BY <1>31 DEF Finished, Idle
  <2> QED
    BY <1>0, <2>1, WorkKept DEF Idle, Goal
<1> QED
  BY <1>1, <1>2, <1>3, <1>4, <1>5, <1>6, <1>7, <1>8, <1>9, <1>10, <1>11, <1>12, <1>13,
     <1>14, <1>15, <1>16, <1>17, <1>18, <1>19, <1>20, <1>21, <1>22, <1>23, <1>24,
     <1>25, <1>26, <1>27, <1>28, <1>29, <1>30, <1>31
     DEF Next, CreatePool, Call, Acquire, Run, Terminate, Worker, InPool

(* The invariant holds before thrdpool_create is called. *)
LEMMA InitIInv == ASSUME Init PROVE IInv
<1> USE ConstantsOK DEF Init, Threads, External
<1>1. TypeOK
  <2>1. pc \in [Threads -> PCs]
    BY DEF PCs, CreatePCs, WorkPCs
  <2>2. /\ joins \in [Workers -> Nat] /\ runs \in [Tasks -> Nat] /\ pended \in [Tasks -> Nat]
        /\ task \in [Workers -> Tasks \cup {NULL}] /\ prev \in [Workers -> Workers \cup {NULL}]
    OBVIOUS
  <2>3. alive \in SUBSET {"pool", "mutex", "queue"} /\ asleep \in SUBSET Threads /\ q \in Seq(Tasks)
    OBVIOUS
  <2>4. started \in SUBSET Workers /\ detached \in SUBSET Workers /\ scheduled \in SUBSET Tasks
    OBVIOUS
  <2>5. nonblock \in BOOLEAN /\ created \in BOOLEAN /\ nthreads \in Nat
    OBVIOUS
  <2>6. tid = NULL /\ mutex = NULL /\ terminate = NULL /\ destroyer = NULL
    OBVIOUS
  <2> HIDE DEF Init, Threads
  <2> QED
    BY <2>1, <2>2, <2>3, <2>4, <2>5, <2>6 DEF TypeOK
<1>2. Places
  BY DEF Places, OutPCs, InPCs, CreatePCs, WorkPCs
<1>3. Locks
  BY DEF Locks, HoldsMutex
<1>4. Creation
  BY DEF Creation, CreatePCs
<1>5. Ending
  BY DEF Ending, TermPCs, Announced, After, Back
<1>6. Alone
  BY DEF Alone, SawAll, Back
<1>7. Allocated
  BY DEF Allocated
<1>8. Counting
  <2>1. Uncounted = {} /\ Counted = {} /\ started = {}
    BY DEF Uncounted, Counted
  <2> QED
    BY <2>1, FS_EmptySet DEF Counting, CountRight
<1>9. Left = {}
  BY DEF Left
<1>10. Chain
  BY <1>9 DEF Chain
<1>11. Joining
  BY <1>9 DEF Joining
<1>12. Work
  <2>1. Len(q) = 0 /\ \A k \in Tasks : runs[k] = 0 /\ pended[k] = 0
    OBVIOUS
  <2> QED
    BY <2>1 DEF Work
<1> QED
  BY <1>1, <1>2, <1>3, <1>4, <1>5, <1>6, <1>7, <1>8, <1>10, <1>11, <1>12 DEF IInv

(* The invariant depends on the variables alone. *)
LEMMA StutterIInv == ASSUME IInv, UNCHANGED vars PROVE IInv'
<1> USE DEF IInv, vars, pool, queue, threads, ghost
<1>1. TypeOK' /\ Places' /\ Locks' /\ Creation'
  BY DEF TypeOK, Places, Locks, Creation
<1>2. Ending' /\ Alone' /\ Allocated'
  BY DEF Ending, Announced, Alone, SawAll, Allocated, Released
<1>3. Counting'
  BY DEF Counting, CountRight, Counted, Uncounted
<1>4. Chain' /\ Joining' /\ Work'
  BY DEF Chain, Joining, Left, JoinedLast, Work, Released
<1> QED
  BY <1>1, <1>2, <1>3, <1>4

(* The inductive invariant holds in every state of a pool that is created with at
   least one thread and used as thrdpool.h allows.                           *)
THEOREM Invariance == ASSUME Quiet, nthreads0 > 0 PROVE Spec => []IInv
<1>1. IInv /\ [Next]_vars => IInv'
  <2>1. ASSUME IInv, Next PROVE IInv'
    BY <2>1, PlacesStep, CreationStep, EndingStep, TypeStep, AloneStep, AllocatedStep,
       CountingStep, ChainStep, WorkStep DEF IInv
  <2> QED
    BY <2>1, StutterIInv
<1> QED
  BY <1>1, InitIInv, PTL DEF Spec

(* A thread that has released the pool has seen all leave and has joined the last. *)
LEMMA FreedLate ==
  ASSUME IInv, alive # {"pool", "mutex", "queue"}
  PROVE  \/ pc[Main] = "create" /\ started = {} /\ ~created
         \/ \E u \in Threads : Released(u) /\ SawAll(u) /\ JoinedLast(u)
<1>1. CASE pc[Main] = "create"
  BY <1>1 DEF IInv, Creation, CreatePCs
<1>2. ASSUME NEW u \in Threads, Released(u) PROVE SawAll(u) /\ JoinedLast(u)
  BY <1>2 DEF Released, SawAll, JoinedLast
<1> QED
  BY <1>1, <1>2 DEF IInv, Allocated

(* What a thread is about to touch is allocated. *)
LEMMA UsesAllocated == ASSUME IInv PROVE NoUseAfterFree
<1> USE ConstantsOK DEF IInv
<1> SUFFICES ASSUME NEW t \in Threads PROVE Uses(t) \subseteq alive
  BY DEF NoUseAfterFree
<1>1. CASE alive = {"pool", "mutex", "queue"}
  BY <1>1 DEF Uses
<1>2. ASSUME pc[t] \in {"create", "idle", "none", "exit_join", "ended", "done", "run"}
      PROVE  Uses(t) \subseteq alive
  <2>1. Uses(t) = {}
    BY <1>2 DEF Uses, CreatePCs, TermPCs, IncPCs
  <2> QED
    BY <2>1
<1>3. CASE pc[Main] = "create" /\ started = {} /\ ~created
  BY <1>2, <1>3 DEF Creation, Places, Threads, External
<1>4. ASSUME NEW u \in Threads, Released(u), SawAll(u) PROVE Uses(t) \subseteq alive
  <2>1. CASE t # u
    BY <1>2, <1>4, <2>1, NobodyElse
  <2>2. CASE t = u /\ pc[t] # "check"
    BY <1>2, <1>4, <2>2 DEF Released, Back
  <2>3. CASE t = u /\ pc[t] = "check"
    <3>1. Uses(t) = {"pool"}
      BY <2>3 DEF Uses, CreatePCs, TermPCs, IncPCs
    <3>2. destroyer = t /\ t \in Workers
      BY <1>4, <2>3 DEF Released, Places, OutPCs, CreatePCs, TermPCs, IncPCs, Threads
    <3> QED
      BY <2>3, <3>1, <3>2 DEF Allocated
  <2> QED
    BY <2>1, <2>2, <2>3
<1> QED
  BY <1>1, <1>3, <1>4, FreedLate

(* Who announced the end waits for as long as a thread is about to leave. *)
LEMMA LastSignals == ASSUME IInv PROVE SignalSafe
<1> USE ConstantsOK DEF IInv, Threads
<1> SUFFICES ASSUME NEW w \in Workers, pc[w] = "exit_lock", mutex = NULL
             PROVE  terminate # NULL /\ pc[terminate] = "term_wait"
  BY DEF SignalSafe
<1>1. terminate # NULL /\ terminate # w /\ terminate \in Threads
  BY LeaverCounted DEF TypeOK
<1>2. Announced(terminate) /\ pc[terminate] # "term_test"
  BY <1>1 DEF Ending, Locks, HoldsMutex
<1>3. ~SawAll(terminate)
  <2> SUFFICES ASSUME SawAll(terminate) PROVE FALSE
    OBVIOUS
  <2>1. pc[w] \in {"idle", "none", "exit_join", "ended"}
    BY <1>1, NobodyElse
  <2> QED
    BY <2>1
<1> QED
  BY <1>1, <1>2, <1>3 DEF Announced, SawAll, After

(* A thread that destroyed the pool from its task is no part of the chain. *)
LEMMA DetachedApart ==
  ASSUME IInv, NEW w \in detached PROVE w \in Workers \ Left /\ w = destroyer
<1> USE ConstantsOK DEF IInv, Threads
<1>1. w \in Workers /\ Announced(w)
  BY DEF TypeOK, Ending
<1>2. pc[w] \in After => w = destroyer
  BY <1>1 DEF Ending, After, TermPCs, External, Places, InPCs, IncPCs, WorkPCs
<1> QED
  BY <1>1, <1>2 DEF Announced, After, Back, Left

(* Once the last is joined, all that left are: each was joined by the one that left
   after it.                                                                 *)
LEMMA AllJoined ==
  ASSUME IInv, NEW u \in Threads, JoinedLast(u) PROVE \A w \in Left : joins[w] = 1
<1> USE ConstantsOK DEF IInv
<1> DEFINE S == {v \in Left : joins[v] = 0}
<1>1. Left \subseteq Workers
  BY DEF Left
<1>2. \A v \in Left : joins[v] \in {0, 1}
  BY <1>1 DEF Joining
<1>3. tid \notin S
  <2> SUFFICES ASSUME tid \in Left PROVE joins[tid] = 1
    OBVIOUS
  <2>1. tid # NULL
    BY <1>1 DEF Threads
  <2> QED
    BY <2>1 DEF Joining
<1>4. S = {}
  <2> SUFFICES ASSUME S # {} PROVE FALSE
    OBVIOUS
  <2>1. PICK x \in S : \A v \in Left : prev[v] = x => v \notin S
    BY <1>3 DEF Chain
  <2>2. x \in Left /\ x # tid /\ joins[x] = 0
    BY <1>3
  <2>3. PICK v \in Left : prev[v] = x
    BY <2>2 DEF Chain
  <2>4. joins[v] = 1
    BY <1>2, <2>1, <2>3
  <2>5. pc[v] = "ended" /\ x # NULL
    BY <1>1, <2>2, <2>4, ConstantsOK DEF Joining, Threads
  <2> QED
    BY <2>2, <2>3, <2>5 DEF Joining
<1> QED
  BY <1>2, <1>4

(* The chain of joins is complete when the mutex is destroyed. *)
LEMMA ChainJoined == ASSUME IInv PROVE JoinChain
<1> USE ConstantsOK DEF IInv
<1>1. ASSUME NEW w \in Workers PROVE joins[w] <= IF w \in detached THEN 0 ELSE 1
  <2>1. w \in detached => joins[w] = 0
    BY DetachedApart DEF Joining
  <2> QED
    BY <2>1 DEF Joining
<1>2. ASSUME NEW w \in Workers, pc[w] = "exit_join" PROVE prev[w] \notin {w} \cup detached
  <2>1. w \in Left
    BY <1>2 DEF Left
  <2>2. prev[w] # w /\ prev[w] \in Left /\ prev[w] # NULL
    BY <1>2, <2>1 DEF Chain, Joining
  <2> QED
    BY <2>2, DetachedApart
<1>3. ASSUME "mutex" \notin alive, NEW w \in started PROVE w \in detached <=> joins[w] = 0
  <2>1. PICK u \in Threads : Released(u) /\ SawAll(u) /\ JoinedLast(u)
    BY <1>3, FreedLate
  <2>2. w \in Workers
    BY DEF TypeOK
  <2>3. CASE w = destroyer
    <3>1. u = w
      BY <2>1, <2>2, <2>3, NobodyElse DEF Threads
    <3>2. w \in detached
      BY <2>1, <2>2, <2>3, <3>1 DEF Released, Ending, Announced, After, Threads
    <3>3. joins[w] = 0
      BY <3>2, DetachedApart DEF Joining
    <3> QED
      BY <3>2, <3>3
  <2>4. CASE w # destroyer
    <3>1. pc[w] \in {"exit_join", "ended"}
      BY <2>1, <2>4 DEF Alone
    <3>2. w \in Left
      BY <2>2, <2>4, <3>1 DEF Left
    <3>3. joins[w] = 1 /\ w \notin detached
      BY <2>1, <3>2, AllJoined, DetachedApart
    <3> QED
      BY <3>3
  <2> QED
    BY <2>3, <2>4
<1> QED
  BY <1>1, <1>2, <1>3 DEF JoinChain

(* The tasks are accounted for, and a released queue is empty. *)
LEMMA Conserved == ASSUME IInv PROVE TasksConserved
<1> USE DEF IInv, TypeOK
<1>1. ASSUME NEW k \in Tasks
      PROVE  Queued(k) + runs[k] + pended[k] = IF k \in scheduled THEN 1 ELSE 0
  <2> DEFINE Q == {i \in 1..Len(q) : q[i] = k}
  <2>1. runs[k] \in Nat /\ pended[k] \in Nat
    OBVIOUS
  <2>2. ASSUME Q = {} PROVE Queued(k) = 0
    BY <2>2, FS_EmptySet DEF Queued
  <2>3. CASE k \notin scheduled
    <3>1. Q = {}
      BY <2>3, SMTT(30) DEF Work
    <3>2. runs[k] + pended[k] = 0
      BY <2>1, <2>3 DEF Work
    <3> QED
      BY <2>1, <2>2, <2>3, <3>1, <3>2
  <2>4. CASE k \in scheduled /\ runs[k] + pended[k] = 1
    <3>1. Q = {}
      BY <2>4 DEF Work
    <3> QED
      BY <2>1, <2>2, <2>4, <3>1
  <2>5. CASE k \in scheduled /\ runs[k] + pended[k] = 0
    <3>1. PICK i \in 1..Len(q) : q[i] = k
      BY <2>5 DEF Work
    <3>2. Q = {i}
      BY <3>1, ZenonT(40) DEF Work
    <3>3. Queued(k) = 1
      BY <3>2, FS_Singleton DEF Queued
    <3> QED
      BY <2>1, <2>5, <3>3
  <2>6. runs[k] + pended[k] \in {0, 1}
    BY <2>1 DEF Work
  <2> QED
    BY <2>3, <2>4, <2>5, <2>6
<1>2. ASSUME "queue" \notin alive PROVE q = <<>>
  <2>1. CASE ~created
    <3>1. \A i \in 1..Len(q) : FALSE
      BY <2>1 DEF Work, Creation
    <3> QED
      BY <3>1
  <2>2. CASE created
    BY <1>2, <2>2, FreedLate DEF Work
  <2> QED
    BY <2>1, <2>2
<1> QED
  BY <1>1, <1>2 DEF TasksConserved

(* No thread touches the pool, its mutex or its queue once they are released: not a
   worker between its signal and its unlock, nor a call of thrdpool_schedule
   about to signal.                                                          *)
THEOREM MemorySafe == ASSUME Quiet, nthreads0 > 0 PROVE Spec => []NoUseAfterFree
<1>1. IInv => NoUseAfterFree
  BY UsesAllocated
<1> QED
  BY <1>1, Invariance, PTL

(* The last worker to leave signals a condition variable in the frame of a thread
   that is waiting on it.                                                    *)
THEOREM SignalReachesWaiter == ASSUME Quiet, nthreads0 > 0 PROVE Spec => []SignalSafe
<1>1. IInv => SignalSafe
  BY LastSignals
<1> QED
  BY <1>1, Invariance, PTL

(* No thread is joined twice, or joined and detached, none waits for itself, and all
   but the one whose task destroyed the pool are joined when it is released. *)
THEOREM EveryThreadJoined == ASSUME Quiet, nthreads0 > 0 PROVE Spec => []JoinChain
<1>1. IInv => JoinChain
  BY ChainJoined
<1> QED
  BY <1>1, Invariance, PTL

(* A scheduled task is queued, or was run once, or was handed to pending() once, and
   none is left in a queue that is released.                                 *)
THEOREM NoTaskLost == ASSUME Quiet, nthreads0 > 0 PROVE Spec => []TasksConserved
<1>1. IInv => TasksConserved
  BY Conserved
<1> QED
  BY <1>1, Invariance, PTL

(* nthreads counts the threads that have not left, but for the one just created. *)
THEOREM CountExact == ASSUME Quiet, nthreads0 > 0 PROVE Spec => []CountRight
<1>1. IInv => CountRight
  BY DEF IInv, Counting
<1> QED
  BY <1>1, Invariance, PTL

(* A worker back from a task finds no thread counted exactly if that task destroyed
   the pool.                                                                 *)
THEOREM CheckExact == ASSUME Quiet, nthreads0 > 0 PROVE Spec => []CheckTellsDestroyer
<1>1. IInv => CheckTellsDestroyer
  BY CheckAnswers
<1> QED
  BY <1>1, Invariance, PTL
=============================================================================
