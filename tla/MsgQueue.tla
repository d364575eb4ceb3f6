------------------------------- MODULE MsgQueue -------------------------------
(***************************************************************************)
(* thrdpool/msgqueue.c: a blocking message queue made of two lists.        *)
(* Producers append to the put list under put_mutex; consumers take from   *)
(* the get list under get_mutex, and when it is empty swap the two lists,  *)
(* which needs both mutexes.                                               *)
(*                                                                         *)
(* A step is one access of shared state that another thread can observe:   *)
(* taking or releasing a mutex, testing a wait condition, going to sleep,  *)
(* changing the lists, signalling.  nonblock is written without a mutex    *)
(* and read under put_mutex, so testing it and acting on the test are      *)
(* different steps.                                                        *)
(*                                                                         *)
(* The intrusive links are abstracted to sequences: list["head1"] is the   *)
(* chain of messages that starts at queue->head1.  get_head, put_head and  *)
(* put_tail name the chain they point into; put_tail always addresses the  *)
(* last link of its chain, which appending a message relies on and         *)
(* ListShape makes precise.                                                *)
(***************************************************************************)
EXTENDS Naturals, Sequences, FiniteSets

CONSTANTS Producers,  (* threads that call msgqueue_put                   *)
          Consumers,  (* threads that call msgqueue_get                   *)
          Closers,    (* threads that call msgqueue_set_nonblock          *)
          Openers,    (* threads that call msgqueue_set_block             *)
          Msg,        (* the messages                                     *)
          NULL,       (* the null pointer                                 *)
          NoThread,   (* the owner of a mutex that is free                *)
          maxlen,     (* the argument of msgqueue_create                  *)
          SIZE_MAX,   (* the largest size_t                               *)
          Spurious    (* TRUE: pthread_cond_wait may return unsignalled   *)

Threads == Producers \cup Consumers \cup Closers \cup Openers

ASSUME ConstantsOK ==
  /\ NULL \notin Msg
  /\ NoThread \notin Threads
  /\ SIZE_MAX \in Nat
  /\ maxlen \in 0..SIZE_MAX
  /\ Spurious \in BOOLEAN

VARIABLES
  list,       (* the chain behind head1 and behind head2                   *)
  get_head,   (* which of the two consumers take from                      *)
  put_head,   (* which of the two producers append to                      *)
  put_tail,   (* the chain whose last link put_tail addresses              *)
  msg_cnt,    (* messages appended since the last swap                     *)
  nonblock,   (* the mode                                                  *)
  get_mutex,  (* its owner                                                 *)
  put_mutex,  (* its owner                                                 *)
  get_cond,   (* threads asleep on get_cond                                *)
  put_cond,   (* threads asleep on put_cond                                *)
  pc,         (* where each thread is                                      *)
  val,        (* its message: the one it puts, or the one it has taken     *)
  old,        (* the local get_head of __msgqueue_swap                     *)
  cnt         (* the local cnt of __msgqueue_swap                          *)

lists   == <<list, get_head, put_head, put_tail, msg_cnt>>
mutexes == <<get_mutex, put_mutex>>
conds   == <<get_cond, put_cond>>
locals  == <<val, old, cnt>>
vars    == <<lists, nonblock, mutexes, conds, pc, locals>>

Heads == {"head1", "head2"}

PutPCs   == {"put_lock", "put_check", "put_block", "put_wait", "put_link",
             "put_unlock", "put_signal"}
GetPCs   == {"get_lock", "get_test", "get_take", "get_unlock"}
SwapPCs  == {"swap_lock", "swap_check", "swap_block", "swap_wait",
             "swap_lists", "swap_unlock"}
ClosePCs == {"nb_lock", "nb_signal", "nb_unlock"}
PCs      == {"idle"} \cup PutPCs \cup GetPCs \cup SwapPCs \cup ClosePCs

TypeOK ==
  /\ list \in [Heads -> Seq(Msg)]
  /\ get_head \in Heads
  /\ put_head \in Heads
  /\ put_tail \in Heads
  /\ msg_cnt \in Nat
  /\ nonblock \in BOOLEAN
  /\ get_mutex \in Threads \cup {NoThread}
  /\ put_mutex \in Threads \cup {NoThread}
  /\ get_cond \in SUBSET Threads
  /\ put_cond \in SUBSET Threads
  /\ pc \in [Threads -> PCs]
  /\ val \in [Threads -> Msg \cup {NULL}]
  /\ old \in [Threads -> Heads]
  /\ cnt \in [Threads -> Nat]

(* msgqueue_create. *)
Init ==
  /\ list = [h \in Heads |-> <<>>]
  /\ get_head = "head1"
  /\ put_head = "head2"
  /\ put_tail = "head2"
  /\ msg_cnt = 0
  /\ nonblock = FALSE
  /\ get_mutex = NoThread
  /\ put_mutex = NoThread
  /\ get_cond = {}
  /\ put_cond = {}
  /\ pc = [t \in Threads |-> "idle"]
  /\ val = [t \in Threads |-> NULL]
  /\ old = [t \in Threads |-> "head1"]
  /\ cnt = [t \in Threads |-> 0]

-----------------------------------------------------------------------------
(* Helpers. *)

At(t, l) == pc[t] = l
Goto(t, l) == pc' = [pc EXCEPT ![t] = l]

(* msg_cnt > msg_max - 1, with msg_max - 1 computed in size_t: a queue made
   with maxlen 0 gets the limit SIZE_MAX.  (msg_cnt itself cannot wrap: every
   message it counts occupies memory.)                                       *)
Limit == IF maxlen = 0 THEN SIZE_MAX ELSE maxlen - 1
Full == msg_cnt > Limit

(* pthread_cond_signal wakes one sleeper, if there is one.                   *)
SignalGet ==
  IF get_cond = {} THEN UNCHANGED get_cond
                   ELSE \E w \in get_cond : get_cond' = get_cond \ {w}

(* A message its owner may put: no thread and no list holds it.              *)
Unused(m) ==
  /\ \A t \in Threads : val[t] # m
  /\ \A h \in Heads : \A i \in 1..Len(list[h]) : list[h][i] # m

-----------------------------------------------------------------------------
(* msgqueue_put(msg, queue). *)

PutCall(t, m) ==
  /\ At(t, "idle")
  /\ Unused(m)
  /\ val' = [val EXCEPT ![t] = m]
  /\ Goto(t, "put_lock")
  /\ UNCHANGED <<lists, nonblock, mutexes, conds, old, cnt>>

PutLock(t) ==
  /\ At(t, "put_lock")
  /\ put_mutex = NoThread
  /\ put_mutex' = t
  /\ Goto(t, "put_check")
  /\ UNCHANGED <<lists, nonblock, get_mutex, conds, locals>>

(* The put that lets one message too many in. *)
PutCheckOffByOne(t) ==
  /\ At(t, "put_check")
  /\ Goto(t, IF msg_cnt > maxlen /\ ~nonblock THEN "put_block" ELSE "put_link")
  /\ UNCHANGED <<lists, nonblock, mutexes, conds, locals>>

PutCheck(t) ==
  /\ At(t, "put_check")
  /\ Goto(t, IF Full /\ ~nonblock THEN "put_block" ELSE "put_link")
  /\ UNCHANGED <<lists, nonblock, mutexes, conds, locals>>

PutBlock(t) ==
  /\ At(t, "put_block")
  /\ put_mutex' = NoThread
  /\ put_cond' = put_cond \cup {t}
  /\ Goto(t, "put_wait")
  /\ UNCHANGED <<lists, nonblock, get_mutex, get_cond, locals>>

PutWake(t) ==
  /\ At(t, "put_wait")
  /\ t \notin put_cond
  /\ put_mutex = NoThread
  /\ put_mutex' = t
  /\ Goto(t, "put_check")
  /\ UNCHANGED <<lists, nonblock, get_mutex, conds, locals>>

PutLink(t) ==
  /\ At(t, "put_link")
  /\ list' = [list EXCEPT ![put_tail] = Append(@, val[t])]
  /\ msg_cnt' = msg_cnt + 1
  /\ Goto(t, "put_unlock")
  /\ UNCHANGED <<get_head, put_head, put_tail, nonblock, mutexes, conds, locals>>

PutUnlock(t) ==
  /\ At(t, "put_unlock")
  /\ put_mutex' = NoThread
  /\ Goto(t, "put_signal")
  /\ UNCHANGED <<lists, nonblock, get_mutex, conds, locals>>

(* The put that returns without waking a consumer. *)
PutSignalForgotten(t) ==
  /\ At(t, "put_signal")
  /\ val' = [val EXCEPT ![t] = NULL]
  /\ Goto(t, "idle")
  /\ UNCHANGED <<lists, nonblock, mutexes, conds, old, cnt>>

PutSignal(t) ==
  /\ At(t, "put_signal")
  /\ SignalGet
  /\ val' = [val EXCEPT ![t] = NULL]
  /\ Goto(t, "idle")
  /\ UNCHANGED <<lists, nonblock, mutexes, put_cond, old, cnt>>

-----------------------------------------------------------------------------
(* msgqueue_get(queue), with __msgqueue_swap(queue) inside it. *)

GetCall(t) ==
  /\ At(t, "idle")
  /\ Goto(t, "get_lock")
  /\ UNCHANGED <<lists, nonblock, mutexes, conds, locals>>

GetLock(t) ==
  /\ At(t, "get_lock")
  /\ get_mutex = NoThread
  /\ get_mutex' = t
  /\ Goto(t, "get_test")
  /\ UNCHANGED <<lists, nonblock, put_mutex, conds, locals>>

GetTest(t) ==
  /\ At(t, "get_test")
  /\ \/ /\ list[get_head] # <<>>
        /\ Goto(t, "get_take")
        /\ UNCHANGED <<get_head, old>>
     \/ /\ list[get_head] = <<>>
        /\ old' = [old EXCEPT ![t] = get_head]
        /\ get_head' = put_head
        /\ Goto(t, "swap_lock")
  /\ UNCHANGED <<list, put_head, put_tail, msg_cnt, nonblock, mutexes, conds,
                 val, cnt>>

SwapLock(t) ==
  /\ At(t, "swap_lock")
  /\ put_mutex = NoThread
  /\ put_mutex' = t
  /\ Goto(t, "swap_check")
  /\ UNCHANGED <<lists, nonblock, get_mutex, conds, locals>>

(* The swap that waits whatever the mode. *)
SwapCheckIgnoresMode(t) ==
  /\ At(t, "swap_check")
  /\ Goto(t, IF msg_cnt = 0 THEN "swap_block" ELSE "swap_lists")
  /\ UNCHANGED <<lists, nonblock, mutexes, conds, locals>>

SwapCheck(t) ==
  /\ At(t, "swap_check")
  /\ Goto(t, IF msg_cnt = 0 /\ ~nonblock THEN "swap_block" ELSE "swap_lists")
  /\ UNCHANGED <<lists, nonblock, mutexes, conds, locals>>

SwapBlock(t) ==
  /\ At(t, "swap_block")
  /\ put_mutex' = NoThread
  /\ get_cond' = get_cond \cup {t}
  /\ Goto(t, "swap_wait")
  /\ UNCHANGED <<lists, nonblock, get_mutex, put_cond, locals>>

SwapWake(t) ==
  /\ At(t, "swap_wait")
  /\ t \notin get_cond
  /\ put_mutex = NoThread
  /\ put_mutex' = t
  /\ Goto(t, "swap_check")
  /\ UNCHANGED <<lists, nonblock, get_mutex, conds, locals>>

(* The swap that leaves put_tail in the list it gives to the consumers. *)
SwapListsKeepsTail(t) ==
  /\ At(t, "swap_lists")
  /\ cnt' = [cnt EXCEPT ![t] = msg_cnt]
  /\ put_cond' = IF Full THEN {} ELSE put_cond
  /\ put_head' = old[t]
  /\ msg_cnt' = 0
  /\ Goto(t, "swap_unlock")
  /\ UNCHANGED <<list, get_head, put_tail, nonblock, mutexes, get_cond, val, old>>

(* The swap that does not tell the producers that there is room. *)
SwapListsSilent(t) ==
  /\ At(t, "swap_lists")
  /\ cnt' = [cnt EXCEPT ![t] = msg_cnt]
  /\ put_head' = old[t]
  /\ put_tail' = old[t]
  /\ msg_cnt' = 0
  /\ Goto(t, "swap_unlock")
  /\ UNCHANGED <<list, get_head, nonblock, mutexes, conds, val, old>>

SwapLists(t) ==
  /\ At(t, "swap_lists")
  /\ cnt' = [cnt EXCEPT ![t] = msg_cnt]
  /\ put_cond' = IF Full THEN {} ELSE put_cond
  /\ put_head' = old[t]
  /\ put_tail' = old[t]
  /\ msg_cnt' = 0
  /\ Goto(t, "swap_unlock")
  /\ UNCHANGED <<list, get_head, nonblock, mutexes, get_cond, val, old>>

(* A get that takes a message whatever __msgqueue_swap returns. *)
SwapUnlockAlwaysTake(t) ==
  /\ At(t, "swap_unlock")
  /\ put_mutex' = NoThread
  /\ Goto(t, "get_take")
  /\ UNCHANGED <<lists, nonblock, get_mutex, conds, locals>>

(* __msgqueue_swap returns cnt, which decides what msgqueue_get returns. *)
SwapUnlock(t) ==
  /\ At(t, "swap_unlock")
  /\ put_mutex' = NoThread
  /\ Goto(t, IF cnt[t] > 0 THEN "get_take" ELSE "get_unlock")
  /\ UNCHANGED <<lists, nonblock, get_mutex, conds, locals>>

(* A get that leaves its message on the list. *)
GetTakeKeeps(t) ==
  /\ At(t, "get_take")
  /\ val' = [val EXCEPT ![t] = Head(list[get_head])]
  /\ Goto(t, "get_unlock")
  /\ UNCHANGED <<lists, nonblock, mutexes, conds, old, cnt>>

GetTake(t) ==
  /\ At(t, "get_take")
  /\ val' = [val EXCEPT ![t] = Head(list[get_head])]
  /\ list' = [list EXCEPT ![get_head] = Tail(@)]
  /\ Goto(t, "get_unlock")
  /\ UNCHANGED <<get_head, put_head, put_tail, msg_cnt, nonblock, mutexes,
                 conds, old, cnt>>

GetUnlock(t) ==
  /\ At(t, "get_unlock")
  /\ get_mutex' = NoThread
  /\ val' = [val EXCEPT ![t] = NULL]
  /\ old' = [old EXCEPT ![t] = "head1"]
  /\ cnt' = [cnt EXCEPT ![t] = 0]
  /\ Goto(t, "idle")
  /\ UNCHANGED <<lists, nonblock, put_mutex, conds>>

-----------------------------------------------------------------------------
(* msgqueue_set_nonblock(queue) and msgqueue_set_block(queue). *)

CloseCall(t) ==
  /\ At(t, "idle")
  /\ nonblock' = TRUE
  /\ Goto(t, "nb_lock")
  /\ UNCHANGED <<lists, mutexes, conds, locals>>

(* set_nonblock that signals without waiting for put_mutex. *)
CloseLockForgotten(t) ==
  /\ At(t, "nb_lock")
  /\ Goto(t, "nb_signal")
  /\ UNCHANGED <<lists, nonblock, mutexes, conds, locals>>

CloseLock(t) ==
  /\ At(t, "nb_lock")
  /\ put_mutex = NoThread
  /\ put_mutex' = t
  /\ Goto(t, "nb_signal")
  /\ UNCHANGED <<lists, nonblock, get_mutex, conds, locals>>

CloseSignal(t) ==
  /\ At(t, "nb_signal")
  /\ SignalGet
  /\ put_cond' = {}
  /\ Goto(t, "nb_unlock")
  /\ UNCHANGED <<lists, nonblock, mutexes, locals>>

CloseUnlock(t) ==
  /\ At(t, "nb_unlock")
  /\ put_mutex' = NoThread
  /\ Goto(t, "idle")
  /\ UNCHANGED <<lists, nonblock, get_mutex, conds, locals>>

OpenCall(t) ==
  /\ At(t, "idle")
  /\ nonblock' = FALSE
  /\ UNCHANGED <<lists, mutexes, conds, pc, locals>>

-----------------------------------------------------------------------------
(* POSIX lets pthread_cond_wait return without a signal. *)
SpuriousWake(t) ==
  /\ Spurious
  /\ t \in get_cond \cup put_cond
  /\ get_cond' = get_cond \ {t}
  /\ put_cond' = put_cond \ {t}
  /\ UNCHANGED <<lists, nonblock, mutexes, pc, locals>>

(* Steps that compete for a mutex, and the steps of a thread that is running. *)
Acquire(t) ==
  PutLock(t) \/ PutWake(t) \/ GetLock(t) \/ SwapLock(t) \/ SwapWake(t) \/ CloseLock(t)

Run(t) ==
  \/ PutCheck(t) \/ PutBlock(t) \/ PutLink(t) \/ PutUnlock(t) \/ PutSignal(t)
  \/ GetTest(t) \/ SwapCheck(t) \/ SwapBlock(t) \/ SwapLists(t) \/ SwapUnlock(t)
  \/ GetTake(t) \/ GetUnlock(t)
  \/ CloseSignal(t) \/ CloseUnlock(t)

Next ==
  \/ \E t \in Producers : \E m \in Msg : PutCall(t, m)
  \/ \E t \in Consumers : GetCall(t)
  \/ \E t \in Closers : CloseCall(t)
  \/ \E t \in Openers : OpenCall(t)
  \/ \E t \in Threads : Acquire(t) \/ Run(t) \/ SpuriousWake(t)

Spec == Init /\ [][Next]_vars

(* Threads keep running, a thread that competes for a mutex again and again
   obtains it, and consumers come back for more (the loop of
   __thrdpool_routine does).                                                 *)
FairSpec ==
  /\ Spec
  /\ \A t \in Threads : WF_vars(Run(t)) /\ SF_vars(Acquire(t))
  /\ \A t \in Consumers : WF_vars(GetCall(t))

-----------------------------------------------------------------------------
(* Which thread may be doing what. *)

(* Between lock and unlock of get_mutex, and of put_mutex. *)
HoldsGet == {"get_test", "get_take", "get_unlock"} \cup SwapPCs
HoldsPut == {"put_check", "put_block", "put_link", "put_unlock", "swap_check",
             "swap_block", "swap_lists", "swap_unlock", "nb_signal", "nb_unlock"}

(* In __msgqueue_swap, with get_head already moved and put_head not yet. *)
Swapping == SwapPCs \ {"swap_unlock"}

(* Everything pending, oldest first: the get list, then the put list.  While a
   swap is under way both names denote the put list.                         *)
Contents ==
  IF get_head = put_head THEN list[put_head] ELSE list[get_head] \o list[put_head]

-----------------------------------------------------------------------------
(* The queue's structure.  put_tail addresses the last link of the put list and
   msg_cnt counts exactly that list's messages; the two lists are distinct
   except while the owner of get_mutex is inside __msgqueue_swap, and then the
   list it is about to hand to the producers is the other one and is empty
   (msgqueue.c:70 moves get_head before put_mutex is taken).                 *)
ListShape ==
  /\ put_tail = put_head
  /\ msg_cnt = Len(list[put_head])
  /\ \A t \in Threads :
       pc[t] \in Swapping => /\ get_head = put_head
                             /\ old[t] # put_head
                             /\ list[old[t]] = <<>>
  /\ get_head = put_head => \E t \in Threads : pc[t] \in Swapping

(* msgqueue_get dereferences *get_head (msgqueue.c:109-110) only when the get
   list has a message, whether it saw one itself or __msgqueue_swap reported a
   positive count, and whatever producers and other consumers did since.     *)
TakeSafe == \A t \in Threads : pc[t] = "get_take" => list[get_head] # <<>>

(* A consumer asleep in __msgqueue_swap is not forgotten.  If a message is there,
   some msgqueue_put has yet to signal get_cond (it does so after unlocking,
   msgqueue.c:98-99); if the mode is nonblocking, some msgqueue_set_nonblock has
   yet to.  Both send one signal: it reaches the sleeper because get_mutex
   admits only one.                                                          *)
NoLostGetWakeup ==
  \A t \in get_cond :
    /\ get_cond = {t}
    /\ msg_cnt > 0 => \E p \in Threads : pc[p] \in {"put_unlock", "put_signal"}
    /\ nonblock    => \E c \in Threads : pc[c] \in {"nb_lock", "nb_signal"}

(* A producer asleep in msgqueue_put is not forgotten: the put list is still full
   (the swap that empties it broadcasts), and in nonblocking mode some
   msgqueue_set_nonblock has yet to broadcast.                               *)
NoLostPutWakeup ==
  \A t \in put_cond :
    /\ Full
    /\ nonblock => \E c \in Threads : pc[c] \in {"nb_lock", "nb_signal"}

(* msgqueue.h:31-32: "The max pending messages may reach two times 'maxlen' when
   the queue is in blocking mode".  It holds of a queue that has not been in
   nonblocking mode before, and for the maxlen the check in msgqueue_put is made
   for: with 0 the unsigned msg_max - 1 wraps and there is no bound.         *)
PendingBound ==
  maxlen > 0 /\ (Closers = {} \/ Openers = {}) /\ ~nonblock => Len(Contents) <= 2 * maxlen

-----------------------------------------------------------------------------
(* The refinement.  A put takes effect when its message is linked; a get when its
   message is unlinked or, if it finds none, when it has seen an empty put list
   and nonblocking mode under put_mutex.                                     *)
OpOf(t) ==
  CASE pc[t] \in {"put_lock", "put_check", "put_block", "put_wait", "put_link"}
         -> "put"
    [] pc[t] \in {"put_unlock", "put_signal"} -> "put_done"
    [] pc[t] \in {"get_lock", "get_test", "get_take", "swap_lock", "swap_check",
                  "swap_block", "swap_wait"}
         -> "get"
    [] pc[t] = "swap_lists"  -> IF msg_cnt = 0 THEN "get_done" ELSE "get"
    [] pc[t] = "swap_unlock" -> IF cnt[t] = 0 THEN "get_done" ELSE "get"
    [] pc[t] = "get_unlock" -> "get_done"
    [] OTHER -> "idle"

Fifo == INSTANCE FifoQueue
          WITH q <- Contents, op <- [t \in Threads |-> OpOf(t)]

(* The two-list queue is a linearizable FIFO queue: no message is lost, repeated
   or overtaken, and msgqueue_get returns NULL only if at some moment during the
   call the queue was empty and in nonblocking mode.                         *)
ImplementsFifo == Fifo!Spec

-----------------------------------------------------------------------------
(* Where a message is linked. *)
Places(m) ==
  UNION {{<<h, i>> : i \in {j \in 1..Len(list[h]) : list[h][j] = m}} : h \in Heads}

(* Every message put is eventually taken: consumers that keep calling
   msgqueue_get leave none on either list.                                   *)
Delivered ==
  \A m \in Msg : Places(m) # {} ~> Places(m) = {}

(* msgqueue_set_nonblock releases everyone: once the mode is nonblocking (and
   nobody calls msgqueue_set_block), no call of the queue waits for ever.    *)
CloseReleases ==
  \A t \in Threads : (nonblock /\ pc[t] # "idle") ~> pc[t] = "idle"
=============================================================================
