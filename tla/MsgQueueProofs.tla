--------------------------- MODULE MsgQueueProofs ---------------------------
(***************************************************************************)
(* Proofs about MsgQueue, for any number of threads and messages, any      *)
(* maxlen, with spurious wake-ups or without.                              *)
(*                                                                         *)
(* None of the properties is inductive alone.  That an empty get list is   *)
(* never dereferenced depends on the count __msgqueue_swap returned, which *)
(* depends on put_tail and msg_cnt describing the put list, which depends  *)
(* on who owns the two mutexes.  That no wake-up is lost depends on what a *)
(* thread has tested but not yet acted on (Blocking), and on get_mutex     *)
(* admitting one sleeper.  IInv puts these together.                       *)
(***************************************************************************)
EXTENDS MsgQueue, TLAPS, SequenceTheorems

(* A mutex is owned by the thread that is between its lock and its unlock. *)
Locks ==
  \A t \in Threads : /\ get_mutex = t <=> pc[t] \in HoldsGet
                     /\ put_mutex = t <=> pc[t] \in HoldsPut

(* Who sleeps on a condition variable is in its pthread_cond_wait. *)
Sleepers ==
  /\ \A t \in get_cond : pc[t] = "swap_wait"
  /\ \A t \in put_cond : pc[t] = "put_wait"

(* A msgqueue_set_nonblock has yet to signal. *)
CloserPending == \E c \in Threads : pc[c] \in {"nb_lock", "nb_signal"}

(* What a thread that has decided to sleep has seen still holds, except that the
   mode may have changed under it: nonblock is written without put_mutex.    *)
Blocking ==
  \A t \in Threads :
    /\ pc[t] = "swap_block" => msg_cnt = 0 /\ (nonblock => CloserPending)
    /\ pc[t] = "put_block" => Full /\ (nonblock => CloserPending)

(* The count __msgqueue_swap is about to return is the get list's length. *)
SwapCount ==
  \A t \in Threads : pc[t] = "swap_unlock" => cnt[t] = Len(list[get_head])

(* A msgqueue_put in progress has a message. *)
Carried ==
  \A t \in Threads : pc[t] \in PutPCs => val[t] \in Msg

(* The inductive invariant. *)
Control   == TypeOK /\ Locks /\ Sleepers /\ Carried
Structure == ListShape /\ SwapCount /\ TakeSafe
Wakeups   == Blocking /\ NoLostGetWakeup /\ NoLostPutWakeup

IInv == Control /\ Structure /\ Wakeups

(* The limit that msgqueue_put compares with is a size_t. *)
LEMMA LimitIsNat == Limit \in Nat
BY ConstantsOK DEF Limit

(* Every step keeps the types, the lock discipline, the sleepers and the messages
   that calls of msgqueue_put carry.                                         *)
LEMMA ControlStep == ASSUME IInv, Next PROVE Control'
<1> USE ConstantsOK DEF IInv, Control, TypeOK, Locks, Sleepers, Carried,
      HoldsGet, HoldsPut, Heads, PCs, PutPCs, GetPCs, SwapPCs, ClosePCs
<1> USE DEF At, Goto, lists, mutexes, conds, locals
<1>1. ASSUME NEW t \in Producers, NEW m \in Msg, PutCall(t, m) PROVE Control'
  BY <1>1 DEF PutCall, Threads
<1>2. ASSUME NEW t \in Consumers, GetCall(t) PROVE Control'
  <2>1. TypeOK' /\ Carried'
    BY <1>2 DEF GetCall, Threads
  <2>2. Locks' /\ Sleepers'
    BY <1>2 DEF GetCall, Threads
  <2> QED
    BY <2>1, <2>2
<1>3. ASSUME NEW t \in Closers, CloseCall(t) PROVE Control'
  BY <1>3 DEF CloseCall, Threads
<1>4. ASSUME NEW t \in Openers, OpenCall(t) PROVE Control'
  BY <1>4 DEF OpenCall, Threads
<1>5. ASSUME NEW t \in Threads, PutLock(t) PROVE Control'
  BY <1>5 DEF PutLock
<1>6. ASSUME NEW t \in Threads, PutCheck(t) PROVE Control'
  BY <1>6 DEF PutCheck
<1>7. ASSUME NEW t \in Threads, PutBlock(t) PROVE Control'
  BY <1>7 DEF PutBlock
<1>8. ASSUME NEW t \in Threads, PutWake(t) PROVE Control'
  BY <1>8 DEF PutWake
<1>9. ASSUME NEW t \in Threads, PutLink(t) PROVE Control'
  BY <1>9 DEF PutLink
<1>10. ASSUME NEW t \in Threads, PutUnlock(t) PROVE Control'
  BY <1>10 DEF PutUnlock
<1>11. ASSUME NEW t \in Threads, PutSignal(t) PROVE Control'
  BY <1>11 DEF PutSignal, SignalGet
<1>12. ASSUME NEW t \in Threads, GetLock(t) PROVE Control'
  BY <1>12 DEF GetLock
<1>13. ASSUME NEW t \in Threads, GetTest(t) PROVE Control'
  <2> HIDE DEF Locks, Sleepers, Carried, HoldsGet, HoldsPut, PutPCs, ClosePCs
  <2>1. TypeOK'
    BY <1>13, ZenonT(40) DEF GetTest
  <2>2. Locks' /\ Sleepers' /\ Carried'
    BY <1>13 DEF GetTest, Locks, Sleepers, Carried, HoldsGet, HoldsPut, PutPCs
  <2> QED
    BY <2>1, <2>2
<1>14. ASSUME NEW t \in Threads, SwapLock(t) PROVE Control'
  BY <1>14 DEF SwapLock
<1>15. ASSUME NEW t \in Threads, SwapCheck(t) PROVE Control'
  BY <1>15 DEF SwapCheck
<1>16. ASSUME NEW t \in Threads, SwapBlock(t) PROVE Control'
  BY <1>16 DEF SwapBlock
<1>17. ASSUME NEW t \in Threads, SwapWake(t) PROVE Control'
  BY <1>17 DEF SwapWake
<1>18. ASSUME NEW t \in Threads, SwapLists(t) PROVE Control'
  BY <1>18 DEF SwapLists
<1>19. ASSUME NEW t \in Threads, SwapUnlock(t) PROVE Control'
  BY <1>19 DEF SwapUnlock
<1>20. ASSUME NEW t \in Threads, GetTake(t) PROVE Control'
  BY <1>20 DEF GetTake, Structure, TakeSafe
<1>21. ASSUME NEW t \in Threads, GetUnlock(t) PROVE Control'
  BY <1>21 DEF GetUnlock
<1>22. ASSUME NEW t \in Threads, CloseLock(t) PROVE Control'
  BY <1>22 DEF CloseLock
<1>23. ASSUME NEW t \in Threads, CloseSignal(t) PROVE Control'
  BY <1>23 DEF CloseSignal, SignalGet
<1>24. ASSUME NEW t \in Threads, CloseUnlock(t) PROVE Control'
  BY <1>24 DEF CloseUnlock
<1>25. ASSUME NEW t \in Threads, SpuriousWake(t) PROVE Control'
  BY <1>25 DEF SpuriousWake
<1> QED
  BY <1>1, <1>2, <1>3, <1>4, <1>5, <1>6, <1>7, <1>8, <1>9, <1>10, <1>11, <1>12, <1>13,
     <1>14, <1>15, <1>16, <1>17, <1>18, <1>19, <1>20, <1>21, <1>22, <1>23, <1>24, <1>25
     DEF Next, Acquire, Run

(* Every step keeps the two lists, the tail pointer and the counts in agreement. *)
LEMMA StructureStep == ASSUME IInv, Next PROVE Structure'
<1> USE ConstantsOK DEF IInv, Structure, Control, TypeOK, Locks, ListShape, SwapCount,
      TakeSafe, Swapping, HoldsGet, HoldsPut, SwapPCs, Heads
<1> USE DEF At, Goto, lists, mutexes, conds, locals
<1>1. ASSUME NEW t \in Producers, NEW m \in Msg, PutCall(t, m) PROVE Structure'
  BY <1>1 DEF PutCall, Threads
<1>2. ASSUME NEW t \in Consumers, GetCall(t) PROVE Structure'
  BY <1>2 DEF GetCall, Threads
<1>3. ASSUME NEW t \in Closers, CloseCall(t) PROVE Structure'
  BY <1>3 DEF CloseCall, Threads
<1>4. ASSUME NEW t \in Openers, OpenCall(t) PROVE Structure'
  BY <1>4 DEF OpenCall, Threads
<1>5. ASSUME NEW t \in Threads, PutLock(t) PROVE Structure'
  BY <1>5 DEF PutLock
<1>6. ASSUME NEW t \in Threads, PutCheck(t) PROVE Structure'
  BY <1>6 DEF PutCheck
<1>7. ASSUME NEW t \in Threads, PutBlock(t) PROVE Structure'
  BY <1>7 DEF PutBlock
<1>8. ASSUME NEW t \in Threads, PutWake(t) PROVE Structure'
  BY <1>8 DEF PutWake
<1>9. ASSUME NEW t \in Threads, PutLink(t) PROVE Structure'
  BY <1>9 DEF PutLink
<1>10. ASSUME NEW t \in Threads, PutUnlock(t) PROVE Structure'
  BY <1>10 DEF PutUnlock
<1>11. ASSUME NEW t \in Threads, PutSignal(t) PROVE Structure'
  BY <1>11 DEF PutSignal, SignalGet
<1>12. ASSUME NEW t \in Threads, GetLock(t) PROVE Structure'
  BY <1>12 DEF GetLock
<1>13. ASSUME NEW t \in Threads, GetTest(t) PROVE Structure'
  <2>1. get_mutex = t /\ \A u \in Threads : u # t => pc[u] \notin Swapping /\ pc[u] # "get_take"
    BY <1>13 DEF GetTest
  <2>2. get_head # put_head
    BY <1>13, <2>1 DEF GetTest
  <2>3. CASE list[get_head] # <<>>
    <3>1. /\ pc' = [pc EXCEPT ![t] = "get_take"]
          /\ UNCHANGED <<list, get_head, put_head, put_tail, msg_cnt, old, cnt>>
      BY <1>13, <2>3 DEF GetTest
    <3>2. \A u \in Threads : pc'[u] \notin Swapping
      BY <2>1, <3>1
    <3> QED
      BY <2>1, <2>2, <2>3, <3>1, <3>2
  <2>4. CASE list[get_head] = <<>>
    <3>1. /\ pc' = [pc EXCEPT ![t] = "swap_lock"]
          /\ old' = [old EXCEPT ![t] = get_head]
          /\ get_head' = put_head
          /\ UNCHANGED <<list, put_head, put_tail, msg_cnt, cnt>>
      BY <1>13, <2>4 DEF GetTest
    <3>2. pc'[t] = "swap_lock" /\ old'[t] = get_head
      BY <3>1
    <3>3. \A u \in Threads : u # t => pc'[u] = pc[u]
      BY <3>1
    <3>4. ListShape'
      BY <2>1, <2>2, <2>4, <3>1, <3>2, <3>3
    <3>5. SwapCount'
      BY <2>1, <3>1, <3>2, <3>3
    <3>6. TakeSafe'
      BY <2>1, <3>2, <3>3
    <3> QED
      BY <3>4, <3>5, <3>6
  <2> QED
    BY <2>3, <2>4
<1>14. ASSUME NEW t \in Threads, SwapLock(t) PROVE Structure'
  BY <1>14 DEF SwapLock
<1>15. ASSUME NEW t \in Threads, SwapCheck(t) PROVE Structure'
  BY <1>15 DEF SwapCheck
<1>16. ASSUME NEW t \in Threads, SwapBlock(t) PROVE Structure'
  BY <1>16 DEF SwapBlock
<1>17. ASSUME NEW t \in Threads, SwapWake(t) PROVE Structure'
  BY <1>17 DEF SwapWake
<1>18. ASSUME NEW t \in Threads, SwapLists(t) PROVE Structure'
  BY <1>18 DEF SwapLists
<1>19. ASSUME NEW t \in Threads, SwapUnlock(t) PROVE Structure'
  BY <1>19 DEF SwapUnlock
<1>20. ASSUME NEW t \in Threads, GetTake(t) PROVE Structure'
  BY <1>20 DEF GetTake
<1>21. ASSUME NEW t \in Threads, GetUnlock(t) PROVE Structure'
  BY <1>21 DEF GetUnlock
<1>22. ASSUME NEW t \in Threads, CloseLock(t) PROVE Structure'
  BY <1>22 DEF CloseLock
<1>23. ASSUME NEW t \in Threads, CloseSignal(t) PROVE Structure'
  BY <1>23 DEF CloseSignal, SignalGet
<1>24. ASSUME NEW t \in Threads, CloseUnlock(t) PROVE Structure'
  BY <1>24 DEF CloseUnlock
<1>25. ASSUME NEW t \in Threads, SpuriousWake(t) PROVE Structure'
  BY <1>25 DEF SpuriousWake
<1> QED
  BY <1>1, <1>2, <1>3, <1>4, <1>5, <1>6, <1>7, <1>8, <1>9, <1>10, <1>11, <1>12, <1>13,
     <1>14, <1>15, <1>16, <1>17, <1>18, <1>19, <1>20, <1>21, <1>22, <1>23, <1>24, <1>25
     DEF Next, Acquire, Run

(* Every step keeps a signal on its way to whoever must be woken. *)
LEMMA WakeupsStep == ASSUME IInv, Next PROVE Wakeups'
<1> USE ConstantsOK, LimitIsNat DEF IInv, Wakeups, Control, TypeOK, Locks, Sleepers,
      Blocking, NoLostGetWakeup, NoLostPutWakeup, CloserPending, HoldsGet, HoldsPut, SwapPCs, Full
<1> USE DEF At, Goto, lists, mutexes, conds, locals
<1>1. ASSUME NEW t \in Producers, NEW m \in Msg, PutCall(t, m) PROVE Wakeups'
  BY <1>1 DEF PutCall, Threads
<1>2. ASSUME NEW t \in Consumers, GetCall(t) PROVE Wakeups'
  BY <1>2 DEF GetCall, Threads
<1>3. ASSUME NEW t \in Closers, CloseCall(t) PROVE Wakeups'
  BY <1>3 DEF CloseCall, Threads
<1>4. ASSUME NEW t \in Openers, OpenCall(t) PROVE Wakeups'
  BY <1>4 DEF OpenCall, Threads
<1>5. ASSUME NEW t \in Threads, PutLock(t) PROVE Wakeups'
  BY <1>5 DEF PutLock
<1>6. ASSUME NEW t \in Threads, PutCheck(t) PROVE Wakeups'
  BY <1>6 DEF PutCheck
<1>7. ASSUME NEW t \in Threads, PutBlock(t) PROVE Wakeups'
  BY <1>7 DEF PutBlock
<1>8. ASSUME NEW t \in Threads, PutWake(t) PROVE Wakeups'
  BY <1>8 DEF PutWake
<1>9. ASSUME NEW t \in Threads, PutLink(t) PROVE Wakeups'
  <2>1. Full => Full'
    BY <1>9, ConstantsOK DEF PutLink, Full, Limit, Control, TypeOK
  <2> QED
    BY <1>9, <2>1 DEF PutLink, Control, TypeOK, Locks, Sleepers, Blocking,
           NoLostGetWakeup, NoLostPutWakeup, CloserPending, HoldsGet, HoldsPut, SwapPCs
<1>10. ASSUME NEW t \in Threads, PutUnlock(t) PROVE Wakeups'
  BY <1>10 DEF PutUnlock
<1>11. ASSUME NEW t \in Threads, PutSignal(t) PROVE Wakeups'
  <2>1. Blocking'
    BY <1>11 DEF PutSignal
  <2>2. NoLostGetWakeup'
    BY <1>11 DEF PutSignal, SignalGet
  <2>3. NoLostPutWakeup'
    BY <1>11 DEF PutSignal
  <2> QED
    BY <2>1, <2>2, <2>3
<1>12. ASSUME NEW t \in Threads, GetLock(t) PROVE Wakeups'
  BY <1>12 DEF GetLock
<1>13. ASSUME NEW t \in Threads, GetTest(t) PROVE Wakeups'
  BY <1>13, ZenonT(40) DEF GetTest
<1>14. ASSUME NEW t \in Threads, SwapLock(t) PROVE Wakeups'
  BY <1>14 DEF SwapLock
<1>15. ASSUME NEW t \in Threads, SwapCheck(t) PROVE Wakeups'
  BY <1>15 DEF SwapCheck
<1>16. ASSUME NEW t \in Threads, SwapBlock(t) PROVE Wakeups'
  <2>1. get_cond = {}
    BY <1>16 DEF SwapBlock, Control, TypeOK, Locks, Sleepers, HoldsGet, SwapPCs
  <2>2. Blocking'
    BY <1>16 DEF SwapBlock, Control, TypeOK, Locks, Blocking, CloserPending, HoldsPut, Full
  <2>3. NoLostGetWakeup'
    <3>1. get_cond' = {t}
      BY <1>16, <2>1 DEF SwapBlock
    <3>2. msg_cnt' = 0 /\ (nonblock' => CloserPending')
      BY <1>16 DEF SwapBlock, Control, TypeOK, Blocking, CloserPending
    <3> QED
      BY <3>1, <3>2 DEF NoLostGetWakeup, CloserPending
  <2>4. NoLostPutWakeup'
    BY <1>16 DEF SwapBlock, Control, TypeOK, NoLostPutWakeup, Full
  <2> QED
    BY <2>2, <2>3, <2>4
<1>17. ASSUME NEW t \in Threads, SwapWake(t) PROVE Wakeups'
  BY <1>17 DEF SwapWake
<1>18. ASSUME NEW t \in Threads, SwapLists(t) PROVE Wakeups'
  BY <1>18 DEF SwapLists
<1>19. ASSUME NEW t \in Threads, SwapUnlock(t) PROVE Wakeups'
  BY <1>19 DEF SwapUnlock
<1>20. ASSUME NEW t \in Threads, GetTake(t) PROVE Wakeups'
  BY <1>20 DEF GetTake
<1>21. ASSUME NEW t \in Threads, GetUnlock(t) PROVE Wakeups'
  BY <1>21 DEF GetUnlock
<1>22. ASSUME NEW t \in Threads, CloseLock(t) PROVE Wakeups'
  BY <1>22 DEF CloseLock
<1>23. ASSUME NEW t \in Threads, CloseSignal(t) PROVE Wakeups'
  BY <1>23 DEF CloseSignal, SignalGet
<1>24. ASSUME NEW t \in Threads, CloseUnlock(t) PROVE Wakeups'
  BY <1>24 DEF CloseUnlock
<1>25. ASSUME NEW t \in Threads, SpuriousWake(t) PROVE Wakeups'
  BY <1>25 DEF SpuriousWake
<1> QED
  BY <1>1, <1>2, <1>3, <1>4, <1>5, <1>6, <1>7, <1>8, <1>9, <1>10, <1>11, <1>12, <1>13,
     <1>14, <1>15, <1>16, <1>17, <1>18, <1>19, <1>20, <1>21, <1>22, <1>23, <1>24, <1>25
     DEF Next, Acquire, Run

-----------------------------------------------------------------------------
(* Every reachable state of the queue satisfies the inductive invariant. *)
THEOREM Invariance == Spec => []IInv
<1>1. Init => IInv
  <2> SUFFICES ASSUME Init PROVE IInv
    OBVIOUS
  <2>1. TypeOK
    <3>1. list \in [Heads -> Seq(Msg)]
      BY EmptySeq DEF Init
    <3> QED
      BY <3>1, ConstantsOK DEF Init, TypeOK, Heads, PCs
  <2>2. Locks /\ Sleepers /\ Carried
    BY ConstantsOK DEF Init, Locks, Sleepers, Carried, HoldsGet, HoldsPut, PutPCs, SwapPCs
  <2>3. Structure
    BY DEF Init, Structure, ListShape, SwapCount, TakeSafe, Heads, Swapping, SwapPCs
  <2>4. Wakeups
    BY DEF Init, Wakeups, Blocking, NoLostGetWakeup, NoLostPutWakeup
  <2> QED
    BY <2>1, <2>2, <2>3, <2>4 DEF IInv, Control
<1>2. IInv /\ [Next]_vars => IInv'
  <2>1. CASE Next
    BY <2>1, ControlStep, StructureStep, WakeupsStep DEF IInv
  <2>2. CASE UNCHANGED vars
    BY <2>2 DEF IInv, Control, Structure, Wakeups, TypeOK, Locks, Sleepers, Carried,
     ListShape, SwapCount, TakeSafe, Blocking, NoLostGetWakeup, NoLostPutWakeup, CloserPending,
     Full, vars, lists, mutexes, conds, locals
  <2> QED
    BY <2>1, <2>2
<1> QED
  BY <1>1, <1>2, PTL DEF Spec

(* The variables of the queue and the locals of its callers keep their types. *)
THEOREM Types == Spec => []TypeOK
<1>1. IInv => TypeOK
  BY DEF IInv, Control
<1> QED
  BY <1>1, Invariance, PTL

(* put_tail and msg_cnt describe the put list, and the two lists coincide only
   inside __msgqueue_swap.                                                   *)
THEOREM Shape == Spec => []ListShape
<1>1. IInv => ListShape
  BY DEF IInv, Structure
<1> QED
  BY <1>1, Invariance, PTL

(* msgqueue_get never dereferences the head of an empty get list. *)
THEOREM NoNullDereference == Spec => []TakeSafe
<1>1. IInv => TakeSafe
  BY DEF IInv, Structure
<1> QED
  BY <1>1, Invariance, PTL

(* No consumer sleeps through a message or through the switch to nonblocking
   mode.                                                                     *)
THEOREM ConsumersAreWoken == Spec => []NoLostGetWakeup
<1>1. IInv => NoLostGetWakeup
  BY DEF IInv, Wakeups
<1> QED
  BY <1>1, Invariance, PTL

(* No producer sleeps while there is room, or through the switch to nonblocking
   mode.                                                                     *)
THEOREM ProducersAreWoken == Spec => []NoLostPutWakeup
<1>1. IInv => NoLostPutWakeup
  BY DEF IInv, Wakeups
<1> QED
  BY <1>1, Invariance, PTL

-----------------------------------------------------------------------------
(* Before msgqueue_set_nonblock neither list outgrows maxlen, and a producer that
   has seen room still has it: it owns put_mutex until it links its message. *)
Bounded ==
  /\ Closers = {} => ~nonblock
  /\ maxlen > 0 /\ (Closers = {} \/ Openers = {}) /\ ~nonblock =>
       /\ \A h \in Heads : Len(list[h]) <= maxlen
       /\ \A t \in Threads : pc[t] = "put_link" => ~Full

(* Every step of the queue keeps both lists within maxlen. *)
LEMMA BoundedStep == ASSUME IInv, Bounded, Next PROVE Bounded'
<1> USE ConstantsOK DEF IInv, Control, Structure, At, Goto, lists, mutexes, conds, locals
<1>1. ASSUME NEW t \in Threads, PutLink(t) PROVE Bounded'
  BY <1>1 DEF PutLink, Bounded, Full, Limit, TypeOK, Locks, ListShape, HoldsPut, Heads
<1>2. ASSUME NEW t \in Threads, GetTake(t) PROVE Bounded'
  BY <1>2 DEF GetTake, Bounded, Full, Limit, TypeOK, TakeSafe, Heads
<1>3. ASSUME NEW t \in Threads, SwapLists(t) PROVE Bounded'
  BY <1>3 DEF SwapLists, Bounded, Full, Limit, TypeOK, Locks, HoldsPut, Heads
<1>4. ASSUME NEW t \in Threads, PutCheck(t) PROVE Bounded'
  BY <1>4 DEF PutCheck, Bounded, Full, Limit, TypeOK
<1>5. ASSUME UNCHANGED <<list, msg_cnt>>,
             nonblock' => nonblock \/ Closers # {}, nonblock => nonblock' \/ Openers # {},
             \A t \in Threads : pc'[t] = "put_link" => pc[t] = "put_link"
      PROVE  Bounded'
  BY <1>5 DEF Bounded, Full, Limit
<1>6. ASSUME NEW t \in Threads, PutLock(t) \/ PutBlock(t) \/ PutWake(t) PROVE Bounded'
  BY <1>5, <1>6 DEF PutLock, PutBlock, PutWake, TypeOK
<1>7. ASSUME NEW t \in Threads, PutUnlock(t) \/ PutSignal(t) PROVE Bounded'
  BY <1>5, <1>7 DEF PutUnlock, PutSignal, TypeOK
<1>8. ASSUME NEW t \in Threads, GetLock(t) \/ GetTest(t) \/ GetUnlock(t) PROVE Bounded'
  BY <1>5, <1>8 DEF GetLock, GetTest, GetUnlock, TypeOK
<1>9. ASSUME NEW t \in Threads, SwapLock(t) \/ SwapCheck(t) \/ SwapBlock(t) PROVE Bounded'
  BY <1>5, <1>9 DEF SwapLock, SwapCheck, SwapBlock, TypeOK
<1>10. ASSUME NEW t \in Threads, SwapWake(t) \/ SwapUnlock(t) PROVE Bounded'
  BY <1>5, <1>10 DEF SwapWake, SwapUnlock, TypeOK
<1>11. ASSUME NEW t \in Threads, CloseLock(t) \/ CloseSignal(t) \/ CloseUnlock(t)
       PROVE  Bounded'
  BY <1>5, <1>11 DEF CloseLock, CloseSignal, CloseUnlock, TypeOK
<1>12. ASSUME NEW t \in Threads, SpuriousWake(t) PROVE Bounded'
  BY <1>5, <1>12 DEF SpuriousWake
<1>13. ASSUME NEW t \in Producers, NEW m \in Msg, PutCall(t, m) PROVE Bounded'
  BY <1>5, <1>13 DEF PutCall, TypeOK
<1>14. ASSUME NEW t \in Consumers, GetCall(t) PROVE Bounded'
  BY <1>5, <1>14 DEF GetCall, TypeOK
<1>15. ASSUME NEW t \in Openers, OpenCall(t) PROVE Bounded'
  BY <1>5, <1>15 DEF OpenCall
<1>16. ASSUME NEW t \in Closers, CloseCall(t) PROVE Bounded'
  BY <1>5, <1>16 DEF CloseCall, TypeOK
<1> HIDE DEF IInv, At, Goto, lists, mutexes, conds, locals
<1> QED
  BY <1>1, <1>2, <1>3, <1>4, <1>6, <1>7, <1>8, <1>9, <1>10, <1>11, <1>12, <1>13, <1>14,
     <1>15, <1>16 DEF Next, Acquire, Run

(* At most 2 * maxlen messages are pending in a queue that has always been in blocking
   mode, as msgqueue.h says.                                                 *)
THEOREM Bound == Spec => []PendingBound
<1>1. Init => Bounded
  BY ConstantsOK DEF Init, Bounded
<1>2. IInv /\ Bounded /\ [Next]_vars => Bounded'
  <2>1. CASE UNCHANGED vars
    BY <2>1 DEF Bounded, Full, vars, lists
  <2> QED
    BY <2>1, BoundedStep
<1>3. IInv /\ Bounded => PendingBound
  <2> SUFFICES ASSUME IInv, Bounded, maxlen > 0, Closers = {} \/ Openers = {}, ~nonblock
               PROVE  Len(Contents) <= 2 * maxlen
    BY DEF PendingBound
  <2>1. list[get_head] \in Seq(Msg) /\ list[put_head] \in Seq(Msg)
    BY DEF IInv, Control, TypeOK
  <2>2. Len(list[get_head]) <= maxlen /\ Len(list[put_head]) <= maxlen
    BY DEF Bounded, IInv, Control, TypeOK
  <2>3. Len(list[get_head] \o list[put_head]) = Len(list[get_head]) + Len(list[put_head])
    BY <2>1
  <2>4. Len(list[get_head]) \in Nat /\ Len(list[put_head]) \in Nat /\ maxlen \in Nat
    BY <2>1, ConstantsOK
  <2>5. CASE get_head = put_head
    BY <2>2, <2>4, <2>5 DEF Contents
  <2>6. CASE get_head # put_head
    <3>1. Len(Contents) = Len(list[get_head]) + Len(list[put_head])
      BY <2>3, <2>6 DEF Contents
    <3>2. \A a, b, m \in Nat : a <= m /\ b <= m => a + b <= 2 * m
      OBVIOUS
    <3> QED
      BY <2>2, <2>4, <3>1, <3>2
  <2> QED
    BY <2>5, <2>6
<1> QED
  BY <1>1, <1>2, <1>3, Invariance, PTL DEF Spec

-----------------------------------------------------------------------------
(* Appending to the second of two lists appends to the whole. *)
LEMMA AppendConcat ==
  ASSUME NEW S, NEW r \in Seq(S), NEW s \in Seq(S), NEW x \in S
  PROVE  r \o Append(s, x) = Append(r \o s, x)
OBVIOUS

(* Taking from the first of two lists takes from the whole. *)
LEMMA HeadTailConcat ==
  ASSUME NEW S, NEW r \in Seq(S), NEW s \in Seq(S), r # <<>>
  PROVE  /\ r \o s # <<>>
         /\ Head(r \o s) = Head(r)
         /\ Tail(r \o s) = Tail(r) \o s
<1>1. r \o s # <<>>
  BY ConcatEqualIffEmpty, ConcatEmptySeq
<1>2. Head(r \o s) = Head(r)
  BY <1>1
<1>3. Tail(r \o s) = Tail(r) \o s
  BY <1>1
<1> QED
  BY <1>1, <1>2, <1>3

(* A step of t changes what t is doing with the abstract queue, and nobody else. *)
LEMMA OpFrame ==
  ASSUME TypeOK, NEW t \in Threads,
         \A u \in Threads \ {t} : pc'[u] = pc[u] /\ cnt'[u] = cnt[u],
         \A u \in Threads \ {t} : pc[u] = "swap_lists" => msg_cnt' = msg_cnt
  PROVE  [u \in Threads |-> OpOf(u)]' = [[u \in Threads |-> OpOf(u)] EXCEPT ![t] = OpOf(t)']
<1>1. \A u \in Threads \ {t} : OpOf(u)' = OpOf(u)
  BY DEF OpOf
<1> QED
  BY <1>1

(* Every step of the queue is a step of the abstract queue or changes nothing of
   it: PutLink is its put, GetTake its get, SwapCheck the get that finds nothing.
   The swap itself is invisible.                                             *)
LEMMA Refines == ASSUME IInv, Next PROVE Fifo!Next \/ UNCHANGED Fifo!vars
<1> DEFINE op == [u \in Threads |-> OpOf(u)]
<1> USE DEF At, Goto, lists, mutexes, conds, locals
<1> TypeOK /\ Locks /\ ListShape
  BY DEF IInv, Control, Structure
<1>1. ASSUME NEW t \in Producers, NEW m \in Msg, PutCall(t, m) PROVE Fifo!CallPut(t, m)
  <2> t \in Threads
    BY DEF Threads
  <2>1. op' = [op EXCEPT ![t] = "put"] /\ op[t] = "idle"
    <3>1. OpOf(t) = "idle" /\ OpOf(t)' = "put"
      BY <1>1 DEF PutCall, OpOf, TypeOK
    <3> QED
      BY <1>1, <3>1, OpFrame DEF PutCall, TypeOK
  <2>2. Contents' = Contents
    BY <1>1 DEF PutCall, Contents
  <2> QED
    BY <1>1, <2>1, <2>2 DEF PutCall, Fifo!CallPut, Fifo!Becomes
<1>2. ASSUME NEW t \in Threads, PutLink(t) PROVE Fifo!DoPut(t)
  <2>1. op' = [op EXCEPT ![t] = "put_done"] /\ op[t] = "put"
    <3>1. \A u \in Threads \ {t} : pc[u] # "swap_lists"
      BY <1>2 DEF PutLink, TypeOK, Locks, HoldsPut
    <3>2. OpOf(t) = "put" /\ OpOf(t)' = "put_done"
      BY <1>2 DEF PutLink, OpOf, TypeOK
    <3> QED
      BY <1>2, <3>1, <3>2, OpFrame DEF PutLink, TypeOK
  <2>2. Contents' = Append(Contents, val[t])
    <3>1. val[t] \in Msg /\ put_tail = put_head
      BY <1>2 DEF PutLink, IInv, Control, Carried, PutPCs, ListShape
    <3>2. CASE get_head = put_head
      BY <1>2, <3>1, <3>2 DEF PutLink, Contents, TypeOK
    <3>3. CASE get_head # put_head
      BY <1>2, <3>1, <3>3, AppendConcat DEF PutLink, Contents, TypeOK
    <3> QED
      BY <3>2, <3>3
  <2> QED
    BY <1>2, <2>1, <2>2 DEF PutLink, Fifo!DoPut, Fifo!Becomes
<1>3. ASSUME NEW t \in Threads, PutSignal(t) PROVE Fifo!ReturnPut(t)
  <2>1. op' = [op EXCEPT ![t] = "idle"] /\ op[t] = "put_done"
    <3>1. OpOf(t) = "put_done" /\ OpOf(t)' = "idle"
      BY <1>3 DEF PutSignal, OpOf, TypeOK
    <3> QED
      BY <1>3, <3>1, OpFrame DEF PutSignal, TypeOK
  <2>2. Contents' = Contents
    BY <1>3 DEF PutSignal, Contents
  <2> QED
    BY <1>3, <2>1, <2>2 DEF PutSignal, Fifo!ReturnPut, Fifo!Becomes
<1>4. ASSUME NEW t \in Consumers, GetCall(t) PROVE Fifo!CallGet(t)
  <2> t \in Threads
    BY DEF Threads
  <2>1. op' = [op EXCEPT ![t] = "get"] /\ op[t] = "idle"
    <3>1. OpOf(t) = "idle" /\ OpOf(t)' = "get"
      BY <1>4 DEF GetCall, OpOf, TypeOK
    <3> QED
      BY <1>4, <3>1, OpFrame DEF GetCall, TypeOK
  <2>2. Contents' = Contents
    BY <1>4 DEF GetCall, Contents
  <2> QED
    BY <1>4, <2>1, <2>2 DEF GetCall, Fifo!CallGet, Fifo!Becomes
<1>5. ASSUME NEW t \in Threads, GetTake(t) PROVE Fifo!DoGet(t)
  <2>1. op' = [op EXCEPT ![t] = "get_done"] /\ op[t] = "get"
    <3>1. OpOf(t) = "get" /\ OpOf(t)' = "get_done"
      BY <1>5 DEF GetTake, OpOf, TypeOK
    <3> QED
      BY <1>5, <3>1, OpFrame DEF GetTake, TypeOK
  <2>2. get_head # put_head
    BY <1>5 DEF GetTake, TypeOK, Locks, ListShape, HoldsGet, Swapping, SwapPCs
  <2>3. list[get_head] # <<>> /\ list[get_head] \in Seq(Msg) /\ list[put_head] \in Seq(Msg)
    BY <1>5 DEF GetTake, TypeOK, IInv, Structure, TakeSafe
  <2>4. Contents = list[get_head] \o list[put_head]
    BY <2>2 DEF Contents
  <2>5. Contents' = Tail(list[get_head]) \o list[put_head]
    BY <1>5, <2>2 DEF GetTake, Contents, TypeOK
  <2>6. Contents # <<>> /\ Head(Contents) = Head(list[get_head]) /\ Contents' = Tail(Contents)
    BY <2>3, <2>4, <2>5, HeadTailConcat
  <2> QED
    BY <1>5, <2>1, <2>6 DEF GetTake, Fifo!DoGet, Fifo!Becomes
<1>6. ASSUME NEW t \in Threads, SwapCheck(t) PROVE Fifo!DoGetNull(t) \/ UNCHANGED Fifo!vars
  <2>1. Contents' = Contents /\ UNCHANGED <<nonblock, val>>
    BY <1>6 DEF SwapCheck, Contents
  <2>2. CASE msg_cnt = 0 /\ nonblock
    <3>1. op' = [op EXCEPT ![t] = "get_done"] /\ op[t] = "get"
      <4>1. OpOf(t) = "get" /\ OpOf(t)' = "get_done"
        BY <1>6, <2>2 DEF SwapCheck, OpOf, TypeOK
      <4> QED
        BY <1>6, <4>1, OpFrame DEF SwapCheck, TypeOK
    <3>2. Contents = <<>>
      BY <1>6, <2>2, EmptySeq DEF SwapCheck, Contents, ListShape, TypeOK, Swapping, SwapPCs
    <3> QED
      BY <2>1, <2>2, <3>1, <3>2 DEF Fifo!DoGetNull, Fifo!Becomes
  <2>3. CASE ~(msg_cnt = 0 /\ nonblock)
    <3>1. op' = op
      <4>1. OpOf(t)' = "get" /\ op[t] = "get"
        BY <1>6, <2>3 DEF SwapCheck, OpOf, TypeOK
      <4>2. op' = [op EXCEPT ![t] = "get"]
        BY <1>6, <4>1, OpFrame DEF SwapCheck, TypeOK
      <4> QED
        BY <4>1, <4>2
    <3> QED
      BY <2>1, <3>1 DEF Fifo!vars
  <2> QED
    BY <2>2, <2>3
<1>7. ASSUME NEW t \in Threads, GetUnlock(t) PROVE Fifo!ReturnGet(t)
  <2>1. op' = [op EXCEPT ![t] = "idle"] /\ op[t] = "get_done"
    <3>1. OpOf(t) = "get_done" /\ OpOf(t)' = "idle"
      BY <1>7 DEF GetUnlock, OpOf, TypeOK
    <3> QED
      BY <1>7, <3>1, OpFrame DEF GetUnlock, TypeOK
  <2>2. Contents' = Contents
    BY <1>7 DEF GetUnlock, Contents
  <2> QED
    BY <1>7, <2>1, <2>2 DEF GetUnlock, Fifo!ReturnGet, Fifo!Becomes
<1>8. ASSUME NEW t \in Closers, CloseCall(t) PROVE Fifo!SetMode(TRUE)
  <2> t \in Threads
    BY DEF Threads
  <2>1. op' = [op EXCEPT ![t] = "idle"] /\ op[t] = "idle"
    <3>1. OpOf(t) = "idle" /\ OpOf(t)' = "idle"
      BY <1>8 DEF CloseCall, OpOf, TypeOK
    <3> QED
      BY <1>8, <3>1, OpFrame DEF CloseCall, TypeOK
  <2>2. Contents' = Contents /\ op' = op
    BY <1>8, <2>1 DEF CloseCall, Contents
  <2> QED
    BY <1>8, <2>2 DEF CloseCall, Fifo!SetMode
<1>9. ASSUME NEW t \in Openers, OpenCall(t) PROVE Fifo!SetMode(FALSE)
  BY <1>9 DEF OpenCall, Contents, OpOf, Fifo!SetMode
<1>10. ASSUME NEW t \in Threads, UNCHANGED <<lists, nonblock, locals>>,
              \E l \in PCs : pc' = [pc EXCEPT ![t] = l],
              OpOf(t)' = OpOf(t)
       PROVE  UNCHANGED Fifo!vars
  <2>1. op' = [op EXCEPT ![t] = OpOf(t)]
    BY <1>10, OpFrame DEF TypeOK
  <2>2. op' = op /\ Contents' = Contents
    BY <1>10, <2>1 DEF Contents
  <2> QED
    BY <1>10, <2>2 DEF Fifo!vars
<1>11. ASSUME NEW t \in Threads,
              \/ PutLock(t) \/ PutCheck(t) \/ PutBlock(t) \/ PutWake(t) \/ PutUnlock(t)
       PROVE  UNCHANGED Fifo!vars
  BY <1>11, <1>10, ZenonT(40) DEF PutLock, PutCheck, PutBlock, PutWake, PutUnlock, OpOf, TypeOK, PCs, PutPCs
<1>12. ASSUME NEW t \in Threads, GetLock(t) \/ SwapLock(t) \/ SwapBlock(t) \/ SwapWake(t)
       PROVE  UNCHANGED Fifo!vars
  BY <1>12, <1>10 DEF GetLock, SwapLock, SwapBlock, SwapWake, OpOf, TypeOK, PCs, GetPCs, SwapPCs
<1>13. ASSUME NEW t \in Threads, SwapUnlock(t) PROVE UNCHANGED Fifo!vars
  <2>1. OpOf(t)' = OpOf(t)
    BY <1>13 DEF SwapUnlock, OpOf, TypeOK
  <2> QED
    BY <1>13, <1>10, <2>1 DEF SwapUnlock, PCs, GetPCs
<1>14. ASSUME NEW t \in Threads, CloseLock(t) \/ CloseSignal(t) \/ CloseUnlock(t)
       PROVE  UNCHANGED Fifo!vars
  BY <1>14, <1>10, ZenonT(40) DEF CloseLock, CloseSignal, CloseUnlock, OpOf, TypeOK, PCs, ClosePCs
<1>15. ASSUME NEW t \in Threads, SpuriousWake(t) PROVE UNCHANGED Fifo!vars
  BY <1>15 DEF SpuriousWake, OpOf, Contents, Fifo!vars
<1>16. ASSUME NEW t \in Threads, GetTest(t) PROVE UNCHANGED Fifo!vars
  <2>1. op' = [op EXCEPT ![t] = "get"] /\ op[t] = "get"
    <3>1. OpOf(t) = "get" /\ OpOf(t)' = "get"
      BY <1>16 DEF GetTest, OpOf, TypeOK
    <3> QED
      BY <1>16, <3>1, OpFrame DEF GetTest, TypeOK
  <2>2. get_head # put_head
    <3>1. \A u \in Threads : pc[u] \in HoldsGet => u = t
      BY <1>16 DEF GetTest, Locks, HoldsGet
    <3>2. pc[t] \notin Swapping
      BY <1>16 DEF GetTest, Swapping, SwapPCs
    <3> QED
      BY <3>1, <3>2 DEF ListShape, HoldsGet, Swapping
  <2>3. Contents' = Contents
    <3>1. CASE list[get_head] # <<>>
      BY <1>16, <3>1 DEF GetTest, Contents
    <3>2. CASE list[get_head] = <<>>
      <4>1. Contents = list[put_head]
        BY <2>2, <3>2, ConcatEmptySeq DEF Contents, TypeOK
      <4>2. Contents' = list[put_head]
        BY <1>16, <3>2 DEF GetTest, Contents
      <4> QED
        BY <4>1, <4>2
    <3> QED
      BY <3>1, <3>2
  <2> QED
    BY <1>16, <2>1, <2>3 DEF GetTest, Fifo!vars
<1>17. ASSUME NEW t \in Threads, SwapLists(t) PROVE UNCHANGED Fifo!vars
  <2>1. op' = [op EXCEPT ![t] = OpOf(t)] /\ op[t] = OpOf(t)
    <3>1. \A u \in Threads \ {t} : pc[u] # "swap_lists"
      BY <1>17 DEF SwapLists, TypeOK, Locks, HoldsPut
    <3>2. OpOf(t)' = OpOf(t)
      BY <1>17 DEF SwapLists, OpOf, TypeOK
    <3> QED
      BY <1>17, <3>1, <3>2, OpFrame DEF SwapLists, TypeOK
  <2>2. get_head = put_head /\ old[t] # put_head /\ list[old[t]] = <<>>
    BY <1>17 DEF SwapLists, ListShape, Swapping, SwapPCs
  <2>3. Contents' = Contents
    <3>1. Contents = list[put_head]
      BY <2>2 DEF Contents
    <3>2. Contents' = list[put_head] \o list[old[t]]
      BY <1>17, <2>2 DEF SwapLists, Contents
    <3> QED
      BY <2>2, <3>1, <3>2, ConcatEmptySeq DEF TypeOK
  <2> QED
    BY <1>17, <2>1, <2>3 DEF SwapLists, Fifo!vars
<1> QED
  BY <1>1, <1>2, <1>3, <1>4, <1>5, <1>6, <1>7, <1>8, <1>9, <1>11, <1>12, <1>13, <1>14, <1>15, <1>16, <1>17
     DEF Next, Acquire, Run, Fifo!Next, Threads

(* msgqueue.c implements the FIFO queue of FifoQueue. *)
THEOREM Refinement == Spec => ImplementsFifo
<1>1. Init => Fifo!Init
  BY ConcatEmptySeq, EmptySeq DEF Init, Fifo!Init, Contents, OpOf, Heads
<1>2. IInv /\ [Next]_vars => [Fifo!Next]_(Fifo!vars)
  <2>1. UNCHANGED vars => UNCHANGED Fifo!vars
    BY DEF vars, lists, locals, Fifo!vars, Contents, OpOf
  <2> QED
    BY <2>1, Refines
<1> QED
  BY <1>1, <1>2, Invariance, PTL DEF Spec, ImplementsFifo, Fifo!Spec
=============================================================================
