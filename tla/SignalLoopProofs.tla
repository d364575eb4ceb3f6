-------------------------- MODULE SignalLoopProofs --------------------------
(***************************************************************************)
(* Proofs about SignalLoop, for any set of signals and any limits.         *)
(*                                                                         *)
(* That the loop ends only when asked depends on where stop_server comes   *)
(* from: the signals read from the socket pair, all of which a handler put *)
(* there, and on errno being EINTR whenever the loop looks at it.  That no *)
(* signal is forgotten depends on recv emptying the pair, and on the list  *)
(* of events being empty whenever epoll_wait fills it.                     *)
(***************************************************************************)
EXTENDS SignalLoop, TLAPS, SequenceTheorems

(* A stop signal in the socket pair, or remembered in stop_server, was delivered. *)
Delivered ==
  /\ stop => asked
  /\ \A i \in DOMAIN pipe : pipe[i] \in StopSignals => asked

(* epoll_wait fails with EINTR only, and handlers leave errno alone. *)
Interrupted == pc = "failed" => errno = "EINTR"

(* The events of one epoll_wait are all handled before the next. *)
Handled == pc \in {"test", "wait", "failed"} => events = {}

(* The inductive invariant. *)
IInv == TypeOK /\ Delivered /\ Interrupted /\ Handled /\ StopAsked /\ NoForgottenSignal

(* One recv empties the socket pair: what it holds fits in the buffer. *)
LEMMA RecvEmpties == ASSUME TypeOK PROVE SubSeq(pipe, RecvMax + 1, Len(pipe)) = <<>>
<1>1. RecvMax + 1 > Len(pipe) /\ pipe \in Seq(Signals)
  BY LoopConstantsOK, LenProperties DEF TypeOK
<1>2. Len(SubSeq(pipe, RecvMax + 1, Len(pipe))) = 0
  BY <1>1, LoopConstantsOK
<1> QED
  BY <1>1, <1>2, LoopConstantsOK

(* The handler keeps the invariant wherever it interrupts the loop. *)
LEMMA HandlerStep == ASSUME IInv, NEW s \in Signals, SigHandler(s) PROVE IInv'
<1> USE LoopConstantsOK DEF IInv, SigHandler, Goto, Ended, ErrnoAfterHandler
<1>1. CASE pc \notin {"close_write", "return"} /\ Len(pipe) < PipeCap
  <2>1. pipe' = Append(pipe, s) /\ ready' = ready \cup {"pipe"}
    BY <1>1
  <2>2. /\ pipe' \in Seq(Signals)
        /\ Len(pipe') = Len(pipe) + 1
        /\ \A i \in 1..Len(pipe) : pipe'[i] = pipe[i]
        /\ pipe'[Len(pipe) + 1] = s
        /\ DOMAIN pipe' = 1..(Len(pipe) + 1)
    BY <2>1 DEF TypeOK
  <2>3. TypeOK'
    BY <1>1, <2>1, <2>2 DEF TypeOK, Fds
  <2>4. Delivered'
    <3>1. (asked => asked') /\ (s \in StopSignals => asked')
      OBVIOUS
    <3>2. ASSUME NEW i \in DOMAIN pipe', pipe'[i] \in StopSignals PROVE asked'
      <4>1. i \in 1..Len(pipe) \/ i = Len(pipe) + 1
        BY <2>2 DEF TypeOK
      <4> QED
        BY <2>2, <3>1, <3>2, <4>1 DEF Delivered, TypeOK
    <3> QED
      BY <3>1, <3>2 DEF Delivered
  <2>5. Interrupted' /\ Handled' /\ StopAsked'
    BY DEF Interrupted, Handled, StopAsked, TypeOK
  <2>6. NoForgottenSignal'
    BY <2>1 DEF NoForgottenSignal
  <2> QED
    BY <2>3, <2>4, <2>5, <2>6
<1>2. CASE ~(pc \notin {"close_write", "return"} /\ Len(pipe) < PipeCap)
  <2>1. UNCHANGED <<pipe, ready>>
    BY <1>2
  <2>2. TypeOK'
    BY <2>1 DEF TypeOK
  <2>3. Delivered'
    BY <2>1 DEF Delivered
  <2>4. Interrupted' /\ Handled' /\ StopAsked' /\ NoForgottenSignal'
    BY <2>1 DEF Interrupted, Handled, StopAsked, NoForgottenSignal, TypeOK
  <2> QED
    BY <2>2, <2>3, <2>4
<1> QED
  BY <1>1, <1>2

(* So does every step of the loop. *)
LEMMA MainStep == ASSUME IInv, Main PROVE IInv'
<1> USE LoopConstantsOK DEF IInv, TypeOK, Delivered, Interrupted, Handled, StopAsked,
      NoForgottenSignal, kernel, locals, Goto, Fds
<1>1. CASE TestStop
  BY <1>1 DEF TestStop
<1>2. CASE EpollWait
  <2>1. pipe # <<>> => "pipe" \in Reported
    BY <1>2 DEF EpollWait, Reported, Readable
  <2> QED
    BY <1>2, <2>1 DEF EpollWait, Reported
<1>3. CASE WaitFailed
  BY <1>3 DEF WaitFailed
<1>4. CASE Accept
  <2>1. backlog' \in 0..MaxBacklog /\ conns' \in 0..MaxConn
    BY <1>4 DEF Accept
  <2>2. ready' \in SUBSET Fds /\ ready \subseteq ready'
    BY <1>4 DEF Accept
  <2> QED
    BY <1>4, <2>1, <2>2 DEF Accept
<1>5. CASE Receive
  <2>1. pipe' = <<>>
    BY <1>5, RecvEmpties DEF Receive
  <2>2. stop' => asked
    BY <1>5 DEF Receive
  <2> QED
    BY <1>5, <2>1, <2>2 DEF Receive
<1>6. CASE Ignore
  BY <1>6 DEF Ignore
<1>7. CASE EventsDone
  BY <1>7 DEF EventsDone
<1>8. CASE CloseFds
  BY <1>8 DEF CloseFds
<1> QED
  BY <1>1, <1>2, <1>3, <1>4, <1>5, <1>6, <1>7, <1>8 DEF Main

-----------------------------------------------------------------------------
(* Every reachable state of the server satisfies the inductive invariant. *)
THEOREM Invariance == Spec => []IInv
<1> USE LoopConstantsOK
<1>1. Init => IInv
  <2>1. Init => pipe \in Seq(Signals) /\ Len(pipe) = 0 /\ DOMAIN pipe = {}
    BY EmptySeq DEF Init
  <2>2. Init => TypeOK
    <3>1. 0 \in 0..MaxBacklog /\ 0 \in 0..MaxConn /\ 0 <= PipeCap
      OBVIOUS
    <3>2. Init => /\ asked \in BOOLEAN /\ stop \in BOOLEAN
                  /\ pending \in SUBSET Signals
                  /\ ready \in SUBSET Fds /\ events \in SUBSET Fds
      BY DEF Init
    <3> QED
      BY <2>1, <3>1, <3>2 DEF Init, TypeOK
  <2>3. Init => Delivered /\ Interrupted /\ Handled /\ StopAsked /\ NoForgottenSignal
    BY <2>1 DEF Init, Delivered, Interrupted, Handled, StopAsked, NoForgottenSignal
  <2> QED
    BY <2>2, <2>3 DEF IInv
<1>2. IInv /\ [Next]_vars => IInv'
  <2> SUFFICES ASSUME IInv, [Next]_vars PROVE IInv'
    OBVIOUS
  <2> USE DEF IInv, TypeOK, Delivered, Interrupted, Handled, StopAsked, NoForgottenSignal,
        kernel, locals
  <2>1. ASSUME NEW s \in Signals, Raise(s) PROVE IInv'
    BY <2>1 DEF Raise
  <2>2. CASE Connect
    BY <2>2 DEF Connect, Fds
  <2>3. CASE Data
    BY <2>3 DEF Data, Fds
  <2>4. CASE UNCHANGED vars
    BY <2>4 DEF vars
  <2> QED
    BY <2>1, <2>2, <2>3, <2>4, MainStep, HandlerStep DEF Next
<1> QED
  BY <1>1, <1>2, PTL DEF Spec

(* main leaves its loop only after a SIGTERM or SIGINT was delivered: no interrupted
   epoll_wait is taken for an error, whatever handlers run before errno is read. *)
THEOREM OnlyWhenAsked == Spec => []StopAsked
<1>1. IInv => StopAsked
  BY DEF IInv
<1> QED
  BY <1>1, Invariance, PTL

(* While the loop runs, signals in the socket pair have an event to come, although the
   pair is watched edge-triggered and read once per event.                   *)
THEOREM NothingForgotten == Spec => []NoForgottenSignal
<1>1. IInv => NoForgottenSignal
  BY DEF IInv
<1> QED
  BY <1>1, Invariance, PTL
=============================================================================
