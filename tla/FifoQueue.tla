------------------------------ MODULE FifoQueue ------------------------------
(***************************************************************************)
(* What msgqueue promises its callers, with no lock, list or condition     *)
(* variable in sight: a FIFO queue whose operations take effect at one     *)
(* instant between their call and their return.                            *)
(*                                                                         *)
(*   msgqueue_put          appends its message, once;                      *)
(*   msgqueue_get          removes and returns the oldest message, or, in  *)
(*                         nonblocking mode only, finds the queue empty    *)
(*                         and returns NULL;                               *)
(*   msgqueue_set_nonblock and msgqueue_set_block switch the mode.         *)
(***************************************************************************)
EXTENDS Sequences

CONSTANTS Threads,  (* every thread that calls the queue          *)
          Msg,      (* the messages                               *)
          NULL      (* the null pointer: not a message            *)

VARIABLES q,        (* the messages pending, oldest first         *)
          nonblock, (* TRUE: get does not wait for a message      *)
          op,       (* what each thread is doing with the queue   *)
          val       (* the message it puts, or the one it got     *)

vars == <<q, nonblock, op, val>>

Ops == {"idle", "put", "put_done", "get", "get_done"}

Init ==
  /\ q = <<>>
  /\ nonblock = FALSE
  /\ op = [t \in Threads |-> "idle"]
  /\ val = [t \in Threads |-> NULL]

Becomes(t, from, to) ==
  /\ op[t] = from
  /\ op' = [op EXCEPT ![t] = to]

-----------------------------------------------------------------------------
(* msgqueue_put: call, effect, return. *)

CallPut(t, m) ==
  /\ Becomes(t, "idle", "put")
  /\ val' = [val EXCEPT ![t] = m]
  /\ UNCHANGED <<q, nonblock>>

DoPut(t) ==
  /\ Becomes(t, "put", "put_done")
  /\ q' = Append(q, val[t])
  /\ UNCHANGED <<nonblock, val>>

ReturnPut(t) ==
  /\ Becomes(t, "put_done", "idle")
  /\ val' = [val EXCEPT ![t] = NULL]
  /\ UNCHANGED <<q, nonblock>>

-----------------------------------------------------------------------------
(* msgqueue_get: call, effect (a message, or none), return. *)

CallGet(t) ==
  /\ Becomes(t, "idle", "get")
  /\ UNCHANGED <<q, nonblock, val>>

DoGet(t) ==
  /\ Becomes(t, "get", "get_done")
  /\ q # <<>>
  /\ q' = Tail(q)
  /\ val' = [val EXCEPT ![t] = Head(q)]
  /\ UNCHANGED nonblock

DoGetNull(t) ==
  /\ Becomes(t, "get", "get_done")
  /\ q = <<>>
  /\ nonblock
  /\ UNCHANGED <<q, nonblock, val>>

ReturnGet(t) ==
  /\ Becomes(t, "get_done", "idle")
  /\ val' = [val EXCEPT ![t] = NULL]
  /\ UNCHANGED <<q, nonblock>>

-----------------------------------------------------------------------------
SetMode(b) ==
  /\ nonblock' = b
  /\ UNCHANGED <<q, op, val>>

Next ==
  \/ \E t \in Threads :
       \/ \E m \in Msg : CallPut(t, m)
       \/ DoPut(t) \/ ReturnPut(t)
       \/ CallGet(t) \/ DoGet(t) \/ DoGetNull(t) \/ ReturnGet(t)
  \/ \E b \in BOOLEAN : SetMode(b)

Spec == Init /\ [][Next]_vars
=============================================================================
