------------------------------ MODULE ByteQueue ------------------------------
(***************************************************************************)
(* What Buffer and BufferVector promise, without positions, capacities or  *)
(* memory: byte queues.  A buffer is a sequence of bytes written at one    *)
(* end and read at the other; a vector of buffers is one long sequence     *)
(* whose front is given up a chunk at a time.  call is the last call and   *)
(* the bytes it took from or gave to its caller.                           *)
(***************************************************************************)
EXTENDS Naturals, Sequences

CONSTANTS Buffers,  (* the buffers *)
          Bytes     (* the bytes   *)

VARIABLES content,  (* the bytes in each buffer                    *)
          stream,   (* the bytes in the buffer vector              *)
          call      (* the last call, with the bytes it was about  *)

vars == <<content, stream, call>>

Called(op) == call'.op = op /\ call'.bytes \in Seq(Bytes)

Init ==
  /\ content = [b \in Buffers |-> <<>>]
  /\ stream = <<>>
  /\ call = [op |-> "none", bytes |-> <<>>]

(* The caller's bytes enter at the end. *)
Push(b) ==
  /\ Called("push")
  /\ content' = [content EXCEPT ![b] = @ \o call'.bytes]
  /\ UNCHANGED stream

(* The bytes at the front leave and are what the caller gets. *)
Pop(b) ==
  /\ Called("pop")
  /\ content = [content' EXCEPT ![b] = call'.bytes \o @]
  /\ UNCHANGED stream

Clear(b) ==
  /\ Called("clear")
  /\ content' = [content EXCEPT ![b] = <<>>]
  /\ UNCHANGED stream

Exchange(a, b) ==
  /\ Called("swap")
  /\ content' = [content EXCEPT ![a] = content[b], ![b] = content[a]]
  /\ UNCHANGED stream

Move(a, b) ==
  /\ Called("move")
  /\ content' = [content EXCEPT ![a] = content[b], ![b] = <<>>]
  /\ UNCHANGED stream

(* The caller's bytes, or the bytes of buffer b, which may keep them, enter the stream. *)
PushStream ==
  /\ Called("vpush")
  /\ stream' = stream \o call'.bytes
  /\ \/ UNCHANGED content
     \/ \E b \in Buffers : /\ call'.bytes = content[b]
                           /\ content' = [content EXCEPT ![b] = <<>>]

PopStream ==
  /\ Called("vpop")
  /\ stream = call'.bytes \o stream'
  /\ UNCHANGED content

ClearStream ==
  /\ Called("vclear")
  /\ stream' = <<>>
  /\ UNCHANGED content

(* A call that manages memory changes nothing that can be read. *)
Manage == Called("none") /\ UNCHANGED <<content, stream>>

Next ==
  \/ \E b \in Buffers : Push(b) \/ Pop(b) \/ Clear(b)
  \/ \E a, b \in Buffers : Exchange(a, b) \/ Move(a, b)
  \/ PushStream \/ PopStream \/ ClearStream
  \/ Manage

Spec == Init /\ [][Next]_vars
=============================================================================
