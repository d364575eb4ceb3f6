-------------------------------- MODULE Buffer --------------------------------
(***************************************************************************)
(* netbridge/Buffer.h and Buffer.cc: a growable byte buffer with a read    *)
(* and a write position, and BufferVector, a list of buffers.              *)
(*                                                                         *)
(* A buffer is a record of its positions, its capacity and its memory; the *)
(* memory is the array behind buffer_, <<>> for the null pointer.  Memory  *)
(* from new char[n] holds Junk, and so, between calls, does all memory     *)
(* outside the readable part: whoever reads a byte there is wrong whether  *)
(* or not it is an old one.  kDefaultSize, kMaxBufferSize, the size  *)
(* below which Shrink keeps an empty buffer's memory and kMinSize are      *)
(* parameters: their order matters, not their values.                      *)
(***************************************************************************)
EXTENDS Naturals, Sequences, SequencesExt

CONSTANTS Buffers,        (* the buffers                                   *)
          Bytes,          (* the bytes                                     *)
          Junk,           (* what uninitialized memory holds: not a byte   *)
          kDefaultSize,   (* the first capacity                            *)
          kMaxBufferSize, (* the most a buffer takes                       *)
          kKeep,          (* 8 * 1024 in Shrink                            *)
          kMinSize,       (* a BufferVector merges into a smaller buffer   *)
          MaxPush,        (* bound: bytes in one write                     *)
          MaxStream       (* bound: bytes in the buffer vector             *)

ASSUME ConstantsOK ==
  /\ Junk \notin Bytes
  /\ kDefaultSize \in Nat \ {0, 1}   (* half of it is not 0, so AssureSpace grows *)
  /\ {kMaxBufferSize, kKeep, kMinSize, MaxPush, MaxStream} \subseteq Nat
  /\ MaxStream < kMaxBufferSize      (* which is half of what a size_t can count *)

VARIABLES buf,        (* the buffers                                       *)
          moved,      (* buffers moved from and not assigned since         *)
          vec,        (* BufferVector::buffers                             *)
          totalBytes, (* BufferVector::totalBytes                          *)
          call        (* the last call, with the bytes it took or gave     *)

vars == <<buf, moved, vec, totalBytes, call>>

-----------------------------------------------------------------------------
(* A buffer: positions, capacity, memory. *)

Empty == [readPos |-> 0, writePos |-> 0, capacity |-> 0, memory |-> <<>>]

ReadableSize(b) == b.writePos - b.readPos
WritableSize(b) == b.capacity - b.writePos
IsEmpty(b) == ReadableSize(b) = 0

(* What can be read. *)
Data(b) == SubSeq(b.memory, b.readPos + 1, b.writePos)

(* new char[n], with s copied to its front. *)
Allocate(n, s) == [i \in 1..n |-> IF i <= Len(s) THEN s[i] ELSE Junk]

(* memcpy or memmove of s to position at. *)
Copy(memory, at, s) ==
  [i \in DOMAIN memory |-> IF i \in (at + 1)..(at + Len(s)) THEN s[i - at] ELSE memory[i]]

RoundUp2Power(size) ==
  LET up[r \in Nat] == IF r < size THEN up[2 * r] ELSE r
  IN  IF size = 0 THEN 0 ELSE up[1]

(* Between calls only the readable bytes are worth something. *)
Forget(b) ==
  [b EXCEPT !.memory = [i \in DOMAIN @ |->
                          IF i \in (b.readPos + 1)..b.writePos THEN @[i] ELSE Junk]]

Clear(b) == [b EXCEPT !.readPos = 0, !.writePos = 0]

(* The capacity at the end of AssureSpace's loop. *)
Grow(b, needsize) ==
  LET grow[c \in Nat] ==
        IF c - b.writePos + b.readPos >= needsize THEN c
        ELSE IF c < kDefaultSize THEN grow[kDefaultSize]
        ELSE LET n == RoundUp2Power(c)
             IN  grow[IF c < n THEN n ELSE (3 * n) \div 2]
  IN  grow[b.capacity]

(* AssureSpace that forgets to move the data to the front when it does not grow. *)
AssureSpaceInPlace(b, needsize) ==
  IF WritableSize(b) >= needsize THEN b
  ELSE LET cap == Grow(b, needsize)
       IN  [readPos |-> 0, writePos |-> ReadableSize(b), capacity |-> cap,
            memory |-> IF b.capacity < cap THEN Allocate(cap, Data(b)) ELSE b.memory]

(* AssureSpace that forgets that the data before readPos_ is gone. *)
AssureSpaceNoRoom(b, needsize) ==
  IF WritableSize(b) + b.readPos >= needsize THEN b
  ELSE LET cap == Grow(b, needsize)
       IN  [readPos |-> 0, writePos |-> ReadableSize(b), capacity |-> cap,
            memory |-> Allocate(cap, Data(b))]

AssureSpace(b, needsize) ==
  IF WritableSize(b) >= needsize THEN b
  ELSE LET cap == Grow(b, needsize)
       IN  [readPos |-> 0, writePos |-> ReadableSize(b), capacity |-> cap,
            memory |-> IF b.capacity < cap THEN Allocate(cap, Data(b))
                                           ELSE Copy(b.memory, 0, Data(b))]

(* What PushDataAt returns: it takes all or nothing. *)
Taken(b, s, offset) ==
  IF ReadableSize(b) + Len(s) + offset >= kMaxBufferSize THEN 0 ELSE Len(s)

(* PushDataAt writes behind the write position, Produce moves it. *)
PushDataAt(b, s, offset) ==
  IF Taken(b, s, offset) = 0 THEN b
  ELSE LET room == AssureSpace(b, Len(s) + offset)
       IN  [room EXCEPT !.memory = Copy(@, room.writePos + offset, s)]

Produce(b, n) == [b EXCEPT !.writePos = @ + n]

PushData(b, s) == Produce(PushDataAt(b, s, 0), Taken(b, s, 0))

Consume(b, n) ==
  LET rest == [b EXCEPT !.readPos = @ + n]
  IN  IF IsEmpty(rest) THEN Clear(rest) ELSE rest

(* The bytes PeekDataAt copies out: what there is, up to size. *)
PeekDataAt(b, size, offset) ==
  LET data == Data(b)
      n == IF size + offset > Len(data) THEN Len(data) - offset ELSE size
  IN  IF Len(data) <= offset THEN <<>> ELSE SubSeq(data, offset + 1, offset + n)

PopData(b, size) == Consume(b, Len(PeekDataAt(b, size, 0)))

Shrink(b) ==
  IF IsEmpty(b) THEN IF b.capacity > kKeep THEN Empty ELSE b
  ELSE IF ReadableSize(b) > b.capacity \div 4 THEN b
  ELSE LET cap == RoundUp2Power(ReadableSize(b))
       IN  [readPos |-> 0, writePos |-> ReadableSize(b), capacity |-> cap,
            memory |-> Allocate(cap, Data(b))]

(* _MoveFrom: what is left of the other buffer.  Its memory is gone; its capacity
   goes only if Shrink thinks it large.                                      *)
MovedFrom(b) == Shrink(Clear([b EXCEPT !.memory = <<>>]))

-----------------------------------------------------------------------------
TypeOK ==
  /\ \A x \in Buffers :
       /\ {buf[x].readPos, buf[x].writePos, buf[x].capacity} \subseteq Nat
       /\ buf[x].memory \in Seq(Bytes \cup {Junk})
  /\ moved \in SUBSET Buffers
  /\ totalBytes \in Nat

Init ==
  /\ buf = [x \in Buffers |-> Empty]
  /\ moved = {}
  /\ vec = <<>>
  /\ totalBytes = 0
  /\ call = [op |-> "none", bytes |-> <<>>]

Call(op, bytes) == call' = [op |-> op, bytes |-> bytes]

Writes == BoundedSeq(Bytes, MaxPush) \ {<<>>}

(* The callers stay below kMaxBufferSize, where PushData would fail its assertion. *)
Fits(b, n) == ReadableSize(b) + n < kMaxBufferSize

(* A buffer may be used unless it was moved from. *)
Usable(x) == x \notin moved

Set(x, b) ==
  /\ Usable(x)
  /\ buf' = [buf EXCEPT ![x] = Forget(b)]
  /\ UNCHANGED <<moved, vec, totalBytes>>

DoPushData(x) ==
  \E s \in Writes :
    /\ Fits(buf[x], Len(s))
    /\ Set(x, PushData(buf[x], s)) /\ Call("push", s)

(* A header in front of a body: the body is written first, behind the room for the
   header, and both are produced together.                                   *)
DoPushFramed(x) ==
  \E head, body \in Writes :
    /\ Fits(buf[x], Len(head) + Len(body))
    /\ Set(x, Produce(PushDataAt(PushDataAt(buf[x], body, Len(head)), head, 0),
                      Len(head) + Len(body)))
    /\ Call("push", head \o body)

DoPopData(x) ==
  \E n \in 0..(MaxPush + 1) :
    Set(x, PopData(buf[x], n)) /\ Call("pop", PeekDataAt(buf[x], n, 0))

(* A caller that reads at ReadAddr() and then consumes what it has used. *)
DoConsume(x) ==
  \E n \in 0..ReadableSize(buf[x]) :
    Set(x, Consume(buf[x], n)) /\ Call("pop", SubSeq(Data(buf[x]), 1, n))

DoAssureSpace(x) ==
  \E n \in 1..MaxPush :
    /\ Fits(buf[x], n)
    /\ Set(x, AssureSpace(buf[x], n)) /\ Call("none", <<>>)

DoShrink(x) == Set(x, Shrink(buf[x])) /\ Call("none", <<>>)

DoClear(x) == Set(x, Clear(buf[x])) /\ Call("clear", <<>>)

Swap(x, y) ==
  /\ buf' = [buf EXCEPT ![x] = buf[y], ![y] = buf[x]]
  /\ moved' = {z \in Buffers : \/ z \notin {x, y} /\ z \in moved
                               \/ z = x /\ y \in moved
                               \/ z = y /\ x \in moved}
  /\ Call("swap", <<>>)
  /\ UNCHANGED <<vec, totalBytes>>

(* x = std::move(y). *)
MoveFrom(x, y) ==
  /\ x # y /\ Usable(y)
  /\ buf' = [buf EXCEPT ![x] = buf[y], ![y] = MovedFrom(buf[y])]
  /\ moved' = (moved \ {x}) \cup {y}
  /\ Call("move", <<>>)
  /\ UNCHANGED <<vec, totalBytes>>

-----------------------------------------------------------------------------
(* BufferVector. *)

ShouldMerge == vec # <<>> /\ ReadableSize(Last(vec)) < kMinSize

VecPushData ==
  \E s \in Writes :
    /\ totalBytes + Len(s) <= MaxStream
    /\ totalBytes' = totalBytes + Len(s)
    /\ vec' = IF ShouldMerge THEN ReplaceAt(vec, Len(vec), Forget(PushData(Last(vec), s)))
                             ELSE Append(vec, Forget(PushData(Empty, s)))
    /\ Call("vpush", s)
    /\ UNCHANGED <<buf, moved>>

(* Push(Buffer&&) that counts only what it merges. *)
VecPushBufferNoCount(x) ==
  /\ Usable(x)
  /\ totalBytes + ReadableSize(buf[x]) <= MaxStream
  /\ Call("vpush", Data(buf[x]))
  /\ \/ /\ ShouldMerge
        /\ vec' = ReplaceAt(vec, Len(vec), Forget(PushData(Last(vec), Data(buf[x]))))
        /\ totalBytes' = totalBytes + ReadableSize(buf[x])
        /\ UNCHANGED <<buf, moved>>
     \/ /\ ~ShouldMerge
        /\ vec' = Append(vec, buf[x])
        /\ buf' = [buf EXCEPT ![x] = MovedFrom(@)]
        /\ moved' = moved \cup {x}
        /\ UNCHANGED totalBytes

VecPushBuffer(x) ==
  /\ Usable(x)
  /\ totalBytes + ReadableSize(buf[x]) <= MaxStream
  /\ Call("vpush", Data(buf[x]))
  /\ totalBytes' = totalBytes + ReadableSize(buf[x])
  /\ \/ /\ ShouldMerge
        /\ vec' = ReplaceAt(vec, Len(vec), Forget(PushData(Last(vec), Data(buf[x]))))
        /\ UNCHANGED <<buf, moved>>
     \/ /\ ~ShouldMerge
        /\ vec' = Append(vec, buf[x])
        /\ buf' = [buf EXCEPT ![x] = MovedFrom(@)]
        /\ moved' = moved \cup {x}

VecPop ==
  /\ vec # <<>>
  /\ totalBytes' = totalBytes - ReadableSize(Head(vec))
  /\ vec' = Tail(vec)
  /\ Call("vpop", Data(Head(vec)))
  /\ UNCHANGED <<buf, moved>>

VecClear ==
  /\ vec' = <<>>
  /\ totalBytes' = 0
  /\ Call("vclear", <<>>)
  /\ UNCHANGED <<buf, moved>>

-----------------------------------------------------------------------------
Next ==
  \/ \E x \in Buffers :
       \/ DoPushData(x) \/ DoPushFramed(x) \/ DoPopData(x) \/ DoConsume(x)
       \/ DoAssureSpace(x) \/ DoShrink(x) \/ DoClear(x)
       \/ VecPushBuffer(x)
  \/ \E x, y \in Buffers : Swap(x, y) \/ MoveFrom(x, y)
  \/ VecPushData \/ VecPop \/ VecClear

Spec == Init /\ [][Next]_vars

-----------------------------------------------------------------------------
(* Positions are in order and inside the memory there is. *)
Sound(b) ==
  /\ b.readPos <= b.writePos
  /\ b.writePos <= b.capacity
  /\ Len(b.memory) = b.capacity

(* Every buffer that may be used, in a vector or not, can be read and written where
   its positions say, after any sequence of writes, reads, growth, Shrink, Swap
   and moves (the assertions of PushDataAt and Consume).                     *)
BuffersSound ==
  /\ \A x \in Buffers : Usable(x) => Sound(buf[x])
  /\ \A i \in DOMAIN vec : Sound(vec[i])

(* What the buffers of a vector hold, one after the other. *)
Stream == FlattenSeq([i \in DOMAIN vec |-> Data(vec[i])])

(* TotalBytes() is what the buffers of a vector hold together. *)
TotalRight == totalBytes = Len(Stream)

(* The refinement: a buffer is the bytes between its positions. *)
Queue == INSTANCE ByteQueue
           WITH content <- [x \in Buffers |-> Data(buf[x])],
                stream <- Stream

(* Buffers and vectors of buffers are byte queues: growing, compacting, shrinking,
   swapping and merging lose, repeat and reorder nothing, and no uninitialized
   byte is ever read.                                                        *)
ImplementsQueue == Queue!Spec
=============================================================================
