----------------------------- MODULE BufferProofs -----------------------------
(***************************************************************************)
(* Proofs about Buffer, for any buffers and bytes, any capacities and any  *)
(* length of the writes.                                                   *)
(*                                                                         *)
(* The work is in the operators.  A buffer is good when its positions are  *)
(* sound and every readable position holds a byte; each operation of       *)
(* Buffer.cc makes a good buffer of a good one, and what it does to Data   *)
(* is stated once, next to it: AssureSpace and Shrink keep it, PushData    *)
(* adds at its end, Consume takes from its front.  The invariant then only *)
(* says that the buffers that may be used, and those of the vector, are    *)
(* good, that one moved from has nothing to read, and that the vector      *)
(* holds as many bytes as it counts: without the count a merge could meet  *)
(* a last buffer that is full, and PushData takes all or nothing.          *)
(*                                                                         *)
(* That the loops of RoundUp2Power and AssureSpace end with enough, and    *)
(* what FlattenSeq makes of a longer or shorter vector, is in              *)
(* RecursionProofs.                                                        *)
(***************************************************************************)
EXTENDS Buffer, RecursionProofs

(* What memory holds, and what a buffer is. *)
Cells == Bytes \cup {Junk}

(* A buffer, by the types of its fields. *)
BufT == [readPos : Nat, writePos : Nat, capacity : Nat, memory : Seq(Cells)]

(* A buffer that may be used: sound, with a byte at every readable position. *)
Good(b) ==
  /\ b \in BufT
  /\ Sound(b)
  /\ \A i \in (b.readPos + 1)..b.writePos : b.memory[i] \in Bytes

-----------------------------------------------------------------------------
(* The parts of a good buffer. *)
LEMMA Parts ==
  ASSUME NEW b, Good(b)
  PROVE  /\ b.readPos \in Nat /\ b.writePos \in Nat /\ b.capacity \in Nat
         /\ b.readPos <= b.writePos /\ b.writePos <= b.capacity
         /\ b.memory \in [1..b.capacity -> Cells] /\ DOMAIN b.memory = 1..b.capacity
         /\ ReadableSize(b) \in Nat /\ ReadableSize(b) = b.writePos - b.readPos
         /\ WritableSize(b) \in Nat /\ WritableSize(b) = b.capacity - b.writePos
         /\ b = [readPos |-> b.readPos, writePos |-> b.writePos,
                 capacity |-> b.capacity, memory |-> b.memory]
<1>1. /\ b.readPos \in Nat /\ b.writePos \in Nat /\ b.capacity \in Nat
      /\ b.memory \in Seq(Cells)
      /\ b = [readPos |-> b.readPos, writePos |-> b.writePos,
              capacity |-> b.capacity, memory |-> b.memory]
  BY DEF Good, BufT
<1>2. /\ b.readPos <= b.writePos /\ b.writePos <= b.capacity
      /\ Len(b.memory) = b.capacity
  BY DEF Good, Sound
<1>3. b.memory \in [1..b.capacity -> Cells] /\ DOMAIN b.memory = 1..b.capacity
  BY <1>1, <1>2, LenProperties
<1> QED
  BY <1>1, <1>2, <1>3 DEF ReadableSize, WritableSize

(* And a good buffer from its parts. *)
LEMMA Made ==
  ASSUME NEW r \in Nat, NEW w \in Nat, NEW c \in Nat, r <= w, w <= c,
         NEW m \in [1..c -> Cells], \A i \in (r + 1)..w : m[i] \in Bytes
  PROVE  Good([readPos |-> r, writePos |-> w, capacity |-> c, memory |-> m])
<1>1. m \in Seq(Cells)
  BY SeqDef
<1>2. Len(m) = c
  BY <1>1
<1> HIDE DEF Cells
<1> QED
  BY <1>1, <1>2 DEF Good, BufT, Sound

(* What can be read of it. *)
LEMMA Readable ==
  ASSUME NEW b, Good(b)
  PROVE  /\ Data(b) \in Seq(Bytes) /\ Len(Data(b)) = ReadableSize(b)
         /\ \A i \in 1..ReadableSize(b) : Data(b)[i] = b.memory[b.readPos + i]
<1> DEFINE m == b.readPos + 1
           n == b.writePos
<1>1. m \in Int /\ n \in Int /\ \A i \in m..n : b.memory[i] \in Bytes
  BY Parts DEF Good
<1>2. /\ Data(b) \in Seq(Bytes)
      /\ Len(Data(b)) = IF m <= n THEN n - m + 1 ELSE 0
      /\ \A i \in 1..(n - m + 1) : Data(b)[i] = b.memory[m + i - 1]
  BY <1>1, SubSeqProperties DEF Data
<1>3. /\ b.readPos \in Nat /\ b.writePos \in Nat /\ b.readPos <= b.writePos
      /\ ReadableSize(b) = b.writePos - b.readPos
  BY Parts
<1>4. Len(Data(b)) = ReadableSize(b) /\ ReadableSize(b) = n - m + 1
  BY <1>2, <1>3
<1>5. \A i \in 1..ReadableSize(b) : m + i - 1 = b.readPos + i
  BY <1>3
<1> QED
  BY <1>2, <1>4, <1>5

(* A good buffer with the bytes of s at its readable positions holds s. *)
LEMMA Reads ==
  ASSUME NEW b, Good(b), NEW s \in Seq(Bytes), Len(s) = ReadableSize(b),
         \A i \in 1..Len(s) : b.memory[b.readPos + i] = s[i]
  PROVE  Data(b) = s
  BY Readable, SeqEqual

(* A buffer without readable bytes. *)
LEMMA NothingToRead ==
  ASSUME NEW b, b.readPos \in Nat, b.writePos = b.readPos
  PROVE  Data(b) = <<>>
  BY SubSeqEmpty DEF Data

(* A new buffer is good and holds nothing. *)
LEMMA EmptyGood ==
  Good(Empty) /\ Data(Empty) = <<>> /\ ReadableSize(Empty) = 0
<1> DEFINE m == [i \in 1..0 |-> Junk]
<1>1. m \in [1..0 -> Cells] /\ m = <<>> /\ 0 \in Nat /\ 0 <= 0
      /\ \A i \in (0 + 1)..0 : m[i] \in Bytes
  OBVIOUS
<1>2. Good([readPos |-> 0, writePos |-> 0, capacity |-> 0, memory |-> m])
  <2> HIDE DEF m
  <2> QED
    BY <1>1, Made
<1>3. Good(Empty)
  BY <1>1, <1>2 DEF Empty
<1> QED
  BY <1>3, NothingToRead DEF Empty, ReadableSize

(* Forgetting the rest of the memory changes nothing that can be read. *)
LEMMA ForgetGood ==
  ASSUME NEW b, Good(b)
  PROVE  /\ Good(Forget(b)) /\ Data(Forget(b)) = Data(b)
         /\ ReadableSize(Forget(b)) = ReadableSize(b)
<1> DEFINE r == b.readPos
           w == b.writePos
           c == b.capacity
           m == [i \in DOMAIN b.memory |->
                   IF i \in (r + 1)..w THEN b.memory[i] ELSE Junk]
           f == [readPos |-> r, writePos |-> w, capacity |-> c, memory |-> m]
<1>1. /\ r \in Nat /\ w \in Nat /\ c \in Nat /\ r <= w /\ w <= c
      /\ b.memory \in [1..c -> Cells] /\ DOMAIN b.memory = 1..c
      /\ b = [readPos |-> r, writePos |-> w, capacity |-> c, memory |-> b.memory]
  BY Parts
<1>2. Forget(b) = f
  <2>1. Forget(b) = [b EXCEPT !.memory = m]
    BY DEF Forget
  <2> HIDE DEF m
  <2> QED
    BY <2>1 DEF Good, BufT
<1>3. m \in [1..c -> Cells] /\ \A i \in (r + 1)..w : m[i] = b.memory[i] /\ m[i] \in Bytes
  <2>1. \A i \in (r + 1)..w : b.memory[i] \in Bytes
    BY DEF Good
  <2> QED
    BY <1>1, <2>1 DEF Cells
<1>4. f.readPos = r /\ f.writePos = w /\ f.memory = m
  OBVIOUS
<1> HIDE DEF m
<1>5. Good(f)
  BY <1>1, <1>3, Made
<1> HIDE DEF f
<1>6. ReadableSize(f) = ReadableSize(b) /\ ReadableSize(b) = w - r
  BY <1>4 DEF ReadableSize
<1>7. ASSUME NEW i \in 1..ReadableSize(b) PROVE f.memory[f.readPos + i] = Data(b)[i]
  <2>1. Data(b)[i] = b.memory[r + i] /\ r + i \in (r + 1)..w
    BY <1>1, <1>6, Readable
  <2> QED
    BY <1>3, <1>4, <2>1
<1>8. Data(f) = Data(b)
  <2>1. Data(b) \in Seq(Bytes) /\ Len(Data(b)) = ReadableSize(b)
    BY Readable
  <2> QED
    BY <1>5, <1>6, <1>7, <2>1, Reads
<1> QED
  BY <1>2, <1>5, <1>6, <1>8

-----------------------------------------------------------------------------
(* The smallest power of two that is enough is enough. *)
LEMMA RoundUpFacts ==
  ASSUME NEW size \in Nat
  PROVE  RoundUp2Power(size) \in Nat /\ RoundUp2Power(size) >= size
<1> DEFINE larger == [r \in Nat |-> 2 * r]
           up == CHOOSE f : f = [r \in Nat |-> IF r < size THEN f[2 * r] ELSE r]
<1>1. RoundUp2Power(size) = IF size = 0 THEN 0 ELSE up[1]
  BY DEF RoundUp2Power
<1>2. Larger(larger, size)
  BY DEF Larger
<1>3. ASSUME NEW f
      PROVE  Grows(f, larger, size)
               <=> f = [r \in Nat |-> IF r < size THEN f[2 * r] ELSE r]
  <2>1. [r \in Nat |-> IF r < size THEN f[larger[r]] ELSE r]
          = [r \in Nat |-> IF r < size THEN f[2 * r] ELSE r]
    OBVIOUS
  <2> QED
    BY <2>1 DEF Grows
<1> HIDE DEF larger
<1>4. \E f : f = [r \in Nat |-> IF r < size THEN f[2 * r] ELSE r]
  BY <1>2, <1>3, GrowthExists
<1>5. Grows(up, larger, size)
  BY <1>3, <1>4
<1> HIDE DEF up
<1>6. up[1] \in Nat /\ up[1] >= size
  BY <1>2, <1>5, GrowthReaches
<1> QED
  BY <1>1, <1>6

(* AssureSpace's loop ends, with room for the data and what is to come. *)
LEMMA GrowFacts ==
  ASSUME NEW b, Good(b), NEW needsize \in Nat
  PROVE  /\ Grow(b, needsize) \in Nat /\ Grow(b, needsize) >= b.capacity
         /\ Grow(b, needsize) >= ReadableSize(b) + needsize
<1> DEFINE r == b.readPos
           w == b.writePos
           next(c) == IF c < kDefaultSize THEN kDefaultSize
                      ELSE IF c < RoundUp2Power(c) THEN RoundUp2Power(c)
                                                   ELSE (3 * RoundUp2Power(c)) \div 2
           larger == [c \in Nat |-> next(c)]
           least == ReadableSize(b) + needsize
           Rec(f) == f = [c \in Nat |->
                       IF c - w + r >= needsize THEN c
                       ELSE IF c < kDefaultSize THEN f[kDefaultSize]
                       ELSE f[IF c < RoundUp2Power(c) THEN RoundUp2Power(c)
                                                      ELSE (3 * RoundUp2Power(c)) \div 2]]
           grow == CHOOSE f : Rec(f)
<1>1. Grow(b, needsize) = grow[b.capacity]
  BY DEF Grow
<1>2. /\ r \in Nat /\ w \in Nat /\ b.capacity \in Nat /\ r <= w
      /\ ReadableSize(b) = w - r /\ least \in Nat
      /\ kDefaultSize \in Nat /\ kDefaultSize >= 2
  <2>1. /\ r \in Nat /\ w \in Nat /\ b.capacity \in Nat /\ r <= w
        /\ ReadableSize(b) = w - r /\ ReadableSize(b) \in Nat
    BY Parts
  <2>2. kDefaultSize \in Nat /\ kDefaultSize >= 2
    BY ConstantsOK
  <2> QED
    BY <2>1, <2>2
<1>3. ASSUME NEW c \in Nat PROVE next(c) \in Nat /\ next(c) > c
  <2>1. RoundUp2Power(c) \in Nat /\ RoundUp2Power(c) >= c
    BY RoundUpFacts
  <2> QED
    BY <1>2, <2>1
<1>4. Larger(larger, least) /\ larger[0] # 0
  <2> HIDE DEF next
  <2>1. larger \in [Nat -> Nat] /\ \A c \in Nat : larger[c] > c
    BY <1>3
  <2> QED
    BY <2>1 DEF Larger
<1>5. ASSUME NEW f PROVE Grows(f, larger, least) <=> Rec(f)
  <2>1. ASSUME NEW c \in Nat
        PROVE  (IF c < least THEN f[larger[c]] ELSE c)
                 = IF c - w + r >= needsize THEN c
                   ELSE IF c < kDefaultSize THEN f[kDefaultSize]
                   ELSE f[IF c < RoundUp2Power(c) THEN RoundUp2Power(c)
                                                  ELSE (3 * RoundUp2Power(c)) \div 2]
    <3>1. c < least <=> ~(c - w + r >= needsize)
      BY <1>2
    <3>2. larger[c] = next(c)
      <4> HIDE DEF next
      <4> QED
        OBVIOUS
    <3> HIDE DEF least, larger
    <3> QED
      BY <3>1, <3>2
  <2> HIDE DEF least, larger
  <2> QED
    BY <2>1 DEF Grows
<1> HIDE DEF larger, least, Rec
<1>6. \E f : Rec(f)
  BY <1>2, <1>4, <1>5, GrowthExists
<1>7. Grows(grow, larger, least)
  BY <1>5, <1>6
<1> HIDE DEF grow
<1>8. grow[b.capacity] \in Nat /\ grow[b.capacity] >= least /\ grow[b.capacity] >= b.capacity
  BY <1>2, <1>4, <1>7, GrowthReaches
<1> QED
  BY <1>1, <1>8 DEF least

(* A new block of memory with s at its front. *)
LEMMA AllocateFacts ==
  ASSUME NEW n \in Nat, NEW s \in Seq(Bytes), Len(s) <= n
  PROVE  /\ Allocate(n, s) \in [1..n -> Cells]
         /\ \A i \in 1..Len(s) : Allocate(n, s)[i] = s[i]
<1>1. Len(s) \in Nat /\ \A i \in 1..Len(s) : s[i] \in Bytes
  OBVIOUS
<1>2. \A i \in 1..n : i <= Len(s) => i \in 1..Len(s)
  BY <1>1
<1> DEFINE k == Len(s)
<1> HIDE DEF k
<1>3. \A i \in 1..n : i <= k => s[i] \in Bytes
  BY <1>1, <1>2 DEF k
<1>4. Allocate(n, s) = [i \in 1..n |-> IF i <= k THEN s[i] ELSE Junk]
  BY DEF Allocate, k
<1>5. k \in Nat /\ k <= n
  BY <1>1 DEF k
<1>6. Allocate(n, s) \in [1..n -> Cells]
  BY <1>3, <1>4 DEF Cells
<1>7. \A i \in 1..k : Allocate(n, s)[i] = s[i]
  BY <1>4, <1>5
<1> QED
  BY <1>6, <1>7 DEF k

(* Copying s into memory. *)
LEMMA CopyFacts ==
  ASSUME NEW n \in Nat, NEW m \in [1..n -> Cells], NEW s \in Seq(Bytes), NEW at \in Nat,
         at + Len(s) <= n
  PROVE  /\ Copy(m, at, s) \in [1..n -> Cells]
         /\ \A i \in 1..Len(s) : Copy(m, at, s)[at + i] = s[i]
         /\ \A i \in 1..n : i \notin (at + 1)..(at + Len(s)) => Copy(m, at, s)[i] = m[i]
<1> DEFINE k == Len(s)
<1>1. k \in Nat /\ \A i \in 1..k : s[i] \in Bytes
  OBVIOUS
<1> HIDE DEF k
<1>2. Copy(m, at, s) = [i \in 1..n |-> IF i \in (at + 1)..(at + k) THEN s[i - at] ELSE m[i]]
  BY DEF Copy, k
<1>3. \A i \in (at + 1)..(at + k) : i - at \in 1..k /\ s[i - at] \in Cells
  BY <1>1 DEF Cells
<1>4. Copy(m, at, s) \in [1..n -> Cells]
  BY <1>2, <1>3
<1>5. ASSUME NEW i \in 1..k PROVE Copy(m, at, s)[at + i] = s[i]
  <2>1. at + i \in 1..n /\ at + i \in (at + 1)..(at + k) /\ (at + i) - at = i
    BY <1>1 DEF k
  <2> QED
    BY <1>2, <2>1
<1>6. \A i \in 1..n : i \notin (at + 1)..(at + k) => Copy(m, at, s)[i] = m[i]
  BY <1>2
<1> QED
  BY <1>4, <1>5, <1>6 DEF k

(* A buffer whose data is moved to the front of a memory with room for it. *)
LEMMA Compacted ==
  ASSUME NEW b, Good(b), NEW n \in Nat, ReadableSize(b) <= n, NEW m \in [1..n -> Cells],
         \A i \in 1..ReadableSize(b) : m[i] = Data(b)[i],
         NEW c, c = [readPos |-> 0, writePos |-> ReadableSize(b), capacity |-> n,
                     memory |-> m]
  PROVE  /\ Good(c) /\ Data(c) = Data(b) /\ ReadableSize(c) = ReadableSize(b)
         /\ c.capacity = n
<1> DEFINE k == ReadableSize(b)
           s == Data(b)
<1>1. k \in Nat /\ s \in Seq(Bytes) /\ Len(s) = k
  BY Parts, Readable
<1>2. \A i \in 1..k : s[i] \in Bytes
  BY <1>1
<1> HIDE DEF k, s
<1>3. \A i \in (0 + 1)..k : m[i] \in Bytes
  BY <1>1, <1>2 DEF k, s
<1>4. Good(c)
  <2>1. 0 <= k /\ k <= n
    BY <1>1 DEF k
  <2> QED
    BY <1>1, <1>3, <2>1, Made DEF k
<1>5. ReadableSize(c) = k /\ c.readPos = 0 /\ c.memory = m /\ c.capacity = n
  BY <1>1 DEF k, ReadableSize
<1>6. \A i \in 1..k : c.memory[c.readPos + i] = s[i]
  BY <1>1, <1>5 DEF k, s
<1>7. Data(c) = s
  BY <1>1, <1>4, <1>5, <1>6, Reads
<1> QED
  BY <1>4, <1>5, <1>7 DEF k, s

(* AssureSpace makes room and keeps the data. *)
LEMMA AssureSpaceGood ==
  ASSUME NEW b, Good(b), NEW needsize \in Nat,
         NEW c, c = AssureSpace(b, needsize)
  PROVE  /\ Good(c) /\ Data(c) = Data(b) /\ ReadableSize(c) = ReadableSize(b)
         /\ c.writePos + needsize <= c.capacity
<1> DEFINE cap == Grow(b, needsize)
           k == ReadableSize(b)
           m == IF b.capacity < cap THEN Allocate(cap, Data(b)) ELSE Copy(b.memory, 0, Data(b))
<1>1. /\ b.writePos \in Nat /\ b.capacity \in Nat /\ b.memory \in [1..b.capacity -> Cells]
      /\ k \in Nat /\ k <= b.capacity /\ WritableSize(b) = b.capacity - b.writePos
      /\ Data(b) \in Seq(Bytes) /\ Len(Data(b)) = k
  BY Parts, Readable
<1>2. CASE WritableSize(b) >= needsize
  <2>1. c = b
    BY <1>2 DEF AssureSpace
  <2> QED
    BY <1>1, <1>2, <2>1
<1>3. CASE ~(WritableSize(b) >= needsize)
  <2>1. c = [readPos |-> 0, writePos |-> k, capacity |-> cap, memory |-> m]
    BY <1>3 DEF AssureSpace
  <2>2. cap \in Nat /\ cap >= b.capacity /\ cap >= k + needsize
    BY GrowFacts
  <2> HIDE DEF cap, k
  <2>3. m \in [1..cap -> Cells] /\ \A i \in 1..k : m[i] = Data(b)[i]
    <3>1. CASE b.capacity < cap
      <4>1. m = Allocate(cap, Data(b)) /\ Len(Data(b)) <= cap
        BY <1>1, <2>2, <3>1
      <4> HIDE DEF m
      <4> QED
        BY <1>1, <2>2, <4>1, AllocateFacts
    <3>2. CASE ~(b.capacity < cap)
      <4>1. m = Copy(b.memory, 0, Data(b)) /\ b.capacity = cap /\ 0 + Len(Data(b)) <= cap
        BY <1>1, <2>2, <3>2
      <4> DEFINE d == Data(b)
                 o == b.memory
      <4>2. d \in Seq(Bytes) /\ Len(d) = k /\ o \in [1..cap -> Cells] /\ m = Copy(o, 0, d)
            /\ 0 + Len(d) <= cap
        BY <1>1, <4>1
      <4> HIDE DEF m, d, o
      <4>3. m \in [1..cap -> Cells] /\ \A i \in 1..Len(d) : m[0 + i] = d[i]
        BY <2>2, <4>2, CopyFacts
      <4>4. \A i \in 1..k : m[i] = d[i]
        BY <1>1, <4>2, <4>3
      <4> QED
        BY <4>3, <4>4 DEF d
    <3> QED
      BY <3>1, <3>2
  <2> HIDE DEF m
  <2>4. k <= cap
    BY <1>1, <2>2
  <2>5. Good(c) /\ Data(c) = Data(b) /\ ReadableSize(c) = k
    BY <2>1, <2>2, <2>3, <2>4, Compacted DEF k
  <2>6. c.writePos = k /\ c.capacity = cap
    BY <2>1
  <2> QED
    BY <1>1, <2>2, <2>5, <2>6 DEF k
<1> QED
  BY <1>2, <1>3

-----------------------------------------------------------------------------
(* PushDataAt that takes s: behind the data, at the offset, and nothing else that can
   be read has changed. *)
LEMMA PushDataAtGood ==
  ASSUME NEW b, Good(b), NEW s \in Seq(Bytes), s # <<>>, NEW offset \in Nat,
         ReadableSize(b) + Len(s) + offset < kMaxBufferSize,
         NEW c, c = PushDataAt(b, s, offset)
  PROVE  /\ Good(c) /\ Data(c) = Data(b) /\ ReadableSize(c) = ReadableSize(b)
         /\ c.writePos + offset + Len(s) <= c.capacity
         /\ \A i \in 1..Len(s) : c.memory[c.writePos + offset + i] = s[i]
         /\ c.writePos \in Nat /\ c.readPos \in Nat
<1> DEFINE k == Len(s)
           a == AssureSpace(b, k + offset)
           m == Copy(a.memory, a.writePos + offset, s)
           at == a.writePos + offset
<1>1. k \in Nat /\ k # 0 /\ \A i \in 1..k : s[i] \in Bytes
  BY EmptySeq
<1>2. Taken(b, s, offset) = k
  <2>1. ReadableSize(b) \in Nat /\ kMaxBufferSize \in Nat
    BY Parts, ConstantsOK
  <2> QED
    BY <1>1, <2>1 DEF Taken
<1>3. c = [a EXCEPT !.memory = m]
  BY <1>1, <1>2 DEF PushDataAt
<1>4. /\ Good(a) /\ Data(a) = Data(b) /\ ReadableSize(a) = ReadableSize(b)
      /\ a.writePos + (k + offset) <= a.capacity
  <2>1. k + offset \in Nat
    BY <1>1
  <2> HIDE DEF k
  <2> QED
    BY <2>1, AssureSpaceGood
<1> HIDE DEF a
<1>5. /\ a.readPos \in Nat /\ a.writePos \in Nat /\ a.capacity \in Nat
      /\ a.readPos <= a.writePos /\ a.writePos <= a.capacity
      /\ a.memory \in [1..a.capacity -> Cells] /\ ReadableSize(a) = a.writePos - a.readPos
      /\ a = [readPos |-> a.readPos, writePos |-> a.writePos,
              capacity |-> a.capacity, memory |-> a.memory]
  BY <1>4, Parts
<1>6. at \in Nat /\ at + Len(s) <= a.capacity
  BY <1>1, <1>4, <1>5
<1>7. /\ m \in [1..a.capacity -> Cells]
      /\ \A i \in 1..Len(s) : m[at + i] = s[i]
      /\ \A i \in 1..a.capacity : i \notin (at + 1)..(at + Len(s)) => m[i] = a.memory[i]
  <2> DEFINE o == a.memory
             n == a.capacity
  <2>1. n \in Nat /\ o \in [1..n -> Cells] /\ at + Len(s) <= n /\ m = Copy(o, at, s)
    BY <1>5, <1>6
  <2> HIDE DEF o, n, m, at
  <2>2. /\ m \in [1..n -> Cells]
        /\ \A i \in 1..Len(s) : m[at + i] = s[i]
        /\ \A i \in 1..n : i \notin (at + 1)..(at + Len(s)) => m[i] = o[i]
    BY <1>6, <2>1, CopyFacts
  <2> QED
    BY <2>2 DEF o, n
<1>8. \A i \in (a.readPos + 1)..a.writePos : m[i] = a.memory[i] /\ m[i] \in Bytes
  <2>1. \A i \in (a.readPos + 1)..a.writePos : a.memory[i] \in Bytes
    BY <1>4 DEF Good
  <2> HIDE DEF m
  <2>2. \A i \in (a.readPos + 1)..a.writePos :
           i \in 1..a.capacity /\ i \notin (at + 1)..(at + Len(s))
    BY <1>1, <1>5
  <2> QED
    BY <1>7, <2>1, <2>2
<1> HIDE DEF m
<1>9. c = [readPos |-> a.readPos, writePos |-> a.writePos, capacity |-> a.capacity,
           memory |-> m]
  <2>1. a \in BufT
    BY <1>4 DEF Good
  <2> QED
    BY <1>3, <2>1 DEF BufT
<1>10. Good(c)
  BY <1>5, <1>7, <1>8, <1>9, Made
<1>11. /\ c.readPos = a.readPos /\ c.writePos = a.writePos /\ c.capacity = a.capacity
       /\ c.memory = m /\ ReadableSize(c) = ReadableSize(a)
  BY <1>5, <1>9 DEF ReadableSize
<1>12. Data(c) = Data(a)
  <2>1. Data(a) \in Seq(Bytes) /\ Len(Data(a)) = ReadableSize(a)
    BY <1>4, Readable
  <2>2. ASSUME NEW i \in 1..ReadableSize(a) PROVE c.memory[c.readPos + i] = Data(a)[i]
    <3>1. Data(a)[i] = a.memory[a.readPos + i]
      BY <1>4, Readable
    <3>2. a.readPos + i \in (a.readPos + 1)..a.writePos
      BY <1>5
    <3> QED
      BY <1>8, <1>11, <3>1, <3>2
  <2> QED
    BY <1>10, <1>11, <2>1, <2>2, Reads
<1> HIDE DEF k
<1>13. \A i \in 1..Len(s) : c.memory[c.writePos + offset + i] = s[i]
  BY <1>7, <1>11
<1>14. c.writePos + offset + Len(s) <= c.capacity
  BY <1>6, <1>11
<1> QED
  BY <1>4, <1>5, <1>10, <1>11, <1>12, <1>13, <1>14

(* Produce after the bytes s are there: they follow the data. *)
LEMMA Produced ==
  ASSUME NEW c, Good(c), NEW s \in Seq(Bytes), c.writePos + Len(s) <= c.capacity,
         \A i \in 1..Len(s) : c.memory[c.writePos + i] = s[i],
         NEW n, n = Len(s)
  PROVE  Good(Produce(c, n)) /\ Data(Produce(c, n)) = Data(c) \o s
<1> DEFINE w == c.writePos
           r == c.readPos
           p == [readPos |-> r, writePos |-> w + n, capacity |-> c.capacity,
                 memory |-> c.memory]
           d == Data(c)
<1>1. n \in Nat /\ \A i \in 1..n : s[i] \in Bytes
  OBVIOUS
<1>2. /\ r \in Nat /\ w \in Nat /\ c.capacity \in Nat /\ r <= w /\ w <= c.capacity
      /\ c.memory \in [1..c.capacity -> Cells] /\ ReadableSize(c) = w - r
  BY Parts
<1>3. Produce(c, n) = p
  BY DEF Produce, Good, BufT
<1>4. ASSUME NEW i \in (r + 1)..(w + n) PROVE c.memory[i] \in Bytes
  <2>1. CASE i <= w
    <3>1. i \in (r + 1)..w
      BY <1>1, <1>2, <2>1
    <3> QED
      BY <3>1 DEF Good
  <2>2. CASE i > w
    <3>1. i - w \in 1..n /\ w + (i - w) = i
      BY <1>1, <1>2, <2>2
    <3>2. c.memory[w + (i - w)] = s[i - w]
      BY <3>1
    <3> QED
      BY <1>1, <3>1, <3>2
  <2> QED
    BY <1>1, <1>2, <2>1, <2>2
<1>5. w + n \in Nat /\ r <= w + n /\ w + n <= c.capacity
  BY <1>1, <1>2
<1>6. Good(p)
  BY <1>2, <1>4, <1>5, Made
<1>7. /\ d \in Seq(Bytes) /\ Len(d) = w - r
      /\ \A i \in 1..(w - r) : d[i] = c.memory[r + i]
  BY <1>2, Readable
<1>8. /\ d \o s \in Seq(Bytes) /\ Len(d \o s) = Len(d) + Len(s)
      /\ \A i \in 1..(Len(d) + Len(s)) :
           (d \o s)[i] = IF i <= Len(d) THEN d[i] ELSE s[i - Len(d)]
  BY <1>7, ConcatProperties
<1>9. ReadableSize(p) = (w + n) - r /\ p.readPos = r /\ p.memory = c.memory
  BY DEF ReadableSize
<1> DEFINE t == d \o s
<1> HIDE DEF p, d, t
<1>10. /\ t \in Seq(Bytes) /\ Len(t) = (w - r) + n
       /\ \A i \in 1..((w - r) + n) : t[i] = IF i <= w - r THEN d[i] ELSE s[i - (w - r)]
  BY <1>1, <1>7, <1>8 DEF t
<1>11. ASSUME NEW i \in 1..Len(t) PROVE p.memory[p.readPos + i] = t[i]
  <2>1. CASE i <= w - r
    <3>1. i \in 1..(w - r) /\ i \in 1..((w - r) + n)
      BY <1>1, <1>2, <1>10, <2>1
    <3> QED
      BY <1>7, <1>9, <1>10, <2>1, <3>1
  <2>2. CASE ~(i <= w - r)
    <3> DEFINE j == i - (w - r)
    <3>1. j \in 1..n /\ r + i = w + j /\ i \in 1..((w - r) + n)
      BY <1>1, <1>2, <1>10, <2>2
    <3>2. t[i] = s[j]
      BY <1>10, <2>2, <3>1
    <3> HIDE DEF j
    <3>3. c.memory[w + j] = s[j]
      BY <3>1
    <3> QED
      BY <1>9, <3>1, <3>2, <3>3
  <2> QED
    BY <2>1, <2>2
<1>12. Len(t) = ReadableSize(p)
  BY <1>1, <1>2, <1>9, <1>10
<1>13. Data(p) = t
  BY <1>6, <1>10, <1>11, <1>12, Reads
<1> QED
  BY <1>3, <1>6, <1>13 DEF t, d

(* PushData: whatever it takes, the buffer stays good; below kMaxBufferSize it takes all. *)
LEMMA PushDataGood ==
  ASSUME NEW b, Good(b), NEW s \in Seq(Bytes)
  PROVE  /\ Good(PushData(b, s))
         /\ Fits(b, Len(s)) => Data(PushData(b, s)) = Data(b) \o s
<1>1. ReadableSize(b) \in Nat /\ kMaxBufferSize \in Nat /\ Len(s) \in Nat
  BY Parts, ConstantsOK
<1>2. CASE Fits(b, Len(s)) /\ s # <<>>
  <2> DEFINE c == PushDataAt(b, s, 0)
  <2>1. ReadableSize(b) + Len(s) + 0 < kMaxBufferSize /\ 0 \in Nat
    BY <1>1, <1>2 DEF Fits
  <2>2. Taken(b, s, 0) = Len(s)
    BY <1>1, <2>1 DEF Taken
  <2>3. /\ Good(c) /\ Data(c) = Data(b)
        /\ c.writePos + 0 + Len(s) <= c.capacity
        /\ \A i \in 1..Len(s) : c.memory[c.writePos + 0 + i] = s[i]
        /\ c.writePos \in Nat
    BY <1>2, <2>1, PushDataAtGood
  <2> HIDE DEF c
  <2>4. /\ c.writePos + Len(s) <= c.capacity
        /\ \A i \in 1..Len(s) : c.memory[c.writePos + i] = s[i]
    BY <2>3
  <2>5. Good(Produce(c, Len(s))) /\ Data(Produce(c, Len(s))) = Data(c) \o s
    BY <2>3, <2>4, Produced
  <2> QED
    BY <2>2, <2>3, <2>5 DEF PushData, c
<1>3. CASE ~Fits(b, Len(s)) \/ s = <<>>
  <2>1. Taken(b, s, 0) = 0
    BY <1>1, <1>3 DEF Fits, Taken
  <2>2. PushData(b, s) = [b EXCEPT !.writePos = @ + 0]
    BY <2>1 DEF PushData, PushDataAt, Produce
  <2>3. b.writePos + 0 = b.writePos
    BY Parts
  <2>4. PushData(b, s) = b
    BY <2>2, <2>3 DEF Good, BufT
  <2>5. s = <<>> => Data(b) \o s = Data(b)
    BY Readable, ConcatEmptySeq
  <2> QED
    BY <1>3, <2>4, <2>5
<1> QED
  BY <1>2, <1>3

(* A body written behind the room for its header, the header, and both produced: the
   header and the body follow the data. *)
LEMMA FramedGood ==
  ASSUME NEW b, Good(b), NEW head \in Seq(Bytes), head # <<>>,
         NEW body \in Seq(Bytes), body # <<>>, Fits(b, Len(head) + Len(body)),
         NEW p, p = Produce(PushDataAt(PushDataAt(b, body, Len(head)), head, 0),
                            Len(head) + Len(body))
  PROVE  Good(p) /\ Data(p) = Data(b) \o (head \o body)
<1> DEFINE h == Len(head)
           k == Len(body)
           c == PushDataAt(b, body, h)
           e == PushDataAt(c, head, 0)
           s == head \o body
<1>1. /\ h \in Nat /\ k \in Nat /\ h # 0 /\ k # 0
      /\ ReadableSize(b) \in Nat /\ kMaxBufferSize \in Nat
      /\ ReadableSize(b) + (h + k) < kMaxBufferSize
  BY Parts, ConstantsOK, EmptySeq DEF Fits
<1>2. /\ s \in Seq(Bytes) /\ Len(s) = h + k
      /\ \A i \in 1..(h + k) : s[i] = IF i <= h THEN head[i] ELSE body[i - h]
  BY ConcatProperties
<1> HIDE DEF h, k, c, s
<1>3. ReadableSize(b) + Len(body) + h < kMaxBufferSize
  BY <1>1 DEF k
<1>4. /\ Good(c) /\ Data(c) = Data(b) /\ ReadableSize(c) = ReadableSize(b)
      /\ c.writePos + h + Len(body) <= c.capacity
      /\ \A i \in 1..Len(body) : c.memory[c.writePos + h + i] = body[i]
  <2>1. h \in Nat /\ c = PushDataAt(b, body, h)
    BY <1>1 DEF c
  <2> HIDE DEF e
  <2> QED
    BY <1>3, <2>1, PushDataAtGood
<1>5. /\ c.readPos \in Nat /\ c.writePos \in Nat /\ c.capacity \in Nat
      /\ c.memory \in [1..c.capacity -> Cells] /\ WritableSize(c) = c.capacity - c.writePos
      /\ c.writePos + h + k <= c.capacity
      /\ c.readPos <= c.writePos
  BY <1>4, Parts DEF k
<1>6. AssureSpace(c, h + 0) = c
  BY <1>1, <1>5, SMTT(30) DEF AssureSpace
<1>7. Taken(c, head, 0) = h
  BY <1>1, <1>4 DEF Taken, h
<1> DEFINE o == c.memory
           w == c.writePos
           m == Copy(o, w, head)
<1>8. e = [c EXCEPT !.memory = m]
  <2>1. e = LET room == AssureSpace(c, h + 0)
            IN  [room EXCEPT !.memory = Copy(@, room.writePos + 0, head)]
    BY <1>1, <1>7 DEF PushDataAt, h
  <2>2. w + 0 = w
    BY <1>5
  <2> QED
    BY <1>6, <2>1, <2>2
<1>9. /\ m \in [1..c.capacity -> Cells]
      /\ \A i \in 1..h : m[w + i] = head[i]
      /\ \A i \in 1..c.capacity : i \notin (w + 1)..(w + h) => m[i] = o[i]
  <2> DEFINE n == c.capacity
  <2>1. n \in Nat /\ o \in [1..n -> Cells] /\ w \in Nat /\ w + Len(head) <= n
        /\ m = Copy(o, w, head)
    BY <1>1, <1>5, SMTT(30) DEF h
  <2> HIDE DEF n, o, w, m
  <2>2. /\ m \in [1..n -> Cells]
        /\ \A i \in 1..Len(head) : m[w + i] = head[i]
        /\ \A i \in 1..n : i \notin (w + 1)..(w + Len(head)) => m[i] = o[i]
    BY <2>1, CopyFacts, SMTT(30)
  <2> QED
    BY <2>2 DEF n, h
<1> HIDE DEF m
<1>a. /\ c.readPos \in Nat /\ w \in Nat /\ c.capacity \in Nat
      /\ c.readPos <= w /\ w + h + k <= c.capacity /\ h \in Nat /\ k \in Nat
      /\ \A i \in 1..Len(body) : o[w + h + i] = body[i]
  BY <1>1, <1>4, <1>5
<1>10. e = [readPos |-> c.readPos, writePos |-> w, capacity |-> c.capacity, memory |-> m]
  <2>1. c \in BufT
    BY <1>4 DEF Good
  <2> QED
    BY <1>8, <2>1 DEF BufT
<1>11. \A i \in (c.readPos + 1)..w : m[i] = o[i] /\ m[i] \in Bytes
  <2>1. \A i \in (c.readPos + 1)..w : o[i] \in Bytes
    BY <1>4 DEF Good
  <2>2. \A i \in (c.readPos + 1)..w : i \in 1..c.capacity /\ i \notin (w + 1)..(w + h)
    <3> HIDE DEF w, o
    <3> QED
      BY <1>a
  <2> QED
    BY <1>9, <2>1, <2>2
<1>12. Good(e)
  <2>1. c.readPos <= w /\ w <= c.capacity
    BY <1>1, <1>5, SMTT(30)
  <2> HIDE DEF o
  <2> QED
    BY <1>5, <1>9, <1>10, <1>11, <2>1, Made
<1>13. /\ e.readPos = c.readPos /\ e.writePos = w /\ e.capacity = c.capacity
       /\ e.memory = m /\ ReadableSize(e) = ReadableSize(c)
  BY <1>10 DEF ReadableSize
<1> HIDE DEF e
<1>14. Data(e) = Data(c)
  <2>1. Data(c) \in Seq(Bytes) /\ Len(Data(c)) = ReadableSize(c)
        /\ ReadableSize(c) = w - c.readPos
    BY <1>4, Readable, Parts
  <2>2. ASSUME NEW i \in 1..ReadableSize(c) PROVE e.memory[e.readPos + i] = Data(c)[i]
    <3>1. Data(c)[i] = o[c.readPos + i]
      BY <1>4, Readable
    <3>2. c.readPos + i \in (c.readPos + 1)..w
      BY <1>5, <2>1, SMTT(30)
    <3> HIDE DEF o, w
    <3> QED
      BY <1>11, <1>13, <3>1, <3>2
  <2> QED
    BY <1>12, <1>13, <2>1, <2>2, Reads
<1>15. ASSUME NEW i \in 1..(h + k) PROVE m[w + i] = s[i]
  <2>1. CASE i <= h
    <3>1. i \in 1..h
      BY <1>1, <2>1
    <3> QED
      BY <1>2, <1>9, <2>1, <3>1
  <2>2. CASE ~(i <= h)
    <3> DEFINE j == i - h
    <3> HIDE DEF w, o
    <3>1. j \in 1..k /\ w + i = w + h + j
      BY <1>a, <2>2
    <3>2. w + i \in 1..c.capacity /\ w + i \notin (w + 1)..(w + h)
      BY <1>a, <2>2
    <3>3. s[i] = body[j]
      BY <1>2, <2>2
    <3> HIDE DEF j
    <3>4. o[w + h + j] = body[j]
      BY <1>a, <3>1 DEF k
    <3> QED
      BY <1>9, <3>1, <3>2, <3>3, <3>4
  <2> QED
    BY <2>1, <2>2
<1>16. e.writePos + Len(s) <= e.capacity /\ \A i \in 1..Len(s) : e.memory[e.writePos + i] = s[i]
  <2> HIDE DEF w, o
  <2> QED
    BY <1>a, <1>2, <1>13, <1>15
<1>17. Good(Produce(e, h + k)) /\ Data(Produce(e, h + k)) = Data(e) \o s
  BY <1>2, <1>12, <1>16, Produced
<1>18. p = Produce(e, h + k)
  BY DEF e, c, h, k
<1> QED
  BY <1>4, <1>14, <1>17, <1>18 DEF s

-----------------------------------------------------------------------------
(* Clear resets the positions and nothing else. *)
LEMMA ClearFields ==
  ASSUME NEW b \in BufT
  PROVE  Clear(b) = [readPos |-> 0, writePos |-> 0, capacity |-> b.capacity,
                     memory |-> b.memory]
<1> DEFINE x == [b EXCEPT !.readPos = 0]
<1>1. x = [readPos |-> 0, writePos |-> b.writePos, capacity |-> b.capacity,
           memory |-> b.memory]
  BY DEF BufT
<1>2. Clear(b) = [x EXCEPT !.writePos = 0]
  BY DEF Clear
<1> HIDE DEF x
<1> QED
  BY <1>1, <1>2

(* A cleared buffer is good and holds nothing. *)
LEMMA ClearGood ==
  ASSUME NEW b, Good(b)
  PROVE  Good(Clear(b)) /\ Data(Clear(b)) = <<>>
<1> DEFINE c == [readPos |-> 0, writePos |-> 0, capacity |-> b.capacity, memory |-> b.memory]
<1>1. Clear(b) = c
  BY ClearFields DEF Good
<1>2. b.capacity \in Nat /\ b.memory \in [1..b.capacity -> Cells]
  BY Parts
<1>3. Good(c)
  <2>1. 0 <= 0 /\ 0 <= b.capacity /\ \A i \in (0 + 1)..0 : b.memory[i] \in Bytes
    BY <1>2
  <2> QED
    BY <1>2, <2>1, Made
<1>4. Data(c) = <<>>
  BY NothingToRead
<1> QED
  BY <1>1, <1>3, <1>4

(* Consume takes the front off the data. *)
LEMMA ConsumeGood ==
  ASSUME NEW b, Good(b), NEW n \in 0..ReadableSize(b)
  PROVE  /\ Good(Consume(b, n))
         /\ SubSeq(Data(b), 1, n) \in Seq(Bytes) /\ Len(SubSeq(Data(b), 1, n)) = n
         /\ Data(b) = SubSeq(Data(b), 1, n) \o Data(Consume(b, n))
<1> DEFINE r == b.readPos
           w == b.writePos
           rest == [readPos |-> r + n, writePos |-> w, capacity |-> b.capacity,
                    memory |-> b.memory]
           d == Data(b)
           front == SubSeq(d, 1, n)
<1>1. /\ r \in Nat /\ w \in Nat /\ b.capacity \in Nat /\ r <= w /\ w <= b.capacity
      /\ b.memory \in [1..b.capacity -> Cells] /\ ReadableSize(b) = w - r
  BY Parts
<1>2. Consume(b, n) = IF IsEmpty(rest) THEN Clear(rest) ELSE rest
  <2>1. [b EXCEPT !.readPos = @ + n] = rest
    BY DEF Good, BufT
  <2> QED
    BY <2>1 DEF Consume
<1>3. r + n \in Nat /\ r + n <= w /\ (r + n) + 1 \in Nat
  BY <1>1
<1>4. \A i \in ((r + n) + 1)..w : b.memory[i] \in Bytes
  <2>1. \A i \in (r + 1)..w : b.memory[i] \in Bytes
    BY DEF Good
  <2>2. \A i \in ((r + n) + 1)..w : i \in (r + 1)..w
    BY <1>1
  <2> QED
    BY <2>1, <2>2
<1>5. Good(rest)
  BY <1>1, <1>3, <1>4, Made
<1>6. ReadableSize(rest) = (w - r) - n /\ rest.readPos = r + n /\ rest.memory = b.memory
      /\ ReadableSize(rest) = w - (r + n)
  BY <1>1 DEF ReadableSize
<1>7. /\ d \in Seq(Bytes) /\ Len(d) = w - r
      /\ \A i \in 1..(w - r) : d[i] = b.memory[r + i]
  BY <1>1, Readable
<1> HIDE DEF rest, d
<1>8. /\ front \in Seq(Bytes) /\ Len(front) = n
      /\ front = SubSeq(d, 1, n)
  BY <1>1, <1>7
<1>9. SubSeq(d, n + 1, w - r) \in Seq(Bytes) /\ Len(SubSeq(d, n + 1, w - r)) = (w - r) - n
      /\ \A i \in 1..((w - r) - n) : SubSeq(d, n + 1, w - r)[i] = d[n + i]
  <2> DEFINE a == n + 1
             z == w - r
  <2>1. a \in Int /\ z \in Int /\ \A i \in a..z : d[i] \in Bytes
    BY <1>1, <1>7
  <2>2. /\ SubSeq(d, a, z) \in Seq(Bytes)
        /\ Len(SubSeq(d, a, z)) = IF a <= z THEN z - a + 1 ELSE 0
        /\ \A i \in 1..(z - a + 1) : SubSeq(d, a, z)[i] = d[a + i - 1]
    BY <2>1, SubSeqProperties
  <2>3. z - a + 1 = (w - r) - n /\ (IF a <= z THEN z - a + 1 ELSE 0) = (w - r) - n
    BY <1>1
  <2>4. \A i \in 1..((w - r) - n) : a + i - 1 = n + i
    BY <1>1
  <2> DEFINE q == SubSeq(d, a, z)
  <2>5. q = SubSeq(d, n + 1, w - r)
    OBVIOUS
  <2> HIDE DEF q
  <2>6. /\ q \in Seq(Bytes) /\ Len(q) = (w - r) - n
        /\ \A i \in 1..((w - r) - n) : q[i] = d[n + i]
    BY <2>2, <2>3, <2>4 DEF q
  <2> QED
    BY <2>5, <2>6
<1> DEFINE back == SubSeq(d, n + 1, w - r)
<1>10. back \in Seq(Bytes) /\ Len(back) = (w - r) - n
       /\ \A i \in 1..((w - r) - n) : back[i] = d[n + i]
  BY <1>9
<1>11. d = front \o back
  <2>1. Len(d) \in Nat /\ n \in 0..Len(d) /\ w - r = Len(d) /\ 1 \in 1..(Len(d) + 1)
        /\ n \in (1 - 1)..Len(d) /\ Len(d) \in n..Len(d)
    BY <1>1, <1>7
  <2>2. SubSeq(d, 1, n) \o SubSeq(d, n + 1, Len(d)) = SubSeq(d, 1, Len(d))
    BY <1>7, <2>1, ConcatAdjacentSubSeq
  <2>3. SubSeq(d, 1, Len(d)) = d
    BY <1>7, SubSeqFull
  <2> QED
    BY <2>1, <2>2, <2>3
<1> HIDE DEF back
<1>12. \A i \in 1..Len(back) : rest.memory[rest.readPos + i] = back[i]
  <2> SUFFICES ASSUME NEW i \in 1..((w - r) - n) PROVE b.memory[(r + n) + i] = d[n + i]
    BY <1>6, <1>10
  <2>1. n + i \in 1..(w - r) /\ r + (n + i) = (r + n) + i
    BY <1>1
  <2> QED
    BY <1>7, <2>1
<1>13. Data(rest) = back
  BY <1>5, <1>6, <1>10, <1>12, Reads
<1>14. CASE IsEmpty(rest)
  <2>1. Good(Clear(rest)) /\ Data(Clear(rest)) = <<>>
    BY <1>5, ClearGood
  <2>2. back = <<>>
    BY <1>6, <1>10, <1>14, EmptySeq DEF IsEmpty
  <2> QED
    BY <1>2, <1>8, <1>11, <1>14, <2>1, <2>2 DEF d
<1>15. CASE ~IsEmpty(rest)
  BY <1>2, <1>5, <1>8, <1>11, <1>13, <1>15 DEF d
<1> QED
  BY <1>14, <1>15

(* PopData gives the front of the data, as much as there is, and consumes it. *)
LEMMA PopDataGood ==
  ASSUME NEW b, Good(b), NEW size \in Nat
  PROVE  /\ Good(PopData(b, size))
         /\ PeekDataAt(b, size, 0) \in Seq(Bytes)
         /\ Data(b) = PeekDataAt(b, size, 0) \o Data(PopData(b, size))
<1> DEFINE d == Data(b)
           k == IF size > Len(d) THEN Len(d) ELSE size
<1>1. d \in Seq(Bytes) /\ Len(d) = ReadableSize(b) /\ Len(d) \in Nat
  BY Readable, Parts
<1>2. k \in 0..ReadableSize(b)
  BY <1>1
<1>3. PeekDataAt(b, size, 0) = SubSeq(d, 1, k)
  <2>1. CASE Len(d) = 0
    <3>1. PeekDataAt(b, size, 0) = <<>>
      BY <2>1 DEF PeekDataAt
    <3>2. k = 0
      BY <2>1
    <3>3. SubSeq(d, 1, 0) = <<>>
      BY SubSeqEmpty
    <3> QED
      BY <3>1, <3>2, <3>3
  <2>2. CASE Len(d) # 0
    <3>1. ~(Len(d) <= 0) /\ size + 0 = size /\ Len(d) - 0 = Len(d) /\ 0 + 1 = 1 /\ 0 + k = k
      BY <1>1, <2>2
    <3>2. PeekDataAt(b, size, 0)
            = SubSeq(d, 0 + 1, 0 + (IF size + 0 > Len(d) THEN Len(d) - 0 ELSE size))
      BY <3>1 DEF PeekDataAt
    <3> QED
      BY <3>1, <3>2
  <2> QED
    BY <2>1, <2>2
<1> HIDE DEF k
<1>4. /\ Good(Consume(b, k)) /\ SubSeq(d, 1, k) \in Seq(Bytes) /\ Len(SubSeq(d, 1, k)) = k
      /\ d = SubSeq(d, 1, k) \o Data(Consume(b, k))
  BY <1>2, ConsumeGood
<1>5. PopData(b, size) = Consume(b, k)
  BY <1>3, <1>4 DEF PopData
<1> QED
  BY <1>3, <1>4, <1>5

(* Shrink changes nothing that can be read. *)
LEMMA ShrinkGood ==
  ASSUME NEW b, Good(b)
  PROVE  Good(Shrink(b)) /\ Data(Shrink(b)) = Data(b)
<1>1. CASE IsEmpty(b)
  <2>1. Data(b) = <<>>
    BY <1>1, Readable, EmptySeq DEF IsEmpty
  <2>2. Shrink(b) \in {Empty, b}
    BY <1>1 DEF Shrink
  <2> QED
    BY <2>1, <2>2, EmptyGood
<1>2. CASE ~IsEmpty(b)
  <2> DEFINE k == ReadableSize(b)
             cap == RoundUp2Power(k)
             m == Allocate(cap, Data(b))
             c == [readPos |-> 0, writePos |-> k, capacity |-> cap, memory |-> m]
  <2>1. Shrink(b) \in {b, c}
    BY <1>2 DEF Shrink
  <2>2. k \in Nat /\ Data(b) \in Seq(Bytes) /\ Len(Data(b)) = k
    BY Parts, Readable
  <2> HIDE DEF k
  <2>3. cap \in Nat /\ k <= cap
    BY <2>2, RoundUpFacts
  <2> HIDE DEF cap
  <2>4. m \in [1..cap -> Cells] /\ \A i \in 1..k : m[i] = Data(b)[i]
    BY <2>2, <2>3, AllocateFacts
  <2> HIDE DEF m
  <2>5. Good(c) /\ Data(c) = Data(b)
    BY <2>3, <2>4, Compacted DEF k
  <2> QED
    BY <2>1, <2>5
<1> QED
  BY <1>1, <1>2

(* What is left of a buffer moved from has nothing to read. *)
Spent(b) == b \in BufT /\ b.readPos = 0 /\ b.writePos = 0

(* _MoveFrom leaves the other buffer with nothing to read. *)
LEMMA MovedFromSpent ==
  ASSUME NEW b, Good(b)
  PROVE  Spent(MovedFrom(b)) /\ Data(MovedFrom(b)) = <<>>
<1> DEFINE c == [readPos |-> 0, writePos |-> 0, capacity |-> b.capacity, memory |-> <<>>]
<1>1. b.capacity \in Nat /\ <<>> \in Seq(Cells)
  BY Parts, EmptySeq
<1>2. Clear([b EXCEPT !.memory = <<>>]) = c
  <2> DEFINE x == [b EXCEPT !.memory = <<>>]
  <2>1. x \in BufT /\ x.capacity = b.capacity /\ x.memory = <<>>
    BY <1>1 DEF Good, BufT
  <2> HIDE DEF x
  <2>2. Clear(x) = c
    BY <2>1, ClearFields
  <2> QED
    BY <2>2 DEF x
<1>3. IsEmpty(c)
  BY DEF IsEmpty, ReadableSize
<1>4. MovedFrom(b) \in {Empty, c}
  <2> HIDE DEF c
  <2> QED
    BY <1>2, <1>3 DEF MovedFrom, Shrink
<1>5. Spent(c) /\ Spent(Empty)
  BY <1>1 DEF Spent, BufT, Empty
<1> HIDE DEF c
<1>6. Spent(MovedFrom(b))
  BY <1>4, <1>5
<1> QED
  BY <1>6, NothingToRead DEF Spent

-----------------------------------------------------------------------------
(* The buffers a vector may hold, and what it holds. *)
Goods == {b \in BufT : Good(b)}

(* What the buffers of v hold, one after the other. *)
Whole(v) == FlattenSeq([i \in DOMAIN v |-> Data(v[i])])

(* The data of the buffers of a vector, as the sequence that FlattenSeq is given. *)
LEMMA Chunks ==
  ASSUME NEW v \in Seq(Goods), NEW c, c = [i \in DOMAIN v |-> Data(v[i])]
  PROVE  /\ c \in Seq(Seq(Bytes)) /\ Len(c) = Len(v)
         /\ \A i \in 1..Len(v) : c[i] = Data(v[i])
         /\ Whole(v) = FlattenSeq(c)
<1> DEFINE n == Len(v)
           T == Seq(Bytes)
<1>1. n \in Nat /\ DOMAIN v = 1..n /\ \A i \in 1..n : v[i] \in Goods
  OBVIOUS
<1>2. \A i \in 1..n : Data(v[i]) \in T
  <2>1. \A b \in Goods : Data(b) \in Seq(Bytes)
    BY Readable DEF Goods
  <2> QED
    BY <1>1, <2>1
<1> HIDE DEF n, T
<1>3. c \in [1..n -> T]
  BY <1>1, <1>2
<1>4. c \in Seq(T)
  BY <1>1, <1>3, SeqDef
<1>5. Len(c) = n
  BY <1>1, <1>3, <1>4
<1> QED
  BY <1>1, <1>4, <1>5 DEF Whole, n, T

(* A vector without buffers holds nothing. *)
LEMMA WholeEmpty == Whole(<<>>) = <<>>
  BY DEF Whole, FlattenSeq

(* A buffer at the end adds its data at the end. *)
LEMMA WholeAppend ==
  ASSUME NEW v \in Seq(Goods), NEW b \in Goods
  PROVE  /\ Append(v, b) \in Seq(Goods)
         /\ Whole(v) \in Seq(Bytes) /\ Data(b) \in Seq(Bytes)
         /\ Whole(Append(v, b)) = Whole(v) \o Data(b)
<1> DEFINE c == [i \in DOMAIN v |-> Data(v[i])]
           u == Append(v, b)
           d == [i \in DOMAIN u |-> Data(u[i])]
           n == Len(v)
<1>1. /\ u \in Seq(Goods) /\ Len(u) = n + 1 /\ n \in Nat
      /\ u[n + 1] = b /\ \A i \in 1..n : u[i] = v[i]
  OBVIOUS
<1>2. Data(b) \in Seq(Bytes)
  BY Readable DEF Goods
<1>3. /\ c \in Seq(Seq(Bytes)) /\ Len(c) = n /\ \A i \in 1..n : c[i] = Data(v[i])
      /\ Whole(v) = FlattenSeq(c)
  BY Chunks
<1> HIDE DEF u
<1>4. /\ d \in Seq(Seq(Bytes)) /\ Len(d) = n + 1 /\ \A i \in 1..(n + 1) : d[i] = Data(u[i])
      /\ Whole(u) = FlattenSeq(d)
  <2>1. u \in Seq(Goods) /\ Len(u) = n + 1
    BY <1>1
  <2> HIDE DEF n
  <2>2. /\ d \in Seq(Seq(Bytes)) /\ Len(d) = Len(u) /\ \A i \in 1..Len(u) : d[i] = Data(u[i])
        /\ Whole(u) = FlattenSeq(d)
    BY <2>1, Chunks
  <2> HIDE DEF d
  <2> QED
    BY <2>1, <2>2
<1> HIDE DEF c, d, n
<1>5. d = Append(c, Data(b))
  <2> DEFINE T == Seq(Bytes)
             e == Append(c, Data(b))
  <2>1. /\ e \in Seq(T) /\ Len(e) = n + 1 /\ e[n + 1] = Data(b)
        /\ \A i \in 1..n : e[i] = c[i]
    BY <1>2, <1>3, AppendProperties
  <2> HIDE DEF e, T
  <2>2. ASSUME NEW i \in 1..(n + 1) PROVE d[i] = e[i]
    <3>1. d[i] = Data(u[i])
      BY <1>4
    <3>2. i = n + 1 \/ i \in 1..n
      BY <1>1
    <3>3. CASE i = n + 1
      BY <1>1, <2>1, <3>1, <3>3
    <3>4. CASE i \in 1..n
      BY <1>1, <1>3, <2>1, <3>1, <3>4
    <3> QED
      BY <3>2, <3>3, <3>4
  <2>3. d = e
    BY <1>4, <2>1, <2>2, SeqEqual DEF T
  <2> QED
    BY <2>3 DEF e
<1>6. FlattenSeq(c) \in Seq(Bytes) /\ FlattenSeq(d) = FlattenSeq(c) \o Data(b)
  BY <1>2, <1>3, <1>5, FlattenLast
<1> QED
  BY <1>1, <1>2, <1>3, <1>4, <1>6 DEF u

(* Taking the first buffer takes its data from the front. *)
LEMMA WholeTail ==
  ASSUME NEW v \in Seq(Goods), v # <<>>
  PROVE  /\ Head(v) \in Goods /\ Tail(v) \in Seq(Goods)
         /\ Whole(v) = Data(Head(v)) \o Whole(Tail(v))
<1> DEFINE c == [i \in DOMAIN v |-> Data(v[i])]
           u == Tail(v)
           d == [i \in DOMAIN u |-> Data(u[i])]
           n == Len(v)
<1>1. /\ u \in Seq(Goods) /\ n \in Nat \ {0} /\ Len(u) = n - 1
      /\ Head(v) \in Goods /\ Head(v) = v[1] /\ \A i \in 1..(n - 1) : u[i] = v[i + 1]
  OBVIOUS
<1>3. /\ c \in Seq(Seq(Bytes)) /\ Len(c) = n /\ \A i \in 1..n : c[i] = Data(v[i])
      /\ Whole(v) = FlattenSeq(c)
  BY Chunks
<1> HIDE DEF u
<1>4. /\ d \in Seq(Seq(Bytes)) /\ Len(d) = Len(u) /\ \A i \in 1..Len(u) : d[i] = Data(u[i])
      /\ Whole(u) = FlattenSeq(d)
  BY <1>1, Chunks
<1> HIDE DEF c, d, n
<1>5. c # <<>>
  BY <1>1, <1>3
<1>6. d = Tail(c) /\ Head(c) = c[1]
  <2> DEFINE T == Seq(Bytes)
             e == Tail(c)
  <2>1. /\ e \in Seq(T) /\ Len(e) = n - 1 /\ \A i \in 1..(n - 1) : e[i] = c[i + 1]
    BY <1>3, <1>5, HeadTailProperties
  <2> HIDE DEF e, T
  <2>2. \A i \in 1..(n - 1) : d[i] = e[i]
    BY <1>1, <1>3, <1>4, <2>1
  <2>3. d = e
    BY <1>1, <1>4, <2>1, <2>2, SeqEqual DEF T
  <2> QED
    BY <1>3, <1>5, <2>3 DEF e
<1>7. FlattenSeq(c) = Head(c) \o FlattenSeq(d)
  BY <1>3, <1>5, <1>6, FlattenFirst
<1>8. Head(c) = Data(Head(v))
  BY <1>1, <1>3, <1>6
<1> QED
  BY <1>1, <1>3, <1>4, <1>7, <1>8 DEF u

(* Writing s to the last buffer adds it at the end. *)
LEMMA WholeMerge ==
  ASSUME NEW v \in Seq(Goods), v # <<>>
  PROVE  /\ Last(v) \in Goods /\ Whole(v) \in Seq(Bytes)
         /\ Len(Data(Last(v))) <= Len(Whole(v))
         /\ \A b \in Goods, s \in Seq(Bytes) :
              Data(b) = Data(Last(v)) \o s
                => /\ ReplaceAt(v, Len(v), b) \in Seq(Goods)
                   /\ Whole(ReplaceAt(v, Len(v), b)) = Whole(v) \o s
<1>1. PICK u \in Seq(Goods), e \in Goods : v = Append(u, e)
  BY SequenceEmptyOrAppend
<1>2. Last(v) = e
  BY <1>1 DEF Last
<1>3. /\ Whole(u) \in Seq(Bytes) /\ Data(e) \in Seq(Bytes)
      /\ Whole(v) = Whole(u) \o Data(e)
  BY <1>1, WholeAppend
<1>4. /\ Whole(v) \in Seq(Bytes) /\ Len(Whole(v)) = Len(Whole(u)) + Len(Data(e))
  BY <1>3, ConcatProperties
<1>5. Len(Data(e)) <= Len(Whole(v))
  BY <1>3, <1>4
<1>6. ASSUME NEW b \in Goods, NEW s \in Seq(Bytes), Data(b) = Data(e) \o s
      PROVE  /\ ReplaceAt(v, Len(v), b) \in Seq(Goods)
             /\ Whole(ReplaceAt(v, Len(v), b)) = Whole(v) \o s
  <2>1. ReplaceAt(v, Len(v), b) = Append(u, b)
    <3> HIDE DEF Goods
    <3> DEFINE n == Len(u)
    <3>1. /\ n \in Nat /\ Len(v) = n + 1 /\ Len(Append(u, b)) = n + 1
          /\ \A i \in 1..n : v[i] = u[i] /\ Append(u, b)[i] = u[i]
          /\ Append(u, b)[n + 1] = b /\ Append(u, b) \in Seq(Goods) /\ v \in Seq(Goods)
      BY <1>1, AppendProperties
    <3> DEFINE a == Append(u, b)
               x == [v EXCEPT ![Len(v)] = b]
    <3>2. /\ x \in Seq(Goods) /\ Len(x) = Len(v)
          /\ \A j \in 1..Len(v) : x[j] = IF j = Len(v) THEN b ELSE v[j]
      <4>1. Len(v) \in 1..Len(v)
        BY <3>1
      <4> QED
        BY <4>1, ExceptSeq
    <3> HIDE DEF a, x, n
    <3>3. \A i \in 1..(n + 1) : x[i] = a[i]
      BY <3>1, <3>2 DEF a
    <3>4. x = a
      BY <3>1, <3>2, <3>3, SeqEqual DEF a
    <3> QED
      BY <3>4 DEF a, x, ReplaceAt
  <2>2. Append(u, b) \in Seq(Goods) /\ Whole(Append(u, b)) = Whole(u) \o (Data(e) \o s)
    BY <1>6, WholeAppend
  <2>3. (Whole(u) \o Data(e)) \o s = Whole(u) \o (Data(e) \o s)
    BY <1>3, ConcatAssociative, SMTT(30)
  <2> QED
    BY <1>3, <2>1, <2>2, <2>3
<1> QED
  BY <1>2, <1>4, <1>5, <1>6

-----------------------------------------------------------------------------
(* A buffer that may be used is good, one that was moved from has nothing to read. *)
Held ==
  /\ buf \in [Buffers -> BufT]
  /\ moved \in SUBSET Buffers
  /\ \A x \in Buffers : /\ Usable(x) => Good(buf[x])
                        /\ ~Usable(x) => Spent(buf[x])

(* The buffers of the vector are good, and are counted. *)
Counted ==
  /\ vec \in Seq(Goods)
  /\ totalBytes \in 0..MaxStream
  /\ TotalRight

(* The inductive invariant. *)
IInv == Held /\ Counted

(* What the buffers hold. *)
Content == [x \in Buffers |-> Data(buf[x])]

(* Stream is what the vector holds. *)
LEMMA StreamIs == Stream = Whole(vec)
  BY DEF Stream, Whole

(* The invariant holds at the start. *)
LEMMA InitIInv == Init => IInv
<1> SUFFICES ASSUME Init PROVE IInv
  OBVIOUS
<1>1. Held
  BY EmptyGood DEF Init, Held, Usable, Good
<1>2. vec = <<>> /\ totalBytes = 0 /\ vec \in Seq(Goods)
  BY EmptySeq DEF Init
<1>3. TotalRight
  BY <1>2, StreamIs, WholeEmpty DEF TotalRight
<1>4. totalBytes \in 0..MaxStream
  BY <1>2, ConstantsOK
<1> QED
  BY <1>1, <1>2, <1>3, <1>4 DEF IInv, Counted

(* A call on one buffer. *)
LEMMA SetStep ==
  ASSUME IInv, NEW x \in Buffers, NEW b, Good(b), Set(x, b)
  PROVE  IInv' /\ Content' = [Content EXCEPT ![x] = Data(b)] /\ Stream' = Stream
<1> DEFINE f == Forget(b)
<1>1. Good(f) /\ Data(f) = Data(b) /\ f \in BufT
  BY ForgetGood DEF Good
<1>2. buf' = [buf EXCEPT ![x] = f] /\ UNCHANGED <<moved, vec, totalBytes>> /\ Usable(x)
  BY DEF Set
<1> HIDE DEF f
<1>3. buf \in [Buffers -> BufT]
  BY DEF IInv, Held
<1>4. buf'[x] = f /\ \A y \in Buffers : y # x => buf'[y] = buf[y]
  BY <1>2, <1>3
<1>5. Held'
  <2>1. buf' \in [Buffers -> BufT]
    BY <1>1, <1>2, <1>3
  <2> QED
    BY <1>1, <1>2, <1>4, <2>1 DEF IInv, Held, Usable
<1>6. Stream' = Stream
  BY <1>2 DEF Stream
<1>7. Counted'
  BY <1>2, <1>6 DEF IInv, Counted, TotalRight
<1>8. Content' = [Content EXCEPT ![x] = Data(b)]
  BY <1>1, <1>4 DEF Content
<1> QED
  BY <1>5, <1>6, <1>7, <1>8 DEF IInv

(* What the callers write are bytes, and at least one. *)
LEMMA WritesAre == \A s \in Writes : s \in Seq(Bytes) /\ s # <<>>
  BY SeqDef DEF Writes, BoundedSeq, SeqOf

(* The actions of the abstract queue, in terms of Content and Stream. *)
LEMMA QueueMap ==
  /\ Queue!Init <=> /\ Content = [x \in Buffers |-> <<>>] /\ Stream = <<>>
                    /\ call = [op |-> "none", bytes |-> <<>>]
  /\ \A op : Queue!Called(op) <=> call'.op = op /\ call'.bytes \in Seq(Bytes)
  /\ \A x : Queue!Push(x) <=> /\ Queue!Called("push")
                              /\ Content' = [Content EXCEPT ![x] = @ \o call'.bytes]
                              /\ Stream' = Stream
  /\ \A x : Queue!Pop(x) <=> /\ Queue!Called("pop")
                             /\ Content = [Content' EXCEPT ![x] = call'.bytes \o @]
                             /\ Stream' = Stream
  /\ \A x : Queue!Clear(x) <=> /\ Queue!Called("clear")
                               /\ Content' = [Content EXCEPT ![x] = <<>>]
                               /\ Stream' = Stream
  /\ \A x, y : Queue!Exchange(x, y)
                 <=> /\ Queue!Called("swap")
                     /\ Content' = [Content EXCEPT ![x] = Content[y], ![y] = Content[x]]
                     /\ Stream' = Stream
  /\ \A x, y : Queue!Move(x, y)
                 <=> /\ Queue!Called("move")
                     /\ Content' = [Content EXCEPT ![x] = Content[y], ![y] = <<>>]
                     /\ Stream' = Stream
  /\ Queue!PushStream
       <=> /\ Queue!Called("vpush")
           /\ Stream' = Stream \o call'.bytes
           /\ \/ Content' = Content
              \/ \E x \in Buffers : /\ call'.bytes = Content[x]
                                    /\ Content' = [Content EXCEPT ![x] = <<>>]
  /\ Queue!PopStream <=> /\ Queue!Called("vpop") /\ Stream = call'.bytes \o Stream'
                         /\ Content' = Content
  /\ Queue!ClearStream <=> Queue!Called("vclear") /\ Stream' = <<>> /\ Content' = Content
  /\ Queue!Manage <=> Queue!Called("none") /\ Content' = Content /\ Stream' = Stream
  BY DEF Queue!Init, Queue!Called, Queue!Push, Queue!Pop, Queue!Clear, Queue!Exchange,
         Queue!Move, Queue!PushStream, Queue!PopStream, Queue!ClearStream, Queue!Manage,
         Content

(* Each call keeps the invariant and is a call of the abstract queue. *)
LEMMA PushDataStep ==
  ASSUME IInv, NEW x \in Buffers, DoPushData(x)
  PROVE  IInv' /\ Queue!Push(x)
<1>1. PICK s \in Writes : /\ Fits(buf[x], Len(s))
                          /\ Set(x, PushData(buf[x], s)) /\ Call("push", s)
  BY DEF DoPushData
<1>2. Good(buf[x]) /\ s \in Seq(Bytes)
  BY <1>1, WritesAre DEF Set, IInv, Held
<1>3. Good(PushData(buf[x], s)) /\ Data(PushData(buf[x], s)) = Data(buf[x]) \o s
  BY <1>1, <1>2, PushDataGood
<1>4. IInv' /\ Content' = [Content EXCEPT ![x] = Data(buf[x]) \o s] /\ Stream' = Stream
  BY <1>1, <1>3, SetStep
<1>5. call'.op = "push" /\ call'.bytes = s
  BY <1>1 DEF Call
<1>6. Content[x] = Data(buf[x])
  BY DEF Content
<1>7. Content' = [Content EXCEPT ![x] = @ \o call'.bytes]
  BY <1>4, <1>5, <1>6
<1> QED
  BY <1>2, <1>4, <1>5, <1>7, QueueMap

(* A header and a body written with two calls of PushDataAt are one push. *)
LEMMA PushFramedStep ==
  ASSUME IInv, NEW x \in Buffers, DoPushFramed(x)
  PROVE  IInv' /\ Queue!Push(x)
<1>1. PICK head \in Writes, body \in Writes :
        /\ Fits(buf[x], Len(head) + Len(body))
        /\ Set(x, Produce(PushDataAt(PushDataAt(buf[x], body, Len(head)), head, 0),
                          Len(head) + Len(body)))
        /\ Call("push", head \o body)
  BY DEF DoPushFramed
<1> DEFINE p == Produce(PushDataAt(PushDataAt(buf[x], body, Len(head)), head, 0),
                        Len(head) + Len(body))
           s == head \o body
<1>2. /\ Good(buf[x]) /\ head \in Seq(Bytes) /\ head # <<>>
      /\ body \in Seq(Bytes) /\ body # <<>>
  BY <1>1, WritesAre DEF Set, IInv, Held
<1>3. Good(p) /\ Data(p) = Data(buf[x]) \o s
  BY <1>1, <1>2, FramedGood
<1>4. Set(x, p) /\ call'.op = "push" /\ call'.bytes = s
  BY <1>1 DEF Call
<1>5. s \in Seq(Bytes)
  BY <1>2, ConcatProperties
<1> HIDE DEF p, s
<1>6. IInv' /\ Content' = [Content EXCEPT ![x] = Data(buf[x]) \o s] /\ Stream' = Stream
  BY <1>3, <1>4, SetStep
<1>7. Content[x] = Data(buf[x])
  BY DEF Content
<1>8. Content' = [Content EXCEPT ![x] = @ \o call'.bytes]
  BY <1>4, <1>6, <1>7
<1> QED
  BY <1>4, <1>5, <1>6, <1>8, QueueMap

(* Reading: what is given and what is left make up what there was. *)
LEMMA PopStep ==
  ASSUME IInv, NEW x \in Buffers, NEW b, Good(b), Set(x, b), NEW s \in Seq(Bytes),
         Data(buf[x]) = s \o Data(b), Call("pop", s)
  PROVE  IInv' /\ Queue!Pop(x)
<1>1. IInv' /\ Content' = [Content EXCEPT ![x] = Data(b)] /\ Stream' = Stream
  BY SetStep
<1>2. call'.op = "pop" /\ call'.bytes = s
  BY DEF Call
<1>3. Content = [y \in Buffers |-> Content[y]] /\ Content[x] = s \o Data(b)
  BY DEF Content
<1>4. Content = [Content' EXCEPT ![x] = call'.bytes \o @]
  <2> DEFINE d == Data(b)
             c == Content
             z == s \o d
  <2>1. Content' = [c EXCEPT ![x] = d] /\ c = [y \in Buffers |-> c[y]] /\ c[x] = z
    BY <1>1, <1>3
  <2> HIDE DEF d, c, z
  <2>2. Content'[x] = d
    BY <2>1
  <2>3. [Content' EXCEPT ![x] = z] = c
    BY <2>1
  <2>4. [Content' EXCEPT ![x] = call'.bytes \o @] = [Content' EXCEPT ![x] = z]
    BY <1>2, <2>2 DEF z
  <2> QED
    BY <2>3, <2>4 DEF c
<1> QED
  BY <1>1, <1>2, <1>4, QueueMap

(* PopData: the abstract pop, of the bytes PeekDataAt copies out. *)
LEMMA PopDataStep ==
  ASSUME IInv, NEW x \in Buffers, DoPopData(x)
  PROVE  IInv' /\ Queue!Pop(x)
<1>1. PICK n \in 0..(MaxPush + 1) : /\ Set(x, PopData(buf[x], n))
                                    /\ Call("pop", PeekDataAt(buf[x], n, 0))
  BY DEF DoPopData
<1>2. n \in Nat
  BY ConstantsOK
<1>3. Good(buf[x])
  BY <1>1 DEF Set, IInv, Held
<1>4. /\ Good(PopData(buf[x], n)) /\ PeekDataAt(buf[x], n, 0) \in Seq(Bytes)
      /\ Data(buf[x]) = PeekDataAt(buf[x], n, 0) \o Data(PopData(buf[x], n))
  BY <1>2, <1>3, PopDataGood
<1> QED
  BY <1>1, <1>4, PopStep

(* Consume: the abstract pop, of the bytes the caller has used. *)
LEMMA ConsumeStep ==
  ASSUME IInv, NEW x \in Buffers, DoConsume(x)
  PROVE  IInv' /\ Queue!Pop(x)
<1>1. PICK n \in 0..ReadableSize(buf[x]) :
        Set(x, Consume(buf[x], n)) /\ Call("pop", SubSeq(Data(buf[x]), 1, n))
  BY DEF DoConsume
<1>2. Good(buf[x])
  BY <1>1 DEF Set, IInv, Held
<1> DEFINE s == SubSeq(Data(buf[x]), 1, n)
<1>3. /\ Good(Consume(buf[x], n)) /\ s \in Seq(Bytes)
      /\ Data(buf[x]) = s \o Data(Consume(buf[x], n))
  BY <1>2, ConsumeGood
<1>4. Call("pop", s)
  BY <1>1
<1> HIDE DEF s
<1> QED
  BY <1>1, <1>3, <1>4, PopStep

(* Calls that manage memory. *)
LEMMA ManageStep ==
  ASSUME IInv, NEW x \in Buffers, DoAssureSpace(x) \/ DoShrink(x)
  PROVE  IInv' /\ Queue!Manage
<1>1. PICK b : Good(b) /\ Data(b) = Data(buf[x]) /\ Set(x, b) /\ Call("none", <<>>)
  <2>1. CASE DoAssureSpace(x)
    <3>1. PICK n \in 1..MaxPush : Set(x, AssureSpace(buf[x], n)) /\ Call("none", <<>>)
      BY <2>1 DEF DoAssureSpace
    <3>2. n \in Nat /\ Good(buf[x])
      BY <3>1, ConstantsOK DEF Set, IInv, Held
    <3> QED
      BY <3>1, <3>2, AssureSpaceGood
  <2>2. CASE DoShrink(x)
    <3>1. Good(buf[x]) /\ Set(x, Shrink(buf[x])) /\ Call("none", <<>>)
      BY <2>2 DEF DoShrink, Set, IInv, Held
    <3> QED
      BY <3>1, ShrinkGood
  <2> QED
    BY <2>1, <2>2
<1>2. IInv' /\ Content' = [Content EXCEPT ![x] = Data(b)] /\ Stream' = Stream
  BY <1>1, SetStep
<1>3. Content' = Content
  BY <1>1, <1>2 DEF Content
<1>4. call'.op = "none" /\ call'.bytes = <<>> /\ <<>> \in Seq(Bytes)
  BY <1>1, EmptySeq DEF Call
<1> QED
  BY <1>2, <1>3, <1>4, QueueMap

(* Clear: the abstract clear. *)
LEMMA ClearStep ==
  ASSUME IInv, NEW x \in Buffers, DoClear(x)
  PROVE  IInv' /\ Queue!Clear(x)
<1>1. Good(buf[x]) /\ Set(x, Clear(buf[x])) /\ Call("clear", <<>>)
  BY DEF DoClear, Set, IInv, Held
<1>2. Good(Clear(buf[x])) /\ Data(Clear(buf[x])) = <<>>
  BY <1>1, ClearGood
<1>3. IInv' /\ Content' = [Content EXCEPT ![x] = <<>>] /\ Stream' = Stream
  BY <1>1, <1>2, SetStep
<1>4. call'.op = "clear" /\ call'.bytes = <<>> /\ <<>> \in Seq(Bytes)
  BY <1>1, EmptySeq DEF Call
<1> QED
  BY <1>3, <1>4, QueueMap

(* Swap exchanges what the buffers hold, and which of them may be used. *)
LEMMA SwapStep ==
  ASSUME IInv, NEW x \in Buffers, NEW y \in Buffers, Swap(x, y)
  PROVE  IInv' /\ Queue!Exchange(x, y)
<1>1. /\ buf' = [buf EXCEPT ![x] = buf[y], ![y] = buf[x]]
      /\ \A z \in Buffers : z \in moved' <=> \/ z \notin {x, y} /\ z \in moved
                                             \/ z = x /\ y \in moved
                                             \/ z = y /\ x \in moved
      /\ moved' \in SUBSET Buffers
      /\ Call("swap", <<>>) /\ UNCHANGED <<vec, totalBytes>>
  BY DEF Swap
<1>2. Held
  BY DEF IInv
<1>3. /\ buf' \in [Buffers -> BufT] /\ buf'[x] = buf[y] /\ buf'[y] = buf[x]
      /\ \A z \in Buffers : z \notin {x, y} => buf'[z] = buf[z]
  BY <1>1, <1>2 DEF Held
<1>4. Held'
  <2>1. ASSUME NEW z \in Buffers
        PROVE  (Usable(z)' => Good(buf'[z])) /\ (~Usable(z)' => Spent(buf'[z]))
    <3>1. Usable(z)' <=> z \notin moved'
      BY DEF Usable
    <3> QED
      BY <1>1, <1>2, <1>3, <3>1 DEF Held, Usable
  <2>2. \A z \in Buffers : /\ Usable(z)' => Good(buf'[z])
                           /\ ~Usable(z)' => Spent(buf'[z])
    BY <2>1
  <2> QED
    BY <1>1, <1>3, <2>2 DEF Held, Usable
<1>5. Stream' = Stream
  BY <1>1 DEF Stream
<1>6. Counted'
  BY <1>1, <1>5 DEF IInv, Counted, TotalRight
<1>7. Content' = [Content EXCEPT ![x] = Content[y], ![y] = Content[x]]
  BY <1>3 DEF Content
<1>8. call'.op = "swap" /\ call'.bytes = <<>> /\ <<>> \in Seq(Bytes)
  BY <1>1, EmptySeq DEF Call
<1> QED
  BY <1>4, <1>5, <1>6, <1>7, <1>8, QueueMap DEF IInv

(* A move takes the data along and leaves nothing. *)
LEMMA MoveStep ==
  ASSUME IInv, NEW x \in Buffers, NEW y \in Buffers, MoveFrom(x, y)
  PROVE  IInv' /\ Queue!Move(x, y)
<1> DEFINE m == MovedFrom(buf[y])
<1>1. /\ x # y /\ Usable(y) /\ buf' = [buf EXCEPT ![x] = buf[y], ![y] = m]
      /\ moved' = (moved \ {x}) \cup {y}
      /\ Call("move", <<>>) /\ UNCHANGED <<vec, totalBytes>>
  BY DEF MoveFrom
<1>2. Held
  BY DEF IInv
<1>3. Good(buf[y])
  BY <1>1, <1>2 DEF Held
<1>4. Spent(m) /\ Data(m) = <<>> /\ m \in BufT
  BY <1>3, MovedFromSpent DEF Spent
<1> HIDE DEF m
<1>5. /\ buf' \in [Buffers -> BufT] /\ buf'[x] = buf[y] /\ buf'[y] = m
      /\ \A z \in Buffers : z \notin {x, y} => buf'[z] = buf[z]
  BY <1>1, <1>2, <1>4 DEF Held
<1>6. Held'
  <2>1. ASSUME NEW z \in Buffers
        PROVE  (Usable(z)' => Good(buf'[z])) /\ (~Usable(z)' => Spent(buf'[z]))
    <3>1. Usable(z)' <=> z \notin moved'
      BY DEF Usable
    <3>2. CASE z = x
      BY <1>1, <1>3, <1>5, <3>1, <3>2
    <3>3. CASE z = y
      BY <1>1, <1>4, <1>5, <3>1, <3>3
    <3>4. CASE z \notin {x, y}
      BY <1>1, <1>2, <1>5, <3>1, <3>4 DEF Held, Usable
    <3> QED
      BY <3>2, <3>3, <3>4
  <2>2. \A z \in Buffers : /\ Usable(z)' => Good(buf'[z])
                           /\ ~Usable(z)' => Spent(buf'[z])
    BY <2>1
  <2>3. moved' \in SUBSET Buffers
    BY <1>1, <1>2 DEF Held
  <2> QED
    BY <1>5, <2>2, <2>3 DEF Held, Usable
<1>7. Stream' = Stream
  BY <1>1 DEF Stream
<1>8. Counted'
  BY <1>1, <1>7 DEF IInv, Counted, TotalRight
<1>9. Content' = [Content EXCEPT ![x] = Content[y], ![y] = <<>>]
  BY <1>1, <1>4, <1>5 DEF Content
<1>10. call'.op = "move" /\ call'.bytes = <<>> /\ <<>> \in Seq(Bytes)
  BY <1>1, EmptySeq DEF Call
<1> QED
  BY <1>6, <1>7, <1>8, <1>9, <1>10, QueueMap DEF IInv

(* The buffer that s is merged into: good, and what it held with s behind it, because
   a vector never holds as much as a buffer can take. *)
LEMMA Merged ==
  ASSUME IInv, ShouldMerge, NEW s \in Seq(Bytes), totalBytes + Len(s) <= MaxStream,
         NEW v, v = ReplaceAt(vec, Len(vec), Forget(PushData(Last(vec), s)))
  PROVE  v \in Seq(Goods) /\ Whole(v) = Whole(vec) \o s
<1> DEFINE l == Last(vec)
           p == PushData(l, s)
           f == Forget(p)
<1>1. vec \in Seq(Goods) /\ vec # <<>>
  BY DEF IInv, Counted, ShouldMerge
<1>2. /\ l \in Goods /\ Whole(vec) \in Seq(Bytes) /\ Len(Data(l)) <= Len(Whole(vec))
      /\ \A b \in Goods, t \in Seq(Bytes) :
           Data(b) = Data(l) \o t
             => /\ ReplaceAt(vec, Len(vec), b) \in Seq(Goods)
                /\ Whole(ReplaceAt(vec, Len(vec), b)) = Whole(vec) \o t
  BY <1>1, WholeMerge
<1>3. Good(l)
  BY <1>2 DEF Goods
<1>4. Fits(l, Len(s))
  <2>1. Len(Data(l)) = ReadableSize(l) /\ ReadableSize(l) \in Nat /\ Len(s) \in Nat
    BY <1>3, Readable, Parts
  <2>2. totalBytes = Len(Whole(vec)) /\ totalBytes \in Nat /\ MaxStream \in Nat
    BY ConstantsOK, StreamIs DEF IInv, Counted, TotalRight
  <2>3. MaxStream < kMaxBufferSize /\ kMaxBufferSize \in Nat
    BY ConstantsOK
  <2> HIDE DEF l
  <2> QED
    BY <1>2, <2>1, <2>2, <2>3 DEF Fits
<1> HIDE DEF l
<1>5. Good(p) /\ Data(p) = Data(l) \o s
  BY <1>3, <1>4, PushDataGood
<1> HIDE DEF p
<1>6. Good(f) /\ Data(f) = Data(l) \o s /\ f \in Goods
  BY <1>5, ForgetGood DEF Goods, Good
<1>7. v = ReplaceAt(vec, Len(vec), f)
  BY DEF f, p, l
<1> HIDE DEF f
<1> QED
  BY <1>2, <1>6, <1>7

(* What a longer vector counts. *)
LEMMA CountedLonger ==
  ASSUME IInv, NEW s \in Seq(Bytes), totalBytes + Len(s) <= MaxStream,
         totalBytes' = totalBytes + Len(s), vec' \in Seq(Goods),
         Whole(vec') = Whole(vec) \o s
  PROVE  Counted' /\ Stream' = Stream \o s
<1>1. Stream = Whole(vec) /\ Stream' = Whole(vec')
  BY StreamIs DEF Stream, Whole
<1>2. Whole(vec) \in Seq(Bytes)
  <2>1. Empty \in Goods
    BY EmptyGood DEF Goods, Good
  <2> QED
    BY <2>1, WholeAppend DEF IInv, Counted
<1>3. Len(Whole(vec) \o s) = Len(Whole(vec)) + Len(s)
  BY <1>2, ConcatProperties
<1>4. /\ Len(s) \in Nat /\ totalBytes \in Nat /\ MaxStream \in Nat
      /\ totalBytes = Len(Whole(vec))
  BY <1>1, ConstantsOK DEF IInv, Counted, TotalRight
<1>5. totalBytes' \in 0..MaxStream /\ totalBytes' = Len(Stream')
  BY <1>1, <1>3, <1>4
<1> QED
  BY <1>1, <1>5 DEF Counted, TotalRight

(* BufferVector::Push of bytes, merged into the last buffer or in a buffer of their own. *)
LEMMA VecPushDataStep ==
  ASSUME IInv, VecPushData
  PROVE  IInv' /\ Queue!PushStream
<1>1. PICK s \in Writes :
        /\ totalBytes + Len(s) <= MaxStream
        /\ totalBytes' = totalBytes + Len(s)
        /\ vec' = IF ShouldMerge
                    THEN ReplaceAt(vec, Len(vec), Forget(PushData(Last(vec), s)))
                    ELSE Append(vec, Forget(PushData(Empty, s)))
        /\ Call("vpush", s)
        /\ UNCHANGED <<buf, moved>>
  BY DEF VecPushData
<1>2. s \in Seq(Bytes)
  BY WritesAre
<1>3. vec' \in Seq(Goods) /\ Whole(vec') = Whole(vec) \o s
  <2>1. CASE ShouldMerge
    BY <1>1, <1>2, <2>1, Merged
  <2>2. CASE ~ShouldMerge
    <3> DEFINE p == PushData(Empty, s)
               f == Forget(p)
    <3>1. Fits(Empty, Len(s))
      <4>1. ReadableSize(Empty) = 0 /\ Len(s) \in Nat
        BY <1>2, EmptyGood
      <4>2. totalBytes \in Nat
        BY DEF IInv, Counted
      <4> QED
        BY <1>1, <4>1, <4>2, ConstantsOK DEF Fits
    <3>2. Good(p) /\ Data(p) = <<>> \o s
      BY <1>2, <3>1, EmptyGood, PushDataGood
    <3>3. Data(p) = s
      BY <1>2, <3>2, ConcatEmptySeq
    <3> HIDE DEF p
    <3>4. f \in Goods /\ Data(f) = s
      BY <3>2, <3>3, ForgetGood DEF Goods, Good
    <3>5. vec' = Append(vec, f)
      BY <1>1, <2>2 DEF p
    <3> HIDE DEF f
    <3> QED
      BY <3>4, <3>5, WholeAppend DEF IInv, Counted
  <2> QED
    BY <2>1, <2>2
<1>4. Counted' /\ Stream' = Stream \o s
  BY <1>1, <1>2, <1>3, CountedLonger
<1>5. Held' /\ Content' = Content
  BY <1>1 DEF IInv, Held, Usable, Content
<1>6. call'.op = "vpush" /\ call'.bytes = s
  BY <1>1 DEF Call
<1> QED
  BY <1>2, <1>4, <1>5, <1>6, QueueMap DEF IInv

(* BufferVector::Push of a buffer, merged, when the buffer keeps its data, or moved. *)
LEMMA VecPushBufferStep ==
  ASSUME IInv, NEW x \in Buffers, VecPushBuffer(x)
  PROVE  IInv' /\ Queue!PushStream
<1> DEFINE s == Data(buf[x])
<1>1. /\ Usable(x) /\ totalBytes + ReadableSize(buf[x]) <= MaxStream /\ Call("vpush", s)
      /\ totalBytes' = totalBytes + ReadableSize(buf[x])
  BY DEF VecPushBuffer
<1>2. Good(buf[x]) /\ buf \in [Buffers -> BufT]
  BY <1>1 DEF IInv, Held
<1>3. s \in Seq(Bytes) /\ Len(s) = ReadableSize(buf[x])
  BY <1>2, Readable
<1>4. call'.op = "vpush" /\ call'.bytes = s /\ Content[x] = s
  BY <1>1 DEF Call, Content
<1>5. CASE /\ ShouldMerge
           /\ vec' = ReplaceAt(vec, Len(vec), Forget(PushData(Last(vec), s)))
           /\ UNCHANGED <<buf, moved>>
  <2> HIDE DEF s
  <2>1. vec' \in Seq(Goods) /\ Whole(vec') = Whole(vec) \o s
    BY <1>1, <1>3, <1>5, Merged
  <2>2. Counted' /\ Stream' = Stream \o s
    BY <1>1, <1>3, <2>1, CountedLonger
  <2>3. Held' /\ Content' = Content
    BY <1>5 DEF IInv, Held, Usable, Content
  <2> QED
    BY <1>3, <1>4, <2>2, <2>3, QueueMap DEF IInv
<1>6. CASE /\ vec' = Append(vec, buf[x])
           /\ buf' = [buf EXCEPT ![x] = MovedFrom(@)]
           /\ moved' = moved \cup {x}
  <2> DEFINE m == MovedFrom(buf[x])
  <2>1. buf[x] \in Goods
    BY <1>2 DEF Goods
  <2>2. vec' \in Seq(Goods) /\ Whole(vec') = Whole(vec) \o s
    BY <1>6, <2>1, WholeAppend DEF IInv, Counted
  <2>3. Spent(m) /\ Data(m) = <<>> /\ m \in BufT /\ buf' = [buf EXCEPT ![x] = m]
    BY <1>2, <1>6, MovedFromSpent DEF Spent
  <2> HIDE DEF s, m
  <2>4. Counted' /\ Stream' = Stream \o s
    BY <1>1, <1>3, <2>2, CountedLonger
  <2>5. /\ buf' \in [Buffers -> BufT] /\ buf'[x] = m
        /\ \A y \in Buffers : y # x => buf'[y] = buf[y]
    BY <1>2, <2>3
  <2>6. Held'
    BY <1>6, <2>3, <2>5 DEF IInv, Held, Usable
  <2>7. Content' = [Content EXCEPT ![x] = <<>>]
    BY <2>3, <2>5 DEF Content
  <2> QED
    BY <1>3, <1>4, <2>4, <2>6, <2>7, QueueMap DEF IInv
<1> QED
  BY <1>5, <1>6 DEF VecPushBuffer

(* BufferVector::Pop gives up the first buffer and its bytes. *)
LEMMA VecPopStep ==
  ASSUME IInv, VecPop
  PROVE  IInv' /\ Queue!PopStream
<1> DEFINE h == Head(vec)
<1>1. /\ vec # <<>> /\ vec' = Tail(vec) /\ totalBytes' = totalBytes - ReadableSize(h)
      /\ Call("vpop", Data(h)) /\ UNCHANGED <<buf, moved>>
  BY DEF VecPop
<1>2. /\ h \in Goods /\ vec' \in Seq(Goods)
      /\ Whole(vec) = Data(h) \o Whole(vec')
  BY <1>1, WholeTail DEF IInv, Counted
<1> HIDE DEF h
<1>3. Data(h) \in Seq(Bytes) /\ Len(Data(h)) = ReadableSize(h)
  BY <1>2, Readable DEF Goods
<1>4. Whole(vec') \in Seq(Bytes)
  <2>1. Empty \in Goods
    BY EmptyGood DEF Goods, Good
  <2> QED
    BY <1>2, <2>1, WholeAppend
<1>5. /\ Len(Whole(vec)) = Len(Data(h)) + Len(Whole(vec'))
      /\ Len(Data(h)) \in Nat /\ Len(Whole(vec')) \in Nat
  <2> DEFINE d == Data(h)
             t == Whole(vec')
  <2>1. d \in Seq(Bytes) /\ t \in Seq(Bytes) /\ Whole(vec) = d \o t
    BY <1>2, <1>3, <1>4
  <2> HIDE DEF d, t
  <2>2. Len(d \o t) = Len(d) + Len(t) /\ Len(d) \in Nat /\ Len(t) \in Nat
    BY <2>1, ConcatProperties
  <2> QED
    BY <2>1, <2>2 DEF d, t
<1>6. Stream = Whole(vec) /\ Stream' = Whole(vec')
  BY StreamIs DEF Stream, Whole
<1>7. totalBytes = Len(Whole(vec)) /\ totalBytes \in 0..MaxStream /\ MaxStream \in Nat
  BY <1>6, ConstantsOK DEF IInv, Counted, TotalRight
<1>8. totalBytes' = Len(Whole(vec')) /\ totalBytes' \in 0..MaxStream
  BY <1>1, <1>3, <1>5, <1>7
<1>9. Counted'
  BY <1>2, <1>6, <1>8 DEF Counted, TotalRight
<1>10. Held' /\ Content' = Content
  BY <1>1 DEF IInv, Held, Usable, Content
<1>11. call'.op = "vpop" /\ call'.bytes = Data(h)
  BY <1>1 DEF Call
<1> QED
  BY <1>2, <1>3, <1>6, <1>9, <1>10, <1>11, QueueMap DEF IInv

(* BufferVector::Clear. *)
LEMMA VecClearStep ==
  ASSUME IInv, VecClear
  PROVE  IInv' /\ Queue!ClearStream
<1>1. vec' = <<>> /\ totalBytes' = 0 /\ Call("vclear", <<>>) /\ UNCHANGED <<buf, moved>>
  BY DEF VecClear
<1>2. vec' \in Seq(Goods) /\ <<>> \in Seq(Bytes)
  BY <1>1, EmptySeq
<1>3. Stream' = <<>>
  BY <1>1, WholeEmpty DEF Stream, Whole
<1>4. Counted'
  BY <1>1, <1>2, <1>3, ConstantsOK DEF Counted, TotalRight
<1>5. Held' /\ Content' = Content
  BY <1>1 DEF IInv, Held, Usable, Content
<1>6. call'.op = "vclear" /\ call'.bytes = <<>>
  BY <1>1 DEF Call
<1> QED
  BY <1>2, <1>3, <1>4, <1>5, <1>6, QueueMap DEF IInv

-----------------------------------------------------------------------------
(* Every step keeps the invariant and is a step of the abstract queue or none. *)
LEMMA NextStep ==
  ASSUME IInv, [Next]_vars
  PROVE  IInv' /\ [Queue!Next]_(Queue!vars)
<1>1. CASE Next
  <2>1. ASSUME NEW x \in Buffers, DoPushData(x) \/ DoPushFramed(x)
        PROVE  IInv' /\ Queue!Next
    BY <2>1, PushDataStep, PushFramedStep DEF Queue!Next
  <2>2. ASSUME NEW x \in Buffers, DoPopData(x) \/ DoConsume(x)
        PROVE  IInv' /\ Queue!Next
    BY <2>2, PopDataStep, ConsumeStep DEF Queue!Next
  <2>3. ASSUME NEW x \in Buffers, DoAssureSpace(x) \/ DoShrink(x)
        PROVE  IInv' /\ Queue!Next
    BY <2>3, ManageStep DEF Queue!Next
  <2>4. ASSUME NEW x \in Buffers, DoClear(x)
        PROVE  IInv' /\ Queue!Next
    BY <2>4, ClearStep DEF Queue!Next
  <2>5. ASSUME NEW x \in Buffers, VecPushBuffer(x)
        PROVE  IInv' /\ Queue!Next
    BY <2>5, VecPushBufferStep DEF Queue!Next
  <2>6. ASSUME NEW x \in Buffers, NEW y \in Buffers, Swap(x, y)
        PROVE  IInv' /\ Queue!Next
    BY <2>6, SwapStep DEF Queue!Next
  <2>7. ASSUME NEW x \in Buffers, NEW y \in Buffers, MoveFrom(x, y)
        PROVE  IInv' /\ Queue!Next
    BY <2>7, MoveStep DEF Queue!Next
  <2>8. ASSUME VecPushData \/ VecPop \/ VecClear
        PROVE  IInv' /\ Queue!Next
    BY <2>8, VecPushDataStep, VecPopStep, VecClearStep DEF Queue!Next
  <2> QED
    BY <1>1, <2>1, <2>2, <2>3, <2>4, <2>5, <2>6, <2>7, <2>8 DEF Next
<1>2. CASE UNCHANGED vars
  <2>1. UNCHANGED <<buf, moved, vec, totalBytes, call>>
    BY <1>2 DEF vars
  <2>2. Stream' = Stream
    BY <2>1 DEF Stream
  <2>3. IInv'
    BY <2>1, <2>2 DEF IInv, Held, Usable, Counted, TotalRight
  <2>4. UNCHANGED Queue!vars
    BY <2>1, <2>2 DEF Queue!vars
  <2> QED
    BY <2>3, <2>4
<1> QED
  BY <1>1, <1>2

(* The inductive invariant holds, for any buffers, bytes and sizes. *)
THEOREM Invariance == Spec => []IInv
<1>1. Init => IInv
  BY InitIInv
<1>2. IInv /\ [Next]_vars => IInv'
  BY NextStep
<1> QED
  BY <1>1, <1>2, PTL DEF Spec

(* The type invariant. *)
THEOREM Types == Spec => []TypeOK
<1>1. IInv => TypeOK
  <2> SUFFICES ASSUME IInv PROVE TypeOK
    OBVIOUS
  <2>1. \A x \in Buffers : buf[x] \in BufT
    BY DEF IInv, Held
  <2>2. ASSUME NEW x \in Buffers
        PROVE  /\ {buf[x].readPos, buf[x].writePos, buf[x].capacity} \subseteq Nat
               /\ buf[x].memory \in Seq(Bytes \cup {Junk})
    BY <2>1 DEF BufT, Cells
  <2>3. moved \in SUBSET Buffers /\ totalBytes \in Nat
    BY DEF IInv, Held, Counted
  <2> QED
    BY <2>2, <2>3 DEF TypeOK
<1> QED
  BY <1>1, Invariance, PTL

(* The positions of every buffer that may be used stay in order and inside its memory,
   whatever is written, read, grown, shrunk, swapped, moved and merged: the assertions of
   Buffer::PushDataAt and Buffer::Consume hold. *)
THEOREM AlwaysSound == Spec => []BuffersSound
<1>1. IInv => BuffersSound
  <2> SUFFICES ASSUME IInv PROVE BuffersSound
    OBVIOUS
  <2>1. \A x \in Buffers : Usable(x) => Sound(buf[x])
    BY DEF IInv, Held, Good
  <2>2. \A i \in DOMAIN vec : vec[i] \in Goods
    BY DEF IInv, Counted
  <2>3. \A i \in DOMAIN vec : Sound(vec[i])
    BY <2>2 DEF Goods, Good
  <2> QED
    BY <2>1, <2>3 DEF BuffersSound
<1> QED
  BY <1>1, Invariance, PTL

(* BufferVector::TotalBytes() is the number of bytes its buffers hold. *)
THEOREM TotalCounted == Spec => []TotalRight
<1>1. IInv => TotalRight
  BY DEF IInv, Counted
<1> QED
  BY <1>1, Invariance, PTL

(* Buffer and BufferVector implement the byte queue: what is read is what was written, in
   order, once, through every reallocation, memmove, Shrink, Swap, move and merge. *)
THEOREM Refinement == Spec => ImplementsQueue
<1>1. Init => Queue!Init
  <2> SUFFICES ASSUME Init PROVE Queue!Init
    OBVIOUS
  <2>1. Content = [x \in Buffers |-> <<>>]
    BY EmptyGood DEF Init, Content
  <2>2. Stream = <<>>
    BY StreamIs, WholeEmpty DEF Init
  <2> QED
    BY <2>1, <2>2, QueueMap DEF Init
<1>2. IInv /\ [Next]_vars => [Queue!Next]_(Queue!vars)
  BY NextStep
<1> QED
  BY <1>1, <1>2, Invariance, PTL DEF Spec, ImplementsQueue, Queue!Spec
=============================================================================
