--------------------------- MODULE RecursionProofs ---------------------------
(***************************************************************************)
(* Facts about recursive functions that the other proofs share.            *)
(*                                                                         *)
(* A recursive function is the choice of a function that satisfies its     *)
(* equation; before it has any value, such a function has to be shown to   *)
(* exist.  The library's induction theorems have an operator as parameter  *)
(* and cannot be instantiated here, so induction is stated for a set: one  *)
(* that holds 0 and the successor of each of its members is Nat.  It       *)
(* follows from < being well founded.                                      *)
(*                                                                         *)
(* Three recursions are treated: a size that grows until it is large       *)
(* enough, which is the loop of OMmapFile::_AssureSpace, of                *)
(* Buffer::AssureSpace and of RoundUp2Power; FlattenSeq; and a chain of    *)
(* positions with something to append at each, the loop of Logger::_Log.   *)
(***************************************************************************)
EXTENDS Naturals, SequencesExt, TLAPS, WellFoundedInduction, SequenceTheorems

(* Every set of natural numbers that is not empty has a least element. *)
LEMMA Least ==
  ASSUME NEW S \in SUBSET Nat, S # {}
  PROVE  \E m \in S : \A n \in S : m <= n
<1> DEFINE R == OpToRel(<, Nat)
<1>1. IsWellFoundedOn(R, Nat)
  BY NatLessThanWellFounded
<1>2. PICK m \in S : \A n \in S : ~(<<n, m>> \in R)
  <2> HIDE DEF R
  <2> QED
    BY <1>1, WFMin
<1>3. \A n \in S : n < m => <<n, m>> \in R
  BY DEF OpToRel
<1> HIDE DEF R
<1>4. \A n \in S : ~(n < m)
  BY <1>2, <1>3
<1> QED
  BY <1>4

(* Induction over the natural numbers, for a set. *)
LEMMA SetInduction ==
  ASSUME NEW S \in SUBSET Nat, 0 \in S, \A n \in S : n + 1 \in S
  PROVE  S = Nat
<1> SUFFICES ASSUME S # Nat PROVE FALSE
  OBVIOUS
<1>1. PICK m \in Nat \ S : \A n \in Nat \ S : m <= n
  BY Least
<1>2. m # 0 /\ m - 1 \in Nat /\ m - 1 \in S
  BY <1>1
<1>3. (m - 1) + 1 \in S
  BY <1>2
<1> QED
  BY <1>1, <1>3

-----------------------------------------------------------------------------
(* A size that is too small is replaced by a larger one until it is at least least:
   the loops of OMmapFile::_AssureSpace, Buffer::AssureSpace and RoundUp2Power.
   larger[0] may be 0: RoundUp2Power never starts there.                     *)
Larger(larger, least) ==
  larger \in [Nat -> Nat] /\ \A n \in Nat \ {0} : n < least => larger[n] > n

(* The loop as a recursive function of the size it starts with. *)
Grows(f, larger, least) ==
  f = [n \in Nat |-> IF n < least THEN f[larger[n]] ELSE n]

(* There is a function that does so. *)
LEMMA GrowthExists ==
  ASSUME NEW least \in Nat, NEW larger, Larger(larger, least)
  PROVE  \E f : Grows(f, larger, least)
<1> DEFINE D(d) == {n \in Nat \ {0} : n + d >= least}
           P(f, d) == \A n \in D(d) : f[n] = IF n < least THEN f[larger[n]] ELSE n
           S == {d \in Nat : \E f \in [D(d) -> Nat] : P(f, d)}
<1>1. 0 \in S
  <2> DEFINE f == [n \in D(0) |-> n]
  <2>1. f \in [D(0) -> Nat] /\ P(f, 0)
    OBVIOUS
  <2> HIDE DEF f, P, D
  <2> QED
    BY <2>1
<1>2. ASSUME NEW d \in S PROVE d + 1 \in S
  <2>1. PICK f \in [D(d) -> Nat] : P(f, d)
    OBVIOUS
  <2> DEFINE h == [n \in D(d + 1) |-> IF n \in D(d) THEN f[n] ELSE f[larger[n]]]
  <2>2. ASSUME NEW n \in D(d + 1), n < least
        PROVE  larger[n] \in D(d) /\ larger[n] \in D(d + 1)
    BY <2>2 DEF Larger
  <2>3. D(d) \subseteq D(d + 1) /\ \A n \in D(d + 1) \ D(d) : n < least
    OBVIOUS
  <2>4. h \in [D(d + 1) -> Nat]
    <3> HIDE DEF D
    <3> QED
      BY <2>1, <2>2, <2>3
  <2>5. P(h, d + 1)
    <3> SUFFICES ASSUME NEW n \in D(d + 1)
                 PROVE  h[n] = IF n < least THEN h[larger[n]] ELSE n
      OBVIOUS
    <3>1. n < least => h[larger[n]] = f[larger[n]]
      <4> HIDE DEF D
      <4> QED
        BY <2>2, <2>3
    <3>2. n \in D(d) => f[n] = IF n < least THEN f[larger[n]] ELSE n
      BY <2>1
    <3> HIDE DEF D
    <3> QED
      BY <2>3, <3>1, <3>2
  <2> HIDE DEF h, P, D
  <2>6. d + 1 \in Nat
    OBVIOUS
  <2> QED
    BY <2>4, <2>5, <2>6
<1>3. S \in SUBSET Nat
  OBVIOUS
<1>4. least \in S
  <2> HIDE DEF S
  <2> QED
    BY <1>1, <1>2, <1>3, SetInduction
<1>5. PICK f \in [D(least) -> Nat] : P(f, least)
  BY <1>4
<1>6. D(least) = Nat \ {0}
  OBVIOUS
<1> DEFINE z == IF least = 0 \/ larger[0] = 0 THEN 0 ELSE f[larger[0]]
           h == [n \in Nat |-> IF n = 0 THEN z ELSE f[n]]
<1>7. \A n \in Nat \ {0} : f[n] = IF n < least THEN f[larger[n]] ELSE n
  BY <1>5, <1>6
<1>8. ASSUME NEW n \in Nat PROVE h[n] = IF n < least THEN h[larger[n]] ELSE n
  <2>1. larger[n] \in Nat
    BY DEF Larger
  <2>2. CASE n = 0
    BY <2>1, <2>2
  <2>3. CASE n # 0
    <3>1. n < least => larger[n] # 0
      BY <2>1, <2>3 DEF Larger
    <3> QED
      BY <1>7, <2>1, <2>3, <3>1
  <2> QED
    BY <2>2, <2>3
<1>9. h = [n \in Nat |-> h[n]]
  OBVIOUS
<1> HIDE DEF h
<1>10. h = [n \in Nat |-> IF n < least THEN h[larger[n]] ELSE n]
  BY <1>8, <1>9
<1> QED
  BY <1>10 DEF Grows

(* Its result is large enough, and, if it is not the size there was, at least the next. *)
LEMMA GrowthReaches ==
  ASSUME NEW least \in Nat, NEW larger, Larger(larger, least),
         NEW f, Grows(f, larger, least), NEW m \in Nat, m # 0 \/ larger[0] # 0
  PROVE  /\ f[m] \in Nat /\ f[m] >= least /\ f[m] >= m
         /\ m < least => f[m] >= larger[m]
         /\ m >= least => f[m] = m
<1> DEFINE Good(n) == f[n] \in Nat /\ f[n] >= least /\ f[n] >= n
           S == {d \in Nat : \A n \in Nat \ {0} : n + d >= least => Good(n)}
<1>0. \A n \in Nat : f[n] = IF n < least THEN f[larger[n]] ELSE n
  BY DEF Grows
<1>1. 0 \in S
  BY <1>0
<1>2. ASSUME NEW d \in S PROVE d + 1 \in S
  <2> SUFFICES ASSUME NEW n \in Nat \ {0}, n + d + 1 >= least PROVE Good(n)
    OBVIOUS
  <2>1. CASE n >= least
    BY <1>0, <2>1
  <2>2. CASE n < least
    <3>1. larger[n] \in Nat \ {0} /\ larger[n] > n /\ larger[n] + d >= least
      BY <2>2 DEF Larger
    <3>2. Good(larger[n])
      BY <3>1
    <3> QED
      BY <1>0, <2>2, <3>1, <3>2
  <2> QED
    BY <2>1, <2>2
<1>3. S \in SUBSET Nat
  OBVIOUS
<1>4. least \in S
  <2> HIDE DEF S
  <2> QED
    BY <1>1, <1>2, <1>3, SetInduction
<1>5. \A n \in Nat \ {0} : Good(n)
  BY <1>4
<1>6. CASE m >= least
  BY <1>0, <1>6
<1>7. CASE m < least
  <2>1. larger[m] \in Nat \ {0} /\ larger[m] >= m
    BY <1>7 DEF Larger
  <2> QED
    BY <1>0, <1>5, <1>7, <2>1
<1> QED
  BY <1>6, <1>7

(* It stops at the first size that is large enough: the one before it was not. *)
LEMMA GrowthStops ==
  ASSUME NEW least \in Nat, NEW larger, Larger(larger, least),
         NEW f, Grows(f, larger, least), NEW m \in Nat \ {0}, m < least
  PROVE  \E n \in Nat \ {0} : n < least /\ f[m] = larger[n]
<1> DEFINE Good(k) == \E n \in Nat \ {0} : n < least /\ f[k] = larger[n]
           S == {d \in Nat : \A k \in Nat \ {0} : k < least /\ k + d >= least => Good(k)}
<1>0. \A n \in Nat : f[n] = IF n < least THEN f[larger[n]] ELSE n
  BY DEF Grows
<1>1. 0 \in S
  <2> HIDE DEF Good
  <2> QED
    OBVIOUS
<1>2. ASSUME NEW d \in S PROVE d + 1 \in S
  <2> SUFFICES ASSUME NEW k \in Nat \ {0}, k < least, k + d + 1 >= least PROVE Good(k)
    <3> HIDE DEF Good
    <3> QED
      OBVIOUS
  <2>1. larger[k] \in Nat \ {0} /\ larger[k] + d >= least /\ f[k] = f[larger[k]]
    BY <1>0 DEF Larger
  <2>2. CASE larger[k] >= least
    <3>1. f[k] = larger[k]
      BY <1>0, <2>1, <2>2
    <3> QED
      BY <3>1
  <2>3. CASE larger[k] < least
    <3>1. Good(larger[k])
      <4> HIDE DEF Good
      <4> QED
        BY <2>1, <2>3
    <3> QED
      BY <2>1, <3>1
  <2> QED
    BY <2>1, <2>2, <2>3
<1> HIDE DEF Good
<1>3. S \in SUBSET Nat
  OBVIOUS
<1>4. least \in S
  <2> HIDE DEF S
  <2> QED
    BY <1>1, <1>2, <1>3, SetInduction
<1>5. Good(m)
  BY <1>4
<1> QED
  BY <1>5 DEF Good

-----------------------------------------------------------------------------
(* Concatenation, as an operator that the provers need not look into. *)
Cat(s, t) == s \o t

(* What the proofs below need of it. *)
LEMMA CatFacts ==
  ASSUME NEW S
  PROVE  /\ <<>> \in Seq(S)
         /\ \A s \in Seq(S) : Cat(s, <<>>) = s /\ Cat(<<>>, s) = s
         /\ \A s, t \in Seq(S) : Cat(s, t) \in Seq(S)
         /\ \A s, t, u \in Seq(S) : Cat(Cat(s, t), u) = Cat(s, Cat(t, u))
  BY ConcatProperties, ConcatEmptySeq, ConcatAssociative DEF Cat

(* The concatenations of the first sequences of ss: what FlattenSeq computes. *)
Flats(f, ss, S) ==
  /\ f \in [0..Len(ss) -> Seq(S)]
  /\ f[0] = <<>>
  /\ \A i \in 1..Len(ss) : f[i] = Cat(f[i - 1], ss[i])

(* There are such concatenations. *)
LEMMA FlatsExists ==
  ASSUME NEW S, NEW ss \in Seq(Seq(S))
  PROVE  \E f : Flats(f, ss, S)
<1> DEFINE T == Seq(S)
           m == Len(ss)
           P(f, n) == f[0] = <<>> /\ \A i \in 1..n : f[i] = Cat(f[i - 1], ss[i])
           N == {n \in Nat : n <= m => \E f \in [0..n -> T] : P(f, n)}
<1>0. /\ m \in Nat /\ \A i \in 1..m : ss[i] \in T
      /\ <<>> \in T /\ \A s, t \in T : Cat(s, t) \in T
  BY CatFacts
<1> HIDE DEF T, m
<1>1. 0 \in N
  <2> DEFINE f == [i \in 0..0 |-> <<>>]
  <2>1. f \in [0..0 -> T] /\ P(f, 0)
    BY <1>0
  <2> HIDE DEF f, P
  <2> QED
    BY <2>1
<1>2. ASSUME NEW n \in N PROVE n + 1 \in N
  <2> HIDE DEF P
  <2>0. n \in Nat /\ (n <= m => \E f \in [0..n -> T] : P(f, n))
    OBVIOUS
  <2> SUFFICES ASSUME n + 1 <= m
               PROVE  \E f \in [0..(n + 1) -> T] : P(f, n + 1)
    BY <2>0
  <2>1. PICK f \in [0..n -> T] : P(f, n)
    BY <1>0, <2>0
  <2> HIDE DEF N
  <2> DEFINE h == [i \in 0..(n + 1) |-> IF i = n + 1 THEN Cat(f[n], ss[i]) ELSE f[i]]
  <2>2. Cat(f[n], ss[n + 1]) \in T
    BY <1>0, <2>0
  <2>3. /\ h \in [0..(n + 1) -> T] /\ h[n + 1] = Cat(f[n], ss[n + 1])
        /\ \A i \in 0..n : h[i] = f[i]
    BY <2>0, <2>2
  <2> HIDE DEF h
  <2>4. P(h, n + 1)
    <3>1. h[0] = <<>>
      BY <2>0, <2>1, <2>3 DEF P
    <3>2. ASSUME NEW i \in 1..(n + 1) PROVE h[i] = Cat(h[i - 1], ss[i])
      <4>1. CASE i = n + 1
        <5>1. i - 1 = n /\ h[n] = f[n]
          BY <2>0, <2>3, <4>1
        <5> QED
          BY <2>3, <4>1, <5>1
      <4>2. CASE i # n + 1
        <5>1. i \in 1..n /\ h[i] = f[i] /\ h[i - 1] = f[i - 1]
          BY <2>0, <2>3, <4>2
        <5> QED
          BY <2>1, <5>1 DEF P
      <4> QED
        BY <4>1, <4>2
    <3> QED
      BY <3>1, <3>2 DEF P
  <2> QED
    BY <2>3, <2>4
<1>3. N \in SUBSET Nat
  <2> HIDE DEF P
  <2> QED
    OBVIOUS
<1>4. m \in N
  <2> HIDE DEF N
  <2> QED
    BY <1>0, <1>1, <1>2, <1>3, SetInduction
<1>5. PICK f \in [0..m -> T] : P(f, m)
  <2> HIDE DEF P
  <2> QED
    BY <1>0, <1>4
<1> HIDE DEF N
<1>6. Flats(f, ss, S)
  BY <1>5 DEF Flats, T, m
<1> QED
  BY <1>6

(* FlattenSeq is the last of them. *)
LEMMA FlatsValue ==
  ASSUME NEW S, NEW ss \in Seq(Seq(S)), NEW f, Flats(f, ss, S)
  PROVE  FlattenSeq(ss) = f[Len(ss)]
<1> DEFINE m == Len(ss)
           Rec(g) == g = [i \in 1..m |-> IF i = 1 THEN ss[i] ELSE Cat(g[i - 1], ss[i])]
           flatten == CHOOSE g : Rec(g)
<1>0. /\ m \in Nat /\ f[0] = <<>>
      /\ \A i \in 1..m : f[i] = Cat(f[i - 1], ss[i])
      /\ m > 0 => f[1] = ss[1]
  <2>1. m \in Nat /\ \A i \in 1..m : ss[i] \in Seq(S)
    OBVIOUS
  <2>2. f[0] = <<>> /\ \A i \in 1..m : f[i] = Cat(f[i - 1], ss[i])
    BY DEF Flats
  <2> HIDE DEF m
  <2>3. m > 0 => f[1] = Cat(f[0], ss[1]) /\ ss[1] \in Seq(S)
    BY <2>1, <2>2
  <2> QED
    BY <2>1, <2>2, <2>3, CatFacts
<1>1. CASE m = 0
  <2>1. ss = <<>>
    BY <1>1, EmptySeq
  <2> QED
    BY <1>0, <1>1, <2>1 DEF FlattenSeq
<1>2. CASE m # 0
  <2>1. FlattenSeq(ss) = flatten[m]
    BY <1>2 DEF FlattenSeq, Cat
  <2> HIDE DEF m
  <2>2. \E g : Rec(g)
    <3> DEFINE h == [i \in 1..m |-> f[i]]
    <3>1. ASSUME NEW i \in 1..m
          PROVE  h[i] = IF i = 1 THEN ss[i] ELSE Cat(h[i - 1], ss[i])
      <4>1. i # 1 => i - 1 \in 1..m
        BY <1>0
      <4> QED
        BY <1>0, <4>1
    <3>2. h = [i \in 1..m |-> h[i]]
      OBVIOUS
    <3> HIDE DEF h
    <3>3. Rec(h)
      BY <3>1, <3>2
    <3> HIDE DEF Rec
    <3> QED
      BY <3>3
  <2>3. Rec(flatten)
    <3> HIDE DEF Rec
    <3> QED
      BY <2>2
  <2> HIDE DEF flatten
  <2> DEFINE N == {n \in Nat : n + 1 <= m => flatten[n + 1] = f[n + 1]}
  <2>4. \A i \in 1..m : flatten[i] = IF i = 1 THEN ss[i] ELSE Cat(flatten[i - 1], ss[i])
    BY <2>3
  <2>5. 0 \in N
    BY <1>0, <1>2, <2>4
  <2>6. ASSUME NEW n \in N PROVE n + 1 \in N
    <3> SUFFICES ASSUME n + 2 <= m PROVE flatten[n + 2] = f[n + 2]
      OBVIOUS
    <3>1. flatten[n + 1] = f[n + 1] /\ n + 2 \in 1..m /\ (n + 2) - 1 = n + 1 /\ n + 2 # 1
      BY <1>0
    <3>2. flatten[n + 2] = Cat(flatten[n + 1], ss[n + 2])
      BY <2>4, <3>1
    <3>3. f[n + 2] = Cat(f[n + 1], ss[n + 2])
      BY <1>0, <3>1
    <3> QED
      BY <3>1, <3>2, <3>3
  <2>7. N \in SUBSET Nat /\ m - 1 \in Nat
    BY <1>0, <1>2
  <2>8. m - 1 \in N
    <3> HIDE DEF N
    <3> QED
      BY <2>5, <2>6, <2>7, SetInduction
  <2>9. flatten[m] = f[m]
    BY <1>0, <1>2, <2>8
  <2> QED
    BY <2>1, <2>9 DEF m
<1> QED
  BY <1>1, <1>2

(* What comes last in ss comes last in the whole. *)
LEMMA FlattenLast ==
  ASSUME NEW S, NEW ss \in Seq(Seq(S)), NEW s \in Seq(S)
  PROVE  /\ FlattenSeq(ss) \in Seq(S)
         /\ FlattenSeq(Append(ss, s)) = FlattenSeq(ss) \o s
<1> DEFINE tt == Append(ss, s)
           n == Len(ss)
           T == Seq(S)
<1>1. PICK f : Flats(f, ss, S)
  BY FlatsExists
<1>2. /\ FlattenSeq(ss) = f[n] /\ f \in [0..n -> T] /\ f[0] = <<>>
      /\ \A i \in 1..n : f[i] = Cat(f[i - 1], ss[i])
  BY <1>1, FlatsValue DEF Flats
<1>3. /\ tt \in Seq(Seq(S)) /\ Len(tt) = n + 1 /\ n \in Nat
      /\ \A i \in 1..n : tt[i] = ss[i]
      /\ tt[n + 1] = s
  OBVIOUS
<1> HIDE DEF tt, n
<1> DEFINE h == [i \in 0..(n + 1) |-> IF i = n + 1 THEN Cat(f[n], s) ELSE f[i]]
<1>4. f[n] \in T /\ Cat(f[n], s) \in T
  <2>1. s \in T /\ \A t, u \in T : Cat(t, u) \in T
    BY CatFacts
  <2> HIDE DEF T
  <2> QED
    BY <1>2, <1>3, <2>1
<1> HIDE DEF T
<1>5. /\ h \in [0..(n + 1) -> T] /\ h[n + 1] = Cat(f[n], s)
      /\ \A i \in 0..n : h[i] = f[i]
  BY <1>2, <1>3, <1>4
<1> HIDE DEF h
<1>6. ASSUME NEW i \in 1..(n + 1) PROVE h[i] = Cat(h[i - 1], tt[i])
  <2>1. CASE i = n + 1
    <3>1. i - 1 = n /\ h[n] = f[n]
      BY <1>3, <1>5, <2>1
    <3> QED
      BY <1>3, <1>5, <2>1, <3>1
  <2>2. CASE i # n + 1
    <3>1. i \in 1..n /\ h[i] = f[i] /\ h[i - 1] = f[i - 1]
      BY <1>3, <1>5, <2>2
    <3> QED
      BY <1>2, <1>3, <3>1
  <2> QED
    BY <2>1, <2>2
<1>7. h[0] = <<>>
  BY <1>2, <1>3, <1>5
<1>8. Flats(h, tt, S)
  BY <1>3, <1>5, <1>6, <1>7 DEF Flats, T
<1>9. FlattenSeq(tt) = h[n + 1]
  BY <1>3, <1>8, FlatsValue
<1> QED
  BY <1>2, <1>4, <1>5, <1>9 DEF tt, T, Cat

(* What comes first comes first. *)
LEMMA FlattenFirst ==
  ASSUME NEW S, NEW ss \in Seq(Seq(S)), ss # <<>>
  PROVE  FlattenSeq(ss) = Head(ss) \o FlattenSeq(Tail(ss))
<1> DEFINE tt == Tail(ss)
           n == Len(ss)
           T == Seq(S)
<1>1. /\ tt \in Seq(Seq(S)) /\ n \in Nat \ {0} /\ Len(tt) = n - 1
      /\ \A i \in 1..(n - 1) : tt[i] = ss[i + 1]
      /\ Head(ss) = ss[1] /\ \A i \in 1..n : ss[i] \in T
  OBVIOUS
<1> HIDE DEF tt, n
<1>2. PICK f : Flats(f, ss, S)
  BY FlatsExists
<1>3. PICK g : Flats(g, tt, S)
  BY <1>1, FlatsExists
<1>4. /\ f \in [0..n -> T] /\ f[0] = <<>>
      /\ \A i \in 1..n : f[i] = Cat(f[i - 1], ss[i])
  BY <1>2 DEF Flats, n
<1>5. /\ g \in [0..(n - 1) -> T] /\ g[0] = <<>>
      /\ \A i \in 1..(n - 1) : g[i] = Cat(g[i - 1], ss[i + 1])
  BY <1>1, <1>3 DEF Flats
<1> DEFINE N == {i \in Nat : i <= n - 1 => f[i + 1] = Cat(ss[1], g[i])}
<1>6. 0 \in N
  <2>1. f[1] = Cat(f[0], ss[1]) /\ ss[1] \in T
    <3> HIDE DEF T
    <3> QED
      BY <1>1, <1>4
  <2>2. Cat(<<>>, ss[1]) = ss[1] /\ Cat(ss[1], <<>>) = ss[1]
    BY <2>1, CatFacts
  <2> HIDE DEF T
  <2> QED
    BY <1>4, <1>5, <2>1, <2>2
<1>7. ASSUME NEW i \in N PROVE i + 1 \in N
  <2> SUFFICES ASSUME i + 1 <= n - 1 PROVE f[i + 2] = Cat(ss[1], g[i + 1])
    BY <1>1
  <2>1. /\ f[i + 1] = Cat(ss[1], g[i]) /\ i + 2 \in 1..n /\ i + 1 \in 1..(n - 1)
        /\ i \in 0..(n - 1) /\ (i + 2) - 1 = i + 1 /\ (i + 1) - 1 = i
        /\ 1 \in 1..n /\ (i + 1) + 1 = i + 2
    BY <1>1
  <2> HIDE DEF N
  <2>2. f[i + 2] = Cat(f[i + 1], ss[i + 2])
    BY <1>4, <2>1
  <2>3. g[i + 1] = Cat(g[i], ss[i + 2])
    BY <1>5, <2>1
  <2>4. ss[1] \in T /\ g[i] \in T /\ ss[i + 2] \in T
    <3> HIDE DEF T
    <3> QED
      BY <1>1, <1>5, <2>1
  <2>5. Cat(Cat(ss[1], g[i]), ss[i + 2]) = Cat(ss[1], Cat(g[i], ss[i + 2]))
    <3>1. \A s, t, u \in T : Cat(Cat(s, t), u) = Cat(s, Cat(t, u))
      BY CatFacts
    <3> HIDE DEF T
    <3> QED
      BY <2>4, <3>1
  <2> QED
    BY <2>1, <2>2, <2>3, <2>5
<1>8. N \in SUBSET Nat /\ n - 1 \in Nat
  BY <1>1
<1>9. n - 1 \in N
  <2> HIDE DEF N
  <2> QED
    BY <1>6, <1>7, <1>8, SetInduction
<1>10. f[n] = Cat(ss[1], g[n - 1])
  BY <1>1, <1>9
<1>11. FlattenSeq(ss) = f[n]
  BY <1>2, FlatsValue DEF n
<1>12. FlattenSeq(tt) = g[n - 1]
  BY <1>1, <1>3, FlatsValue
<1> QED
  BY <1>1, <1>10, <1>11, <1>12 DEF tt, Cat

(* The whole of two sequences of sequences. *)
LEMMA FlattenConcat ==
  ASSUME NEW S, NEW ss \in Seq(Seq(S)), NEW tt \in Seq(Seq(S))
  PROVE  FlattenSeq(ss \o tt) = FlattenSeq(ss) \o FlattenSeq(tt)
<1> DEFINE uu == ss \o tt
           m == Len(ss)
           n == Len(tt)
           T == Seq(S)
<1>1. /\ uu \in Seq(Seq(S)) /\ m \in Nat /\ n \in Nat /\ Len(uu) = m + n
      /\ \A i \in 1..m : uu[i] = ss[i]
      /\ \A i \in 1..n : uu[m + i] = tt[i]
  BY ConcatProperties
<1> HIDE DEF uu, m, n
<1>2. PICK f : Flats(f, ss, S)
  BY FlatsExists
<1>3. PICK g : Flats(g, tt, S)
  BY FlatsExists
<1>4. /\ f \in [0..m -> T] /\ f[0] = <<>>
      /\ \A i \in 1..m : f[i] = Cat(f[i - 1], ss[i])
  BY <1>2 DEF Flats, m
<1>5. /\ g \in [0..n -> T] /\ g[0] = <<>>
      /\ \A i \in 1..n : g[i] = Cat(g[i - 1], tt[i])
  BY <1>3 DEF Flats, n
<1>6. /\ <<>> \in T /\ \A s, t \in T : Cat(s, t) \in T
      /\ \A s \in T : Cat(s, <<>>) = s
  BY CatFacts
<1>7. \A s, t, u \in T : Cat(Cat(s, t), u) = Cat(s, Cat(t, u))
  BY CatFacts
<1>8. \A i \in 1..n : tt[i] \in T
  BY DEF n
<1> HIDE DEF T
<1> DEFINE h == [i \in 0..(m + n) |-> IF i <= m THEN f[i] ELSE Cat(f[m], g[i - m])]
<1>9. f[m] \in T /\ \A i \in 0..n : g[i] \in T
  BY <1>1, <1>4, <1>5
<1>10. /\ \A i \in 0..m : h[i] = f[i]
      /\ \A i \in 0..n : h[m + i] = Cat(f[m], g[i])
  <2>1. ASSUME NEW i \in 0..m PROVE h[i] = f[i]
    BY <1>1
  <2>2. ASSUME NEW i \in 0..n PROVE h[m + i] = Cat(f[m], g[i])
    <3>1. CASE i = 0
      <4>1. m + i = m /\ Cat(f[m], g[i]) = f[m] /\ m \in 0..m
        BY <1>1, <1>5, <1>6, <1>9, <3>1
      <4> QED
        BY <2>1, <4>1
    <3>2. CASE i # 0
      <4>1. m + i \in 0..(m + n) /\ ~(m + i <= m) /\ (m + i) - m = i
        BY <1>1, <3>2
      <4> QED
        BY <4>1
    <3> QED
      BY <3>1, <3>2
  <2> QED
    BY <2>1, <2>2
<1>11. h \in [0..(m + n) -> T]
  <2>1. ASSUME NEW i \in 0..(m + n) PROVE h[i] \in T
    <3>1. CASE i <= m
      <4>1. i \in 0..m
        BY <1>1, <3>1
      <4>2. f[i] \in T
        BY <1>4, <4>1
      <4> QED
        BY <3>1, <4>2
    <3>2. CASE ~(i <= m)
      <4>1. i - m \in 0..n
        BY <1>1, <3>2
      <4> QED
        BY <1>6, <1>9, <3>2, <4>1
    <3> QED
      BY <3>1, <3>2
  <2>2. h = [i \in 0..(m + n) |-> h[i]]
    OBVIOUS
  <2> HIDE DEF h
  <2> QED
    BY <2>1, <2>2
<1> HIDE DEF h
<1>12. ASSUME NEW i \in 1..(m + n) PROVE h[i] = Cat(h[i - 1], uu[i])
  <2>1. CASE i <= m
    <3>1. i \in 1..m /\ i \in 0..m /\ i - 1 \in 0..m
      BY <1>1, <2>1
    <3> QED
      BY <1>1, <1>4, <1>10, <3>1
  <2>2. CASE ~(i <= m)
    <3>1. PICK j \in 1..n : i = m + j
      <4>1. i - m \in 1..n /\ i = m + (i - m)
        BY <1>1, <2>2
      <4> QED
        BY <4>1
    <3>2. j \in 0..n /\ j - 1 \in 0..n /\ i - 1 = m + (j - 1)
      BY <1>1, <3>1
    <3>3. /\ h[i] = Cat(f[m], g[j]) /\ h[i - 1] = Cat(f[m], g[j - 1])
          /\ uu[i] = tt[j] /\ g[j] = Cat(g[j - 1], tt[j])
      BY <1>1, <1>5, <1>10, <3>1, <3>2
    <3>4. f[m] \in T /\ g[j - 1] \in T /\ tt[j] \in T
      BY <1>8, <1>9, <3>1, <3>2
    <3>5. Cat(Cat(f[m], g[j - 1]), tt[j]) = Cat(f[m], Cat(g[j - 1], tt[j]))
      BY <1>7, <3>4
    <3> QED
      BY <3>3, <3>5
  <2> QED
    BY <2>1, <2>2
<1>13. h[0] = <<>>
  BY <1>1, <1>4, <1>10
<1>14. Flats(h, uu, S)
  BY <1>1, <1>11, <1>12, <1>13 DEF Flats, T
<1>15. FlattenSeq(uu) = h[m + n]
  BY <1>1, <1>14, FlatsValue
<1>16. h[m + n] = Cat(f[m], g[n])
  BY <1>1, <1>10
<1>17. FlattenSeq(ss) = f[m] /\ FlattenSeq(tt) = g[n]
  BY <1>2, <1>3, FlatsValue DEF m, n
<1> QED
  BY <1>15, <1>16, <1>17 DEF uu, Cat

(* The whole of nothing. *)
LEMMA FlattenNone == FlattenSeq(<<>>) = <<>>
  BY DEF FlattenSeq

(* When only the last part grows, the whole grows by as much. *)
LEMMA FlattenGrows ==
  ASSUME NEW S, NEW ss \in Seq(Seq(S)), NEW tt \in Seq(Seq(S)), NEW s \in Seq(S),
         ss # <<>>, Len(tt) = Len(ss),
         \A i \in 1..(Len(ss) - 1) : tt[i] = ss[i],
         tt[Len(ss)] = ss[Len(ss)] \o s
  PROVE  FlattenSeq(tt) = FlattenSeq(ss) \o s
<1> DEFINE n == Len(ss)
           rr == [i \in 1..(n - 1) |-> ss[i]]
           T == Seq(S)
<1>1. n \in Nat \ {0} /\ \A i \in 1..n : ss[i] \in T /\ tt[i] \in T
  BY EmptySeq
<1>2. rr \in Seq(T) /\ Len(rr) = n - 1 /\ \A i \in 1..(n - 1) : rr[i] = ss[i]
  <2> HIDE DEF n, T
  <2> QED
    BY <1>1
<1>3. ss = Append(rr, ss[n]) /\ tt = Append(rr, tt[n])
  <2>1. ss \in Seq(T) /\ tt \in Seq(T) /\ Len(ss) = n /\ Len(tt) = n
    OBVIOUS
  <2>2. \A i \in 1..(n - 1) : tt[i] = ss[i]
    OBVIOUS
  <2> HIDE DEF n, T, rr
  <2> QED
    BY <1>1, <1>2, <2>1, <2>2
<1>4. n \in 1..n
  BY <1>1
<1>5. ss[n] \in Seq(S) /\ tt[n] \in Seq(S) /\ rr \in Seq(Seq(S))
  BY <1>1, <1>2, <1>4
<1>6. tt[n] = ss[n] \o s
  OBVIOUS
<1> HIDE DEF n, rr
<1>7. FlattenSeq(rr) \in Seq(S)
  BY <1>5, FlattenLast
<1>8. FlattenSeq(ss) = FlattenSeq(rr) \o ss[n]
  BY <1>3, <1>5, FlattenLast
<1>9. FlattenSeq(tt) = FlattenSeq(rr) \o (ss[n] \o s)
  BY <1>3, <1>5, <1>6, FlattenLast
<1>10. \A r, t, u \in T : Cat(Cat(r, t), u) = Cat(r, Cat(t, u))
  BY CatFacts
<1>11. FlattenSeq(rr) \in T /\ ss[n] \in T /\ s \in T
  BY <1>5, <1>7
<1> HIDE DEF T
<1>12. Cat(Cat(FlattenSeq(rr), ss[n]), s) = Cat(FlattenSeq(rr), Cat(ss[n], s))
  BY <1>10, <1>11
<1> QED
  BY <1>8, <1>9, <1>12 DEF Cat

(* Where the parts are in the whole: part k begins behind position off[k - 1]. *)
Laid(off, ss, whole) ==
  /\ off \in [0..Len(ss) -> Nat]
  /\ off[0] = 0 /\ off[Len(ss)] = Len(whole)
  /\ \A k \in 1..Len(ss) : off[k] = off[k - 1] + Len(ss[k]) /\ off[k] <= Len(whole)
  /\ \A k \in 1..Len(ss) : \A a \in 1..Len(ss[k]) : whole[off[k - 1] + a] = ss[k][a]
  /\ \A i \in 1..Len(whole) : \E k \in 1..Len(ss) : \E a \in 1..Len(ss[k]) : i = off[k - 1] + a

(* The parts of FlattenSeq lie one behind the other. *)
LEMMA FlattenAt ==
  ASSUME NEW S, NEW ss \in Seq(Seq(S))
  PROVE  FlattenSeq(ss) \in Seq(S) /\ \E off : Laid(off, ss, FlattenSeq(ss))
<1> DEFINE m == Len(ss)
           T == Seq(S)
<1>1. PICK f : Flats(f, ss, S)
  BY FlatsExists
<1>2. /\ m \in Nat /\ f \in [0..m -> T] /\ f[0] = <<>>
      /\ \A i \in 1..m : f[i] = Cat(f[i - 1], ss[i]) /\ ss[i] \in T
  BY <1>1 DEF Flats
<1>3. FlattenSeq(ss) = f[m]
  BY <1>1, FlatsValue
<1>4. f[m] \in T
  <2> HIDE DEF T
  <2> QED
    BY <1>2
<1> DEFINE off == [i \in 0..m |-> Len(f[i])]
           Up(n) == \A k \in 1..n : off[k] = off[k - 1] + Len(ss[k]) /\ off[k] <= off[n]
           At(n) == \A k \in 1..n : \A a \in 1..Len(ss[k]) : f[n][off[k - 1] + a] = ss[k][a]
           On(n) == \A i \in 1..off[n] : \E k \in 1..n : \E a \in 1..Len(ss[k]) : i = off[k - 1] + a
           N == {n \in Nat : n <= m => Up(n) /\ At(n) /\ On(n)}
<1>5. /\ off \in [0..m -> Nat] /\ off[0] = 0
      /\ \A i \in 0..m : off[i] = Len(f[i])
  <2>1. ASSUME NEW i \in 0..m PROVE Len(f[i]) \in Nat
    <3>1. f[i] \in T
      <4> HIDE DEF T
      <4> QED
        BY <1>2
    <3> QED
      BY <3>1
  <2>2. Len(f[0]) = 0
    BY <1>2
  <2> HIDE DEF m
  <2> QED
    BY <1>2, <2>1, <2>2
<1> HIDE DEF off
<1>6. 0 \in N
  BY <1>5
<1>7. ASSUME NEW n \in N PROVE n + 1 \in N
  <2> HIDE DEF Up, At, On
  <2>0. n \in Nat /\ (n <= m => Up(n) /\ At(n) /\ On(n))
    OBVIOUS
  <2> SUFFICES ASSUME n + 1 <= m PROVE Up(n + 1) /\ At(n + 1) /\ On(n + 1)
    BY <2>0
  <2> HIDE DEF N
  <2> DEFINE r == f[n]
             s == ss[n + 1]
             t == f[n + 1]
  <2>1. n \in Nat /\ m \in Nat /\ n + 1 \in 1..m /\ n \in 0..m /\ (n + 1) - 1 = n
    BY <1>2, <2>0
  <2>2. Up(n) /\ At(n) /\ On(n)
    BY <2>0, <2>1
  <2> USE DEF Up, At, On
  <2>3. r \in T /\ s \in T /\ t = r \o s
    <3> HIDE DEF T, m
    <3> QED
      BY <1>2, <2>1 DEF Cat
  <2>4. /\ t \in Seq(S) /\ Len(t) = Len(r) + Len(s) /\ Len(r) \in Nat /\ Len(s) \in Nat
        /\ \A i \in 1..Len(r) : t[i] = r[i]
        /\ \A i \in 1..Len(s) : t[Len(r) + i] = s[i]
    <3>1. r \in Seq(S) /\ s \in Seq(S) /\ t = r \o s
      BY <2>3
    <3> HIDE DEF r, s, t
    <3> QED
      BY <3>1, ConcatProperties
  <2>5. off[n] = Len(r) /\ off[n + 1] = Len(r) + Len(s)
    <3>1. off[n] = Len(r) /\ off[n + 1] = Len(t)
      BY <1>5, <2>1
    <3> QED
      BY <2>4, <3>1
  <2>6. \A k \in 1..n : Len(ss[k]) \in Nat /\ off[k - 1] \in Nat /\ off[k] \in Nat
    <3> SUFFICES ASSUME NEW k \in 1..n PROVE Len(ss[k]) \in Nat /\ off[k - 1] \in Nat /\ off[k] \in Nat
      OBVIOUS
    <3>1. k \in 1..m /\ k - 1 \in 0..m /\ k \in 0..m
      BY <2>1
    <3>2. ss[k] \in T
      <4> HIDE DEF T, m
      <4> QED
        BY <1>2, <3>1
    <3>3. Len(ss[k]) \in Nat
      BY <3>2
    <3> HIDE DEF T, m
    <3> QED
      BY <1>5, <3>1, <3>3
  <2> HIDE DEF r, s, t, T
  <2>7. Up(n + 1)
    <3> SUFFICES ASSUME NEW k \in 1..(n + 1)
                 PROVE  off[k] = off[k - 1] + Len(ss[k]) /\ off[k] <= off[n + 1]
      OBVIOUS
    <3>1. CASE k = n + 1
      <4>1. k - 1 = n /\ ss[k] = s
        BY <2>1, <3>1 DEF s
      <4>2. off[k] = off[n + 1] /\ off[k - 1] = off[n] /\ Len(ss[k]) = Len(s)
        BY <3>1, <4>1
      <4> HIDE DEF m, off
      <4> QED
        BY <2>4, <2>5, <4>2
    <3>2. CASE k # n + 1
      <4>1. k \in 1..n
        BY <2>1, <3>2
      <4>2. off[k] = off[k - 1] + Len(ss[k]) /\ off[k] <= off[n] /\ off[k] \in Nat
        BY <2>2, <2>6, <4>1
      <4> QED
        BY <2>4, <2>5, <4>2
    <3> QED
      BY <3>1, <3>2
  <2>8. At(n + 1)
    <3> SUFFICES ASSUME NEW k \in 1..(n + 1), NEW a \in 1..Len(ss[k])
                 PROVE  t[off[k - 1] + a] = ss[k][a]
      BY DEF t
    <3>1. CASE k = n + 1
      BY <2>1, <2>4, <2>5, <3>1 DEF s
    <3>2. CASE k # n + 1
      <4>1. k \in 1..n
        BY <2>1, <3>2
      <4>2. off[k - 1] + a \in 1..Len(r)
        <5>1. /\ off[k] = off[k - 1] + Len(ss[k]) /\ off[k] <= off[n]
              /\ off[k] \in Nat /\ off[k - 1] \in Nat /\ Len(ss[k]) \in Nat
          BY <2>2, <2>6, <4>1
        <5>2. a \in Nat /\ 1 <= a /\ a <= Len(ss[k])
          BY <5>1
        <5>3. Len(r) \in Nat /\ off[n] = Len(r)
          BY <2>4, <2>5
        <5> HIDE DEF Up, At, On
        <5>4. off[k - 1] + a <= Len(r) /\ off[k - 1] + a \in Nat /\ 1 <= off[k - 1] + a
          BY <5>1, <5>2, <5>3
        <5> QED
          BY <2>4, <5>4
      <4>3. r[off[k - 1] + a] = ss[k][a]
        BY <2>2, <4>1 DEF r
      <4> QED
        BY <2>4, <4>2, <4>3
    <3> QED
      BY <3>1, <3>2
  <2>9. On(n + 1)
    <3> SUFFICES ASSUME NEW i \in 1..off[n + 1]
                 PROVE  \E k \in 1..(n + 1) : \E a \in 1..Len(ss[k]) : i = off[k - 1] + a
      OBVIOUS
    <3>1. CASE i <= Len(r)
      <4>1. i \in 1..off[n]
        BY <2>4, <2>5, <3>1
      <4>2. PICK k \in 1..n : \E a \in 1..Len(ss[k]) : i = off[k - 1] + a
        BY <2>2, <4>1
      <4>3. k \in 1..(n + 1)
        BY <2>1
      <4> QED
        BY <4>2, <4>3
    <3>2. CASE ~(i <= Len(r))
      <4>1. i - Len(r) \in 1..Len(s) /\ i = off[n] + (i - Len(r))
        BY <2>4, <2>5, <3>2
      <4>2. n + 1 \in 1..(n + 1)
        BY <2>1
      <4> QED
        BY <2>1, <4>1, <4>2 DEF s
    <3> QED
      BY <3>1, <3>2
  <2> QED
    BY <2>7, <2>8, <2>9
<1>8. m \in N
  <2>1. N \in SUBSET Nat
    OBVIOUS
  <2> HIDE DEF N
  <2> QED
    BY <1>2, <1>6, <1>7, <2>1, SetInduction
<1>9. Up(m) /\ At(m) /\ On(m) /\ off[m] = Len(f[m])
  <2>1. m \in 0..m
    BY <1>2
  <2> QED
    BY <1>2, <1>5, <1>8, <2>1
<1>10. Laid(off, ss, f[m])
  BY <1>5, <1>9 DEF Laid
<1> QED
  BY <1>3, <1>4, <1>10

(* A recursion that goes from a position to a later one, up to one where it stops, and
   collects what it passes.                                                   *)
Chains(f, L, D, g, later) ==
  f = [n \in 0..L |-> IF n \in D THEN Cat(g[n], f[later[n]]) ELSE <<>>]

(* There is a function that does so. *)
LEMMA ChainExists ==
  ASSUME NEW L \in Nat, NEW D, NEW g, NEW later, \A n \in D : later[n] \in (n + 1)..L
  PROVE  \E f : Chains(f, L, D, g, later)
<1> DEFINE v(f, n) == IF n \in D THEN Cat(g[n], f[later[n]]) ELSE <<>>
           P(f, k) == \A n \in 0..L : n + k > L => f[n] = v(f, n)
           N == {k \in Nat : \E f : P(f, k)}
<1>1. 0 \in N
  <2>1. P(<<>>, 0)
    OBVIOUS
  <2> HIDE DEF P
  <2> QED
    BY <2>1
<1>2. ASSUME NEW k \in N PROVE k + 1 \in N
  <2>1. PICK f : P(f, k)
    OBVIOUS
  <2> DEFINE h == [n \in 0..L |-> IF n + k > L THEN f[n] ELSE v(f, n)]
  <2>2. ASSUME NEW n \in 0..L, n + (k + 1) > L PROVE h[n] = v(h, n)
    <3>1. h[n] = v(f, n)
      BY <2>1
    <3>2. n \in D => h[later[n]] = f[later[n]]
      <4> SUFFICES ASSUME n \in D PROVE h[later[n]] = f[later[n]]
        OBVIOUS
      <4>1. later[n] \in (n + 1)..L
        OBVIOUS
      <4>2. later[n] \in 0..L /\ later[n] + k > L
        BY <2>2, <4>1
      <4> QED
        BY <4>2
    <3> HIDE DEF h
    <3> QED
      BY <3>1, <3>2
  <2> HIDE DEF h, v
  <2>3. P(h, k + 1)
    BY <2>2
  <2> HIDE DEF P
  <2> QED
    BY <2>3
<1>3. L + 1 \in N
  <2> HIDE DEF N
  <2>1. N = Nat
    <3>1. N \subseteq Nat
      BY DEF N
    <3> QED
      BY <1>1, <1>2, <3>1, SetInduction
  <2> QED
    BY <2>1
<1>4. PICK f : P(f, L + 1)
  BY <1>3
<1> DEFINE h == [n \in 0..L |-> v(f, n)]
<1>5. \A n \in 0..L : h[n] = f[n]
  BY <1>4
<1>6. \A n \in 0..L : v(h, n) = v(f, n)
  <2> SUFFICES ASSUME NEW n \in 0..L, n \in D PROVE h[later[n]] = f[later[n]]
    OBVIOUS
  <2>1. later[n] \in (n + 1)..L
    OBVIOUS
  <2>2. later[n] \in 0..L
    BY <2>1
  <2> QED
    BY <1>5, <2>2
<1>7. h = [n \in 0..L |-> v(h, n)]
  BY <1>6
<1>8. Chains(h, L, D, g, later)
  <2> HIDE DEF h
  <2> QED
    BY <1>7 DEF Chains
<1> QED
  BY <1>8

(* Where it goes by positions off[0], off[1] and so on and passes one element of s at
   each, it collects s. *)
Steps(off, m, L, D, g, later, s) ==
  /\ \A k \in 0..m : off[k] \in 0..L
  /\ \A k \in 1..m : /\ off[k - 1] \in D /\ later[off[k - 1]] = off[k]
                     /\ g[off[k - 1]] = <<s[k]>>
  /\ off[m] \notin D

(* The value of the chain is the sequence of what it passes. *)
LEMMA ChainValue ==
  ASSUME NEW S, NEW s \in Seq(S), NEW L \in Nat, NEW D, NEW g, NEW later, NEW f, NEW off,
         Chains(f, L, D, g, later), Steps(off, Len(s), L, D, g, later, s)
  PROVE  f[off[0]] = s
<1> DEFINE m == Len(s)
           rest(k) == [i \in 1..k |-> s[m - k + i]]
           N == {k \in Nat : k <= m => f[off[m - k]] = rest(k)}
<1>1. m \in Nat /\ \A i \in 1..m : s[i] \in S
  OBVIOUS
<1>2. /\ \A k \in 0..m : off[k] \in 0..L
      /\ \A k \in 1..m : /\ off[k - 1] \in D /\ later[off[k - 1]] = off[k]
                         /\ g[off[k - 1]] = <<s[k]>>
      /\ off[m] \notin D
  BY DEF Steps
<1>3. \A n \in 0..L : f[n] = IF n \in D THEN Cat(g[n], f[later[n]]) ELSE <<>>
  BY DEF Chains
<1>4. s = [i \in 1..m |-> s[i]]
  OBVIOUS
<1> HIDE DEF m
<1>5. 0 \in N
  <2>1. m - 0 = m /\ m \in 0..m /\ rest(0) = <<>>
    BY <1>1
  <2> QED
    BY <1>2, <1>3, <2>1
<1>6. ASSUME NEW k \in N PROVE k + 1 \in N
  <2> SUFFICES ASSUME k + 1 <= m PROVE f[off[m - (k + 1)]] = rest(k + 1)
    OBVIOUS
  <2> DEFINE j == m - k
  <2>1. k \in Nat /\ j \in 1..m /\ j - 1 \in 0..m /\ m - (k + 1) = j - 1 /\ k <= m
    BY <1>1
  <2>2. f[off[j]] = rest(k)
    BY <2>1
  <2>3. f[off[j - 1]] = Cat(<<s[j]>>, rest(k))
    <3> HIDE DEF j, rest
    <3>1. off[j - 1] \in 0..L /\ off[j - 1] \in D
      BY <1>2, <2>1
    <3>2. later[off[j - 1]] = off[j] /\ g[off[j - 1]] = <<s[j]>>
      BY <1>2, <2>1
    <3>3. f[off[j - 1]] = Cat(g[off[j - 1]], f[later[off[j - 1]]])
      BY <1>3, <3>1
    <3> QED
      BY <2>2, <3>2, <3>3
  <2>4. rest(k) \in Seq(S) /\ Len(rest(k)) = k /\ rest(k + 1) \in Seq(S) /\ Len(rest(k + 1)) = k + 1
    <3>1. ASSUME NEW e \in 0..m PROVE rest(e) \in Seq(S) /\ Len(rest(e)) = e
      <4>1. \A i \in 1..e : m - e + i \in 1..m
        BY <1>1
      <4>2. \A i \in 1..e : s[m - e + i] \in S
        BY <1>1, <4>1
      <4> QED
        BY <4>2
    <3>2. k \in 0..m /\ k + 1 \in 0..m
      BY <1>1, <2>1
    <3> QED
      BY <3>1, <3>2
  <2>5. rest(k + 1) = <<s[j]>> \o rest(k)
    <3>1. s[j] \in S
      BY <1>1, <2>1
    <3>2. rest(k + 1)[1] = s[j]
      <4>1. 1 \in 1..(k + 1) /\ m - (k + 1) + 1 = j
        BY <1>1, <2>1
      <4> QED
        BY <4>1
    <3>3. ASSUME NEW i \in 1..k PROVE rest(k + 1)[i + 1] = rest(k)[i]
      <4>1. i + 1 \in 1..(k + 1) /\ m - (k + 1) + (i + 1) = m - k + i
        BY <1>1, <2>1
      <4> QED
        BY <4>1
    <3> HIDE DEF rest, j
    <3>4. \A i \in 2..(k + 1) : i - 1 \in 1..k /\ rest(k + 1)[i] = rest(k)[i - 1]
      <4> SUFFICES ASSUME NEW i \in 2..(k + 1)
                   PROVE  i - 1 \in 1..k /\ rest(k + 1)[i] = rest(k)[i - 1]
        OBVIOUS
      <4>1. i - 1 \in 1..k /\ (i - 1) + 1 = i
        BY <2>1
      <4> QED
        BY <3>3, <4>1
    <3> DEFINE one == <<s[j]>>
               t == one \o rest(k)
    <3>5. one \in Seq(S) /\ Len(one) = 1 /\ one[1] = s[j]
      BY <3>1
    <3> HIDE DEF one
    <3>6. /\ t \in Seq(S) /\ Len(t) = 1 + k
          /\ \A i \in 1..(1 + k) : t[i] = IF i <= 1 THEN one[i] ELSE rest(k)[i - 1]
      <4> DEFINE r == rest(k)
      <4>1. r \in Seq(S) /\ Len(r) = k /\ one \in Seq(S) /\ Len(one) = 1
        BY <2>4, <3>5
      <4> HIDE DEF r
      <4>2. /\ one \o r \in Seq(S) /\ Len(one \o r) = Len(one) + Len(r)
            /\ \A i \in 1..(Len(one) + Len(r)) :
                 (one \o r)[i] = IF i <= Len(one) THEN one[i] ELSE r[i - Len(one)]
        BY <4>1, ConcatProperties
      <4> QED
        BY <4>1, <4>2 DEF r
    <3>7. 1 + k = k + 1
      BY <2>1
    <3> HIDE DEF t
    <3>8. ASSUME NEW i \in 1..(k + 1) PROVE rest(k + 1)[i] = t[i]
      <4>1. CASE i = 1
        BY <3>2, <3>5, <3>6, <3>7, <4>1
      <4>2. CASE i # 1
        <5>1. i \in 2..(k + 1) /\ ~(i <= 1)
          BY <4>2
        <5> QED
          BY <3>4, <3>6, <3>7, <5>1
      <4> QED
        BY <4>1, <4>2
    <3>9. rest(k + 1) = [i \in 1..(k + 1) |-> rest(k + 1)[i]] /\ t = [i \in 1..(k + 1) |-> t[i]]
      BY <2>4, <3>6, <3>7
    <3>10. rest(k + 1) = t
      BY <3>8, <3>9
    <3> QED
      BY <3>10 DEF t, one
  <2> HIDE DEF rest
  <2> QED
    BY <2>1, <2>3, <2>5 DEF Cat
<1>7. m \in N
  <2> HIDE DEF N
  <2>1. N = Nat
    <3>1. N \subseteq Nat
      BY DEF N
    <3> QED
      BY <1>5, <1>6, <3>1, SetInduction
  <2> QED
    BY <1>1, <2>1
<1>8. m - m = 0 /\ m <= m
  BY <1>1
<1>9. rest(m) = s
  <2>1. \A i \in 1..m : m - m + i = i
    BY <1>1
  <2> QED
    BY <1>4, <2>1
<1> HIDE DEF rest
<1> QED
  BY <1>7, <1>8, <1>9
=============================================================================
