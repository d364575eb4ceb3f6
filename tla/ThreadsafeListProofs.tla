------------------------- MODULE ThreadsafeListProofs -------------------------
(***************************************************************************)
(* Proofs about ThreadsafeList, for any number of threads, nodes and       *)
(* values: push_front, find_first_if and remove_if at once.                *)
(*                                                                         *)
(* The invariant says which mutexes a thread holds at each point (Owned),  *)
(* that the links form one list without a second link to any node          *)
(* (Linked), where in it each thread is (Spots), that what is out of the   *)
(* list is being deleted by one thread (NoNodeLost, Leaving), that no      *)
(* match is behind its traversal (NothingSkipped), and that whoever is to  *)
(* remove a node is ahead of every find_first_if that must not see it      *)
(* (Doomed).  Reachability along the links is the least closed set, so a   *)
(* claim about it is proved by giving a closed set; no induction is used.  *)
(***************************************************************************)
EXTENDS ThreadsafeList, TLAPS

(* The nodes whose mutex thread t holds. *)
Held(t) ==
  CASE pc[t] \in {"scan", "lock", "delete"}                 -> {current[t]}
    [] pc[t] \in {"leave", "unlock"}                        -> {current[t], nxt[t]}
    [] pc[t] = "test" /\ op[t] = "remove"                   -> {current[t], nxt[t]}
    [] pc[t] = "test" /\ op[t] = "find"                     -> {nxt[t]}
    [] OTHER                                                -> {}

(* A mutex is held by the thread that the code has there, and by nobody else. *)
Owned == \A t \in Threads, p \in Places : owner[p] = t <=> p \in Held(t)

(* What is linked from head, and head itself. *)
InList == After(Head) \cup {Head}

(* No node has two links to it, and what is not in the list links to nothing. *)
Linked ==
  /\ \A p, q \in Places : next[p] = next[q] /\ next[p] # Null => p = q
  /\ \A p \in Places : next[p] # Null => p \in InList

(* Thread t has unlinked its next node and not yet deleted it. *)
Removing(t) == pc[t] \in {"unlock", "delete"}

(* Where a traversal has got to: the node whose mutex it will not give up before it
   has the next. *)
Position(t) == IF pc[t] = "test" THEN nxt[t] ELSE current[t]

(* What is known of where thread t is. *)
Spot(t) ==
  /\ ~Traversing(t) => current[t] = Head /\ stable[t] = {}
  /\ pc[t] = "idle" => op[t] = "find"
  /\ pc[t] = "leave" => op[t] = "find"
  /\ Removing(t) => op[t] = "remove"
  /\ Traversing(t) => Position(t) \in InList
  /\ pc[t] \in {"lock", "leave"} \/ (pc[t] = "test" /\ op[t] = "remove") =>
       nxt[t] # Null /\ nxt[t] = next[current[t]] /\ current[t] \in InList
  /\ stable[t] \subseteq After(Head)

Spots == \A t \in Threads : Spot(t)

(* Nodes are removed by one thread each. *)
Leaving ==
  \A t, u \in Threads : Removing(t) /\ Removing(u) /\ nxt[t] = nxt[u] => t = u

(* What a find_first_if must not see yet is on its way out, or behind the remove_if
   that is to remove it, which is ahead. *)
Doomed ==
  \A t \in Threads : op[t] = "find" /\ Traversing(t) =>
    \A n \in doomed[t] :
      \/ \E r \in Threads : Removing(r) /\ nxt[r] = n
      \/ \E r \in Threads : /\ op[r] = "remove" /\ Traversing(r)
                            /\ n \in stable[r] /\ Matches(r, n)
                            /\ Position(r) \in After(Position(t))

(* The inductive invariant. *)
IInv == /\ TypeOK /\ Owned /\ Linked /\ Spots /\ NoNodeLost /\ Leaving /\ NothingSkipped
        /\ Doomed

-----------------------------------------------------------------------------
(* Reachability along the links of f, and what linking and unlinking do to it. *)
Links == [Places -> Nodes \cup {Null}]
Closed(f, S, n) == \A p \in S \cup {n} : f[p] \in S \cup {Null}
Reach(f, n) == {m \in Nodes : \A S \in SUBSET Nodes : Closed(f, S, n) => m \in S}
OneLink(f) == \A p, q \in Places : f[p] = f[q] /\ f[p] # Null => p = q

(* What is behind a node is what its links reach, in a state and in the next. *)
LEMMA AfterReach ==
  /\ \A n : After(n) = Reach(next, n)
  /\ \A n : After(n)' = Reach(next', n)
  BY DEF After, Reach, Closed

(* What is reached is in every set that is closed under the links. *)
LEMMA ReachLeast ==
  ASSUME NEW f \in Links, NEW n \in Places, NEW S \in SUBSET Nodes, Closed(f, S, n)
  PROVE  Reach(f, n) \subseteq S
  BY DEF Reach

(* What is reached is itself closed under the links. *)
LEMMA ReachClosed ==
  ASSUME NEW f \in Links, NEW n \in Places
  PROVE  Reach(f, n) \subseteq Nodes /\ Closed(f, Reach(f, n), n)
<1>1. Reach(f, n) \subseteq Nodes
  BY DEF Reach
<1>2. ASSUME NEW p \in Reach(f, n) \cup {n} PROVE f[p] \in Reach(f, n) \cup {Null}
  <2> SUFFICES ASSUME f[p] # Null PROVE f[p] \in Reach(f, n)
    OBVIOUS
  <2>1. f[p] \in Nodes
    BY <1>1, <1>2 DEF Links, Places
  <2>2. ASSUME NEW S \in SUBSET Nodes, Closed(f, S, n) PROVE f[p] \in S
    <3>1. p \in S \cup {n}
      BY <1>2, <2>2 DEF Reach
    <3> QED
      BY <2>2, <3>1 DEF Closed
  <2> QED
    BY <2>1, <2>2 DEF Reach
<1> QED
  BY <1>1, <1>2 DEF Closed

(* What is reached from a node that is reached is reached. *)
LEMMA ReachTrans ==
  ASSUME NEW f \in Links, NEW n \in Places, NEW m \in Reach(f, n)
  PROVE  Reach(f, m) \subseteq Reach(f, n)
<1>1. m \in Places /\ Reach(f, n) \in SUBSET Nodes
  BY ReachClosed DEF Places
<1>2. Closed(f, Reach(f, n), m)
  BY ReachClosed DEF Closed
<1> QED
  BY <1>1, <1>2, ReachLeast

(* From a node its link is reached, and what that reaches. *)
LEMMA ReachStep ==
  ASSUME NEW f \in Links, NEW n \in Places
  PROVE  Reach(f, n) = IF f[n] = Null THEN {} ELSE {f[n]} \cup Reach(f, f[n])
<1> USE ListConstantsOK
<1>1. CASE f[n] = Null
  <2>1. Closed(f, {}, n)
    BY <1>1 DEF Closed
  <2> QED
    BY <1>1, <2>1, ReachLeast
<1>2. CASE f[n] # Null
  <2> DEFINE m == f[n]
  <2>1. m \in Nodes /\ m \in Places
    BY <1>2 DEF Links, Places
  <2>2. m \in Reach(f, n)
    BY <1>2, ReachClosed DEF Closed
  <2>3. Reach(f, m) \subseteq Reach(f, n)
    BY <2>2, ReachTrans
  <2> HIDE DEF m
  <2>4. {m} \cup Reach(f, m) \in SUBSET Nodes
    BY <2>1, ReachClosed
  <2>5. Closed(f, {m} \cup Reach(f, m), n)
    BY <2>1, ReachClosed DEF Closed, m
  <2>6. Reach(f, n) \subseteq {m} \cup Reach(f, m)
    BY <2>4, <2>5, ReachLeast
  <2> QED
    BY <1>2, <2>2, <2>3, <2>6 DEF m
<1> QED
  BY <1>1, <1>2

(* A node that is reached is linked from one that is, or from the start. *)
LEMMA ReachPred ==
  ASSUME NEW f \in Links, NEW n \in Places, NEW x \in Reach(f, n)
  PROVE  \E p \in Reach(f, n) \cup {n} : f[p] = x
<1> SUFFICES ASSUME \A p \in Reach(f, n) \cup {n} : f[p] # x PROVE FALSE
  OBVIOUS
<1>1. Closed(f, Reach(f, n) \ {x}, n)
  BY ReachClosed DEF Closed
<1>2. Reach(f, n) \ {x} \in SUBSET Nodes
  BY ReachClosed
<1> QED
  BY <1>1, <1>2, ReachLeast

(* No node of the list is behind itself. *)
LEMMA Acyclic ==
  ASSUME NEW f \in Links, OneLink(f), NEW x \in Reach(f, Head)
  PROVE  x \notin Reach(f, x)
<1> USE ListConstantsOK
<1> DEFINE S == {m \in Reach(f, Head) : m \notin Reach(f, m)}
<1>1. Head \in Places /\ Nodes \subseteq Places
  BY DEF Places
<1>2. Reach(f, Head) \subseteq Nodes /\ S \in SUBSET Nodes
  BY <1>1, ReachClosed
<1>3. ASSUME NEW p \in S \cup {Head}, f[p] # Null PROVE f[p] \in S
  <2> DEFINE m == f[p]
  <2>1. m \in Reach(f, Head) /\ m \in Places /\ m \in Nodes /\ p \in Places
    BY <1>1, <1>2, <1>3, ReachClosed DEF Closed
  <2>2. ASSUME m \in Reach(f, m) PROVE FALSE
    <3>1. PICK y \in Reach(f, m) \cup {m} : f[y] = m
      BY <2>1, <2>2, ReachPred
    <3>2. y \in Places /\ y \in Reach(f, m)
      BY <1>1, <2>1, <2>2, <3>1, ReachClosed
    <3>3. y = p
      BY <1>3, <2>1, <3>1, <3>2 DEF OneLink
    <3>4. p \in Nodes /\ p \in S
      BY <1>3, <2>1, <3>2, <3>3, ReachClosed
    <3>5. Reach(f, p) = {m} \cup Reach(f, m)
      BY <1>3, <2>1, ReachStep
    <3> QED
      BY <3>2, <3>3, <3>4, <3>5
  <2> QED
    BY <2>1, <2>2
<1>4. Closed(f, S, Head)
  BY <1>3 DEF Closed
<1> HIDE DEF S
<1>5. Reach(f, Head) \subseteq S
  BY <1>1, <1>2, <1>4, ReachLeast
<1> QED
  BY <1>5 DEF S

(* Taking x, the node behind c, out of the list. *)
LEMMA ReachUnlink ==
  ASSUME NEW f \in Links, OneLink(f), NEW c \in Places, NEW x \in Nodes, f[c] = x, x # c,
         NEW g \in Links, g[c] = f[x], g[x] = Null,
         \A y \in Places \ {c, x} : g[y] = f[y], NEW p \in Places, p # x
  PROVE  OneLink(g) /\ Reach(g, p) = Reach(f, p) \ {x}
<1> USE ListConstantsOK
<1>1. x \in Places /\ Nodes \subseteq Places /\ f[x] # x
  BY DEF Places, OneLink
<1>2. g \in Links
  OBVIOUS
<1>3. /\ g[c] = f[x] /\ g[x] = Null
      /\ \A y \in Places : y # c /\ y # x => g[y] = f[y] /\ f[y] # x
  BY <1>1 DEF OneLink
<1>4. OneLink(g)
  BY <1>1, <1>3 DEF OneLink
<1>5. Closed(g, Reach(f, p) \ {x}, p)
  <2> SUFFICES ASSUME NEW y \in (Reach(f, p) \ {x}) \cup {p}, g[y] # Null
               PROVE  g[y] \in Reach(f, p) /\ g[y] # x
    BY DEF Closed
  <2>1. y \in Places /\ y # x
    BY <1>1, ReachClosed
  <2>2. CASE y # c
    <3>1. g[y] = f[y] /\ f[y] # x
      BY <1>3, <2>1, <2>2
    <3>2. f[y] \in Reach(f, p) \cup {Null}
      BY ReachClosed DEF Closed
    <3> QED
      BY <3>1, <3>2
  <2>3. CASE y = c
    <3>1. x \in Reach(f, p)
      BY <2>3, ReachClosed DEF Closed
    <3> QED
      BY <1>1, <1>3, <2>3, <3>1, ReachClosed DEF Closed
  <2> QED
    BY <2>2, <2>3
<1>6. Reach(g, p) \subseteq Reach(f, p) \ {x}
  BY <1>2, <1>5, ReachClosed, ReachLeast
<1>7. Reach(f, p) \subseteq Reach(g, p) \cup {x}
  <2>1. Reach(g, p) \subseteq Nodes /\ Closed(g, Reach(g, p), p)
    BY <1>2, ReachClosed
  <2>2. CASE c \in Reach(g, p) \cup {p}
    <3>1. Closed(f, Reach(g, p) \cup {x}, p)
      <4> SUFFICES ASSUME NEW y \in Reach(g, p) \cup {x} \cup {p}
                   PROVE  f[y] \in Reach(g, p) \cup {x} \cup {Null}
        BY DEF Closed
      <4>1. CASE y = c
        BY <4>1
      <4>2. CASE y = x
        BY <1>3, <2>1, <2>2, <4>2 DEF Closed
      <4>3. CASE y # c /\ y # x
        BY <1>1, <1>3, <2>1, <4>3 DEF Closed
      <4> QED
        BY <4>1, <4>2, <4>3
    <3> QED
      BY <2>1, <3>1, ReachLeast
  <2>3. CASE c \notin Reach(g, p) \cup {p}
    <3>1. x \notin Reach(g, p)
      BY <1>6
    <3>2. Closed(f, Reach(g, p), p)
      BY <1>1, <1>3, <2>1, <2>3, <3>1 DEF Closed
    <3> QED
      BY <2>1, <3>2, ReachLeast
  <2> QED
    BY <2>2, <2>3
<1> QED
  BY <1>2, <1>4, <1>6, <1>7

(* Linking node n, to which nothing links, behind the head. *)
LEMMA ReachPush ==
  ASSUME NEW f \in Links, OneLink(f), NEW n \in Nodes, f[n] = Null,
         \A p \in Places : f[p] # n,
         NEW g \in Links, g[n] = f[Head], g[Head] = n,
         \A p \in Places \ {n, Head} : g[p] = f[p]
  PROVE  /\ OneLink(g)
         /\ Reach(g, Head) = Reach(f, Head) \cup {n}
         /\ \A p \in Nodes \ {n} : Reach(g, p) = Reach(f, p)
<1> USE ListConstantsOK
<1>1. Head \in Places /\ Nodes \subseteq Places /\ n # Head /\ n \in Places
  BY DEF Places
<1>2. g \in Links
  OBVIOUS
<1>3. /\ g[n] = f[Head] /\ g[Head] = n
      /\ \A p \in Places : p # n /\ p # Head => g[p] = f[p]
  OBVIOUS
<1>4. OneLink(g)
  BY <1>1, <1>3 DEF OneLink
<1>5. ASSUME NEW p \in Nodes \ {n} PROVE Reach(g, p) = Reach(f, p)
  <2>1. /\ Reach(f, p) \subseteq Nodes /\ Closed(f, Reach(f, p), p)
        /\ Reach(g, p) \subseteq Nodes /\ Closed(g, Reach(g, p), p)
    BY <1>1, <1>2, ReachClosed
  <2>2. n \notin Reach(f, p)
    BY <1>1, <2>1, ReachPred
  <2>3. Closed(g, Reach(f, p), p)
    BY <1>1, <1>3, <2>1, <2>2 DEF Closed
  <2>4. Reach(g, p) \subseteq Reach(f, p)
    BY <1>1, <1>2, <2>1, <2>3, ReachLeast
  <2>5. Closed(f, Reach(g, p), p)
    BY <1>1, <1>3, <2>1, <2>2, <2>4 DEF Closed
  <2>6. Reach(f, p) \subseteq Reach(g, p)
    BY <1>1, <2>1, <2>5, ReachLeast
  <2> QED
    BY <2>4, <2>6
<1>6. Reach(g, Head) = {n} \cup Reach(g, n)
  <2>1. g[Head] # Null
    BY <1>3
  <2>2. Reach(g, Head) = {g[Head]} \cup Reach(g, g[Head])
    BY <1>1, <1>2, <2>1, ReachStep
  <2> QED
    BY <1>3, <2>2
<1>7. f[Head] \in Nodes \cup {Null} /\ f[Head] # n
  BY <1>1 DEF Links
<1>8. Reach(g, n) = IF f[Head] = Null THEN {} ELSE {f[Head]} \cup Reach(g, f[Head])
  BY <1>1, <1>2, <1>3, ReachStep
<1>9. Reach(f, Head) = IF f[Head] = Null THEN {} ELSE {f[Head]} \cup Reach(f, f[Head])
  BY <1>1, ReachStep
<1>10. f[Head] # Null => Reach(g, f[Head]) = Reach(f, f[Head])
  BY <1>5, <1>7
<1> QED
  BY <1>2, <1>4, <1>5, <1>6, <1>8, <1>9, <1>10

(* The nodes a traversal is at: in the list and distinct, or, while it removes one,
   that one out of the list.                                                 *)
LEMMA AtNodes ==
  ASSUME IInv, NEW t \in Threads
  PROVE  /\ pc[t] \in {"lock", "leave", "test"} => nxt[t] \in After(Head)
         /\ pc[t] \in {"lock", "leave"} \/ (pc[t] = "test" /\ op[t] = "remove") =>
              current[t] \in InList /\ nxt[t] # current[t]
         /\ Removing(t) => /\ nxt[t] \in alive /\ nxt[t] \notin InList
                           /\ current[t] \in InList /\ nxt[t] # current[t]
         /\ nxt[t] \in After(Head) => nxt[t] \in Nodes /\ nxt[t] \in alive
<1> USE ListConstantsOK DEF IInv
<1>1. next \in Links /\ OneLink(next) /\ Head \in Places
  BY DEF TypeOK, Links, Linked, OneLink, Places
<1>2. After(Head) = Reach(next, Head) /\ After(Head) \subseteq Nodes
  BY <1>1, AfterReach, ReachClosed
<1>3. pc[t] \in {"lock", "leave"} \/ (pc[t] = "test" /\ op[t] = "remove") =>
        nxt[t] \in After(Head) /\ current[t] \in InList /\ nxt[t] # current[t]
  <2> SUFFICES ASSUME pc[t] \in {"lock", "leave"} \/ (pc[t] = "test" /\ op[t] = "remove")
               PROVE  nxt[t] \in After(Head) /\ current[t] \in InList /\ nxt[t] # current[t]
    OBVIOUS
  <2>1. nxt[t] # Null /\ nxt[t] = next[current[t]] /\ current[t] \in InList
    BY DEF Spots, Spot
  <2>2. nxt[t] \in After(Head)
    BY <1>1, <1>2, <2>1, ReachClosed DEF Closed, InList
  <2>3. ASSUME nxt[t] = current[t] PROVE FALSE
    <3> DEFINE x == nxt[t]
    <3>1. x \in Places /\ next[x] = x /\ x # Null
      BY <1>2, <2>1, <2>2, <2>3 DEF Places
    <3>2. x \in Reach(next, x)
      BY <1>1, <3>1, ReachStep
    <3> QED
      BY <1>1, <1>2, <2>2, <3>2, Acyclic
  <2> QED
    BY <2>1, <2>2, <2>3
<1>4. pc[t] = "test" => nxt[t] \in After(Head)
  <2>1. pc[t] = "test" => nxt[t] \in InList
    BY DEF Spots, Spot, Position, Traversing
  <2> QED
    BY <2>1 DEF InList, TypeOK
<1>5. Removing(t) => /\ nxt[t] \in alive /\ nxt[t] \notin InList
                     /\ current[t] \in InList /\ nxt[t] # current[t]
  <2> SUFFICES ASSUME Removing(t)
               PROVE  /\ nxt[t] \in alive /\ nxt[t] \notin InList
                      /\ current[t] \in InList /\ nxt[t] # current[t]
    OBVIOUS
  <2>1. nxt[t] \in alive /\ nxt[t] \notin After(Head)
    BY DEF NoNodeLost, Removing
  <2>2. current[t] \in InList
    BY DEF Spots, Spot, Position, Traversing, Removing
  <2> QED
    BY <2>1, <2>2 DEF InList, TypeOK
<1>6. nxt[t] \in After(Head) => nxt[t] \in Nodes /\ nxt[t] \in alive
  BY <1>2 DEF NoNodeLost
<1> QED
  BY <1>3, <1>4, <1>5, <1>6

(* Every step keeps the types. *)
LEMMA TypeStep == ASSUME IInv, Next PROVE TypeOK'
<1> USE ListConstantsOK DEF IInv, TypeOK, Goto, Unlock, Return, list, call, ghost, vars
<1> HIDE DEF After
<1>0. Head \in Places /\ Nodes \subseteq Places /\ \A n : After(n) \subseteq Nodes
  BY DEF Places, After
<1>1. ASSUME NEW t \in Threads, PushFront(t) PROVE TypeOK'
  BY <1>0, <1>1 DEF PushFront
<1>2. ASSUME NEW t \in Threads, Call(t) PROVE TypeOK'
  BY <1>0, <1>2 DEF Call
<1>3. ASSUME NEW t \in Threads, LockHead(t) PROVE TypeOK'
  BY <1>0, <1>3 DEF LockHead
<1>4. ASSUME NEW t \in Threads, Scan(t) PROVE TypeOK'
  BY <1>0, <1>4 DEF Scan
<1>5. ASSUME NEW t \in Threads, ScanEnd(t) PROVE TypeOK'
  BY <1>0, <1>5 DEF ScanEnd
<1>6. ASSUME NEW t \in Threads, LockNext(t) PROVE TypeOK'
  BY <1>0, <1>6 DEF LockNext
<1>7. ASSUME NEW t \in Threads, Leave(t) PROVE TypeOK'
  BY <1>0, <1>7 DEF Leave
<1>8. ASSUME NEW t \in Threads, FindReturns(t) PROVE TypeOK'
  BY <1>0, <1>8 DEF FindReturns
<1>9. ASSUME NEW t \in Threads, FindAdvances(t) PROVE TypeOK'
  <2>1. nxt[t] \in Places
    BY <1>0, <1>9, AtNodes DEF FindAdvances
  <2> QED
    BY <1>9, <2>1 DEF FindAdvances
<1>10. ASSUME NEW t \in Threads, RemoveAdvances(t) PROVE TypeOK'
  <2>1. nxt[t] \in Places
    BY <1>0, <1>10, AtNodes DEF RemoveAdvances
  <2> QED
    BY <1>10, <2>1 DEF RemoveAdvances
<1>11. ASSUME NEW t \in Threads, Unlink(t) PROVE TypeOK'
  <2>1. nxt[t] \in Places
    BY <1>0, <1>11, AtNodes DEF Unlink
  <2> QED
    BY <1>11, <2>1 DEF Unlink
<1>12. ASSUME NEW t \in Threads, UnlockNext(t) PROVE TypeOK'
  BY <1>0, <1>12 DEF UnlockNext
<1>13. ASSUME NEW t \in Threads, DeleteNext(t) PROVE TypeOK'
  BY <1>0, <1>13 DEF DeleteNext
<1> QED
  BY <1>1, <1>2, <1>3, <1>4, <1>5, <1>6, <1>7, <1>8, <1>9, <1>10, <1>11, <1>12, <1>13
     DEF Next, Step, Find, Remove

(* Every step of threadsafe_list.hpp locks and unlocks what its place says. *)
LEMMA OwnedStep == ASSUME IInv, Next PROVE Owned'
<1> USE ListConstantsOK DEF IInv, TypeOK, Owned, Held, Spots, Spot, Traversing, Removing,
                            Goto, Unlock, Return, list, call, ghost, vars
<1>0. Head \in Places /\ Nodes \subseteq Places
  BY DEF Places
<1>1. ASSUME NEW t \in Threads, PushFront(t) PROVE Owned'
  BY <1>0, <1>1 DEF PushFront
<1>2. ASSUME NEW t \in Threads, Call(t) PROVE Owned'
  BY <1>0, <1>2 DEF Call
<1>3. ASSUME NEW t \in Threads, LockHead(t) PROVE Owned'
  BY <1>0, <1>3 DEF LockHead
<1>4. ASSUME NEW t \in Threads, Scan(t) PROVE Owned'
  BY <1>0, <1>4 DEF Scan
<1>5. ASSUME NEW t \in Threads, ScanEnd(t) PROVE Owned'
  BY <1>0, <1>5 DEF ScanEnd
<1>6. ASSUME NEW t \in Threads, LockNext(t) PROVE Owned'
  BY <1>0, <1>6 DEF LockNext
<1>7. ASSUME NEW t \in Threads, Leave(t) PROVE Owned'
  <2>1. nxt[t] # current[t] /\ nxt[t] \in Places
    BY <1>0, <1>7, AtNodes DEF Leave
  <2> QED
    BY <1>0, <1>7, <2>1 DEF Leave
<1>8. ASSUME NEW t \in Threads, FindReturns(t) PROVE Owned'
  BY <1>0, <1>8 DEF FindReturns
<1>9. ASSUME NEW t \in Threads, FindAdvances(t) PROVE Owned'
  BY <1>0, <1>9 DEF FindAdvances
<1>10. ASSUME NEW t \in Threads, RemoveAdvances(t) PROVE Owned'
  <2>1. nxt[t] # current[t] /\ nxt[t] \in Places
    BY <1>0, <1>10, AtNodes DEF RemoveAdvances
  <2> QED
    BY <1>0, <1>10, <2>1 DEF RemoveAdvances
<1>11. ASSUME NEW t \in Threads, Unlink(t) PROVE Owned'
  BY <1>0, <1>11 DEF Unlink
<1>12. ASSUME NEW t \in Threads, UnlockNext(t) PROVE Owned'
  <2>1. nxt[t] # current[t] /\ nxt[t] \in Places
    BY <1>0, <1>12, AtNodes DEF UnlockNext
  <2> QED
    BY <1>0, <1>12, <2>1 DEF UnlockNext
<1>13. ASSUME NEW t \in Threads, DeleteNext(t) PROVE Owned'
  BY <1>0, <1>13 DEF DeleteNext
<1> QED
  BY <1>1, <1>2, <1>3, <1>4, <1>5, <1>6, <1>7, <1>8, <1>9, <1>10, <1>11, <1>12, <1>13
     DEF Next, Step, Find, Remove

(* The links of a reachable state. *)
LEMMA LinksOK ==
  ASSUME IInv
  PROVE  /\ next \in Links /\ OneLink(next) /\ Head \in Places /\ Nodes \subseteq Places
         /\ After(Head) \subseteq Nodes /\ InList \subseteq Places
         /\ \A p \in InList : next[p] \in After(Head) \cup {Null}
         /\ \A p \in Places \ InList : next[p] = Null
<1> USE ListConstantsOK DEF IInv
<1>1. next \in Links /\ OneLink(next) /\ Head \in Places /\ Nodes \subseteq Places
  BY DEF TypeOK, Links, Linked, OneLink, Places
<1>2. After(Head) = Reach(next, Head) /\ After(Head) \subseteq Nodes
  BY <1>1, AfterReach, ReachClosed
<1>3. \A p \in InList : next[p] \in After(Head) \cup {Null}
  BY <1>1, <1>2, ReachClosed DEF Closed, InList
<1>4. \A p \in Places \ InList : next[p] = Null
  BY DEF Linked
<1> QED
  BY <1>1, <1>2, <1>3, <1>4 DEF InList

(* push_front puts a node at the front of the list and changes nothing behind it. *)
LEMMA PushEffect ==
  ASSUME IInv, NEW n \in Nodes \ alive,
         next' = [next EXCEPT ![n] = next[Head], ![Head] = n]
  PROVE  /\ n \notin InList /\ OneLink(next') /\ next' \in Links
         /\ After(Head)' = After(Head) \cup {n}
         /\ \A p \in Nodes \ {n} : After(p)' = After(p)
         /\ next'[n] = next[Head] /\ next'[Head] = n
         /\ \A p \in Places \ {n, Head} : next'[p] = next[p]
<1> USE ListConstantsOK
<1>1. n \notin InList
  BY DEF IInv, NoNodeLost, InList
<1>2. next[n] = Null /\ \A p \in Places : next[p] # n
  BY <1>1, LinksOK DEF InList
<1>3. /\ next'[n] = next[Head] /\ next'[Head] = n /\ next' \in Links
      /\ \A p \in Places \ {n, Head} : next'[p] = next[p]
  BY LinksOK DEF Links
<1>4. next \in Links /\ OneLink(next)
  BY LinksOK
<1>5. /\ OneLink(next')
      /\ Reach(next', Head) = Reach(next, Head) \cup {n}
      /\ \A p \in Nodes \ {n} : Reach(next', p) = Reach(next, p)
  <2> DEFINE f == next
             g == next'
  <2>1. n \in Nodes /\ f[n] = Null /\ \A p \in Places : f[p] # n
    BY <1>2
  <2>2. f \in Links /\ OneLink(f) /\ g \in Links
    BY <1>3, <1>4
  <2>3. g[n] = f[Head] /\ g[Head] = n /\ \A p \in Places \ {n, Head} : g[p] = f[p]
    BY <1>3
  <2> HIDE DEF f, g
  <2>4. /\ OneLink(g)
        /\ Reach(g, Head) = Reach(f, Head) \cup {n}
        /\ \A p \in Nodes \ {n} : Reach(g, p) = Reach(f, p)
    BY <2>1, <2>2, <2>3, ReachPush
  <2> QED
    BY <2>4 DEF f, g
<1> QED
  BY <1>1, <1>3, <1>5, AfterReach

(* remove_if takes one node out of the list. *)
LEMMA UnlinkEffect ==
  ASSUME IInv, NEW t \in Threads, Unlink(t)
  PROVE  /\ nxt[t] \in After(Head) /\ nxt[t] # current[t] /\ nxt[t] # Head
         /\ current[t] \in InList /\ next[current[t]] = nxt[t]
         /\ OneLink(next') /\ next' \in Links
         /\ \A p \in Places \ {nxt[t]} : After(p)' = After(p) \ {nxt[t]}
         /\ next'[current[t]] = next[nxt[t]] /\ next'[nxt[t]] = Null
         /\ \A p \in Places \ {current[t], nxt[t]} : next'[p] = next[p]
<1> USE ListConstantsOK
<1> DEFINE c == current[t]
           x == nxt[t]
<1>1. pc[t] = "test" /\ op[t] = "remove" /\ next' = [next EXCEPT ![c] = next[x], ![x] = Null]
  BY DEF Unlink, Goto
<1>2. x \in After(Head) /\ x # c /\ c \in InList /\ next[c] = x
  BY <1>1, AtNodes DEF IInv, Spots, Spot
<1>3. x \in Nodes /\ x \in Places /\ c \in Places /\ x # Head
  BY <1>2, LinksOK
<1> HIDE DEF c, x
<1>4. /\ next'[c] = next[x] /\ next'[x] = Null /\ next' \in Links
      /\ \A p \in Places \ {c, x} : next'[p] = next[p]
  BY <1>1, <1>2, <1>3, LinksOK DEF Links
<1>5. /\ OneLink(next')
      /\ \A p \in Places \ {x} : Reach(next', p) = Reach(next, p) \ {x}
  <2>1. next \in Links /\ OneLink(next)
    BY LinksOK
  <2>2. ASSUME NEW p \in Places, p # x
        PROVE  OneLink(next') /\ Reach(next', p) = Reach(next, p) \ {x}
    BY <1>2, <1>3, <1>4, <2>1, <2>2, ReachUnlink
  <2> QED
    BY <1>2, <1>3, <2>2
<1>6. \A p \in Places \ {x} : After(p)' = After(p) \ {x}
  BY <1>5, AfterReach
<1> QED
  BY <1>2, <1>3, <1>4, <1>5, <1>6 DEF c, x

(* Steps that change no link change nothing that is reached by links. *)
LEMMA SameLinks ==
  ASSUME UNCHANGED next
  PROVE  /\ \A n : After(n)' = After(n)
         /\ InList' = InList
  BY AfterReach DEF InList

(* push_front and remove_if leave one list, with one link to each node. *)
LEMMA LinkedStep == ASSUME IInv, Next PROVE Linked'
<1> USE DEF IInv, Goto, Unlock, Return, list, call, ghost, vars
<1>0. ASSUME UNCHANGED next PROVE Linked'
  BY <1>0, SameLinks DEF Linked
<1>1. ASSUME NEW t \in Threads, PushFront(t) PROVE Linked'
  <2>1. PICK n \in Nodes \ alive : next' = [next EXCEPT ![n] = next[Head], ![Head] = n]
    BY <1>0, <1>1 DEF PushFront
  <2>2. InList' = InList \cup {n}
    BY <2>1, PushEffect DEF InList
  <2>3. \A p \in Places : next'[p] # Null => p \in InList'
    BY <2>1, <2>2, PushEffect, LinksOK DEF InList
  <2> QED
    BY <2>1, <2>3, PushEffect DEF Linked, OneLink
<1>2. ASSUME NEW t \in Threads, Call(t) PROVE Linked'
  BY <1>0, <1>2 DEF Call
<1>3. ASSUME NEW t \in Threads, LockHead(t) PROVE Linked'
  BY <1>0, <1>3 DEF LockHead
<1>4. ASSUME NEW t \in Threads, Scan(t) PROVE Linked'
  BY <1>0, <1>4 DEF Scan
<1>5. ASSUME NEW t \in Threads, ScanEnd(t) PROVE Linked'
  BY <1>0, <1>5 DEF ScanEnd
<1>6. ASSUME NEW t \in Threads, LockNext(t) PROVE Linked'
  BY <1>0, <1>6 DEF LockNext
<1>7. ASSUME NEW t \in Threads, Leave(t) PROVE Linked'
  BY <1>0, <1>7 DEF Leave
<1>8. ASSUME NEW t \in Threads, FindReturns(t) PROVE Linked'
  BY <1>0, <1>8 DEF FindReturns
<1>9. ASSUME NEW t \in Threads, FindAdvances(t) PROVE Linked'
  BY <1>0, <1>9 DEF FindAdvances
<1>10. ASSUME NEW t \in Threads, RemoveAdvances(t) PROVE Linked'
  BY <1>0, <1>10 DEF RemoveAdvances
<1>11. ASSUME NEW t \in Threads, Unlink(t) PROVE Linked'
  <2>1. InList' = InList \ {nxt[t]}
    BY <1>0, <1>11, UnlinkEffect, LinksOK DEF InList
  <2>2. \A p \in Places : next'[p] # Null => p \in InList'
    BY <1>0, <1>11, <2>1, UnlinkEffect, LinksOK
  <2> QED
    BY <1>0, <1>11, <2>2, UnlinkEffect DEF Linked, OneLink
<1>12. ASSUME NEW t \in Threads, UnlockNext(t) PROVE Linked'
  BY <1>0, <1>12 DEF UnlockNext
<1>13. ASSUME NEW t \in Threads, DeleteNext(t) PROVE Linked'
  BY <1>0, <1>13 DEF DeleteNext
<1> QED
  BY <1>1, <1>2, <1>3, <1>4, <1>5, <1>6, <1>7, <1>8, <1>9, <1>10, <1>11, <1>12, <1>13
     DEF Next, Step, Find, Remove

(* A traversal holds the mutex of the node it has got to, and, until find_first_if
   leaves it, of the node its next is linked from; nobody else does.         *)
LEMMA PositionHeld ==
  ASSUME IInv, NEW t \in Threads, Traversing(t)
  PROVE  /\ Position(t) \in InList /\ owner[Position(t)] = t
         /\ ~(pc[t] = "test" /\ op[t] = "find") => owner[current[t]] = t
         /\ pc[t] \in {"leave", "test", "unlock"} => owner[nxt[t]] = t
<1> USE DEF IInv
<1>1. Position(t) \in InList /\ Position(t) \in Places /\ current[t] \in Places
  BY LinksOK DEF Spots, Spot, TypeOK
<1>2. pc[t] \in {"leave", "test", "unlock"} => nxt[t] \in Places
  BY AtNodes, LinksOK DEF Removing, TypeOK
<1>3. /\ pc[t] \in {"scan", "lock", "leave", "test", "unlock", "delete"}
      /\ op[t] \in {"find", "remove"}
  BY DEF TypeOK, Traversing
<1>4. Position(t) \in Held(t)
  BY <1>3 DEF Position, Held
<1>5. ~(pc[t] = "test" /\ op[t] = "find") => current[t] \in Held(t)
  BY <1>3 DEF Held
<1>6. pc[t] \in {"leave", "test", "unlock"} => nxt[t] \in Held(t)
  BY <1>3 DEF Held
<1> QED
  BY <1>1, <1>2, <1>4, <1>5, <1>6 DEF Owned

(* Thread r does not move in a step. *)
Same(r) == pc'[r] = pc[r] /\ op'[r] = op[r] /\ current'[r] = current[r] /\ nxt'[r] = nxt[r]

(* Where a thread relies on its next node being linked from its current one. *)
NeedsLink(r) == pc[r] \in {"lock", "leave"} \/ (pc[r] = "test" /\ op[r] = "remove")

(* A thread that does not move, and whose node keeps its link, is where it was. *)
LEMMA SpotKept ==
  ASSUME IInv, NEW r \in Threads, Same(r), stable'[r] \subseteq stable[r],
         stable'[r] \subseteq After(Head)',
         Traversing(r) => Position(r) \in InList',
         NeedsLink(r) => current[r] \in InList' /\ next'[current[r]] = next[current[r]]
  PROVE  Spot(r)'
<1>1. Spot(r)
  BY DEF IInv, Spots
<1> QED
  BY <1>1 DEF Spot, Same, Position, Traversing, Removing, NeedsLink

(* Every step leaves every thread at a node of the list: nobody unlinks a node another
   thread holds. *)
LEMMA SpotsStep == ASSUME IInv, Next PROVE Spots'
<1> USE ListConstantsOK DEF IInv, Goto, Unlock, Return, list, call, ghost, vars
<1>1. ASSUME NEW t \in Threads, PushFront(t) PROVE Spots'
  <2>1. PICK n \in Nodes \ alive : next' = [next EXCEPT ![n] = next[Head], ![Head] = n]
    BY <1>1 DEF PushFront
  <2>2. UNCHANGED <<pc, op, current, nxt, stable>> /\ owner[Head] = Nobody
    BY <1>1 DEF PushFront
  <2>3. InList \subseteq InList' /\ After(Head) \subseteq After(Head)'
    BY <2>1, PushEffect DEF InList
  <2>4. ASSUME NEW r \in Threads PROVE Spot(r)'
    <3>1. Same(r) /\ stable'[r] = stable[r]
      BY <2>2 DEF Same
    <3>2. stable[r] \subseteq After(Head) /\ (Traversing(r) => Position(r) \in InList)
          /\ (NeedsLink(r) => current[r] \in InList /\ Traversing(r))
      BY DEF Spots, Spot, NeedsLink, Traversing
    <3>3. NeedsLink(r) => owner[current[r]] = r
      BY <3>2, PositionHeld DEF NeedsLink
    <3>4. n \notin InList
      BY <2>1, PushEffect
    <3>5. NeedsLink(r) => current[r] # Head /\ current[r] # n /\ current[r] \in Places
      BY <2>2, <3>2, <3>3, <3>4, LinksOK
    <3>6. NeedsLink(r) => next'[current[r]] = next[current[r]]
      BY <2>1, <3>5, PushEffect
    <3> QED
      BY <2>3, <3>1, <3>2, <3>6, SpotKept
  <2> QED
    BY <2>4 DEF Spots
<1>2. ASSUME NEW t \in Threads, Call(t) PROVE Spots'
  <2>1. After(Head)' = After(Head) /\ InList' = InList
    BY <1>2, SameLinks DEF Call
  <2>2. Spot(t)'
    BY <1>2, <2>1, LinksOK, AtNodes DEF Call, Spots, Spot, TypeOK, Position, Traversing, Removing
  <2>3. \A r \in Threads \ {t} : Same(r)
    BY <1>2 DEF Call, TypeOK, Same
  <2>4. \A r \in Threads \ {t} : stable'[r] = stable[r]
    BY <1>2 DEF Call, TypeOK
  <2>5. ASSUME NEW r \in Threads \ {t} PROVE Spot(r)'
    <3>1. r \in Threads /\ next' = next /\ stable'[r] = stable[r]
      BY <1>2, <2>4 DEF Call
    <3>2. stable[r] \subseteq After(Head) /\ (Traversing(r) => Position(r) \in InList)
          /\ (NeedsLink(r) => current[r] \in InList)
      BY <3>1 DEF Spots, Spot, NeedsLink
    <3> QED
      BY <2>1, <2>3, <3>1, <3>2, SpotKept
  <2> QED
    BY <2>2, <2>5 DEF Spots
<1>3. ASSUME NEW t \in Threads, LockHead(t) PROVE Spots'
  <2>1. After(Head)' = After(Head) /\ InList' = InList
    BY <1>3, SameLinks DEF LockHead
  <2>2. Spot(t)'
    <3>1. /\ pc[t] = "begin" /\ pc'[t] = "scan" /\ current'[t] = current[t]
          /\ stable'[t] = After(Head)
      BY <1>3 DEF LockHead, TypeOK
    <3>2. current[t] = Head
      BY <3>1 DEF Spots, Spot, Traversing
    <3> QED
      BY <2>1, <3>1, <3>2 DEF Spot, Position, Traversing, Removing, InList
  <2>3. \A r \in Threads \ {t} : Same(r)
    BY <1>3 DEF LockHead, TypeOK, Same
  <2>4. \A r \in Threads \ {t} : stable'[r] = stable[r]
    BY <1>3 DEF LockHead, TypeOK
  <2>5. ASSUME NEW r \in Threads \ {t} PROVE Spot(r)'
    <3>1. r \in Threads /\ next' = next /\ stable'[r] = stable[r]
      BY <1>3, <2>4 DEF LockHead
    <3>2. stable[r] \subseteq After(Head) /\ (Traversing(r) => Position(r) \in InList)
          /\ (NeedsLink(r) => current[r] \in InList)
      BY <3>1 DEF Spots, Spot, NeedsLink
    <3> QED
      BY <2>1, <2>3, <3>1, <3>2, SpotKept
  <2> QED
    BY <2>2, <2>5 DEF Spots
<1>4. ASSUME NEW t \in Threads, Scan(t) PROVE Spots'
  <2>1. After(Head)' = After(Head) /\ InList' = InList
    BY <1>4, SameLinks DEF Scan
  <2>2. Spot(t)'
    BY <1>4, <2>1, LinksOK, AtNodes DEF Scan, Spots, Spot, TypeOK, Position, Traversing, Removing
  <2>3. \A r \in Threads \ {t} : Same(r)
    BY <1>4 DEF Scan, TypeOK, Same
  <2>4. \A r \in Threads \ {t} : stable'[r] = stable[r]
    BY <1>4 DEF Scan, TypeOK
  <2>5. ASSUME NEW r \in Threads \ {t} PROVE Spot(r)'
    <3>1. r \in Threads /\ next' = next /\ stable'[r] = stable[r]
      BY <1>4, <2>4 DEF Scan
    <3>2. stable[r] \subseteq After(Head) /\ (Traversing(r) => Position(r) \in InList)
          /\ (NeedsLink(r) => current[r] \in InList)
      BY <3>1 DEF Spots, Spot, NeedsLink
    <3> QED
      BY <2>1, <2>3, <3>1, <3>2, SpotKept
  <2> QED
    BY <2>2, <2>5 DEF Spots
<1>5. ASSUME NEW t \in Threads, ScanEnd(t) PROVE Spots'
  <2>1. After(Head)' = After(Head) /\ InList' = InList
    BY <1>5, SameLinks DEF ScanEnd
  <2>2. Spot(t)'
    BY <1>5, <2>1, LinksOK, AtNodes
       DEF ScanEnd, Spots, Spot, TypeOK, Position, Traversing, Removing
  <2>3. \A r \in Threads \ {t} : Same(r)
    BY <1>5 DEF ScanEnd, TypeOK, Same
  <2>4. \A r \in Threads \ {t} : stable'[r] = stable[r]
    BY <1>5 DEF ScanEnd, TypeOK
  <2>5. ASSUME NEW r \in Threads \ {t} PROVE Spot(r)'
    <3>1. r \in Threads /\ next' = next /\ stable'[r] = stable[r]
      BY <1>5, <2>4 DEF ScanEnd
    <3>2. stable[r] \subseteq After(Head) /\ (Traversing(r) => Position(r) \in InList)
          /\ (NeedsLink(r) => current[r] \in InList)
      BY <3>1 DEF Spots, Spot, NeedsLink
    <3> QED
      BY <2>1, <2>3, <3>1, <3>2, SpotKept
  <2> QED
    BY <2>2, <2>5 DEF Spots
<1>6. ASSUME NEW t \in Threads, LockNext(t) PROVE Spots'
  <2>1. After(Head)' = After(Head) /\ InList' = InList
    BY <1>6, SameLinks DEF LockNext
  <2>2. Spot(t)'
    <3>1. /\ pc[t] = "lock" /\ pc'[t] = (IF op[t] = "find" THEN "leave" ELSE "test")
          /\ op'[t] = op[t] /\ nxt'[t] = nxt[t] /\ current'[t] = current[t]
          /\ stable'[t] = stable[t] /\ next' = next
      BY <1>6 DEF LockNext, TypeOK
    <3>2. /\ current[t] \in InList /\ nxt[t] \in InList /\ stable[t] \subseteq After(Head)
          /\ nxt[t] # Null /\ nxt[t] = next[current[t]]
      BY <3>1, AtNodes DEF Spots, Spot, InList
    <3> QED
      BY <2>1, <3>1, <3>2 DEF Spot, Position, Traversing, Removing
  <2>3. \A r \in Threads \ {t} : Same(r)
    BY <1>6 DEF LockNext, TypeOK, Same
  <2>4. \A r \in Threads \ {t} : stable'[r] = stable[r]
    BY <1>6 DEF LockNext, TypeOK
  <2>5. ASSUME NEW r \in Threads \ {t} PROVE Spot(r)'
    <3>1. r \in Threads /\ next' = next /\ stable'[r] = stable[r]
      BY <1>6, <2>4 DEF LockNext
    <3>2. stable[r] \subseteq After(Head) /\ (Traversing(r) => Position(r) \in InList)
          /\ (NeedsLink(r) => current[r] \in InList)
      BY <3>1 DEF Spots, Spot, NeedsLink
    <3> QED
      BY <2>1, <2>3, <3>1, <3>2, SpotKept
  <2> QED
    BY <2>2, <2>5 DEF Spots
<1>7. ASSUME NEW t \in Threads, Leave(t) PROVE Spots'
  <2>1. After(Head)' = After(Head) /\ InList' = InList
    BY <1>7, SameLinks DEF Leave
  <2>2. Spot(t)'
    <3>1. /\ pc[t] = "leave" /\ pc'[t] = "test" /\ op'[t] = op[t] /\ nxt'[t] = nxt[t]
          /\ stable'[t] = stable[t]
      BY <1>7 DEF Leave, TypeOK
    <3>2. op[t] = "find" /\ nxt[t] \in InList /\ stable[t] \subseteq After(Head)
      BY <3>1, AtNodes DEF Spots, Spot, InList
    <3> QED
      BY <2>1, <3>1, <3>2 DEF Spot, Position, Traversing, Removing
  <2>3. \A r \in Threads \ {t} : Same(r)
    BY <1>7 DEF Leave, TypeOK, Same
  <2>4. \A r \in Threads \ {t} : stable'[r] = stable[r]
    BY <1>7 DEF Leave, TypeOK
  <2>5. ASSUME NEW r \in Threads \ {t} PROVE Spot(r)'
    <3>1. r \in Threads /\ next' = next /\ stable'[r] = stable[r]
      BY <1>7, <2>4 DEF Leave
    <3>2. stable[r] \subseteq After(Head) /\ (Traversing(r) => Position(r) \in InList)
          /\ (NeedsLink(r) => current[r] \in InList)
      BY <3>1 DEF Spots, Spot, NeedsLink
    <3> QED
      BY <2>1, <2>3, <3>1, <3>2, SpotKept
  <2> QED
    BY <2>2, <2>5 DEF Spots
<1>8. ASSUME NEW t \in Threads, FindReturns(t) PROVE Spots'
  <2>1. After(Head)' = After(Head) /\ InList' = InList
    BY <1>8, SameLinks DEF FindReturns
  <2>2. Spot(t)'
    BY <1>8, <2>1, LinksOK, AtNodes
       DEF FindReturns, Spots, Spot, TypeOK, Position, Traversing, Removing
  <2>3. \A r \in Threads \ {t} : Same(r)
    BY <1>8 DEF FindReturns, TypeOK, Same
  <2>4. \A r \in Threads \ {t} : stable'[r] = stable[r]
    BY <1>8 DEF FindReturns, TypeOK
  <2>5. ASSUME NEW r \in Threads \ {t} PROVE Spot(r)'
    <3>1. r \in Threads /\ next' = next /\ stable'[r] = stable[r]
      BY <1>8, <2>4 DEF FindReturns
    <3>2. stable[r] \subseteq After(Head) /\ (Traversing(r) => Position(r) \in InList)
          /\ (NeedsLink(r) => current[r] \in InList)
      BY <3>1 DEF Spots, Spot, NeedsLink
    <3> QED
      BY <2>1, <2>3, <3>1, <3>2, SpotKept
  <2> QED
    BY <2>2, <2>5 DEF Spots
<1>9. ASSUME NEW t \in Threads, FindAdvances(t) PROVE Spots'
  <2>1. After(Head)' = After(Head) /\ InList' = InList
    BY <1>9, SameLinks DEF FindAdvances
  <2>2. Spot(t)'
    BY <1>9, <2>1, LinksOK, AtNodes
       DEF FindAdvances, Spots, Spot, TypeOK, Position, Traversing, Removing
  <2>3. \A r \in Threads \ {t} : Same(r)
    BY <1>9 DEF FindAdvances, TypeOK, Same
  <2>4. \A r \in Threads \ {t} : stable'[r] = stable[r]
    BY <1>9 DEF FindAdvances, TypeOK
  <2>5. ASSUME NEW r \in Threads \ {t} PROVE Spot(r)'
    <3>1. r \in Threads /\ next' = next /\ stable'[r] = stable[r]
      BY <1>9, <2>4 DEF FindAdvances
    <3>2. stable[r] \subseteq After(Head) /\ (Traversing(r) => Position(r) \in InList)
          /\ (NeedsLink(r) => current[r] \in InList)
      BY <3>1 DEF Spots, Spot, NeedsLink
    <3> QED
      BY <2>1, <2>3, <3>1, <3>2, SpotKept
  <2> QED
    BY <2>2, <2>5 DEF Spots
<1>10. ASSUME NEW t \in Threads, RemoveAdvances(t) PROVE Spots'
  <2>1. After(Head)' = After(Head) /\ InList' = InList
    BY <1>10, SameLinks DEF RemoveAdvances
  <2>2. Spot(t)'
    BY <1>10, <2>1, LinksOK, AtNodes
       DEF RemoveAdvances, Spots, Spot, TypeOK, Position, Traversing, Removing
  <2>3. \A r \in Threads \ {t} : Same(r)
    BY <1>10 DEF RemoveAdvances, TypeOK, Same
  <2>4. \A r \in Threads \ {t} : stable'[r] = stable[r]
    BY <1>10 DEF RemoveAdvances, TypeOK
  <2>5. ASSUME NEW r \in Threads \ {t} PROVE Spot(r)'
    <3>1. r \in Threads /\ next' = next /\ stable'[r] = stable[r]
      BY <1>10, <2>4 DEF RemoveAdvances
    <3>2. stable[r] \subseteq After(Head) /\ (Traversing(r) => Position(r) \in InList)
          /\ (NeedsLink(r) => current[r] \in InList)
      BY <3>1 DEF Spots, Spot, NeedsLink
    <3> QED
      BY <2>1, <2>3, <3>1, <3>2, SpotKept
  <2> QED
    BY <2>2, <2>5 DEF Spots
<1>11. ASSUME NEW t \in Threads, Unlink(t) PROVE Spots'
  <2> DEFINE x == nxt[t]
             c == current[t]
  <2>1. /\ pc[t] = "test" /\ op[t] = "remove" /\ pc' = [pc EXCEPT ![t] = "unlock"]
        /\ stable' = [r \in Threads |-> stable[r] \ {x}] /\ UNCHANGED <<op, current, nxt>>
    BY <1>11 DEF Unlink
  <2>2. InList' = InList \ {x} /\ After(Head)' = After(Head) \ {x}
    BY <1>11, UnlinkEffect, LinksOK DEF InList
  <2>3. owner[x] = t /\ owner[c] = t /\ c \in InList /\ c # x
    BY <1>11, <2>1, PositionHeld, UnlinkEffect DEF Traversing
  <2>4. \A p \in InList : owner[p] # t => next'[p] = next[p] /\ p \in InList'
    BY <1>11, <2>2, <2>3, UnlinkEffect, LinksOK
  <2> HIDE DEF x, c
  <2>5. ASSUME NEW r \in Threads \ {t} PROVE Spot(r)'
    <3>1. r \in Threads /\ Same(r) /\ stable'[r] \subseteq After(Head)'
      BY <2>1, <2>2 DEF Same, TypeOK, Spots, Spot
    <3>2. /\ Traversing(r) => Position(r) \in InList /\ owner[Position(r)] # t
          /\ NeedsLink(r) => Traversing(r) /\ current[r] \in InList
      BY <3>1, PositionHeld DEF Spots, Spot, NeedsLink, Traversing
    <3>3. NeedsLink(r) => owner[current[r]] # t
      BY <3>1, <3>2, PositionHeld DEF NeedsLink
    <3>4. /\ Traversing(r) => Position(r) \in InList'
          /\ NeedsLink(r) => current[r] \in InList' /\ next'[current[r]] = next[current[r]]
      BY <2>4, <3>2, <3>3
    <3>5. stable'[r] \subseteq stable[r]
      BY <2>1, <3>1
    <3> QED
      BY <3>1, <3>4, <3>5, SpotKept
  <2>6. Spot(t)'
    <3>1. pc'[t] = "unlock" /\ op'[t] = "remove" /\ current'[t] = c
      BY <2>1 DEF TypeOK, c
    <3>2. c \in InList' /\ stable'[t] \subseteq After(Head)'
      BY <2>1, <2>2, <2>3 DEF Spots, Spot
    <3> QED
      BY <3>1, <3>2 DEF Spot, Traversing, Removing, Position
  <2> QED
    BY <2>5, <2>6 DEF Spots
<1>12. ASSUME NEW t \in Threads, UnlockNext(t) PROVE Spots'
  <2>1. After(Head)' = After(Head) /\ InList' = InList
    BY <1>12, SameLinks DEF UnlockNext
  <2>2. Spot(t)'
    BY <1>12, <2>1, LinksOK, AtNodes
       DEF UnlockNext, Spots, Spot, TypeOK, Position, Traversing, Removing
  <2>3. \A r \in Threads \ {t} : Same(r)
    BY <1>12 DEF UnlockNext, TypeOK, Same
  <2>4. \A r \in Threads \ {t} : stable'[r] = stable[r]
    BY <1>12 DEF UnlockNext, TypeOK
  <2>5. ASSUME NEW r \in Threads \ {t} PROVE Spot(r)'
    <3>1. r \in Threads /\ next' = next /\ stable'[r] = stable[r]
      BY <1>12, <2>4 DEF UnlockNext
    <3>2. stable[r] \subseteq After(Head) /\ (Traversing(r) => Position(r) \in InList)
          /\ (NeedsLink(r) => current[r] \in InList)
      BY <3>1 DEF Spots, Spot, NeedsLink
    <3> QED
      BY <2>1, <2>3, <3>1, <3>2, SpotKept
  <2> QED
    BY <2>2, <2>5 DEF Spots
<1>13. ASSUME NEW t \in Threads, DeleteNext(t) PROVE Spots'
  <2>1. After(Head)' = After(Head) /\ InList' = InList
    BY <1>13, SameLinks DEF DeleteNext
  <2>2. Spot(t)'
    BY <1>13, <2>1, LinksOK, AtNodes
       DEF DeleteNext, Spots, Spot, TypeOK, Position, Traversing, Removing
  <2>3. \A r \in Threads \ {t} : Same(r)
    BY <1>13 DEF DeleteNext, TypeOK, Same
  <2>4. \A r \in Threads \ {t} : stable'[r] = stable[r]
    BY <1>13 DEF DeleteNext, TypeOK
  <2>5. ASSUME NEW r \in Threads \ {t} PROVE Spot(r)'
    <3>1. r \in Threads /\ next' = next /\ stable'[r] = stable[r]
      BY <1>13, <2>4 DEF DeleteNext
    <3>2. stable[r] \subseteq After(Head) /\ (Traversing(r) => Position(r) \in InList)
          /\ (NeedsLink(r) => current[r] \in InList)
      BY <3>1 DEF Spots, Spot, NeedsLink
    <3> QED
      BY <2>1, <2>3, <3>1, <3>2, SpotKept
  <2> QED
    BY <2>2, <2>5 DEF Spots
<1> QED
  BY <1>1, <1>2, <1>3, <1>4, <1>5, <1>6, <1>7, <1>8, <1>9, <1>10, <1>11, <1>12, <1>13
     DEF Next, Step, Find, Remove

(* The nodes that are out of the list and about to be deleted. *)
Out == {nxt[t] : t \in {t \in Threads : Removing(t)}}

(* NoNodeLost with the nodes on their way out named. *)
LEMMA LostOut ==
  /\ NoNodeLost <=> alive = After(Head) \cup Out /\ After(Head) \cap Out = {}
  /\ NoNodeLost' <=> (alive = After(Head) \cup Out /\ After(Head) \cap Out = {})'
  BY DEF NoNodeLost, Out, Removing

(* Every step keeps what is allocated in the list, or with the one thread that deletes it. *)
LEMMA LostStep == ASSUME IInv, Next PROVE NoNodeLost' /\ Leaving'
<1> USE DEF IInv, Goto, Unlock, Return, list, call, ghost, vars
<1>0. ASSUME \A r \in Threads : Removing(r)' <=> Removing(r),
             \A r \in Threads : Removing(r) => nxt'[r] = nxt[r],
             UNCHANGED <<next, alive>>
      PROVE  NoNodeLost' /\ Leaving'
  <2>1. Out' = Out
    BY <1>0 DEF Out
  <2>2. Leaving'
    BY <1>0 DEF Leaving
  <2> QED
    BY <1>0, <2>1, <2>2, SameLinks, LostOut
<1>1. ASSUME NEW t \in Threads, PushFront(t) PROVE NoNodeLost' /\ Leaving'
  <2>1. PICK n \in Nodes \ alive :
          next' = [next EXCEPT ![n] = next[Head], ![Head] = n] /\ alive' = alive \cup {n}
    BY <1>1 DEF PushFront
  <2>2. UNCHANGED <<pc, nxt>>
    BY <1>1 DEF PushFront
  <2>3. Out' = Out /\ Leaving'
    BY <2>2 DEF Out, Removing, Leaving
  <2>4. After(Head)' = After(Head) \cup {n}
    BY <2>1, PushEffect
  <2> QED
    BY <2>1, <2>3, <2>4, LostOut
<1>2. ASSUME NEW t \in Threads, Call(t) PROVE NoNodeLost' /\ Leaving'
  <2>1. /\ \A r \in Threads : Removing(r)' <=> Removing(r)
        /\ \A r \in Threads : Removing(r) => nxt'[r] = nxt[r]
    BY <1>2 DEF Call, TypeOK, Removing
  <2>2. UNCHANGED <<next, alive>>
    BY <1>2 DEF Call
  <2> QED
    BY <2>1, <2>2, <1>0
<1>3. ASSUME NEW t \in Threads, LockHead(t) PROVE NoNodeLost' /\ Leaving'
  <2>1. /\ \A r \in Threads : Removing(r)' <=> Removing(r)
        /\ \A r \in Threads : Removing(r) => nxt'[r] = nxt[r]
    BY <1>3 DEF LockHead, TypeOK, Removing
  <2>2. UNCHANGED <<next, alive>>
    BY <1>3 DEF LockHead
  <2> QED
    BY <2>1, <2>2, <1>0
<1>4. ASSUME NEW t \in Threads, Scan(t) PROVE NoNodeLost' /\ Leaving'
  <2>1. /\ \A r \in Threads : Removing(r)' <=> Removing(r)
        /\ \A r \in Threads : Removing(r) => nxt'[r] = nxt[r]
    BY <1>4 DEF Scan, TypeOK, Removing
  <2>2. UNCHANGED <<next, alive>>
    BY <1>4 DEF Scan
  <2> QED
    BY <2>1, <2>2, <1>0
<1>5. ASSUME NEW t \in Threads, ScanEnd(t) PROVE NoNodeLost' /\ Leaving'
  <2>1. /\ \A r \in Threads : Removing(r)' <=> Removing(r)
        /\ \A r \in Threads : Removing(r) => nxt'[r] = nxt[r]
    BY <1>5 DEF ScanEnd, TypeOK, Removing
  <2>2. UNCHANGED <<next, alive>>
    BY <1>5 DEF ScanEnd
  <2> QED
    BY <2>1, <2>2, <1>0
<1>6. ASSUME NEW t \in Threads, LockNext(t) PROVE NoNodeLost' /\ Leaving'
  <2>1. /\ \A r \in Threads : Removing(r)' <=> Removing(r)
        /\ \A r \in Threads : Removing(r) => nxt'[r] = nxt[r]
    BY <1>6 DEF LockNext, TypeOK, Removing
  <2>2. UNCHANGED <<next, alive>>
    BY <1>6 DEF LockNext
  <2> QED
    BY <2>1, <2>2, <1>0
<1>7. ASSUME NEW t \in Threads, Leave(t) PROVE NoNodeLost' /\ Leaving'
  <2>1. /\ \A r \in Threads : Removing(r)' <=> Removing(r)
        /\ \A r \in Threads : Removing(r) => nxt'[r] = nxt[r]
    BY <1>7 DEF Leave, TypeOK, Removing
  <2>2. UNCHANGED <<next, alive>>
    BY <1>7 DEF Leave
  <2> QED
    BY <2>1, <2>2, <1>0
<1>8. ASSUME NEW t \in Threads, FindReturns(t) PROVE NoNodeLost' /\ Leaving'
  <2>1. /\ \A r \in Threads : Removing(r)' <=> Removing(r)
        /\ \A r \in Threads : Removing(r) => nxt'[r] = nxt[r]
    BY <1>8 DEF FindReturns, TypeOK, Removing
  <2>2. UNCHANGED <<next, alive>>
    BY <1>8 DEF FindReturns
  <2> QED
    BY <2>1, <2>2, <1>0
<1>9. ASSUME NEW t \in Threads, FindAdvances(t) PROVE NoNodeLost' /\ Leaving'
  <2>1. /\ \A r \in Threads : Removing(r)' <=> Removing(r)
        /\ \A r \in Threads : Removing(r) => nxt'[r] = nxt[r]
    BY <1>9 DEF FindAdvances, TypeOK, Removing
  <2>2. UNCHANGED <<next, alive>>
    BY <1>9 DEF FindAdvances
  <2> QED
    BY <2>1, <2>2, <1>0
<1>10. ASSUME NEW t \in Threads, RemoveAdvances(t) PROVE NoNodeLost' /\ Leaving'
  <2>1. /\ \A r \in Threads : Removing(r)' <=> Removing(r)
        /\ \A r \in Threads : Removing(r) => nxt'[r] = nxt[r]
    BY <1>10 DEF RemoveAdvances, TypeOK, Removing
  <2>2. UNCHANGED <<next, alive>>
    BY <1>10 DEF RemoveAdvances
  <2> QED
    BY <2>1, <2>2, <1>0
<1>11. ASSUME NEW t \in Threads, Unlink(t) PROVE NoNodeLost' /\ Leaving'
  <2> DEFINE x == nxt[t]
  <2>1. /\ pc[t] = "test" /\ pc' = [pc EXCEPT ![t] = "unlock"] /\ UNCHANGED <<nxt, alive>>
    BY <1>11 DEF Unlink
  <2>2. x \in After(Head) /\ After(Head)' = After(Head) \ {x}
    BY <1>11, UnlinkEffect, LinksOK DEF InList
  <2>3. x \notin Out
    BY <2>2, LostOut
  <2>4. Out' = Out \cup {x}
    BY <2>1 DEF Out, Removing, TypeOK
  <2>5. Leaving'
    BY <2>1, <2>3 DEF Leaving, Out, Removing, TypeOK
  <2> HIDE DEF x
  <2> QED
    BY <2>1, <2>2, <2>3, <2>4, <2>5, LostOut
<1>12. ASSUME NEW t \in Threads, UnlockNext(t) PROVE NoNodeLost' /\ Leaving'
  <2>1. /\ \A r \in Threads : Removing(r)' <=> Removing(r)
        /\ \A r \in Threads : Removing(r) => nxt'[r] = nxt[r]
    BY <1>12 DEF UnlockNext, TypeOK, Removing
  <2>2. UNCHANGED <<next, alive>>
    BY <1>12 DEF UnlockNext
  <2> QED
    BY <2>1, <2>2, <1>0
<1>13. ASSUME NEW t \in Threads, DeleteNext(t) PROVE NoNodeLost' /\ Leaving'
  <2> DEFINE x == nxt[t]
  <2>1. /\ pc[t] = "delete" /\ pc' = [pc EXCEPT ![t] = "scan"] /\ UNCHANGED <<nxt, next>>
        /\ alive' = alive \ {x}
    BY <1>13 DEF DeleteNext
  <2>2. After(Head)' = After(Head)
    BY <2>1, SameLinks
  <2>3. x \in Out /\ \A r \in Threads \ {t} : Removing(r) => nxt[r] # x
    BY <2>1 DEF Leaving, Removing, Out
  <2>4. Out' = Out \ {x}
    BY <2>1, <2>3 DEF Out, Removing, TypeOK
  <2>5. Leaving'
    BY <2>1 DEF Leaving, Removing, TypeOK
  <2> HIDE DEF x
  <2> QED
    BY <2>1, <2>2, <2>3, <2>4, <2>5, LostOut
<1> QED
  BY <1>1, <1>2, <1>3, <1>4, <1>5, <1>6, <1>7, <1>8, <1>9, <1>10, <1>11, <1>12, <1>13
     DEF Next, Step, Find, Remove

(* The nodes a traversal has yet to look at, and that it has passed over none. *)
Ahead(t) == IF pc[t] = "test" THEN After(nxt[t]) \cup {nxt[t]} ELSE After(current[t])
Skip(t)  == Traversing(t) => \A n \in stable[t] : Matches(t, n) => n \in Ahead(t)
Skips    == \A t \in Threads : Skip(t)

(* NothingSkipped thread by thread. *)
LEMMA SkippedSkips ==
  /\ NothingSkipped <=> Skips
  /\ NothingSkipped' <=> Skips'
  BY DEF NothingSkipped, Skips, Skip, Ahead

(* What is behind a node is its next and what is behind that. *)
LEMMA NextStep ==
  ASSUME IInv, NEW p \in InList, next[p] # Null
  PROVE  After(p) = After(next[p]) \cup {next[p]}
  BY LinksOK, ReachStep, AfterReach

(* What is ahead of a traversal, by the links. *)
LEMMA AheadReach ==
  \A t : /\ Ahead(t) = IF pc[t] = "test" THEN Reach(next, nxt[t]) \cup {nxt[t]}
                        ELSE Reach(next, current[t])
        /\ Ahead(t)' = IF pc'[t] = "test" THEN Reach(next', nxt'[t]) \cup {nxt'[t]}
                         ELSE Reach(next', current'[t])
  BY DEF Ahead, After, Reach, Closed

(* A thread that does not move passes over nothing when the links it still needs remain. *)
LEMMA SkipKept ==
  ASSUME IInv, Skips, NEW r \in Threads, Same(r),
         pred'[r] = pred[r], stable'[r] \subseteq stable[r],
         \A m \in stable[r] : data'[m] = data[m],
         Traversing(r) => \A m \in stable'[r] :
                            m \in Reach(next, Position(r)) => m \in Reach(next', Position(r))
  PROVE  Skip(r)'
<1>1. Skip(r)
  BY DEF Skips
<1> QED
  BY <1>1, AheadReach DEF Skip, Same, Position, Traversing, Matches

(* Every step keeps every match of a traversal ahead of it. *)
LEMMA SkipStep == ASSUME IInv, Next PROVE NothingSkipped'
<1> USE ListConstantsOK DEF IInv, Goto, Unlock, Return, list, call, ghost, vars
<1> SUFFICES Skips'
  BY SkippedSkips
<1>0. Skips
  BY SkippedSkips
<1> USE <1>0
<1>1. ASSUME NEW t \in Threads, PushFront(t) PROVE Skips'
  <2>1. PICK n \in Nodes \ alive :
          /\ next' = [next EXCEPT ![n] = next[Head], ![Head] = n]
          /\ \A m \in Nodes \ {n} : data'[m] = data[m]
    BY <1>1 DEF PushFront, TypeOK
  <2>2. UNCHANGED <<pc, op, pred, current, nxt, stable>> /\ owner[Head] = Nobody
    BY <1>1 DEF PushFront
  <2>3. ASSUME NEW r \in Threads PROVE Skip(r)'
    <3>1. Same(r) /\ pred'[r] = pred[r] /\ stable'[r] = stable[r]
      BY <2>2 DEF Same
    <3>2. n \notin InList /\ stable[r] \subseteq Nodes \ {n}
      <4>1. n \notin InList
        BY <2>1, PushEffect
      <4> QED
        BY <4>1, LinksOK DEF Spots, Spot, InList
    <3>3. Traversing(r) => Position(r) \in Nodes \ {n}
      BY <2>2, <3>2, PositionHeld, LinksOK DEF InList
    <3>4. Traversing(r) => Reach(next', Position(r)) = Reach(next, Position(r))
      BY <2>1, <3>3, PushEffect, AfterReach
    <3>5. \A m \in stable[r] : data'[m] = data[m]
      BY <2>1, <3>2
    <3> QED
      BY <3>1, <3>4, <3>5, SkipKept
  <2> QED
    BY <2>3 DEF Skips
<1>2. ASSUME NEW t \in Threads, Call(t) PROVE Skips'
  <2>1. UNCHANGED <<next, data>>
    BY <1>2 DEF Call
  <2>2. \A n : After(n)' = After(n)
    BY <2>1, SameLinks
  <2>3. Skip(t)
    BY DEF Skips
  <2>4. Skip(t)'
    BY <1>2, <2>2, <2>3 DEF Call, Skip, Ahead, Traversing, Matches, TypeOK, Spots, Spot
  <2>5. \A r \in Threads \ {t} : Same(r) /\ pred'[r] = pred[r] /\ stable'[r] = stable[r]
    BY <1>2 DEF Call, TypeOK, Same
  <2>6. ASSUME NEW r \in Threads \ {t} PROVE Skip(r)'
    BY <2>1, <2>5, SkipKept
  <2> QED
    BY <2>4, <2>6 DEF Skips
<1>3. ASSUME NEW t \in Threads, LockHead(t) PROVE Skips'
  <2>1. UNCHANGED <<next, data>>
    BY <1>3 DEF LockHead
  <2>2. \A n : After(n)' = After(n)
    BY <2>1, SameLinks
  <2>3. Skip(t)
    BY DEF Skips
  <2>4. Skip(t)'
    BY <1>3, <2>2, <2>3 DEF LockHead, Skip, Ahead, Traversing, Matches, TypeOK, Spots, Spot
  <2>5. \A r \in Threads \ {t} : Same(r) /\ pred'[r] = pred[r] /\ stable'[r] = stable[r]
    BY <1>3 DEF LockHead, TypeOK, Same
  <2>6. ASSUME NEW r \in Threads \ {t} PROVE Skip(r)'
    BY <2>1, <2>5, SkipKept
  <2> QED
    BY <2>4, <2>6 DEF Skips
<1>4. ASSUME NEW t \in Threads, Scan(t) PROVE Skips'
  <2>1. UNCHANGED <<next, data>>
    BY <1>4 DEF Scan
  <2>2. \A n : After(n)' = After(n)
    BY <2>1, SameLinks
  <2>3. Skip(t)
    BY DEF Skips
  <2>4. Skip(t)'
    BY <1>4, <2>2, <2>3 DEF Scan, Skip, Ahead, Traversing, Matches, TypeOK, Spots, Spot
  <2>5. \A r \in Threads \ {t} : Same(r) /\ pred'[r] = pred[r] /\ stable'[r] = stable[r]
    BY <1>4 DEF Scan, TypeOK, Same
  <2>6. ASSUME NEW r \in Threads \ {t} PROVE Skip(r)'
    BY <2>1, <2>5, SkipKept
  <2> QED
    BY <2>4, <2>6 DEF Skips
<1>5. ASSUME NEW t \in Threads, ScanEnd(t) PROVE Skips'
  <2>1. UNCHANGED <<next, data>>
    BY <1>5 DEF ScanEnd
  <2>2. \A n : After(n)' = After(n)
    BY <2>1, SameLinks
  <2>3. Skip(t)
    BY DEF Skips
  <2>4. Skip(t)'
    BY <1>5, <2>2, <2>3 DEF ScanEnd, Skip, Ahead, Traversing, Matches, TypeOK, Spots, Spot
  <2>5. \A r \in Threads \ {t} : Same(r) /\ pred'[r] = pred[r] /\ stable'[r] = stable[r]
    BY <1>5 DEF ScanEnd, TypeOK, Same
  <2>6. ASSUME NEW r \in Threads \ {t} PROVE Skip(r)'
    BY <2>1, <2>5, SkipKept
  <2> QED
    BY <2>4, <2>6 DEF Skips
<1>6. ASSUME NEW t \in Threads, LockNext(t) PROVE Skips'
  <2>1. UNCHANGED <<next, data>>
    BY <1>6 DEF LockNext
  <2>2. \A n : After(n)' = After(n)
    BY <2>1, SameLinks
  <2>3. Skip(t)
    BY DEF Skips
  <2>4. Skip(t)'
    <3>1. nxt[t] # Null /\ nxt[t] = next[current[t]] /\ current[t] \in InList
      BY <1>6 DEF LockNext, Spots, Spot
    <3>2. After(current[t]) = After(nxt[t]) \cup {nxt[t]}
      BY <3>1, NextStep
    <3> QED
      BY <1>6, <2>2, <2>3, <3>2 DEF LockNext, Skip, Ahead, Traversing, Matches, TypeOK
  <2>5. \A r \in Threads \ {t} : Same(r) /\ pred'[r] = pred[r] /\ stable'[r] = stable[r]
    BY <1>6 DEF LockNext, TypeOK, Same
  <2>6. ASSUME NEW r \in Threads \ {t} PROVE Skip(r)'
    BY <2>1, <2>5, SkipKept
  <2> QED
    BY <2>4, <2>6 DEF Skips
<1>7. ASSUME NEW t \in Threads, Leave(t) PROVE Skips'
  <2>1. UNCHANGED <<next, data>>
    BY <1>7 DEF Leave
  <2>2. \A n : After(n)' = After(n)
    BY <2>1, SameLinks
  <2>3. Skip(t)
    BY DEF Skips
  <2>4. Skip(t)'
    <3>1. nxt[t] # Null /\ nxt[t] = next[current[t]] /\ current[t] \in InList
      BY <1>7 DEF Leave, Spots, Spot
    <3>2. After(current[t]) = After(nxt[t]) \cup {nxt[t]}
      BY <3>1, NextStep
    <3> QED
      BY <1>7, <2>2, <2>3, <3>2 DEF Leave, Skip, Ahead, Traversing, Matches, TypeOK
  <2>5. \A r \in Threads \ {t} : Same(r) /\ pred'[r] = pred[r] /\ stable'[r] = stable[r]
    BY <1>7 DEF Leave, TypeOK, Same
  <2>6. ASSUME NEW r \in Threads \ {t} PROVE Skip(r)'
    BY <2>1, <2>5, SkipKept
  <2> QED
    BY <2>4, <2>6 DEF Skips
<1>8. ASSUME NEW t \in Threads, FindReturns(t) PROVE Skips'
  <2>1. UNCHANGED <<next, data>>
    BY <1>8 DEF FindReturns
  <2>2. \A n : After(n)' = After(n)
    BY <2>1, SameLinks
  <2>3. Skip(t)
    BY DEF Skips
  <2>4. Skip(t)'
    BY <1>8, <2>2, <2>3 DEF FindReturns, Skip, Ahead, Traversing, Matches, TypeOK, Spots, Spot
  <2>5. \A r \in Threads \ {t} : Same(r) /\ pred'[r] = pred[r] /\ stable'[r] = stable[r]
    BY <1>8 DEF FindReturns, TypeOK, Same
  <2>6. ASSUME NEW r \in Threads \ {t} PROVE Skip(r)'
    BY <2>1, <2>5, SkipKept
  <2> QED
    BY <2>4, <2>6 DEF Skips
<1>9. ASSUME NEW t \in Threads, FindAdvances(t) PROVE Skips'
  <2>1. UNCHANGED <<next, data>>
    BY <1>9 DEF FindAdvances
  <2>2. \A n : After(n)' = After(n)
    BY <2>1, SameLinks
  <2>3. Skip(t)
    BY DEF Skips
  <2>4. Skip(t)'
    <3>1. /\ pc[t] = "test" /\ pc'[t] = "scan" /\ current'[t] = nxt[t] /\ ~Matches(t, nxt[t])
          /\ pred'[t] = pred[t] /\ stable'[t] = stable[t]
      BY <1>9 DEF FindAdvances, Hit, TypeOK
    <3> QED
      BY <2>1, <2>3, <3>1, AheadReach DEF Skip, Traversing, Matches
  <2>5. \A r \in Threads \ {t} : Same(r) /\ pred'[r] = pred[r] /\ stable'[r] = stable[r]
    BY <1>9 DEF FindAdvances, TypeOK, Same
  <2>6. ASSUME NEW r \in Threads \ {t} PROVE Skip(r)'
    BY <2>1, <2>5, SkipKept
  <2> QED
    BY <2>4, <2>6 DEF Skips
<1>10. ASSUME NEW t \in Threads, RemoveAdvances(t) PROVE Skips'
  <2>1. UNCHANGED <<next, data>>
    BY <1>10 DEF RemoveAdvances
  <2>2. \A n : After(n)' = After(n)
    BY <2>1, SameLinks
  <2>3. Skip(t)
    BY DEF Skips
  <2>4. Skip(t)'
    <3>1. /\ pc[t] = "test" /\ pc'[t] = "scan" /\ current'[t] = nxt[t] /\ ~Matches(t, nxt[t])
          /\ pred'[t] = pred[t] /\ stable'[t] = stable[t]
      BY <1>10 DEF RemoveAdvances, Hit, TypeOK
    <3> QED
      BY <2>1, <2>3, <3>1, AheadReach DEF Skip, Traversing, Matches
  <2>5. \A r \in Threads \ {t} : Same(r) /\ pred'[r] = pred[r] /\ stable'[r] = stable[r]
    BY <1>10 DEF RemoveAdvances, TypeOK, Same
  <2>6. ASSUME NEW r \in Threads \ {t} PROVE Skip(r)'
    BY <2>1, <2>5, SkipKept
  <2> QED
    BY <2>4, <2>6 DEF Skips
<1>11. ASSUME NEW t \in Threads, Unlink(t) PROVE Skips'
  <2> DEFINE x == nxt[t]
             c == current[t]
  <2>1. /\ pc[t] = "test" /\ op[t] = "remove" /\ pc' = [pc EXCEPT ![t] = "unlock"]
        /\ stable' = [r \in Threads |-> stable[r] \ {x}]
        /\ UNCHANGED <<op, current, nxt, pred, data>>
    BY <1>11 DEF Unlink
  <2>2. \A p \in Places \ {x} : After(p)' = After(p) \ {x}
    BY <1>11, UnlinkEffect
  <2>3. c \in Places /\ c # x /\ next[c] = x /\ x # Null /\ c \in InList /\ owner[x] = t
    BY <1>11, <2>1, UnlinkEffect, LinksOK, PositionHeld DEF Traversing
  <2>4. After(c) = After(x) \cup {x}
    BY <2>3, NextStep
  <2>5. Skip(t)'
    <3>1. Skip(t) /\ pc'[t] = "unlock" /\ current'[t] = c /\ stable'[t] = stable[t] \ {x}
      BY <2>1 DEF Skips, TypeOK
    <3>2. After(current[t])' = After(c)'
      BY <2>1 DEF After
    <3> QED
      BY <2>1, <2>2, <2>3, <2>4, <3>1, <3>2 DEF Skip, Ahead, Traversing, Matches
  <2> HIDE DEF x, c
  <2>6. ASSUME NEW r \in Threads \ {t} PROVE Skip(r)'
    <3>1. r \in Threads /\ Same(r) /\ pred'[r] = pred[r] /\ stable'[r] = stable[r] \ {x}
      BY <2>1 DEF Same, TypeOK
    <3>2. Traversing(r) => Position(r) \in Places \ {x}
      BY <2>3, <3>1, PositionHeld, LinksOK
    <3>3. Traversing(r) => Reach(next', Position(r)) = Reach(next, Position(r)) \ {x}
      BY <2>2, <3>2, AfterReach
    <3> QED
      BY <2>1, <3>1, <3>3, SkipKept
  <2> QED
    BY <2>5, <2>6 DEF Skips
<1>12. ASSUME NEW t \in Threads, UnlockNext(t) PROVE Skips'
  <2>1. UNCHANGED <<next, data>>
    BY <1>12 DEF UnlockNext
  <2>2. \A n : After(n)' = After(n)
    BY <2>1, SameLinks
  <2>3. Skip(t)
    BY DEF Skips
  <2>4. Skip(t)'
    BY <1>12, <2>2, <2>3 DEF UnlockNext, Skip, Ahead, Traversing, Matches, TypeOK, Spots, Spot
  <2>5. \A r \in Threads \ {t} : Same(r) /\ pred'[r] = pred[r] /\ stable'[r] = stable[r]
    BY <1>12 DEF UnlockNext, TypeOK, Same
  <2>6. ASSUME NEW r \in Threads \ {t} PROVE Skip(r)'
    BY <2>1, <2>5, SkipKept
  <2> QED
    BY <2>4, <2>6 DEF Skips
<1>13. ASSUME NEW t \in Threads, DeleteNext(t) PROVE Skips'
  <2> DEFINE x == nxt[t]
  <2>1. /\ pc[t] = "delete" /\ pc' = [pc EXCEPT ![t] = "scan"]
        /\ UNCHANGED <<op, current, nxt, pred, stable, next>>
        /\ \A m \in Nodes \ {x} : data'[m] = data[m]
    BY <1>13 DEF DeleteNext, TypeOK
  <2>2. \A n : After(n)' = After(n)
    BY <2>1, SameLinks
  <2>3. x \notin InList
    BY <2>1, AtNodes DEF Removing
  <2>4. \A r \in Threads : \A m \in stable[r] : data'[m] = data[m]
    BY <2>1, <2>3, LinksOK DEF Spots, Spot, InList
  <2> HIDE DEF x
  <2>5. Skip(t)'
    <3>1. Skip(t) /\ pc'[t] = "scan"
      BY <2>1 DEF Skips, TypeOK
    <3> QED
      BY <2>1, <2>2, <2>4, <3>1 DEF Skip, Ahead, Traversing, Matches
  <2>6. ASSUME NEW r \in Threads \ {t} PROVE Skip(r)'
    <3>1. r \in Threads /\ Same(r) /\ pred'[r] = pred[r] /\ stable'[r] = stable[r]
      BY <2>1 DEF Same, TypeOK
    <3> QED
      BY <2>1, <2>4, <3>1, SkipKept
  <2> QED
    BY <2>5, <2>6 DEF Skips
<1> QED
  BY <1>1, <1>2, <1>3, <1>4, <1>5, <1>6, <1>7, <1>8, <1>9, <1>10, <1>11, <1>12, <1>13
     DEF Next, Step, Find, Remove

(* Remover r, ahead of t, is to remove n; n is unlinked, or somebody is to remove it. *)
Guard(r, t, n) ==
  /\ op[r] = "remove" /\ Traversing(r) /\ n \in stable[r] /\ Matches(r, n)
  /\ Position(r) \in Reach(next, Position(t))
Covered(t, n) ==
  \/ \E r \in Threads : Removing(r) /\ nxt[r] = n
  \/ \E r \in Threads : Guard(r, t, n)
Covers ==
  \A t \in Threads : op[t] = "find" /\ Traversing(t) => \A n \in doomed[t] : Covered(t, n)

(* Doomed by the links. *)
LEMMA DoomedCovers == (Doomed <=> Covers) /\ (Doomed' <=> Covers')
<1>1. Doomed <=> Covers
  BY AfterReach DEF Doomed, Covers, Covered, Guard
<1>2. \A t : After(Position(t))' = Reach(next, Position(t))'
  BY DEF After, Reach, Closed
<1> QED
  BY <1>1, <1>2 DEF Doomed, Covers, Covered, Guard

(* Steps of thread t that move neither a find_first_if nor a remove_if. *)
Others(t) ==
  \A v \in Threads \ {t} :
    Same(v) /\ pred'[v] = pred[v] /\ stable'[v] = stable[v] /\ doomed'[v] = doomed[v]
FindStill(t) ==
  op'[t] = "find" /\ Traversing(t)' =>
    op[t] = "find" /\ Traversing(t) /\ Position(t)' = Position(t) /\ doomed'[t] = doomed[t]
RemoveStill(t) ==
  /\ Removing(t) => Removing(t)' /\ nxt'[t] = nxt[t]
  /\ op[t] = "remove" /\ Traversing(t) /\ (\E n \in stable[t] : Matches(t, n)) =>
       /\ op'[t] = "remove" /\ Traversing(t)' /\ Position(t)' = Position(t)
       /\ stable'[t] = stable[t] /\ pred'[t] = pred[t]

(* A step that moves no find_first_if and no remove_if, and changes no link, keeps every
   doomed node covered. *)
LEMMA DoomPlain ==
  ASSUME IInv, Covers, NEW t \in Threads, UNCHANGED <<next, data>>, Others(t), FindStill(t),
         RemoveStill(t)
  PROVE  Covers'
<1> SUFFICES ASSUME NEW u \in Threads, op'[u] = "find", Traversing(u)', NEW n \in doomed'[u]
             PROVE  Covered(u, n)'
  BY DEF Covers
<1>1. op[u] = "find" /\ Traversing(u) /\ n \in doomed[u] /\ Position(u)' = Position(u)
  BY DEF Others, FindStill, Same, Traversing, Position
<1>2. ASSUME NEW r \in Threads, Removing(r), nxt[r] = n PROVE Covered(u, n)'
  BY <1>2 DEF Covered, Others, RemoveStill, Same, Removing
<1>3. ASSUME NEW r \in Threads, Guard(r, u, n) PROVE Guard(r, u, n)'
  BY <1>1, <1>3 DEF Guard, Others, RemoveStill, Same, Traversing, Position, Matches
<1> QED
  BY <1>1, <1>2, <1>3 DEF Covers, Covered

(* Every step keeps what is to be removed out of the sight of a later find_first_if. *)
LEMMA DoomedStep == ASSUME IInv, Next PROVE Doomed'
<1> USE ListConstantsOK DEF IInv, Goto, Unlock, Return, list, call, ghost, vars
<1> SUFFICES Covers'
  BY DoomedCovers
<1>0. Covers
  BY DoomedCovers
<1> USE <1>0
<1>1. ASSUME NEW t \in Threads, PushFront(t) PROVE Covers'
  <2> SUFFICES ASSUME NEW u \in Threads, op'[u] = "find", Traversing(u)', NEW n \in doomed'[u]
               PROVE  Covered(u, n)'
    BY DEF Covers
  <2>1. PICK m \in Nodes \ alive :
          /\ next' = [next EXCEPT ![m] = next[Head], ![Head] = m]
          /\ \A k \in Nodes \ {m} : data'[k] = data[k]
    BY <1>1 DEF PushFront, TypeOK
  <2>2. UNCHANGED <<pc, op, pred, current, nxt, stable, doomed>> /\ owner[Head] = Nobody
    BY <1>1 DEF PushFront
  <2>3. Traversing(u) /\ Covered(u, n)
    BY <2>2 DEF Covers, Traversing
  <2>4. m \notin InList /\ \A p \in Nodes \ {m} : Reach(next', p) = Reach(next, p)
    BY <2>1, PushEffect, AfterReach
  <2>5. Reach(next', Position(u)) = Reach(next, Position(u))
    BY <2>2, <2>3, <2>4, PositionHeld, LinksOK DEF InList
  <2>6. \A r \in Threads : n \in stable[r] => data'[n] = data[n]
    BY <2>1, <2>4, LinksOK DEF Spots, Spot, InList
  <2> QED
    BY <2>2, <2>3, <2>5, <2>6 DEF Covered, Guard, Removing, Traversing, Position, Matches
<1>2. ASSUME NEW t \in Threads, Call(t) PROVE Covers'
  <2>1. UNCHANGED <<next, data>> /\ Others(t)
    BY <1>2 DEF Call, TypeOK, Same, Others
  <2>2. FindStill(t)
    BY <1>2 DEF Call, TypeOK, Traversing, Position, FindStill
  <2>3. RemoveStill(t)
    BY <1>2 DEF Call, TypeOK, Traversing, Position, Removing, Spots, Spot, RemoveStill
  <2> QED
    BY <2>1, <2>2, <2>3, DoomPlain
<1>3. ASSUME NEW t \in Threads, LockHead(t) PROVE Covers'
  <2> SUFFICES ASSUME NEW u \in Threads, op'[u] = "find", Traversing(u)', NEW n \in doomed'[u]
               PROVE  Covered(u, n)'
    BY DEF Covers
  <2>1. UNCHANGED <<next, data, op, pred, current, nxt>> /\ pc[t] = "begin" /\ pc'[t] = "scan"
    BY <1>3 DEF LockHead, TypeOK
  <2>2. /\ \A v \in Threads \ {t} :
               pc'[v] = pc[v] /\ stable'[v] = stable[v] /\ doomed'[v] = doomed[v]
        /\ doomed'[t] = UNION {{m \in stable[r] : Matches(r, m)} :
                                 r \in {r \in Threads : op[r] = "remove"}}
    BY <1>3 DEF LockHead, TypeOK
  <2>3. CASE u # t
    <3>1. Traversing(u) /\ op[u] = "find" /\ n \in doomed[u]
      BY <2>1, <2>2, <2>3 DEF Traversing
    <3>2. Covered(u, n)
      BY <3>1 DEF Covers
    <3>3. \A v \in Threads : Traversing(v) => v # t
      BY <2>1 DEF Traversing
    <3>4. \A v \in Threads : Removing(v) => v # t
      BY <2>1 DEF Removing
    <3> QED
      BY <2>1, <2>2, <2>3, <3>1, <3>2, <3>3, <3>4
         DEF Covered, Guard, Removing, Traversing, Position, Matches
  <2>4. CASE u = t
    <3>1. PICK r \in Threads : op[r] = "remove" /\ n \in stable[r] /\ Matches(r, n)
      BY <2>2, <2>4
    <3>2. r # t /\ Traversing(r)
      BY <2>1, <2>4, <3>1 DEF Spots, Spot
    <3>3. Position(r) \in InList /\ owner[Position(r)] = r
      BY <3>2, PositionHeld
    <3>4. Position(r) \in Reach(next, Head)
      BY <1>3, <3>3, AfterReach DEF InList, LockHead
    <3>5. current[t] = Head
      BY <2>1 DEF Spots, Spot, Traversing
    <3> QED
      BY <2>1, <2>2, <2>4, <3>1, <3>2, <3>4, <3>5
         DEF Covered, Guard, Traversing, Position, Matches
  <2> QED
    BY <2>3, <2>4
<1>4. ASSUME NEW t \in Threads, Scan(t) PROVE Covers'
  <2>1. UNCHANGED <<next, data>> /\ Others(t)
    BY <1>4 DEF Scan, TypeOK, Same, Others
  <2>2. FindStill(t)
    BY <1>4 DEF Scan, TypeOK, Traversing, Position, FindStill
  <2>3. RemoveStill(t)
    BY <1>4 DEF Scan, TypeOK, Traversing, Position, Removing, Spots, Spot, RemoveStill
  <2> QED
    BY <2>1, <2>2, <2>3, DoomPlain
<1>5. ASSUME NEW t \in Threads, ScanEnd(t) PROVE Covers'
  <2>1. UNCHANGED <<next, data>> /\ Others(t) /\ pc[t] = "scan" /\ next[current[t]] = Null
    BY <1>5 DEF ScanEnd, TypeOK, Same, Others
  <2>2. FindStill(t)
    BY <1>5 DEF ScanEnd, TypeOK, Traversing, Position, FindStill
  <2>3. ASSUME NEW n \in stable[t], Matches(t, n) PROVE FALSE
    <3>1. n \in Reach(next, current[t])
      BY <2>1, <2>3, SkippedSkips, AheadReach DEF Skips, Skip, Traversing
    <3>2. Reach(next, current[t]) = {}
      BY <2>1, LinksOK, ReachStep DEF TypeOK
    <3> QED
      BY <3>1, <3>2
  <2>4. RemoveStill(t)
    BY <2>1, <2>3 DEF RemoveStill, Removing
  <2> QED
    BY <2>1, <2>2, <2>4, DoomPlain
<1>6. ASSUME NEW t \in Threads, LockNext(t) PROVE Covers'
  <2> SUFFICES ASSUME NEW u \in Threads, op'[u] = "find", Traversing(u)', NEW n \in doomed'[u]
               PROVE  Covered(u, n)'
    BY DEF Covers
  <2>1. /\ UNCHANGED <<next, data, op, pred, current, nxt, stable, doomed>>
        /\ pc[t] = "lock" /\ pc' = [pc EXCEPT ![t] = IF op[t] = "find" THEN "leave" ELSE "test"]
    BY <1>6 DEF LockNext
  <2>2. \A v \in Threads : Traversing(v)' <=> Traversing(v)
    BY <2>1 DEF Traversing, TypeOK
  <2>3. Covered(u, n)
    BY <2>1, <2>2 DEF Covers
  <2>4. Position(u)' = Position(u)
    BY <2>1 DEF Position, TypeOK
  <2>5. ASSUME NEW r \in Threads, Removing(r), nxt[r] = n PROVE Covered(u, n)'
    BY <2>1, <2>5 DEF Covered, Removing, TypeOK
  <2>6. ASSUME NEW r \in Threads, Guard(r, u, n) PROVE Covered(u, n)'
    <3>1. Position(r)' \in {Position(r), next[Position(r)]} /\ Position(r)' # Null
      <4>1. CASE r = t
        <5>1. op[t] = "remove" /\ pc'[t] = "test"
          BY <2>1, <2>6, <4>1 DEF Guard, TypeOK
        <5>2. Position(t) = current[t]
          BY <2>1 DEF Position
        <5>3. Position(t)' = nxt[t]
          BY <2>1, <5>1 DEF Position
        <5>4. nxt[t] # Null /\ nxt[t] = next[current[t]]
          BY <2>1 DEF Spots, Spot
        <5> QED
          BY <4>1, <5>2, <5>3, <5>4
      <4>2. CASE r # t
        <5>1. Position(r)' = Position(r)
          BY <2>1, <4>2 DEF Position, TypeOK
        <5>2. Position(r) \in Places
          BY <2>6, PositionHeld, LinksOK DEF Guard
        <5> QED
          BY <5>1, <5>2 DEF Places
      <4> QED
        BY <4>1, <4>2
    <3>2. Position(u) \in Places
      BY <2>1, <2>2, PositionHeld, LinksOK
    <3>3. Position(r)' \in Reach(next, Position(u))
      BY <2>6, <3>1, <3>2, LinksOK, ReachClosed DEF Guard, Closed
    <3> QED
      BY <2>1, <2>2, <2>4, <2>6, <3>3 DEF Covered, Guard, Matches
  <2> QED
    BY <2>3, <2>5, <2>6 DEF Covered
<1>7. ASSUME NEW t \in Threads, Leave(t) PROVE Covers'
  <2> SUFFICES ASSUME NEW u \in Threads, op'[u] = "find", Traversing(u)', NEW n \in doomed'[u]
               PROVE  Covered(u, n)'
    BY DEF Covers
  <2>1. /\ UNCHANGED <<next, data, op, pred, current, nxt, stable, doomed>>
        /\ pc[t] = "leave" /\ pc' = [pc EXCEPT ![t] = "test"]
    BY <1>7 DEF Leave
  <2>2. \A v \in Threads : Traversing(v)' <=> Traversing(v)
    BY <2>1 DEF Traversing, TypeOK
  <2>3. Covered(u, n)
    BY <2>1, <2>2 DEF Covers
  <2>4. /\ op[t] = "find" /\ nxt[t] = next[current[t]] /\ nxt[t] # Null
        /\ current[t] \in InList /\ owner[nxt[t]] = t
    BY <2>1, PositionHeld DEF Spots, Spot, Traversing
  <2>5. ASSUME NEW r \in Threads, Removing(r), nxt[r] = n PROVE Covered(u, n)'
    BY <2>1, <2>5 DEF Covered, Removing, TypeOK
  <2>6. ASSUME NEW r \in Threads, Guard(r, u, n) PROVE Covered(u, n)'
    <3>1. r # t /\ Position(r)' = Position(r) /\ owner[Position(r)] = r
      BY <2>1, <2>4, <2>6, PositionHeld DEF Guard, Position, TypeOK
    <3>2. Position(r) \in Reach(next, Position(u)')
      <4>1. CASE u # t
        BY <2>1, <2>6, <4>1 DEF Guard, Position, TypeOK
      <4>2. CASE u = t
        <5>1. Position(u)' = nxt[t] /\ Position(u) = current[t]
          BY <2>1, <4>2 DEF Position, TypeOK
        <5>2. Reach(next, current[t]) = Reach(next, nxt[t]) \cup {nxt[t]}
          BY <2>4, NextStep, AfterReach
        <5> QED
          BY <2>4, <2>6, <3>1, <5>1, <5>2 DEF Guard
      <4> QED
        BY <4>1, <4>2
    <3> QED
      BY <2>1, <2>2, <2>6, <3>1, <3>2 DEF Covered, Guard, Matches
  <2> QED
    BY <2>3, <2>5, <2>6 DEF Covered
<1>8. ASSUME NEW t \in Threads, FindReturns(t) PROVE Covers'
  <2>1. UNCHANGED <<next, data>> /\ Others(t)
    BY <1>8 DEF FindReturns, TypeOK, Same, Others
  <2>2. FindStill(t)
    BY <1>8 DEF FindReturns, TypeOK, Traversing, Position, FindStill
  <2>3. RemoveStill(t)
    BY <1>8 DEF FindReturns, TypeOK, Traversing, Position, Removing, Spots, Spot, RemoveStill
  <2> QED
    BY <2>1, <2>2, <2>3, DoomPlain
<1>9. ASSUME NEW t \in Threads, FindAdvances(t) PROVE Covers'
  <2>1. UNCHANGED <<next, data>> /\ Others(t)
    BY <1>9 DEF FindAdvances, TypeOK, Same, Others
  <2>2. FindStill(t)
    BY <1>9 DEF FindAdvances, TypeOK, Traversing, Position, FindStill
  <2>3. RemoveStill(t)
    BY <1>9 DEF FindAdvances, TypeOK, Traversing, Position, Removing, Spots, Spot, RemoveStill
  <2> QED
    BY <2>1, <2>2, <2>3, DoomPlain
<1>10. ASSUME NEW t \in Threads, RemoveAdvances(t) PROVE Covers'
  <2>1. UNCHANGED <<next, data>> /\ Others(t)
    BY <1>10 DEF RemoveAdvances, TypeOK, Same, Others
  <2>2. FindStill(t)
    BY <1>10 DEF RemoveAdvances, TypeOK, Traversing, Position, FindStill
  <2>3. RemoveStill(t)
    BY <1>10 DEF RemoveAdvances, TypeOK, Traversing, Position, Removing, Spots, Spot, RemoveStill
  <2> QED
    BY <2>1, <2>2, <2>3, DoomPlain
<1>11. ASSUME NEW t \in Threads, Unlink(t) PROVE Covers'
  <2> SUFFICES ASSUME NEW u \in Threads, op'[u] = "find", Traversing(u)', NEW n \in doomed'[u]
               PROVE  Covered(u, n)'
    BY DEF Covers
  <2> DEFINE x == nxt[t]
             c == current[t]
  <2>1. /\ pc[t] = "test" /\ op[t] = "remove" /\ pc' = [pc EXCEPT ![t] = "unlock"]
        /\ stable' = [r \in Threads |-> stable[r] \ {x}]
        /\ UNCHANGED <<op, current, nxt, pred, data, doomed>>
    BY <1>11 DEF Unlink
  <2>2. \A p \in Places \ {x} : Reach(next', p) = Reach(next, p) \ {x}
    BY <1>11, UnlinkEffect, AfterReach
  <2>3. /\ c \in InList /\ c \in Places /\ c # x /\ next[c] = x /\ owner[x] = t /\ owner[c] = t
        /\ x # Null
    BY <1>11, <2>1, UnlinkEffect, LinksOK, PositionHeld DEF Traversing
  <2>4. \A v \in Threads : Traversing(v)' <=> Traversing(v)
    BY <2>1 DEF Traversing, TypeOK
  <2>5. /\ u # t /\ Covered(u, n) /\ Position(u)' = Position(u)
        /\ Position(u) \in Places /\ owner[Position(u)] = u
    BY <2>1, <2>4, PositionHeld, LinksOK DEF Covers, Position, TypeOK
  <2>6. Removing(t)' /\ nxt'[t] = x
    BY <2>1 DEF Removing, TypeOK
  <2>7. ASSUME NEW r \in Threads, Removing(r), nxt[r] = n PROVE Covered(u, n)'
    BY <2>1, <2>7 DEF Covered, Removing, TypeOK
  <2> HIDE DEF x, c
  <2>8. ASSUME NEW r \in Threads, Guard(r, u, n), n # x PROVE Covered(u, n)'
    <3>1. Position(r)' \in Reach(next, Position(u)) /\ Position(r)' # x
      <4>1. CASE r = t
        <5>1. Position(r) = x /\ Position(r)' = c
          BY <2>1, <4>1 DEF Position, TypeOK, x, c
        <5>2. x \in Reach(next, Position(u))
          BY <2>8, <5>1 DEF Guard
        <5>3. PICK p \in Reach(next, Position(u)) \cup {Position(u)} : next[p] = x
          BY <2>5, <5>2, LinksOK, ReachPred
        <5>4. p \in Places
          BY <2>5, LinksOK, ReachClosed
        <5>5. p = c
          BY <2>3, <5>3, <5>4, LinksOK DEF OneLink
        <5> QED
          BY <2>3, <2>5, <5>1, <5>3, <5>5
      <4>2. CASE r # t
        <5>1. Position(r)' = Position(r) /\ owner[Position(r)] = r
          BY <2>1, <2>8, <4>2, PositionHeld DEF Guard, Position, TypeOK
        <5> QED
          BY <2>3, <2>8, <4>2, <5>1 DEF Guard
      <4> QED
        BY <4>1, <4>2
    <3>2. Position(r)' \in Reach(next', Position(u)')
      BY <2>2, <2>3, <2>5, <3>1
    <3> QED
      BY <2>1, <2>4, <2>8, <3>2 DEF Covered, Guard, Matches
  <2>9. n = x => Covered(u, n)'
    BY <2>6 DEF Covered
  <2> QED
    BY <2>5, <2>7, <2>8, <2>9 DEF Covered
<1>12. ASSUME NEW t \in Threads, UnlockNext(t) PROVE Covers'
  <2>1. UNCHANGED <<next, data>> /\ Others(t)
    BY <1>12 DEF UnlockNext, TypeOK, Same, Others
  <2>2. FindStill(t)
    BY <1>12 DEF UnlockNext, TypeOK, Traversing, Position, FindStill
  <2>3. RemoveStill(t)
    BY <1>12 DEF UnlockNext, TypeOK, Traversing, Position, Removing, Spots, Spot, RemoveStill
  <2> QED
    BY <2>1, <2>2, <2>3, DoomPlain
<1>13. ASSUME NEW t \in Threads, DeleteNext(t) PROVE Covers'
  <2> SUFFICES ASSUME NEW u \in Threads, op'[u] = "find", Traversing(u)', NEW n \in doomed'[u]
               PROVE  Covered(u, n)'
    BY DEF Covers
  <2> DEFINE x == nxt[t]
  <2>1. /\ pc[t] = "delete" /\ pc' = [pc EXCEPT ![t] = "scan"]
        /\ UNCHANGED <<op, current, nxt, pred, stable, next>>
        /\ \A m \in Nodes \ {x} : data'[m] = data[m]
        /\ doomed' = [r \in Threads |-> doomed[r] \ {x}]
    BY <1>13 DEF DeleteNext, TypeOK
  <2>2. n \in doomed[u] /\ n # x /\ n \in Nodes
    BY <2>1 DEF TypeOK
  <2>3. \A v \in Threads : (Traversing(v)' <=> Traversing(v)) /\ Position(v)' = Position(v)
    BY <2>1 DEF Traversing, Position, TypeOK
  <2>4. Covered(u, n)
    BY <2>1, <2>2, <2>3 DEF Covers
  <2>5. ASSUME NEW r \in Threads, Removing(r), nxt[r] = n PROVE Covered(u, n)'
    BY <2>1, <2>2, <2>5 DEF Covered, Removing, TypeOK
  <2>6. ASSUME NEW r \in Threads, Guard(r, u, n) PROVE Covered(u, n)'
    BY <2>1, <2>2, <2>3, <2>6 DEF Covered, Guard, Matches
  <2> QED
    BY <2>4, <2>5, <2>6 DEF Covered
<1> QED
  BY <1>1, <1>2, <1>3, <1>4, <1>5, <1>6, <1>7, <1>8, <1>9, <1>10, <1>11, <1>12, <1>13
     DEF Next, Step, Find, Remove

(* The constructor makes an empty list with nobody in it. *)
LEMMA InitIInv == Init => IInv
<1> SUFFICES ASSUME Init PROVE IInv
  OBVIOUS
<1> USE ListConstantsOK
<1>1. TypeOK
  BY DEF Init, TypeOK, Places
<1>2. \A p \in Places : next[p] = Null
  BY DEF Init
<1>3. After(Head) = {}
  <2>1. next \in Links /\ Head \in Places
    BY <1>1 DEF TypeOK, Links, Places
  <2> QED
    BY <1>2, <2>1, ReachStep, AfterReach
<1>4. \A t \in Threads : pc[t] = "idle" /\ op[t] = "find" /\ current[t] = Head /\ stable[t] = {}
  BY DEF Init
<1>5. Owned
  BY <1>1, <1>4 DEF Init, Owned, Held, TypeOK
<1>6. Linked
  BY <1>2 DEF Linked
<1>7. Spots
  BY <1>4 DEF Spots, Spot, Traversing, Removing
<1>8. NoNodeLost
  BY <1>3, <1>4 DEF Init, NoNodeLost
<1>9. Leaving
  BY <1>4 DEF Leaving, Removing
<1>10. NothingSkipped /\ Doomed
  BY <1>4 DEF NothingSkipped, Doomed, Traversing
<1> QED
  BY <1>1, <1>5, <1>6, <1>7, <1>8, <1>9, <1>10 DEF IInv

(* A step that changes nothing keeps the invariant. *)
LEMMA StutterIInv == IInv /\ UNCHANGED vars => IInv'
<1> SUFFICES ASSUME IInv, UNCHANGED vars PROVE IInv'
  OBVIOUS
<1> USE DEF IInv, vars, list, call, ghost
<1>1. (\A n : After(n)' = After(n)) /\ InList' = InList
  BY SameLinks
<1>2. TypeOK' /\ Leaving'
  BY DEF TypeOK, Leaving, Removing
<1>3. Owned'
  BY DEF Owned, Held
<1>4. Linked' /\ NoNodeLost'
  BY <1>1 DEF Linked, NoNodeLost
<1>5. Spots'
  BY <1>1 DEF Spots, Spot, Traversing, Removing, Position
<1>6. NothingSkipped'
  <2>1. Skips
    BY SkippedSkips
  <2>2. \A t : Ahead(t)' = Ahead(t)
    BY AheadReach
  <2> QED
    BY <2>1, <2>2, SkippedSkips DEF Skips, Skip, Traversing, Matches
<1>7. Doomed'
  <2>1. Covers
    BY DoomedCovers
  <2>2. Covers'
    BY <2>1 DEF Covers, Covered, Guard, Traversing, Removing, Position, Matches
  <2> QED
    BY <2>2, DoomedCovers
<1> QED
  BY <1>2, <1>3, <1>4, <1>5, <1>6, <1>7

(* The invariant holds in every state of every run of threadsafe_list.hpp. *)
THEOREM Invariance == Spec => []IInv
<1>1. IInv /\ Next => IInv'
  BY TypeStep, OwnedStep, LinkedStep, SpotsStep, LostStep, SkipStep, DoomedStep DEF IInv
<1> QED
  BY <1>1, InitIInv, StutterIInv, PTL DEF Spec

(* No thread ever touches a node that remove_if has deleted, or a mutex in it, and no node
   is deleted with its mutex locked (OffDeletedNodes). *)
THEOREM NodesAlive == Spec => []OffDeletedNodes
<1>1. ASSUME IInv PROVE OffDeletedNodes
  <2> USE <1>1
  <2>1. TypeOK /\ Owned /\ NoNodeLost
    BY DEF IInv
  <2>2. InList \ {Head} \subseteq alive
    BY <2>1 DEF NoNodeLost, InList
  <2>3. ASSUME NEW t \in Threads PROVE Touches(t) \ {Head} \subseteq alive
    <3>1. Traversing(t) => Position(t) \in InList
      BY PositionHeld
    <3>2. pc[t] \in {"scan", "lock", "leave", "unlock", "delete"} => current[t] \in InList
      BY <3>1 DEF Traversing, Position
    <3>3. pc[t] \in {"lock", "leave", "test", "unlock", "delete"} => nxt[t] \in alive
      BY AtNodes DEF Removing
    <3>4. pc[t] = "test" /\ op[t] = "remove" => current[t] \in InList
      BY AtNodes
    <3>5. pc[t] \in {"idle", "begin", "scan", "lock", "leave", "test", "unlock", "delete"}
      BY <2>1 DEF TypeOK
    <3>6. op[t] \in {"find", "remove"}
      BY <2>1 DEF TypeOK
    <3> QED
      BY <2>2, <3>2, <3>3, <3>4, <3>5, <3>6 DEF Touches
  <2>4. ASSUME NEW n \in Nodes \ alive PROVE owner[n] = Nobody
    <3> SUFFICES ASSUME NEW t \in Threads, owner[n] = t PROVE FALSE
      BY <2>1 DEF TypeOK, Places
    <3>1. n \in Held(t)
      BY <2>1 DEF Owned, Places
    <3>2. pc[t] \in {"scan", "lock", "delete", "leave", "unlock", "test"}
      BY <2>1, <3>1 DEF Held, TypeOK
    <3>3. n # Head
      BY ListConstantsOK
    <3>4. n = nxt[t]
      <4>1. current[t] = n => pc[t] = "test" /\ op[t] # "remove"
        BY <2>2, <3>2, <3>3, AtNodes, PositionHeld DEF Traversing, Position
      <4> QED
        BY <2>1, <3>1, <4>1 DEF Held, TypeOK
    <3>5. nxt[t] # current[t]
      BY <2>2, <3>2, <3>3, <3>4, AtNodes, PositionHeld DEF Traversing, Position
    <3>6. pc[t] \in {"leave", "test", "unlock"}
      BY <3>1, <3>2, <3>4, <3>5 DEF Held
    <3> QED
      BY <3>4, <3>6, AtNodes DEF Removing
  <2> QED
    BY <2>3, <2>4 DEF OffDeletedNodes
<1> QED
  BY <1>1, Invariance, PTL

(* Concurrent push_front and remove_if lose no node and bring none back: what is allocated
   is linked from head or about to be deleted (NoNodeLost). *)
THEOREM ListWhole == Spec => []NoNodeLost
<1>1. IInv => NoNodeLost
  BY DEF IInv
<1> QED
  BY <1>1, Invariance, PTL

(* No match that was in the list when a traversal began gets behind it (NothingSkipped). *)
THEOREM NoMatchPassed == Spec => []NothingSkipped
<1>1. IInv => NothingSkipped
  BY DEF IInv
<1> QED
  BY <1>1, Invariance, PTL

(* A find_first_if never sees a node that a remove_if which began before it is to remove
   (NoOvertaking). *)
THEOREM FindStaysBehind == Spec => []NoOvertaking
<1>1. ASSUME IInv PROVE NoOvertaking
  <2> SUFFICES ASSUME NEW t \in Threads, op[t] = "find", pc[t] \in {"lock", "leave", "test"},
                      nxt[t] \in doomed[t]
               PROVE  FALSE
    BY DEF NoOvertaking
  <2> DEFINE n == nxt[t]
  <2> USE <1>1
  <2>1. next \in Links /\ OneLink(next) /\ n \in Reach(next, Head) /\ n \in Places
    BY AtNodes, LinksOK, AfterReach
  <2>2. n \notin Reach(next, n)
    BY <2>1, Acyclic
  <2>3. Covered(t, n)
    BY DoomedCovers DEF IInv, Covers, Traversing
  <2>4. \A r \in Threads : Removing(r) => nxt[r] # n
    BY <2>1, AtNodes, AfterReach DEF InList
  <2>5. PICK r \in Threads : Guard(r, t, n)
    BY <2>3, <2>4 DEF Covered
  <2>6. n \in Ahead(r) /\ Traversing(r) /\ Position(r) \in Reach(next, Position(t))
    BY <2>5, SkippedSkips DEF IInv, Skips, Skip, Guard
  <2>7. Position(r) \in Places
    BY <2>6, PositionHeld, LinksOK
  <2>8. n = Position(r) \/ n \in Reach(next, Position(r))
    BY <2>6, AheadReach DEF Position
  <2>9. Position(r) \notin Reach(next, n)
    BY <2>1, <2>2, <2>7, <2>8, ReachTrans
  <2>10. pc[t] # "test"
    BY <2>6, <2>9 DEF Position
  <2>11. Position(t) = current[t] /\ owner[current[t]] = t
    BY <2>10, PositionHeld DEF Position, Traversing
  <2>12. current[t] \in InList /\ next[current[t]] = n /\ n # Null /\ current[t] \in Places
    BY <2>10, LinksOK DEF IInv, Spots, Spot
  <2>13. Reach(next, current[t]) = Reach(next, n) \cup {n}
    BY <2>1, <2>12, ReachStep
  <2>14. Position(r) = n
    BY <2>6, <2>9, <2>11, <2>13
  <2>15. pc[r] = "test" /\ op[r] = "remove"
    BY <2>2, <2>5, <2>6, <2>14, AheadReach DEF Position, Guard
  <2>16. nxt[r] = n /\ nxt[r] = next[current[r]] /\ current[r] \in InList
    BY <2>14, <2>15 DEF Position, IInv, Spots, Spot
  <2>17. current[r] = current[t]
    BY <2>1, <2>12, <2>16, LinksOK DEF OneLink
  <2>18. owner[current[r]] = r
    BY <2>6, <2>15, PositionHeld
  <2> QED
    BY <2>5, <2>11, <2>15, <2>17, <2>18 DEF Guard
<1> QED
  BY <1>1, Invariance, PTL
=============================================================================
