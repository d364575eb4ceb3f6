--------------------------- MODULE ThreadsafeList ---------------------------
(***************************************************************************)
(* threadsafe_list.hpp: a singly linked list with a mutex in every node.   *)
(* push_front, find_first_if and remove_if lock hand over hand: a thread   *)
(* takes the mutex of the next node before it lets go of the one it has.   *)
(*                                                                         *)
(* A node is a piece of memory: once deleted it may be allocated again.    *)
(* A predicate is the set of values that satisfy it.  push_front has one   *)
(* critical section and is one step.  for_each and the destructor do not   *)
(* compile once they are instantiated (current->next() calls a             *)
(* unique_ptr, std::remove_if is given one argument) and are left out.     *)
(***************************************************************************)
EXTENDS Naturals

CONSTANTS Threads, Nodes, Values,
          Head,  (* the member head, a node that holds no value             *)
          Null,  (* no node                                                 *)
          Nobody (* no thread                                               *)

ASSUME ListConstantsOK ==
  /\ Head \notin Nodes /\ Null \notin Nodes \cup {Head}
  /\ Nobody \notin Threads

VARIABLES next,    (* the link of each node                                 *)
          data,    (* its value                                             *)
          alive,   (* the nodes that are allocated                          *)
          owner,   (* who holds the mutex of each node                      *)
          pc,      (* where each thread is                                  *)
          op,      (* the function it is in                                 *)
          pred,    (* its predicate                                         *)
          current, (* its local current                                     *)
          nxt,     (* its local next                                        *)
          stable,  (* the nodes in the list since it locked head            *)
          doomed   (* the nodes that removers ahead of it are to remove     *)

list  == <<next, data, alive>>
call  == <<op, pred>>
ghost == <<stable, doomed>>
vars  == <<list, owner, pc, call, current, nxt, ghost>>

Places == Nodes \cup {Head}

TypeOK ==
  /\ next \in [Places -> Nodes \cup {Null}]
  /\ data \in [Nodes -> Values \cup {Null}]
  /\ alive \in SUBSET Nodes
  /\ owner \in [Places -> Threads \cup {Nobody}]
  /\ pc \in [Threads -> {"idle", "begin", "scan", "lock", "leave", "test", "unlock",
                         "delete"}]
  /\ op \in [Threads -> {"find", "remove"}]
  /\ pred \in [Threads -> SUBSET Values]
  /\ current \in [Threads -> Places]
  /\ nxt \in [Threads -> Nodes \cup {Null}]
  /\ stable \in [Threads -> SUBSET Nodes]
  /\ doomed \in [Threads -> SUBSET Nodes]

Init ==
  /\ next = [n \in Places |-> Null]
  /\ data = [n \in Nodes |-> Null]
  /\ alive = {}
  /\ owner = [n \in Places |-> Nobody]
  /\ pc = [t \in Threads |-> "idle"]
  /\ op = [t \in Threads |-> "find"]
  /\ pred = [t \in Threads |-> {}]
  /\ current = [t \in Threads |-> Head]
  /\ nxt = [t \in Threads |-> Null]
  /\ stable = [t \in Threads |-> {}]
  /\ doomed = [t \in Threads |-> {}]

Goto(t, from, to) == pc[t] = from /\ pc' = [pc EXCEPT ![t] = to]

(* The nodes behind n: those in every set that has whatever n and the members of the
   set link to.                                                              *)
After(n) ==
  {m \in Nodes : \A S \in SUBSET Nodes :
                   (\A p \in S \cup {n} : next[p] \in S \cup {Null}) => m \in S}

Matches(t, n) == data[n] \in pred[t]

(* A traversal holds the mutex of its current node. *)
Traversing(t) == pc[t] \notin {"idle", "begin"}

(* Unlocking n; a thread returns with nothing locked. *)
Unlock(n) == owner' = [owner EXCEPT ![n] = Nobody]
Return(t) ==
  /\ pc' = [pc EXCEPT ![t] = "idle"]
  /\ op' = [op EXCEPT ![t] = "find"] /\ pred' = [pred EXCEPT ![t] = {}]
  /\ current' = [current EXCEPT ![t] = Head] /\ nxt' = [nxt EXCEPT ![t] = Null]
  /\ stable' = [stable EXCEPT ![t] = {}] /\ doomed' = [doomed EXCEPT ![t] = {}]

-----------------------------------------------------------------------------
PushFront(t) ==
  /\ pc[t] = "idle"
  /\ owner[Head] = Nobody
  /\ \E n \in Nodes \ alive, v \in Values :
       /\ next' = [next EXCEPT ![n] = next[Head], ![Head] = n]
       /\ data' = [data EXCEPT ![n] = v]
       /\ alive' = alive \cup {n}
  /\ UNCHANGED <<owner, pc, call, current, nxt, ghost>>

(* A call of find_first_if or remove_if waits for the mutex of head. *)
Call(t) ==
  /\ Goto(t, "idle", "begin")
  /\ \E o \in {"find", "remove"}, p \in SUBSET Values \ {{}} :
       op' = [op EXCEPT ![t] = o] /\ pred' = [pred EXCEPT ![t] = p]
  /\ UNCHANGED <<list, owner, current, nxt, ghost>>

(* A traversal that begins without waiting. *)
LockHeadAnyTime(t) ==
  /\ Goto(t, "begin", "scan")
  /\ owner' = [owner EXCEPT ![Head] = t]
  /\ stable' = [stable EXCEPT ![t] = After(Head)]
  /\ doomed' = [doomed EXCEPT ![t] =
       UNION {{n \in stable[r] : Matches(r, n)} : r \in {r \in Threads : op[r] = "remove"}}]
  /\ UNCHANGED <<list, call, current, nxt>>

LockHead(t) ==
  /\ Goto(t, "begin", "scan")
  /\ owner[Head] = Nobody
  /\ owner' = [owner EXCEPT ![Head] = t]
  /\ stable' = [stable EXCEPT ![t] = After(Head)]
  /\ doomed' = [doomed EXCEPT ![t] =
       UNION {{n \in stable[r] : Matches(r, n)} : r \in {r \in Threads : op[r] = "remove"}}]
  /\ UNCHANGED <<list, call, current, nxt>>

(* The condition of the loop; with no next node the function returns. *)
Scan(t) ==
  /\ Goto(t, "scan", "lock")
  /\ next[current[t]] # Null
  /\ nxt' = [nxt EXCEPT ![t] = next[current[t]]]
  /\ UNCHANGED <<list, owner, call, current, ghost>>

(* A traversal that goes round again. *)
ScanEndAgain(t) ==
  /\ Goto(t, "scan", "begin") /\ next[current[t]] = Null
  /\ Unlock(current[t])
  /\ current' = [current EXCEPT ![t] = Head] /\ nxt' = [nxt EXCEPT ![t] = Null]
  /\ stable' = [stable EXCEPT ![t] = {}] /\ doomed' = [doomed EXCEPT ![t] = {}]
  /\ UNCHANGED <<list, call>>

ScanEnd(t) ==
  /\ pc[t] = "scan" /\ next[current[t]] = Null
  /\ Unlock(current[t])
  /\ Return(t)
  /\ UNCHANGED list

LockNext(t) ==
  /\ Goto(t, "lock", IF op[t] = "find" THEN "leave" ELSE "test")
  /\ owner[nxt[t]] = Nobody
  /\ owner' = [owner EXCEPT ![nxt[t]] = t]
  /\ UNCHANGED <<list, call, current, nxt, ghost>>

(* find_first_if lets go of the node before it tests the next. *)
Leave(t) ==
  /\ Goto(t, "leave", "test")
  /\ Unlock(current[t])
  /\ UNCHANGED <<list, call, current, nxt, ghost>>

(* A test of the node that was left. *)
HitCurrent(t) == current[t] \in Nodes /\ Matches(t, current[t])

(* Whether the next node satisfies the predicate. *)
Hit(t) == Matches(t, nxt[t])

FindReturns(t) ==
  /\ pc[t] = "test" /\ op[t] = "find" /\ Hit(t)
  /\ Unlock(nxt[t])
  /\ Return(t)
  /\ UNCHANGED list

FindAdvances(t) ==
  /\ Goto(t, "test", "scan") /\ op[t] = "find" /\ ~Hit(t)
  /\ current' = [current EXCEPT ![t] = nxt[t]]
  /\ UNCHANGED <<list, owner, call, nxt, ghost>>

RemoveAdvances(t) ==
  /\ Goto(t, "test", "scan") /\ op[t] = "remove" /\ ~Hit(t)
  /\ Unlock(current[t])
  /\ current' = [current EXCEPT ![t] = nxt[t]]
  /\ UNCHANGED <<list, call, nxt, ghost>>

(* A removal that forgets the rest of the list. *)
UnlinkCuts(t) ==
  /\ Goto(t, "test", "unlock") /\ op[t] = "remove" /\ Hit(t)
  /\ next' = [next EXCEPT ![current[t]] = Null, ![nxt[t]] = Null]
  /\ stable' = [r \in Threads |-> stable[r] \ {nxt[t]}]
  /\ UNCHANGED <<data, alive, owner, call, current, nxt, doomed>>

(* remove_if: the node is moved out of the list, unlocked, and deleted by the
   destructor of old_next at the end of the block.                           *)
Unlink(t) ==
  /\ Goto(t, "test", "unlock") /\ op[t] = "remove" /\ Hit(t)
  /\ next' = [next EXCEPT ![current[t]] = next[nxt[t]], ![nxt[t]] = Null]
  /\ stable' = [r \in Threads |-> stable[r] \ {nxt[t]}]
  /\ UNCHANGED <<data, alive, owner, call, current, nxt, doomed>>

(* A removal that leaves the unlocking to the destructor of next_lk, which runs after
   the one of old_next.                                                      *)
UnlockNextLate(t) ==
  /\ Goto(t, "unlock", "delete")
  /\ UNCHANGED <<list, owner, call, current, nxt, ghost>>

UnlockNext(t) ==
  /\ Goto(t, "unlock", "delete")
  /\ Unlock(nxt[t])
  /\ UNCHANGED <<list, call, current, nxt, ghost>>

DeleteNext(t) ==
  /\ Goto(t, "delete", "scan")
  /\ alive' = alive \ {nxt[t]}
  /\ data' = [data EXCEPT ![nxt[t]] = Null]
  /\ doomed' = [r \in Threads |-> doomed[r] \ {nxt[t]}]
  /\ UNCHANGED <<next, owner, call, current, nxt, stable>>

-----------------------------------------------------------------------------
Find(t)   == Leave(t) \/ FindReturns(t) \/ FindAdvances(t)
Remove(t) == RemoveAdvances(t) \/ Unlink(t) \/ UnlockNext(t) \/ DeleteNext(t)
Step(t)   == Scan(t) \/ ScanEnd(t) \/ LockNext(t) \/ Find(t) \/ Remove(t)

Next == \E t \in Threads : PushFront(t) \/ Call(t) \/ LockHead(t) \/ Step(t)

Spec == Init /\ [][Next]_vars

(* A thread that is in the list runs, and gets a mutex that stays free for it: nobody
   else can reach the next node.  Nothing is assumed of the mutex of head.   *)
FairSpec == Spec /\ \A t \in Threads : WF_vars(Step(t))

-----------------------------------------------------------------------------
(* The nodes whose memory thread t touches next: a mutex it waits for or unlocks, a
   link or a value it reads.                                                 *)
Touches(t) ==
  CASE pc[t] \in {"scan", "leave"} -> {current[t]}
    [] pc[t] \in {"lock", "unlock", "delete"} -> {nxt[t]}
    [] pc[t] = "test" /\ op[t] = "find" -> {nxt[t]}
    [] pc[t] = "test" /\ op[t] = "remove" -> {current[t], nxt[t]}
    [] OTHER -> {}

(* No thread is at a node, or waits for the mutex of one, that remove_if has deleted
   (threadsafe_list.hpp:60), even when its memory is in use again; and no mutex is
   destroyed locked.                                                         *)
OffDeletedNodes ==
  /\ \A t \in Threads : Touches(t) \ {Head} \subseteq alive
  /\ \A n \in Nodes \ alive : owner[n] = Nobody

(* Removals at neighbouring nodes, and push_front meanwhile, lose no part of the list
   and bring nothing back: what is allocated is linked, or being deleted.    *)
NoNodeLost ==
  LET leaving == {nxt[t] : t \in {t \in Threads : pc[t] \in {"unlock", "delete"}}}
  IN  alive = After(Head) \cup leaving /\ After(Head) \cap leaving = {}

(* What was in the list when a traversal began, has not been removed and satisfies
   the predicate is still ahead of it: find_first_if passes over no match, and
   remove_if, at the end of the list, has left none.                         *)
NothingSkipped ==
  \A t \in Threads :
    Traversing(t) =>
      {n \in stable[t] : Matches(t, n)} \subseteq
        IF pc[t] = "test" THEN After(nxt[t]) \cup {nxt[t]} ELSE After(current[t])

(* A find_first_if never overtakes a remove_if that began before it
   (threadsafe_list.hpp:57): it does not get to see what that is going to remove. *)
NoOvertaking ==
  \A t \in Threads :
    op[t] = "find" /\ pc[t] \in {"lock", "leave", "test"} => nxt[t] \notin doomed[t]

(* A call that has got the mutex of head returns, however many elements are pushed
   and whoever is ahead of it.                                               *)
Returns == \A t \in Threads : pc[t] = "scan" ~> pc[t] = "idle"
=============================================================================
