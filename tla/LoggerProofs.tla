----------------------------- MODULE LoggerProofs -----------------------------
(***************************************************************************)
(* Proofs about Logger, for any number of threads, loggers, lines and      *)
(* calls of Start and Stop.                                                *)
(*                                                                         *)
(* BufferOwned and StoppedDrained are inductive once the threads are known *)
(* to be in a statement where the code says so (InStatement).  EndedClean  *)
(* is not: it needs what the manager's threads know of each other          *)
(* (Phases): that Start runs only when the I/O thread is gone, and that an *)
(* I/O thread that has read shutdown_ leaves busyLogs_ empty for good.     *)
(*                                                                         *)
(* The second half is about the text (FramesWhole, ProgramOrder and        *)
(* ExactlyOnce, from TextInv).  A buffer always holds the frames of some   *)
(* lines, so _Log finds them again (LogFrames, by ChainValue).  From there *)
(* on only the text counts: operator<< and Flush put a piece at the end of *)
(* a line, FlushPush a line at the end of a buffer, Update the buffers it  *)
(* takes at the end of the output, each of them once (OrderFacts,          *)
(* FlattenAt).  A line is thrown away by the constructor of a logger only  *)
(* between statements, when all of it was printed or refused (Settled).    *)
(***************************************************************************)
EXTENDS Logger, RecursionProofs, FiniteSetTheorems

(* A map from threads to their buffers of a logger. *)
BufferMaps == UNION {[S -> Buffers] : S \in SUBSET Producers}

(* The types the proofs need; those of the output and the ghost variables are in Composing. *)
Types ==
  /\ shutdown \in BOOLEAN /\ run \in BOOLEAN
  /\ logs \in SUBSET Loggers /\ busyLogs \in SUBSET Loggers /\ tmp \in SUBSET Loggers
  /\ io \in {"none", "wait", "collect", "update", "final", "ended"}
  /\ main \in {"idle", "stop_logs", "stopping", "stop_join"}
  /\ known \in SUBSET Loggers
  /\ stopped \in [Loggers -> BOOLEAN]
  /\ buffers \in [Loggers -> BufferMaps]
  /\ pc \in [Producers -> {"idle", "compose", "push", "release", "busy"}]
  /\ stmt \in [Producers -> Seq(Stmts)]
  /\ text \in [Producers -> Seq(Nat)]
  /\ next \in Nat

(* A thread is in a log statement unless it is idle. *)
InStatement == \A t \in Producers : pc[t] = "idle" <=> stmt[t] = <<>>

(* What the threads that start, stop and run the manager know of each other. *)
Phases ==
  /\ ~shutdown => main = "idle" /\ io \in {"wait", "collect", "update"}
  /\ main = "idle" /\ shutdown => io \in {"none", "ended"}
  /\ io \in {"collect", "update"} /\ ~run => shutdown /\ busyLogs = {}
  /\ io \in {"final", "ended"} => shutdown /\ busyLogs = {}
  /\ io = "ended" => logs = {}

(* The inductive invariant. *)
IInv == Types /\ InStatement /\ Phases /\ BufferOwned /\ StoppedDrained

-----------------------------------------------------------------------------
(* The innermost statement of a thread that is in one. *)
LEMMA StmtType ==
  ASSUME Types, InStatement, NEW t \in Producers, pc[t] # "idle"
  PROVE  /\ Stmt(t).log \in Loggers /\ Stmt(t).level \in Levels
         /\ Len(stmt[t]) \in Nat \ {0}
<1>1. stmt[t] \in Seq(Stmts) /\ stmt[t] # <<>>
  BY DEF Types, InStatement
<1>2. Len(stmt[t]) \in Nat \ {0} /\ stmt[t][Len(stmt[t])] \in Stmts
  BY <1>1
<1> QED
  BY <1>2 DEF Stmt, Last, Stmts

(* The end of a log statement. *)
LEMMA ReturnEffect ==
  ASSUME Types, InStatement, NEW t \in Producers, pc[t] # "idle", Return(t)
  PROVE  /\ stmt' \in [Producers -> Seq(Stmts)]
         /\ pc' \in [Producers -> {"idle", "compose", "push", "release", "busy"}]
         /\ InStatement'
         /\ pc'[t] \in {"idle", "compose"}
         /\ \A u \in Producers \ {t} : pc'[u] = pc[u] /\ stmt'[u] = stmt[u]
<1>1. stmt[t] \in Seq(Stmts) /\ Len(stmt[t]) \in Nat \ {0}
  BY StmtType DEF Types
<1>2. Front(stmt[t]) \in Seq(Stmts) /\ Len(Front(stmt[t])) = Len(stmt[t]) - 1
  BY <1>1 DEF Front
<1>3. Front(stmt[t]) = <<>> <=> ~(Len(stmt[t]) > 1)
  BY <1>1, <1>2
<1> QED
  BY <1>2, <1>3 DEF Return, Types, InStatement

(* A thread-local line that is thrown away, and one that gets another piece. *)
LEMMA ResetType ==
  ASSUME Types, NEW t \in Producers, Reset(t)
  PROVE  /\ text' \in [Producers -> Seq(Nat)]
         /\ text'[t] = <<>> /\ \A u \in Producers \ {t} : text'[u] = text[u]
BY DEF Types, Reset

LEMMA PieceType ==
  ASSUME Types, NEW t \in Producers, NewPiece(t),
         text' = [text EXCEPT ![t] = Append(@, next)]
  PROVE  /\ text' \in [Producers -> Seq(Nat)] /\ next' \in Nat
         /\ text'[t] = Append(text[t], next) /\ text'[t] # <<>>
         /\ \A u \in Producers \ {t} : text'[u] = text[u]
<1>1. text \in [Producers -> Seq(Nat)] /\ next \in Nat /\ next' = next + 1
  BY DEF Types, NewPiece
<1>2. text[t] \in Seq(Nat)
  BY <1>1
<1>3. /\ Append(text[t], next) \in Seq(Nat) /\ Len(text[t]) \in Nat
      /\ Len(Append(text[t], next)) = Len(text[t]) + 1
  BY <1>1, <1>2
<1>4. Append(text[t], next) # <<>>
  BY <1>3
<1>5. /\ text' \in [Producers -> Seq(Nat)] /\ text'[t] = Append(text[t], next)
      /\ \A u \in Producers \ {t} : text'[u] = text[u]
  BY <1>1, <1>3
<1> QED
  BY <1>1, <1>4, <1>5

(* The buffers that Update leaves in the map. *)
LEMMA UpdateEffect ==
  ASSUME Types, NEW l \in Loggers, Update(l)
  PROVE  /\ buffers' = [buffers EXCEPT ![l] = [t \in InUse(l) |-> buffers[l][t]]]
         /\ buffers' \in [Loggers -> BufferMaps]
         /\ DOMAIN buffers'[l] = InUse(l)
<1>1. buffers' = [buffers EXCEPT ![l] = [t \in InUse(l) |-> buffers[l][t]]]
  BY DEF Update
<1>2. PICK S \in SUBSET Producers : buffers[l] \in [S -> Buffers]
  BY DEF Types, BufferMaps
<1>3. InUse(l) \subseteq S /\ InUse(l) \in SUBSET Producers
  BY <1>2 DEF InUse
<1>4. [t \in InUse(l) |-> buffers[l][t]] \in [InUse(l) -> Buffers]
  BY <1>2, <1>3
<1>5. [t \in InUse(l) |-> buffers[l][t]] \in BufferMaps
  BY <1>3, <1>4 DEF BufferMaps
<1> QED
  BY <1>1, <1>5 DEF Types

(* Flush gives the thread a buffer in use and leaves the others alone. *)
LEMMA FlushEffect ==
  ASSUME IInv, NEW t \in Producers, Flush(t), NEW l \in Loggers, l = Stmt(t).log
  PROVE  /\ buffers' \in [Loggers -> BufferMaps]
         /\ \A k \in Loggers \ {l} : buffers'[k] = buffers[k]
         /\ DOMAIN buffers'[l] = DOMAIN buffers[l] \cup {t}
         /\ buffers'[l][t].inuse
         /\ \A u \in DOMAIN buffers[l] \ {t} : buffers'[l][u] = buffers[l][u]
<1> DEFINE b == buffers[l]
           d == IF t \in DOMAIN b THEN b[t].data ELSE <<>>
           c == [u \in DOMAIN b \cup {t} |->
                   IF u = t THEN [inuse |-> TRUE, data |-> d] ELSE b[u]]
<1>1. buffers' = [buffers EXCEPT ![l] = c]
  BY DEF Flush
<1>a. b \in BufferMaps
  BY DEF IInv, Types
<1> HIDE DEF b
<1>2. PICK S \in SUBSET Producers : b \in [S -> Buffers]
  BY <1>a DEF BufferMaps
<1> USE DEF b
<1>3. d \in Seq(Nat)
  BY <1>2 DEF Buffers
<1> HIDE DEF d
<1>4. c \in [S \cup {t} -> Buffers] /\ S \cup {t} \in SUBSET Producers /\ DOMAIN b = S
  BY <1>2, <1>3 DEF Buffers
<1>5. c \in BufferMaps
  BY <1>4 DEF BufferMaps
<1>6. DOMAIN c = DOMAIN b \cup {t} /\ c[t].inuse /\ \A u \in DOMAIN b \ {t} : c[u] = b[u]
  OBVIOUS
<1> HIDE DEF c, b
<1>7. buffers \in [Loggers -> BufferMaps]
  BY DEF IInv, Types
<1> QED
  BY <1>1, <1>5, <1>6, <1>7 DEF b

(* The rest of Flush changes the thread's own buffer, which is there. *)
LEMMA OwnBuffer ==
  ASSUME IInv, NEW t \in Producers, NEW l \in Loggers, l = Stmt(t).log,
         pc[t] \in {"push", "release"},
         NEW v \in Buffers, buffers' = [buffers EXCEPT ![l] = [buffers[l] EXCEPT ![t] = v]]
  PROVE  /\ buffers' \in [Loggers -> BufferMaps]
         /\ \A k \in Loggers \ {l} : buffers'[k] = buffers[k]
         /\ DOMAIN buffers'[l] = DOMAIN buffers[l]
         /\ buffers'[l][t] = v
         /\ \A u \in DOMAIN buffers[l] \ {t} : buffers'[l][u] = buffers[l][u]
<1> DEFINE b == buffers[l]
           c == [b EXCEPT ![t] = v]
<1>a. b \in BufferMaps
  BY DEF IInv, Types
<1> HIDE DEF b
<1>1. PICK S \in SUBSET Producers : b \in [S -> Buffers]
  BY <1>a DEF BufferMaps
<1> USE DEF b
<1>2. t \in DOMAIN b /\ t \in S
  BY <1>1 DEF IInv, BufferOwned
<1>3. c \in [S -> Buffers]
  BY <1>1, <1>2
<1>4. c \in BufferMaps
  BY <1>3 DEF BufferMaps
<1>5. DOMAIN c = DOMAIN b /\ c[t] = v /\ \A u \in DOMAIN b \ {t} : c[u] = b[u]
  BY <1>1, <1>2
<1>6. buffers \in [Loggers -> BufferMaps] /\ buffers' = [buffers EXCEPT ![l] = c]
  BY DEF IInv, Types
<1> HIDE DEF c, b
<1> QED
  BY <1>4, <1>5, <1>6, ZenonT(40) DEF b

(* Flush pushes a frame to the thread's buffer, which stays in use. *)
LEMMA PushEffect ==
  ASSUME IInv, NEW t \in Producers, FlushPush(t), NEW l \in Loggers, l = Stmt(t).log
  PROVE  /\ buffers' \in [Loggers -> BufferMaps]
         /\ \A k \in Loggers \ {l} : buffers'[k] = buffers[k]
         /\ DOMAIN buffers'[l] = DOMAIN buffers[l]
         /\ buffers'[l][t].inuse
         /\ \A u \in DOMAIN buffers[l] \ {t} : buffers'[l][u] = buffers[l][u]
<1>1. pc[t] = "push" /\ Stmt(t).level \in Levels
  BY StmtType DEF FlushPush, At, IInv
<1>2. buffers[l][t] \in Buffers /\ buffers[l][t].inuse
  BY <1>1 DEF IInv, Types, BufferMaps, BufferOwned
<1> DEFINE d == buffers[l][t].data \o <<Stmt(t).level, Len(text[t])>> \o text[t]
           v == [buffers[l][t] EXCEPT !.data = d]
<1>3. d \in Seq(Nat)
  <2>1. Stmt(t).level \in Nat /\ text[t] \in Seq(Nat) /\ buffers[l][t].data \in Seq(Nat)
    BY <1>1, <1>2, ConstantsOK DEF IInv, Types, Buffers
  <2>2. <<Stmt(t).level, Len(text[t])>> \in Seq(Nat)
    BY <2>1
  <2> QED
    BY <2>1, <2>2
<1> HIDE DEF d
<1>4. v \in Buffers /\ v.inuse
  BY <1>2, <1>3 DEF Buffers
<1>5. buffers' = [buffers EXCEPT ![l] = [buffers[l] EXCEPT ![t] = v]]
  BY DEF FlushPush, d
<1> HIDE DEF v
<1>6. PICK w \in Buffers :
        w.inuse /\ buffers' = [buffers EXCEPT ![l] = [buffers[l] EXCEPT ![t] = w]]
  BY <1>4, <1>5
<1>7. buffers'[l][t] = w
  <2>1. t \in DOMAIN buffers[l] /\ buffers \in [Loggers -> BufferMaps]
    BY <1>1 DEF IInv, BufferOwned, Types
  <2> QED
    BY <1>6, <2>1
<1>8. buffers' \in [Loggers -> BufferMaps]
  BY <1>1, <1>6, OwnBuffer
<1>9. \A k \in Loggers \ {l} : buffers'[k] = buffers[k]
  BY <1>1, <1>6, OwnBuffer
<1>10. DOMAIN buffers'[l] = DOMAIN buffers[l]
  BY <1>1, <1>6, OwnBuffer
<1>11. \A u \in DOMAIN buffers[l] \ {t} : buffers'[l][u] = buffers[l][u]
  BY <1>1, <1>6, OwnBuffer
<1> QED
  BY <1>6, <1>7, <1>8, <1>9, <1>10, <1>11

(* Flush releases the thread's buffer and leaves the others alone. *)
LEMMA ReleaseEffect ==
  ASSUME IInv, NEW t \in Producers, FlushRelease(t), NEW l \in Loggers, l = Stmt(t).log
  PROVE  /\ buffers' \in [Loggers -> BufferMaps]
         /\ \A k \in Loggers \ {l} : buffers'[k] = buffers[k]
         /\ DOMAIN buffers'[l] = DOMAIN buffers[l]
         /\ \A u \in DOMAIN buffers[l] \ {t} : buffers'[l][u] = buffers[l][u]
<1>1. pc[t] = "release"
  BY DEF FlushRelease, At
<1>2. buffers[l][t] \in Buffers
  BY <1>1 DEF IInv, Types, BufferMaps, BufferOwned
<1> DEFINE v == [buffers[l][t] EXCEPT !.inuse = FALSE]
<1>3. v \in Buffers
  BY <1>2 DEF Buffers
<1>4. buffers' = [buffers EXCEPT ![l] = [buffers[l] EXCEPT ![t] = v]]
  BY DEF FlushRelease
<1> HIDE DEF v
<1> QED
  BY <1>1, <1>3, <1>4, OwnBuffer

(* The threads after the middle of a Flush. *)
LEMMA ReleaseReturns ==
  ASSUME IInv, NEW t \in Producers, FlushRelease(t)
  PROVE  /\ stmt' \in [Producers -> Seq(Stmts)]
         /\ pc' \in [Producers -> {"idle", "compose", "push", "release", "busy"}]
         /\ InStatement'
         /\ pc'[t] \in {"idle", "compose", "busy"}
         /\ \A u \in Producers \ {t} : pc'[u] = pc[u] /\ stmt'[u] = stmt[u]
<1>1. pc[t] = "release"
  BY DEF FlushRelease, At
<1>2. CASE pc' = [pc EXCEPT ![t] = "busy"] /\ UNCHANGED stmt
  BY <1>1, <1>2 DEF IInv, Types, InStatement
<1>3. CASE Return(t)
  BY <1>1, <1>3, ReturnEffect DEF IInv
<1> QED
  BY <1>2, <1>3 DEF FlushRelease

(* Every step keeps the types, and every thread in a statement or idle. *)
LEMMA TypesStep == ASSUME IInv, Next PROVE Types' /\ InStatement'
<1> USE DEF manager, ioThread, control, loggers, locals, ghost
<1>1. ASSUME Start PROVE Types' /\ InStatement'
  BY <1>1 DEF Start, IInv, Types, InStatement
<1>2. ASSUME Stop PROVE Types' /\ InStatement'
  BY <1>2 DEF Stop, IInv, Types, InStatement
<1>3. ASSUME StopLogs PROVE Types' /\ InStatement'
  BY <1>3 DEF StopLogs, StopLock, Shutdown, StopUnlock, IInv, Types, InStatement
<1>4. ASSUME StopJoin PROVE Types' /\ InStatement'
  BY <1>4 DEF StopJoin, IInv, Types, InStatement
<1>5. ASSUME RunWake PROVE Types' /\ InStatement'
  BY <1>5 DEF RunWake, IInv, Types, InStatement
<1>6. ASSUME RunCollect PROVE Types' /\ InStatement'
  BY <1>6 DEF RunCollect, IInv, Types, InStatement
<1>7. ASSUME RunUpdate PROVE Types' /\ InStatement'
  <2>1. PICK l \in tmp : Update(l) /\ tmp' = tmp \ {l}
    BY <1>7 DEF RunUpdate
  <2>2. l \in Loggers
    BY DEF IInv, Types
  <2>3. buffers' \in [Loggers -> BufferMaps]
    BY <2>1, <2>2, UpdateEffect DEF IInv
  <2> QED
    BY <1>7, <2>1, <2>3 DEF RunUpdate, IInv, Types, InStatement
<1>8. ASSUME RunLoop PROVE Types' /\ InStatement'
  BY <1>8 DEF RunLoop, IInv, Types, InStatement
<1>9. ASSUME RunFinal PROVE Types' /\ InStatement'
  <2>1. PICK l \in tmp : Update(l) /\ tmp' = tmp \ {l}
    BY <1>9 DEF RunFinal
  <2>2. l \in Loggers
    BY DEF IInv, Types
  <2>3. buffers' \in [Loggers -> BufferMaps]
    BY <2>1, <2>2, UpdateEffect DEF IInv
  <2> QED
    BY <1>9, <2>1, <2>3 DEF RunFinal, IInv, Types, InStatement
<1>10. ASSUME RunPass PROVE Types' /\ InStatement'
  BY <1>10 DEF RunPass, IInv, Types, InStatement
<1>11. ASSUME NEW t \in Producers, NEW l \in Loggers, CreateLog(t, l) PROVE Types' /\ InStatement'
  <2>1. Reset(t)
    BY <1>11 DEF CreateLog
  <2> QED
    BY <1>11, <2>1, ResetType DEF CreateLog, IInv, Types, InStatement
<1>12. ASSUME NEW t \in Producers, NEW l \in Loggers, NEW level \in Levels,
             SetCurLevel(t, l, level)
      PROVE Types' /\ InStatement'
  <2>1. [log |-> l, level |-> level] \in Stmts /\ stmt[t] \in Seq(Stmts)
    BY DEF IInv, Types, Stmts
  <2>2. Append(stmt[t], [log |-> l, level |-> level]) \in Seq(Stmts)
        /\ Append(stmt[t], [log |-> l, level |-> level]) # <<>>
    BY <2>1
  <2> QED
    BY <1>12, <2>2 DEF SetCurLevel, IInv, Types, InStatement
<1>13. ASSUME NEW t \in Producers, Compose(t) PROVE Types' /\ InStatement'
  <2>1. NewPiece(t) /\ next' \in Nat
    BY <1>13 DEF Compose, NewPiece, IInv, Types
  <2>2. text' \in [Producers -> Seq(Nat)]
    <3>1. CASE UNCHANGED text
      BY <3>1 DEF IInv, Types
    <3>2. CASE text' = [text EXCEPT ![t] = Append(@, next)]
      BY <2>1, <3>2, PieceType DEF IInv
    <3> QED
      BY <1>13, <3>1, <3>2 DEF Compose
  <2> QED
    BY <1>13, <2>1, <2>2 DEF Compose, IInv, Types, InStatement
<1>14. ASSUME NEW t \in Producers, FlushNothing(t) PROVE Types' /\ InStatement'
  <2>1. pc[t] # "idle"
    BY <1>14 DEF FlushNothing, At
  <2>2. Return(t)
    BY <1>14 DEF FlushNothing
  <2> QED
    <3>1. text' \in [Producers -> Seq(Nat)]
      <4>1. text \in [Producers -> Seq(Nat)] /\ <<>> \in Seq(Nat)
        BY DEF IInv, Types
      <4>2. text' \in {text, [text EXCEPT ![t] = <<>>]}
        BY <1>14 DEF FlushNothing, Reset
      <4> QED
        BY <4>1, <4>2
    <3> QED
      BY <1>14, <2>1, <2>2, <3>1, ReturnEffect DEF FlushNothing, IInv, Types
<1>15. ASSUME NEW t \in Producers, FlushConsole(t) PROVE Types' /\ InStatement'
  <2>1. pc[t] # "idle"
    BY <1>15 DEF FlushConsole, At
  <2>2. Return(t) /\ NewPiece(t) /\ text' = [text EXCEPT ![t] = Append(@, next)]
    BY <1>15 DEF FlushConsole, AppendTid
  <2> QED
    BY <1>15, <2>1, <2>2, ReturnEffect, PieceType DEF FlushConsole, IInv, Types
<1>16. ASSUME NEW t \in Producers, Flush(t) PROVE Types' /\ InStatement'
  <2>1. pc[t] # "idle" /\ stmt[t] # <<>>
    BY <1>16 DEF Flush, At, IInv, InStatement
  <2>2. buffers' \in [Loggers -> BufferMaps]
    BY <1>16, <2>1, StmtType, FlushEffect DEF IInv
  <2>3. NewPiece(t) /\ text' = [text EXCEPT ![t] = Append(@, next)]
    BY <1>16 DEF Flush, AppendTid
  <2>4. text' \in [Producers -> Seq(Nat)] /\ next' \in Nat
    BY <2>3, PieceType DEF IInv
  <2> QED
    BY <1>16, <2>1, <2>2, <2>4 DEF Flush, IInv, Types, InStatement
<1>17. ASSUME NEW t \in Producers, FlushPush(t) PROVE Types' /\ InStatement'
  <2>1. pc[t] # "idle" /\ stmt[t] # <<>>
    BY <1>17 DEF FlushPush, At, IInv, InStatement
  <2>2. buffers' \in [Loggers -> BufferMaps]
    BY <1>17, <2>1, StmtType, PushEffect DEF IInv
  <2> QED
    <3>1. /\ Reset(t) /\ pc' = [pc EXCEPT ![t] = "release"]
          /\ UNCHANGED <<manager, ioThread, control, known, stopped, out, console, stmt, ghost>>
      BY <1>17, SMTT(30) DEF FlushPush
    <3>2. Types'
      BY <2>2, <3>1, SMTT(30) DEF Reset, IInv, Types
    <3>3. InStatement'
      BY <2>1, <3>1, SMTT(30) DEF IInv, Types, InStatement
    <3> QED
      BY <3>2, <3>3
<1>18. ASSUME NEW t \in Producers, FlushRelease(t) PROVE Types' /\ InStatement'
  <2>1. pc[t] # "idle"
    BY <1>18 DEF FlushRelease, At
  <2>2. buffers' \in [Loggers -> BufferMaps]
    BY <1>18, <2>1, StmtType, ReleaseEffect DEF IInv
  <2> QED
    BY <1>18, <2>2, ReleaseReturns DEF FlushRelease, IInv, Types
<1>19. ASSUME NEW t \in Producers, AddBusyLog(t) PROVE Types' /\ InStatement'
  <2>1. pc[t] # "idle" /\ Return(t)
    BY <1>19 DEF AddBusyLog, At
  <2>2. Stmt(t).log \in Loggers
    BY <2>1, StmtType DEF IInv
  <2> QED
    BY <1>19, <2>1, <2>2, ReturnEffect DEF AddBusyLog, IInv, Types
<1>20. ASSUME NEW t \in Producers, CreateNull(t) PROVE Types' /\ InStatement'
  <2>1. Reset(t)
    BY <1>20 DEF CreateNull
  <2> QED
    BY <1>20, <2>1, ResetType DEF CreateNull, IInv, Types, InStatement
<1> QED
  BY <1>1, <1>2, <1>3, <1>4, <1>5, <1>6, <1>7, <1>8, <1>9, <1>10,
     <1>11, <1>12, <1>13, <1>14, <1>15, <1>16, <1>17, <1>18, <1>19, <1>20
     DEF Next, Run, Flushing

(* Start, Stop, the I/O thread and AddBusyLog keep to their phases. *)
LEMMA PhasesStep == ASSUME IInv, Next PROVE Phases'
<1> USE DEF IInv, Types, Phases, manager, ioThread, control, loggers, locals, ghost
<1>1. ASSUME Start PROVE Phases'
  BY <1>1 DEF Start, LogsMutexFree
<1>2. ASSUME Stop PROVE Phases'
  BY <1>2 DEF Stop, LogsMutexFree
<1>3. ASSUME StopLogs PROVE Phases'
  BY <1>3 DEF StopLogs, StopLock, Shutdown, StopUnlock, LogsMutexFree
<1>4. ASSUME StopJoin PROVE Phases'
  BY <1>4 DEF StopJoin, LogsMutexFree
<1>5. ASSUME RunWake PROVE Phases'
  BY <1>5 DEF RunWake, LogsMutexFree
<1>6. ASSUME RunCollect PROVE Phases'
  BY <1>6 DEF RunCollect, LogsMutexFree
<1>7. ASSUME RunUpdate PROVE Phases'
  BY <1>7 DEF RunUpdate, LogsMutexFree
<1>8. ASSUME RunLoop PROVE Phases'
  BY <1>8 DEF RunLoop, LogsMutexFree
<1>9. ASSUME RunFinal PROVE Phases'
  BY <1>9 DEF RunFinal, LogsMutexFree
<1>10. ASSUME RunPass PROVE Phases'
  BY <1>10 DEF RunPass, LogsMutexFree
<1>11. ASSUME NEW t \in Producers, NEW l \in Loggers, CreateLog(t, l) PROVE Phases'
  BY <1>11 DEF CreateLog, LogsMutexFree
<1>12. ASSUME NEW t \in Producers, NEW l \in Loggers, NEW level \in Levels,
             SetCurLevel(t, l, level)
      PROVE Phases'
  BY <1>12 DEF SetCurLevel, LogsMutexFree
<1>13. ASSUME NEW t \in Producers, Compose(t) PROVE Phases'
  BY <1>13 DEF Compose, LogsMutexFree
<1>14. ASSUME NEW t \in Producers, FlushNothing(t) PROVE Phases'
  BY <1>14 DEF FlushNothing, LogsMutexFree
<1>15. ASSUME NEW t \in Producers, FlushConsole(t) PROVE Phases'
  BY <1>15 DEF FlushConsole, LogsMutexFree
<1>16. ASSUME NEW t \in Producers, Flush(t) PROVE Phases'
  BY <1>16 DEF Flush, LogsMutexFree
<1>17. ASSUME NEW t \in Producers, FlushPush(t) PROVE Phases'
  BY <1>17 DEF FlushPush, LogsMutexFree
<1>18. ASSUME NEW t \in Producers, FlushRelease(t) PROVE Phases'
  BY <1>18 DEF FlushRelease, LogsMutexFree
<1>19. ASSUME NEW t \in Producers, AddBusyLog(t) PROVE Phases'
  BY <1>19 DEF AddBusyLog, LogsMutexFree
<1>20. ASSUME NEW t \in Producers, CreateNull(t) PROVE Phases'
  BY <1>20 DEF CreateNull
<1> QED
  BY <1>1, <1>2, <1>3, <1>4, <1>5, <1>6, <1>7, <1>8, <1>9, <1>10,
     <1>11, <1>12, <1>13, <1>14, <1>15, <1>16, <1>17, <1>18, <1>19, <1>20
     DEF Next, Run, Flushing

(* Steps that leave the buffers and the threads alone. *)
LEMMA OwnedKept ==
  ASSUME IInv, UNCHANGED <<buffers, pc, stmt>>,
         \A l \in Loggers : stopped'[l] /\ l \notin logs' => stopped[l] /\ l \notin logs
  PROVE  BufferOwned' /\ StoppedDrained'
  BY DEF IInv, BufferOwned, StoppedDrained, Stmt

(* Steps that leave the buffers and all threads but t alone. *)
LEMMA OthersKept ==
  ASSUME IInv, UNCHANGED <<buffers, stopped, logs>>, NEW t \in Producers,
         pc'[t] \notin {"push", "release"},
         \A u \in Producers \ {t} : pc'[u] = pc[u] /\ stmt'[u] = stmt[u]
  PROVE  BufferOwned' /\ StoppedDrained'
  BY DEF IInv, BufferOwned, StoppedDrained, Stmt

(* Every step leaves buffers in use in their maps, and those of dropped loggers empty. *)
LEMMA OwnedStep == ASSUME IInv, Next PROVE BufferOwned' /\ StoppedDrained'
<1> USE DEF manager, ioThread, control, loggers, locals, ghost
<1>1. ASSUME Start PROVE BufferOwned' /\ StoppedDrained'
  BY <1>1, OwnedKept DEF Start
<1>2. ASSUME Stop PROVE BufferOwned' /\ StoppedDrained'
  BY <1>2, OwnedKept DEF Stop
<1>3. ASSUME StopLogs PROVE BufferOwned' /\ StoppedDrained'
  BY <1>3, OwnedKept DEF StopLogs, StopLock, Shutdown, StopUnlock, IInv, Types
<1>4. ASSUME StopJoin PROVE BufferOwned' /\ StoppedDrained'
  BY <1>4, OwnedKept DEF StopJoin
<1>5. ASSUME RunWake PROVE BufferOwned' /\ StoppedDrained'
  BY <1>5, OwnedKept DEF RunWake
<1>6. ASSUME RunCollect PROVE BufferOwned' /\ StoppedDrained'
  BY <1>6, OwnedKept DEF RunCollect
<1>7. ASSUME RunUpdate PROVE BufferOwned' /\ StoppedDrained'
  <2>1. PICK l \in tmp : Update(l)
    BY <1>7 DEF RunUpdate
  <2>2. l \in Loggers /\ UNCHANGED <<pc, stmt, stopped>>
    BY <1>7 DEF RunUpdate, IInv, Types
  <2>3. /\ buffers' = [buffers EXCEPT ![l] = [t \in InUse(l) |-> buffers[l][t]]]
        /\ DOMAIN buffers'[l] = InUse(l)
    BY <2>1, <2>2, UpdateEffect DEF IInv
  <2>4. BufferOwned'
    <3> SUFFICES ASSUME NEW t \in Producers, pc[t] \in {"push", "release"}
                 PROVE  /\ t \in DOMAIN buffers'[Stmt(t).log]
                        /\ buffers'[Stmt(t).log][t].inuse
      BY <2>2 DEF BufferOwned, Stmt
    <3>1. /\ t \in DOMAIN buffers[Stmt(t).log] /\ buffers[Stmt(t).log][t].inuse
          /\ Stmt(t).log \in Loggers
      BY StmtType DEF IInv, BufferOwned
    <3>2. CASE Stmt(t).log # l
      BY <2>2, <2>3, <3>1, <3>2 DEF IInv, Types
    <3>3. CASE Stmt(t).log = l
      <4>1. t \in InUse(l)
        BY <3>1, <3>3 DEF InUse
      <4> QED
        BY <2>2, <2>3, <3>1, <3>3, <4>1 DEF IInv, Types
    <3> QED
      BY <3>2, <3>3
  <2>5. StoppedDrained'
    <3> SUFFICES ASSUME NEW k \in Loggers, stopped[k], k \notin logs'
                 PROVE  DOMAIN buffers'[k] = {}
      BY <2>2 DEF StoppedDrained
    <3>1. DOMAIN buffers'[k] \subseteq DOMAIN buffers[k]
      BY <2>2, <2>3 DEF InUse, IInv, Types
    <3>2. CASE k \notin logs
      BY <3>1, <3>2 DEF IInv, StoppedDrained
    <3>3. CASE k \in logs
      BY <1>7, <3>3 DEF RunUpdate
    <3> QED
      BY <3>2, <3>3
  <2> QED
    BY <2>4, <2>5
<1>8. ASSUME RunLoop PROVE BufferOwned' /\ StoppedDrained'
  BY <1>8, OwnedKept DEF RunLoop
<1>9. ASSUME RunFinal PROVE BufferOwned' /\ StoppedDrained'
  <2>1. PICK l \in tmp : Update(l) /\ logs' = (IF InUse(l) = {} THEN logs \ {l} ELSE logs)
    BY <1>9 DEF RunFinal
  <2>2. l \in Loggers /\ UNCHANGED <<pc, stmt, stopped>>
    BY <1>9 DEF RunFinal, IInv, Types
  <2>3. /\ buffers' = [buffers EXCEPT ![l] = [t \in InUse(l) |-> buffers[l][t]]]
        /\ DOMAIN buffers'[l] = InUse(l)
    BY <2>1, <2>2, UpdateEffect DEF IInv
  <2>4. BufferOwned'
    <3> SUFFICES ASSUME NEW t \in Producers, pc[t] \in {"push", "release"}
                 PROVE  /\ t \in DOMAIN buffers'[Stmt(t).log]
                        /\ buffers'[Stmt(t).log][t].inuse
      BY <2>2 DEF BufferOwned, Stmt
    <3>1. /\ t \in DOMAIN buffers[Stmt(t).log] /\ buffers[Stmt(t).log][t].inuse
          /\ Stmt(t).log \in Loggers
      BY StmtType DEF IInv, BufferOwned
    <3>2. CASE Stmt(t).log # l
      BY <2>2, <2>3, <3>1, <3>2 DEF IInv, Types
    <3>3. CASE Stmt(t).log = l
      <4>1. t \in InUse(l)
        BY <3>1, <3>3 DEF InUse
      <4> QED
        BY <2>2, <2>3, <3>1, <3>3, <4>1 DEF IInv, Types
    <3> QED
      BY <3>2, <3>3
  <2>5. StoppedDrained'
    <3> SUFFICES ASSUME NEW k \in Loggers, stopped[k], k \notin logs'
                 PROVE  DOMAIN buffers'[k] = {}
      BY <2>2 DEF StoppedDrained
    <3>1. DOMAIN buffers'[k] \subseteq DOMAIN buffers[k]
      BY <2>2, <2>3 DEF InUse, IInv, Types
    <3>2. CASE k \notin logs
      BY <3>1, <3>2 DEF IInv, StoppedDrained
    <3>3. CASE k \in logs
      BY <2>1, <2>3, <3>3
    <3> QED
      BY <3>2, <3>3
  <2> QED
    BY <2>4, <2>5
<1>10. ASSUME RunPass PROVE BufferOwned' /\ StoppedDrained'
  BY <1>10, OwnedKept DEF RunPass
<1>11. ASSUME NEW t \in Producers, NEW l \in Loggers, CreateLog(t, l) PROVE BufferOwned' /\ StoppedDrained'
  BY <1>11 DEF CreateLog, BufferOwned, StoppedDrained, Stmt, IInv
<1>12. ASSUME NEW t \in Producers, NEW l \in Loggers, NEW level \in Levels,
             SetCurLevel(t, l, level)
      PROVE BufferOwned' /\ StoppedDrained'
  <2>1. UNCHANGED <<buffers, stopped, logs>>
    BY <1>12 DEF SetCurLevel
  <2>2. pc'[t] = "compose" /\ \A u \in Producers \ {t} : pc'[u] = pc[u] /\ stmt'[u] = stmt[u]
    BY <1>12 DEF SetCurLevel, IInv, Types
  <2> QED
    BY <2>1, <2>2, OthersKept
<1>13. ASSUME NEW t \in Producers, Compose(t) PROVE BufferOwned' /\ StoppedDrained'
  BY <1>13, OwnedKept DEF Compose
<1>14. ASSUME NEW t \in Producers, FlushNothing(t) PROVE BufferOwned' /\ StoppedDrained'
  <2>1. pc[t] # "idle" /\ Return(t) /\ UNCHANGED <<buffers, stopped, logs>>
    BY <1>14 DEF FlushNothing, At
  <2> QED
    BY <2>1, ReturnEffect, OthersKept DEF IInv
<1>15. ASSUME NEW t \in Producers, FlushConsole(t) PROVE BufferOwned' /\ StoppedDrained'
  <2>1. pc[t] # "idle" /\ Return(t) /\ UNCHANGED <<buffers, stopped, logs>>
    BY <1>15 DEF FlushConsole, At
  <2> QED
    BY <2>1, ReturnEffect, OthersKept DEF IInv
<1>16. ASSUME NEW t \in Producers, Flush(t) PROVE BufferOwned' /\ StoppedDrained'
  <2> DEFINE l == Stmt(t).log
  <2>1. pc[t] = "compose" /\ UNCHANGED <<stopped, logs, stmt>>
    BY <1>16 DEF Flush, At
  <2>2. l \in Loggers
    BY <2>1, StmtType DEF IInv
  <2> HIDE DEF l
  <2>3. /\ \A k \in Loggers \ {l} : buffers'[k] = buffers[k]
        /\ DOMAIN buffers'[l] = DOMAIN buffers[l] \cup {t}
        /\ \A u \in DOMAIN buffers[l] \ {t} : buffers'[l][u] = buffers[l][u]
    BY <1>16, <2>2, FlushEffect DEF l
  <2>4. \A u \in Producers \ {t} : pc'[u] = pc[u] /\ stmt'[u] = stmt[u]
    BY <1>16, StmtType DEF Flush, IInv, Types
  <2>5. buffers'[l][t].inuse /\ ~stopped[l]
    BY <1>16, <2>1, <2>2, FlushEffect, StmtType DEF Flush, IInv, Types, l
  <2>6. BufferOwned'
    <3> SUFFICES ASSUME NEW u \in Producers, pc'[u] \in {"push", "release"}
                 PROVE  u \in DOMAIN buffers'[Stmt(u)'.log] /\ buffers'[Stmt(u)'.log][u].inuse
      BY DEF BufferOwned
    <3>1. CASE u = t
      BY <2>1, <2>3, <2>5, <3>1 DEF Stmt, l
    <3>2. CASE u # t
      <4>1. /\ pc[u] \in {"push", "release"} /\ Stmt(u)' = Stmt(u)
            /\ u \in DOMAIN buffers[Stmt(u).log] /\ buffers[Stmt(u).log][u].inuse
            /\ Stmt(u).log \in Loggers
        BY <2>4, <3>2, StmtType DEF Stmt, IInv, BufferOwned
      <4> QED
        BY <2>2, <2>3, <3>2, <4>1
    <3> QED
      BY <3>1, <3>2
  <2>7. StoppedDrained'
    BY <2>1, <2>2, <2>3, <2>5 DEF StoppedDrained, IInv
  <2> QED
    BY <2>6, <2>7
<1>17. ASSUME NEW t \in Producers, FlushPush(t) PROVE BufferOwned' /\ StoppedDrained'
  <2> DEFINE l == Stmt(t).log
  <2>1. pc[t] = "push" /\ UNCHANGED <<stopped, logs, stmt>>
    BY <1>17 DEF FlushPush, At
  <2>2. l \in Loggers
    BY <2>1, StmtType DEF IInv
  <2> HIDE DEF l
  <2>3. /\ \A k \in Loggers \ {l} : buffers'[k] = buffers[k]
        /\ DOMAIN buffers'[l] = DOMAIN buffers[l]
        /\ \A u \in DOMAIN buffers[l] \ {t} : buffers'[l][u] = buffers[l][u]
    BY <1>17, <2>2, PushEffect DEF l
  <2>4. \A u \in Producers \ {t} : pc'[u] = pc[u] /\ stmt'[u] = stmt[u]
    BY <1>17, StmtType DEF FlushPush, IInv, Types
  <2>5. buffers'[l][t].inuse /\ t \in DOMAIN buffers[l]
    <3>1. t \in DOMAIN buffers[l] /\ buffers[l][t].inuse
      BY <2>1 DEF IInv, BufferOwned, l
    <3> QED
      BY <1>17, <2>2, <3>1, PushEffect DEF l
  <2>6. BufferOwned'
    <3> SUFFICES ASSUME NEW u \in Producers, pc'[u] \in {"push", "release"}
                 PROVE  u \in DOMAIN buffers'[Stmt(u)'.log] /\ buffers'[Stmt(u)'.log][u].inuse
      BY DEF BufferOwned
    <3>1. CASE u = t
      BY <2>1, <2>3, <2>5, <3>1 DEF Stmt, l
    <3>2. CASE u # t
      <4>1. /\ pc[u] \in {"push", "release"} /\ Stmt(u)' = Stmt(u)
            /\ u \in DOMAIN buffers[Stmt(u).log] /\ buffers[Stmt(u).log][u].inuse
            /\ Stmt(u).log \in Loggers
        BY <2>4, <3>2, StmtType DEF Stmt, IInv, BufferOwned
      <4> QED
        BY <2>2, <2>3, <3>2, <4>1
    <3> QED
      BY <3>1, <3>2
  <2>7. StoppedDrained'
    BY <2>1, <2>2, <2>3 DEF StoppedDrained, IInv
  <2> QED
    BY <2>6, <2>7
<1>18. ASSUME NEW t \in Producers, FlushRelease(t) PROVE BufferOwned' /\ StoppedDrained'
  <2> DEFINE l == Stmt(t).log
  <2>1. pc[t] = "release" /\ UNCHANGED <<stopped, logs>>
    BY <1>18 DEF FlushRelease, At
  <2>2. l \in Loggers
    BY <2>1, StmtType DEF IInv
  <2> HIDE DEF l
  <2>3. /\ \A k \in Loggers \ {l} : buffers'[k] = buffers[k]
        /\ DOMAIN buffers'[l] = DOMAIN buffers[l]
        /\ \A u \in DOMAIN buffers[l] \ {t} : buffers'[l][u] = buffers[l][u]
    BY <1>18, <2>2, ReleaseEffect DEF l
  <2>4. \A u \in Producers \ {t} : pc'[u] = pc[u] /\ stmt'[u] = stmt[u]
    BY <1>18, ReleaseReturns DEF FlushRelease, IInv, Types
  <2>5. pc'[t] \in {"idle", "compose", "busy"}
    BY <1>18, <2>1, <2>2, ReleaseEffect, ReleaseReturns DEF FlushRelease, IInv, Types, l
  <2>6. BufferOwned'
    <3> SUFFICES ASSUME NEW u \in Producers, pc'[u] \in {"push", "release"}
                 PROVE  u \in DOMAIN buffers'[Stmt(u)'.log] /\ buffers'[Stmt(u)'.log][u].inuse
      BY DEF BufferOwned
    <3>1. CASE u = t
      BY <2>5, <3>1
    <3>2. CASE u # t
      <4>1. /\ pc[u] \in {"push", "release"} /\ Stmt(u)' = Stmt(u)
            /\ u \in DOMAIN buffers[Stmt(u).log] /\ buffers[Stmt(u).log][u].inuse
            /\ Stmt(u).log \in Loggers
        BY <2>4, <3>2, StmtType DEF Stmt, IInv, BufferOwned
      <4> QED
        BY <2>2, <2>3, <3>2, <4>1
    <3> QED
      BY <3>1, <3>2
  <2>7. StoppedDrained'
    BY <2>1, <2>2, <2>3 DEF StoppedDrained, IInv
  <2> QED
    BY <2>6, <2>7
<1>19. ASSUME NEW t \in Producers, AddBusyLog(t) PROVE BufferOwned' /\ StoppedDrained'
  <2>1. pc[t] # "idle" /\ Return(t) /\ UNCHANGED <<buffers, stopped, logs>>
    BY <1>19 DEF AddBusyLog, At
  <2> QED
    BY <2>1, ReturnEffect, OthersKept DEF IInv
<1>20. ASSUME NEW t \in Producers, CreateNull(t) PROVE BufferOwned' /\ StoppedDrained'
  BY <1>20, OwnedKept DEF CreateNull
<1> QED
  BY <1>1, <1>2, <1>3, <1>4, <1>5, <1>6, <1>7, <1>8, <1>9, <1>10,
     <1>11, <1>12, <1>13, <1>14, <1>15, <1>16, <1>17, <1>18, <1>19, <1>20
     DEF Next, Run, Flushing

(* Before Start there is no I/O thread and no logger. *)
LEMMA InitIInv == Init => IInv
<1> SUFFICES ASSUME Init PROVE IInv
  OBVIOUS
<1> USE DEF Init
<1>1. buffers \in [Loggers -> BufferMaps]
  <2>1. <<>> \in [{} -> Buffers] /\ {} \in SUBSET Producers
    OBVIOUS
  <2>2. <<>> \in BufferMaps
    BY <2>1 DEF BufferMaps
  <2> QED
    BY <2>2
<1>2. Types
  BY <1>1 DEF Types
<1>3. InStatement /\ Phases
  BY DEF InStatement, Phases
<1>4. BufferOwned /\ StoppedDrained
  BY DEF BufferOwned, StoppedDrained
<1> QED
  BY <1>2, <1>3, <1>4 DEF IInv

(* The invariant holds in every state of every run of the loggers and their manager. *)
THEOREM Invariance == Spec => []IInv
<1>1. IInv /\ Next => IInv'
  BY TypesStep, PhasesStep, OwnedStep DEF IInv
<1>2. IInv /\ UNCHANGED vars => IInv'
  BY DEF IInv, vars, manager, ioThread, control, loggers, locals, ghost, Types, InStatement,
         Phases, BufferOwned, StoppedDrained, Stmt
<1> QED
  BY <1>1, <1>2, InitIInv, PTL DEF Spec

(* Between marking its buffer in use and releasing it, a thread that writes to it without
   a lock still has it in the logger's map: Update never takes it (BufferOwned). *)
THEOREM BufferStays == Spec => []BufferOwned
<1>1. IInv => BufferOwned
  BY DEF IInv
<1> QED
  BY <1>1, Invariance, PTL

(* However CreateLog and AddBusyLog race with Stop, the I/O thread ends with no logger in
   logs_ and no pointer to one in busyLogs_ (EndedClean). *)
THEOREM EndsClean == Spec => []EndedClean
<1>1. IInv => EndedClean
  BY DEF IInv, Phases, EndedClean
<1> QED
  BY <1>1, Invariance, PTL

(* A logger that Stop has shut down and the final loop has dropped has no buffer left
   (StoppedDrained). *)
THEOREM NothingLeftBehind == Spec => []StoppedDrained
<1>1. IInv => StoppedDrained
  BY DEF IInv
<1> QED
  BY <1>1, Invariance, PTL

-----------------------------------------------------------------------------
(* What a buffer holds; a thread without one has nothing in it. *)
Data(l, t) == IF t \in DOMAIN buffers[l] THEN buffers[l][t].data ELSE <<>>

(* The text in the words of a buffer. *)
Stored(d) == Text(Log(d))

(* Words that are the frames of lines with text. *)
FullLines == {x \in Lines : x.text # <<>>}
Framed(d) == \E lines \in Seq(FullLines) : d = Frames(lines)

(* All that was written, and all that is in buffers. *)
AllWritten  == [l \in Loggers |-> Written(l)]
AllBuffered == [l \in Loggers |-> [t \in Producers |-> Stored(Data(l, t))]]

(* The pieces that have reached logger l, of which w is written and b in buffers. *)
In(w, b, l) ==
  {w[l][i] : i \in DOMAIN w[l]} \cup
  UNION {{b[l][t][i] : i \in DOMAIN b[l][t]} : t \in Producers}

(* Threads have the text they composed, written, in buffers or in lines x. *)
Authored(w, b, x, n, a) ==
  /\ \A l \in Loggers : \A i \in DOMAIN w[l] : w[l][i] \in 1..(n - 1)
  /\ \A l \in Loggers, t \in Producers : \A i \in DOMAIN b[l][t] :
       b[l][t][i] \in 1..(n - 1) /\ a[b[l][t][i]] = t
  /\ \A t \in Producers : \A i \in DOMAIN x[t] : x[t][i] \in 1..(n - 1) /\ a[x[t][i]] = t

(* What a thread composed later is behind: in each place and from place to place. *)
Rising(w, b, x, a) ==
  /\ \A l \in Loggers : \A i, j \in DOMAIN w[l] :
       i < j /\ a[w[l][i]] = a[w[l][j]] => w[l][i] < w[l][j]
  /\ \A l \in Loggers, t \in Producers : \A i, j \in DOMAIN b[l][t] :
       i < j => b[l][t][i] < b[l][t][j]
  /\ \A t \in Producers : \A i, j \in DOMAIN x[t] : i < j => x[t][i] < x[t][j]
  /\ \A l \in Loggers, t \in Producers : \A i \in DOMAIN w[l], j \in DOMAIN b[l][t] :
       a[w[l][i]] = t => w[l][i] < b[l][t][j]
  /\ \A l \in Loggers, t \in Producers : \A i \in DOMAIN w[l], j \in DOMAIN x[t] :
       a[w[l][i]] = t => w[l][i] < x[t][j]
  /\ \A l \in Loggers, t \in Producers : \A i \in DOMAIN b[l][t], j \in DOMAIN x[t] :
       b[l][t][i] < x[t][j]

(* No piece has reached two loggers. *)
Apart(w, b) == \A k, l \in Loggers : k # l => In(w, b, k) \cap In(w, b, l) = {}

(* A piece that was not refused is in a line, has reached a logger or was printed. *)
Present(w, b, x, n, d, c) ==
  \A m \in (1..(n - 1)) \ d :
    \/ m \in c
    \/ \E t \in Producers : \E i \in DOMAIN x[t] : x[t][i] = m
    \/ \E l \in Loggers : m \in In(w, b, l)

(* What is known of the line of thread t: it has no text when it has no level and after it
   was pushed, some when it is to be pushed, and between statements none but what was
   printed or refused.                                                       *)
Settled(t) ==
  /\ curLevel[t] = 0 => text[t] = <<>>
  /\ pc[t] = "push" => text[t] # <<>>
  /\ pc[t] \in {"release", "busy"} => text[t] = <<>>
  /\ pc[t] = "idle" => \A i \in DOMAIN text[t] : text[t][i] \in console \cup dropped

(* What is known of the threads and of what they push. *)
Composing ==
  /\ next \in Nat \ {0} /\ author \in Seq(Producers) /\ Len(author) = next - 1
  /\ out \in [Loggers -> Seq(Lines)]
  /\ curLevel \in [Producers -> Levels \cup {0}]
  /\ \A t \in Producers : Settled(t)

AllFramed == \A l \in Loggers, t \in Producers : Framed(Data(l, t))

(* The inductive invariant of the text. *)
Placed(w, b, x, n, a, d, c) ==
  Authored(w, b, x, n, a) /\ Rising(w, b, x, a) /\ Apart(w, b) /\ Present(w, b, x, n, d, c)
TextInv ==
  /\ Composing /\ AllFramed
  /\ Placed(AllWritten, AllBuffered, text, next, author, dropped, console)

-----------------------------------------------------------------------------
(* The words that Flush pushes for one line. *)
FrameOf(x) == <<x.level, Len(x.text)>> \o x.text

(* The frame of a line: its level, its length, its text. *)
LEMMA FrameFacts ==
  ASSUME NEW x \in Lines
  PROVE  /\ FrameOf(x) \in Seq(Nat) /\ Len(FrameOf(x)) = Len(x.text) + 2
         /\ Len(x.text) \in Nat /\ x.text \in Seq(Nat) /\ x.level \in Nat
         /\ FrameOf(x)[1] = x.level /\ FrameOf(x)[2] = Len(x.text)
         /\ \A i \in 1..Len(x.text) : FrameOf(x)[2 + i] = x.text[i]
<1> DEFINE s == x.text
           h == <<x.level, Len(s)>>
           f == h \o s
<1>1. s \in Seq(Nat) /\ Len(s) \in Nat /\ x.level \in Nat
  BY DEF Lines
<1>2. h \in Seq(Nat) /\ Len(h) = 2 /\ h[1] = x.level /\ h[2] = Len(s)
  BY <1>1
<1> HIDE DEF s, h
<1>3. /\ f \in Seq(Nat) /\ Len(f) = Len(h) + Len(s)
      /\ \A i \in 1..(Len(h) + Len(s)) : f[i] = IF i <= Len(h) THEN h[i] ELSE s[i - Len(h)]
  BY <1>1, <1>2, ConcatProperties
<1> HIDE DEF f
<1>4. /\ Len(f) = Len(s) + 2
      /\ \A i \in 1..(2 + Len(s)) : f[i] = IF i <= 2 THEN h[i] ELSE s[i - 2]
  BY <1>1, <1>2, <1>3
<1>5. f[1] = x.level /\ f[2] = Len(s)
  BY <1>1, <1>2, <1>4
<1>6. ASSUME NEW i \in 1..Len(s) PROVE f[2 + i] = s[i]
  <2>1. 2 + i \in 1..(2 + Len(s)) /\ ~(2 + i <= 2) /\ (2 + i) - 2 = i
    BY <1>1
  <2> QED
    BY <1>4, <2>1
<1>7. FrameOf(x) = f
  BY DEF FrameOf, f, h, s
<1> QED
  BY <1>1, <1>3, <1>4, <1>5, <1>6, <1>7 DEF s

(* The frames of lines are one behind the other. *)
LEMMA FramesAt ==
  ASSUME NEW lines \in Seq(Lines)
  PROVE  /\ Frames(lines) \in Seq(Nat)
         /\ \E off : Laid(off, [k \in 1..Len(lines) |-> FrameOf(lines[k])], Frames(lines))
<1> DEFINE n == Len(lines)
           T == Seq(Nat)
           ss == [k \in 1..n |-> FrameOf(lines[k])]
<1>1. n \in Nat /\ DOMAIN lines = 1..n /\ \A k \in 1..n : lines[k] \in Lines
  OBVIOUS
<1>2. \A k \in 1..n : FrameOf(lines[k]) \in T
  BY <1>1, FrameFacts
<1>3. Frames(lines) = FlattenSeq(ss)
  BY <1>1 DEF Frames, FrameOf
<1> HIDE DEF n, T
<1>4. ss \in Seq(T)
  BY <1>1, <1>2
<1> HIDE DEF ss
<1>5. FlattenSeq(ss) \in Seq(Nat) /\ \E off : Laid(off, ss, FlattenSeq(ss))
  BY <1>4, FlattenAt DEF T
<1> QED
  BY <1>3, <1>5 DEF ss, n

(* Logger::_Log finds the lines again whose frames were pushed. *)
LEMMA LogFrames ==
  ASSUME NEW lines \in Seq(FullLines)
  PROVE  Log(Frames(lines)) = lines
<1> DEFINE w == Frames(lines)
           m == Len(lines)
           L == Len(w)
           D == {n \in 0..L : n + 2 < L /\ n + 2 + w[n + 2] <= L}
           later == [n \in D |-> n + 2 + w[n + 2]]
           g == [n \in D |-> <<[level |-> w[n + 1],
                                text |-> SubSeq(w, n + 3, n + 2 + w[n + 2])]>>]
           ss == [k \in 1..m |-> FrameOf(lines[k])]
           from == CHOOSE f : f = [n \in 0..L |->
                     IF n + 2 < L /\ n + 2 + w[n + 2] <= L
                       THEN <<[level |-> w[n + 1],
                               text |-> SubSeq(w, n + 3, n + 2 + w[n + 2])]>>
                            \o f[n + 2 + w[n + 2]]
                       ELSE <<>>]
<1>1. lines \in Seq(Lines) /\ m \in Nat
      /\ \A k \in 1..m : lines[k] \in Lines /\ Len(lines[k].text) \in Nat \ {0}
  <2> DEFINE F == FullLines
  <2>1. F \subseteq Lines /\ lines \in Seq(F)
    BY DEF FullLines
  <2> HIDE DEF F
  <2>2. m \in Nat /\ lines = [k \in 1..m |-> lines[k]] /\ \A k \in 1..m : lines[k] \in F
    BY <2>1
  <2>3. \A k \in 1..m : lines[k] \in Lines
    BY <2>1, <2>2
  <2>4. lines \in Seq(Lines)
    BY <2>2, <2>3
  <2>5. ASSUME NEW k \in 1..m PROVE Len(lines[k].text) \in Nat \ {0}
    <3>1. lines[k].text \in Seq(Nat) /\ lines[k].text # <<>>
      BY <2>2 DEF F, FullLines, Lines
    <3> QED
      BY <3>1, EmptySeq
  <2> QED
    BY <2>2, <2>3, <2>4, <2>5
<1>2. w \in Seq(Nat) /\ \E off : Laid(off, ss, w)
  BY <1>1, FramesAt
<1>3. PICK off : Laid(off, ss, w)
  BY <1>2
<1>4. Log(w) = from[0]
  BY DEF Log
<1> HIDE DEF w
<1>5. L \in Nat /\ \A i \in 1..L : w[i] \in Nat
  BY <1>2
<1>6. \A n \in D : later[n] \in (n + 1)..L
  <2> SUFFICES ASSUME NEW n \in D PROVE later[n] \in (n + 1)..L
    OBVIOUS
  <2>1. n \in 0..L /\ n + 2 \in 1..L /\ n + 2 + w[n + 2] <= L
    BY <1>5
  <2>2. w[n + 2] \in Nat
    BY <1>5, <2>1
  <2> QED
    BY <1>5, <2>1, <2>2
<1>7. ASSUME NEW f
      PROVE  Chains(f, L, D, g, later)
             <=> f = [n \in 0..L |->
                        IF n + 2 < L /\ n + 2 + w[n + 2] <= L
                          THEN <<[level |-> w[n + 1],
                                  text |-> SubSeq(w, n + 3, n + 2 + w[n + 2])]>>
                               \o f[n + 2 + w[n + 2]]
                          ELSE <<>>]
  <2>1. ASSUME NEW n \in 0..L
        PROVE  (IF n \in D THEN Cat(g[n], f[later[n]]) ELSE <<>>)
               = IF n + 2 < L /\ n + 2 + w[n + 2] <= L
                   THEN <<[level |-> w[n + 1],
                           text |-> SubSeq(w, n + 3, n + 2 + w[n + 2])]>>
                        \o f[n + 2 + w[n + 2]]
                   ELSE <<>>
    <3>1. CASE n \in D
      BY <3>1 DEF Cat
    <3>2. CASE n \notin D
      BY <3>2
    <3> QED
      BY <3>1, <3>2
  <2>2. [n \in 0..L |-> IF n \in D THEN Cat(g[n], f[later[n]]) ELSE <<>>]
        = [n \in 0..L |-> IF n + 2 < L /\ n + 2 + w[n + 2] <= L
                            THEN <<[level |-> w[n + 1],
                                    text |-> SubSeq(w, n + 3, n + 2 + w[n + 2])]>>
                                 \o f[n + 2 + w[n + 2]]
                            ELSE <<>>]
    BY <2>1, Zenon
  <2> HIDE DEF D, g, later
  <2> QED
    BY <2>2, Zenon DEF Chains
<1>8. /\ off \in [0..m -> Nat] /\ off[0] = 0 /\ off[m] = L
      /\ \A k \in 1..m : off[k] = off[k - 1] + Len(ss[k]) /\ off[k] <= L
      /\ \A k \in 1..m : \A a \in 1..Len(ss[k]) : w[off[k - 1] + a] = ss[k][a]
  <2>1. Len(ss) = m
    BY <1>1
  <2> HIDE DEF ss
  <2> QED
    BY <1>3, <2>1 DEF Laid
<1>9. ASSUME NEW k \in 1..m
      PROVE  /\ off[k - 1] \in D /\ later[off[k - 1]] = off[k]
             /\ g[off[k - 1]] = <<lines[k]>>
  <2> DEFINE n == off[k - 1]
             x == lines[k]
             len == Len(x.text)
  <2>1. x \in Lines /\ len \in Nat \ {0}
    BY <1>1
  <2>2. /\ ss[k] = FrameOf(x) /\ Len(ss[k]) = len + 2 /\ x.text \in Seq(Nat)
        /\ ss[k][1] = x.level /\ ss[k][2] = len
        /\ \A i \in 1..len : ss[k][2 + i] = x.text[i]
    BY <2>1, FrameFacts
  <2> HIDE DEF ss
  <2>3. n \in Nat /\ off[k] = n + (len + 2) /\ n + (len + 2) <= L
    <3>1. k - 1 \in 0..m
      BY <1>1
    <3> QED
      BY <1>8, <2>2, <3>1
  <2>4. 1 \in 1..(len + 2) /\ 2 \in 1..(len + 2) /\ \A i \in 1..len : 2 + i \in 1..(len + 2)
    BY <2>1
  <2>5. w[n + 1] = x.level /\ w[n + 2] = len
    BY <1>8, <2>2, <2>4
  <2>6. ASSUME NEW i \in 1..len PROVE w[n + 2 + i] = x.text[i]
    <3>1. w[n + (2 + i)] = x.text[i]
      BY <1>8, <2>2, <2>4
    <3> HIDE DEF n, len, x
    <3>2. n + (2 + i) = n + 2 + i
      BY <2>1, <2>3
    <3> QED
      BY <3>1, <3>2
  <2>7. n \in D /\ later[n] = off[k]
    <3>1. n \in 0..L /\ n + 2 < L /\ n + 2 + len <= L /\ n + 2 + len = n + (len + 2)
      BY <1>5, <2>1, <2>3, SMTT(30)
    <3>2. n \in D
      BY <2>5, <3>1
    <3> QED
      BY <2>3, <2>5, <3>1, <3>2
  <2>8. SubSeq(w, n + 3, n + 2 + len) = x.text
    <3> DEFINE p == SubSeq(w, n + 3, n + 2 + len)
               a == n + 3
               b == n + 2 + len
    <3>1. x.text \in Seq(Nat) /\ x.text = [i \in 1..len |-> x.text[i]]
      BY <2>2
    <3> HIDE DEF n, len, x, L
    <3>2. a \in Int /\ b \in Int /\ a <= b /\ b - a + 1 = len
      BY <2>1, <2>3
    <3>3. \A i \in a..b : w[i] \in Nat
      <4>1. \A i \in a..b : i \in 1..L
        BY <1>5, <2>1, <2>3
      <4> QED
        BY <1>5, <4>1
    <3>4. \A i \in 1..len : a + i - 1 = n + 2 + i
      BY <2>1, <2>3
    <3> HIDE DEF a, b
    <3>5. /\ p \in Seq(Nat) /\ Len(p) = len
          /\ \A i \in 1..len : p[i] = w[a + i - 1]
      <4>1. /\ SubSeq(w, a, b) \in Seq(Nat)
            /\ Len(SubSeq(w, a, b)) = IF a <= b THEN b - a + 1 ELSE 0
            /\ \A i \in 1..(b - a + 1) : SubSeq(w, a, b)[i] = w[a + i - 1]
        BY <3>2, <3>3, SubSeqProperties
      <4>2. p = SubSeq(w, a, b)
        BY DEF a, b
      <4> HIDE DEF p
      <4> QED
        BY <3>2, <4>1, <4>2
    <3>6. p = [i \in 1..len |-> p[i]]
      <4> HIDE DEF p
      <4> QED
        BY <3>5
    <3> HIDE DEF p
    <3>7. \A i \in 1..len : p[i] = x.text[i]
      BY <2>6, <3>4, <3>5
    <3>8. p = x.text
      BY <3>1, <3>6, <3>7
    <3> QED
      BY <3>8 DEF p
  <2>9. x = [level |-> x.level, text |-> x.text]
    BY <2>1 DEF Lines
  <2>10. g[n] = <<[level |-> w[n + 1], text |-> SubSeq(w, n + 3, n + 2 + w[n + 2])]>>
    BY <2>7
  <2> HIDE DEF g, D, later, n, x, len
  <2>11. g[n] = <<x>>
    BY <2>5, <2>8, <2>9, <2>10
  <2> QED
    BY <2>7, <2>11 DEF n, x
<1>10. \A k \in 0..m : off[k] \in 0..L
  <2> SUFFICES ASSUME NEW k \in 0..m PROVE off[k] \in 0..L
    OBVIOUS
  <2>1. k = 0 \/ k \in 1..m
    BY <1>1
  <2>2. off[k] \in Nat
    BY <1>8
  <2> QED
    BY <1>5, <1>8, <2>1, <2>2
<1>11. off[m] \notin D
  BY <1>5, <1>8
<1> HIDE DEF D, g, later, ss
<1>12. Steps(off, m, L, D, g, later, lines)
  BY <1>9, <1>10, <1>11 DEF Steps
<1>13. \E f : f = [n \in 0..L |->
                     IF n + 2 < L /\ n + 2 + w[n + 2] <= L
                       THEN <<[level |-> w[n + 1],
                               text |-> SubSeq(w, n + 3, n + 2 + w[n + 2])]>>
                            \o f[n + 2 + w[n + 2]]
                       ELSE <<>>]
  <2>1. \E f : Chains(f, L, D, g, later)
    <3> HIDE DEF L
    <3> QED
      BY <1>5, <1>6, ChainExists
  <2> QED
    BY <1>7, <2>1
<1>14. Chains(from, L, D, g, later)
  BY <1>7, <1>13
<1> HIDE DEF from
<1>15. from[off[0]] = lines
  BY <1>1, <1>5, <1>12, <1>14, ChainValue DEF m
<1> QED
  BY <1>4, <1>8, <1>15 DEF w

(* Lines with text are lines. *)
LEMMA FullLinesAreLines == ASSUME NEW lines \in Seq(FullLines) PROVE lines \in Seq(Lines)
<1> DEFINE F == FullLines
<1>1. F \subseteq Lines /\ lines \in Seq(F)
  BY DEF FullLines
<1> HIDE DEF F
<1>2. Len(lines) \in Nat /\ lines = [k \in 1..Len(lines) |-> lines[k]]
  BY <1>1
<1>3. \A k \in 1..Len(lines) : lines[k] \in Lines
  BY <1>1
<1> QED
  BY <1>2, <1>3

(* What _Log does to a buffer that holds frames. *)
LEMMA FramedFacts ==
  ASSUME NEW d, Framed(d)
  PROVE  /\ d \in Seq(Nat) /\ Log(d) \in Seq(FullLines) /\ Log(d) \in Seq(Lines)
         /\ Frames(Log(d)) = d
<1>1. PICK lines \in Seq(FullLines) : d = Frames(lines)
  BY DEF Framed
<1>2. Log(d) = lines /\ lines \in Seq(Lines)
  BY <1>1, LogFrames, FullLinesAreLines
<1> QED
  BY <1>1, <1>2, FramesAt

(* An empty buffer holds frames, of no lines. *)
LEMMA FramedNone == Framed(<<>>) /\ Log(<<>>) = <<>>
<1>1. <<>> \in Seq(FullLines)
  OBVIOUS
<1>2. Frames(<<>>) = <<>>
  <2>1. [i \in DOMAIN <<>> |-> <<<<>>[i].level, Len(<<>>[i].text)>> \o <<>>[i].text] = <<>>
    OBVIOUS
  <2> QED
    BY <2>1, FlattenNone DEF Frames
<1>3. Log(Frames(<<>>)) = <<>>
  BY <1>1, LogFrames
<1> QED
  BY <1>1, <1>2, <1>3 DEF Framed

(* A frame pushed behind frames is one line more. *)
LEMMA FramedPush ==
  ASSUME NEW d, Framed(d), NEW x \in FullLines
  PROVE  /\ Framed(d \o <<x.level, Len(x.text)>> \o x.text)
         /\ Log(d \o <<x.level, Len(x.text)>> \o x.text) = Append(Log(d), x)
<1> DEFINE T == Seq(Nat)
           lines == Log(d)
           m == Len(lines)
           more == Append(lines, x)
           ss == [k \in 1..m |-> FrameOf(lines[k])]
           tt == [k \in 1..(m + 1) |-> FrameOf(more[k])]
<1>1. d \in T /\ lines \in Seq(FullLines) /\ lines \in Seq(Lines) /\ Frames(lines) = d
  BY FramedFacts
<1>2. x \in Lines /\ FrameOf(x) \in T /\ x.text \in T /\ <<x.level, Len(x.text)>> \in T
  <2>1. x \in Lines
    BY DEF FullLines
  <2>2. FrameOf(x) \in Seq(Nat) /\ x.text \in Seq(Nat) /\ x.level \in Nat /\ Len(x.text) \in Nat
    BY <2>1, FrameFacts
  <2> QED
    BY <2>1, <2>2
<1> HIDE DEF lines
<1>3. /\ m \in Nat /\ DOMAIN lines = 1..m /\ \A k \in 1..m : lines[k] \in Lines
      /\ more \in Seq(FullLines) /\ DOMAIN more = 1..(m + 1) /\ more[m + 1] = x
      /\ \A k \in 1..m : more[k] = lines[k]
  BY <1>1
<1>4. Frames(lines) = FlattenSeq(ss) /\ Frames(more) = FlattenSeq(tt)
  <2> HIDE DEF m, more
  <2> QED
    BY <1>3 DEF Frames, FrameOf
<1>5. \A k \in 1..m : FrameOf(lines[k]) \in T
  BY <1>3, FrameFacts
<1> HIDE DEF T, m, more
<1>6. ss \in Seq(T) /\ Len(ss) = m
  BY <1>3, <1>5
<1>7. /\ tt \in Seq(T) /\ Len(tt) = m + 1
      /\ tt[m + 1] = FrameOf(x) /\ \A k \in 1..m : tt[k] = ss[k]
  <2>1. \A k \in 1..(m + 1) : FrameOf(more[k]) \in T
    BY <1>2, <1>3, <1>5
  <2> QED
    BY <1>3, <2>1
<1> HIDE DEF ss, tt
<1>8. tt = Append(ss, FrameOf(x))
  BY <1>2, <1>3, <1>6, <1>7
<1>9. FlattenSeq(tt) = FlattenSeq(ss) \o FrameOf(x)
  BY <1>2, <1>6, <1>8, FlattenLast DEF T
<1>10. Frames(more) = Cat(d, Cat(<<x.level, Len(x.text)>>, x.text))
  BY <1>1, <1>4, <1>9 DEF Cat, FrameOf
<1>11. \A r, s, t \in T : Cat(Cat(r, s), t) = Cat(r, Cat(s, t))
  BY CatFacts DEF T
<1>12. Frames(more) = Cat(Cat(d, <<x.level, Len(x.text)>>), x.text)
  BY <1>1, <1>2, <1>10, <1>11
<1>13. Frames(more) = d \o <<x.level, Len(x.text)>> \o x.text
  BY <1>12 DEF Cat
<1>14. Log(Frames(more)) = more
  BY <1>3, LogFrames
<1> QED
  BY <1>3, <1>13, <1>14 DEF Framed, more, lines

-----------------------------------------------------------------------------
(* The text of lines. *)
LEMMA TextType == ASSUME NEW lines \in Seq(Lines) PROVE Text(lines) \in Seq(Nat)
<1> DEFINE T == Seq(Nat)
           m == Len(lines)
<1>0. m \in Nat /\ DOMAIN lines = 1..m /\ \A k \in 1..m : lines[k] \in Lines
  OBVIOUS
<1>1. \A x \in Lines : x.text \in T
  BY DEF Lines
<1> HIDE DEF m, T
<1>2. [k \in 1..m |-> lines[k].text] \in Seq(T)
  BY <1>0, <1>1
<1>3. FlattenSeq([k \in 1..m |-> lines[k].text]) \in Seq(Nat)
  BY <1>2, FlattenLast DEF T
<1> QED
  BY <1>0, <1>3 DEF Text

(* No lines have no text. *)
LEMMA TextNone == Text(<<>>) = <<>>
<1>1. [i \in DOMAIN <<>> |-> <<>>[i].text] = <<>>
  OBVIOUS
<1> QED
  BY <1>1, FlattenNone DEF Text

(* The text of lines behind lines. *)
LEMMA TextConcat ==
  ASSUME NEW a \in Seq(Lines), NEW b \in Seq(Lines)
  PROVE  Text(a \o b) = Cat(Text(a), Text(b))
<1> DEFINE T == Seq(Nat)
           m == Len(a)
           n == Len(b)
           c == a \o b
           ss == [k \in 1..m |-> a[k].text]
           tt == [k \in 1..n |-> b[k].text]
           uu == [k \in 1..(m + n) |-> c[k].text]
<1>1. /\ m \in Nat /\ DOMAIN a = 1..m /\ n \in Nat /\ DOMAIN b = 1..n
      /\ \A k \in 1..m : a[k] \in Lines
      /\ \A k \in 1..n : b[k] \in Lines
  OBVIOUS
<1>2. /\ c \in Seq(Lines) /\ Len(c) = m + n
      /\ \A i \in 1..(m + n) : c[i] = IF i <= m THEN a[i] ELSE b[i - m]
  BY ConcatProperties
<1>3. \A x \in Lines : x.text \in T
  BY DEF Lines
<1> HIDE DEF T, c
<1>4. Text(a) = FlattenSeq(ss) /\ Text(b) = FlattenSeq(tt) /\ Text(c) = FlattenSeq(uu)
  <2>1. DOMAIN c = 1..(m + n)
    BY <1>2
  <2> HIDE DEF m, n
  <2> QED
    BY <1>1, <2>1 DEF Text
<1> HIDE DEF m, n
<1>5. ss \in Seq(T) /\ Len(ss) = m
  BY <1>1, <1>3
<1>6. tt \in Seq(T) /\ Len(tt) = n
  BY <1>1, <1>3
<1>7. ASSUME NEW i \in 1..(m + n) PROVE uu[i] = IF i <= m THEN ss[i] ELSE tt[i - m]
  <2>1. CASE i <= m
    <3>1. i \in 1..m
      BY <1>1, <2>1
    <3> QED
      BY <1>2, <2>1, <3>1
  <2>2. CASE ~(i <= m)
    <3>1. i - m \in 1..n
      BY <1>1, <2>2
    <3> QED
      BY <1>2, <2>2, <3>1
  <2> QED
    BY <2>1, <2>2
<1>8. uu \in Seq(T) /\ Len(uu) = m + n
  <2>1. Len(c) = m + n /\ m + n \in Nat /\ \A i \in 1..(m + n) : c[i] \in Lines
    BY <1>1, <1>2
  <2>2. \A i \in 1..(m + n) : c[i].text \in T
    BY <1>3, <2>1
  <2> QED
    BY <2>1, <2>2
<1> HIDE DEF ss, tt, uu
<1>9. uu = ss \o tt
  <2> DEFINE v == ss \o tt
  <2>1. /\ v \in Seq(T) /\ Len(v) = m + n
        /\ \A i \in 1..(m + n) : v[i] = IF i <= m THEN ss[i] ELSE tt[i - m]
    BY <1>5, <1>6, ConcatProperties
  <2> HIDE DEF v
  <2>2. \A i \in 1..(m + n) : uu[i] = v[i]
    BY <1>7, <2>1
  <2>3. uu = v
    BY <1>8, <2>1, <2>2
  <2> QED
    BY <2>3 DEF v
<1>10. FlattenSeq(ss \o tt) = FlattenSeq(ss) \o FlattenSeq(tt)
  BY <1>5, <1>6, FlattenConcat DEF T
<1> QED
  BY <1>4, <1>9, <1>10 DEF c, Cat

(* The text of the lines of several buffers is the text of each, in the same order. *)
LEMMA TextFlatten ==
  ASSUME NEW lls \in Seq(Seq(Lines))
  PROVE  Text(FlattenSeq(lls)) = FlattenSeq([k \in 1..Len(lls) |-> Text(lls[k])])
<1> DEFINE T == Seq(Nat)
           U == Seq(Lines)
           m == Len(lls)
           ss == [k \in 1..m |-> Text(lls[k])]
<1>1. m \in Nat /\ \A k \in 1..m : lls[k] \in U
  OBVIOUS
<1>2. \A x \in U : Text(x) \in T
  BY TextType
<1>3. PICK f : Flats(f, lls, Lines)
  BY FlatsExists
<1>4. f \in [0..m -> U] /\ f[0] = <<>> /\ \A i \in 1..m : f[i] = Cat(f[i - 1], lls[i])
  BY <1>3 DEF Flats
<1>5. \A x, y \in U : Text(Cat(x, y)) = Cat(Text(x), Text(y))
  BY TextConcat DEF Cat
<1>6. FlattenSeq(lls) = f[m]
  BY <1>3, FlatsValue
<1> DEFINE g == [i \in 0..m |-> Text(f[i])]
<1> HIDE DEF T, U, m
<1>7. ss \in Seq(T) /\ Len(ss) = m
  BY <1>1, <1>2
<1>8. g \in [0..m -> T] /\ g[0] = <<>>
  BY <1>1, <1>2, <1>4, TextNone
<1>9. ASSUME NEW i \in 1..m PROVE g[i] = Cat(g[i - 1], ss[i])
  <2>1. i \in 0..m /\ i - 1 \in 0..m
    BY <1>1
  <2>2. f[i - 1] \in U /\ lls[i] \in U
    BY <1>1, <1>4, <2>1
  <2>3. Text(f[i]) = Cat(Text(f[i - 1]), Text(lls[i]))
    BY <1>4, <1>5, <2>2
  <2> QED
    BY <2>1, <2>3
<1> HIDE DEF g, ss
<1>10. Flats(g, ss, Nat)
  BY <1>7, <1>8, <1>9 DEF Flats, T
<1>11. FlattenSeq(ss) = g[m]
  BY <1>7, <1>10, FlatsValue DEF T
<1>12. g[m] = Text(f[m])
  BY <1>1 DEF g
<1> QED
  BY <1>6, <1>11, <1>12 DEF ss, m

-----------------------------------------------------------------------------
(* What the steps do to the words in the buffers. *)
LEMMA BufferType ==
  ASSUME Types, NEW l \in Loggers
  PROVE  /\ DOMAIN buffers[l] \subseteq Producers
         /\ \A t \in DOMAIN buffers[l] : buffers[l][t] \in Buffers
<1> DEFINE b == buffers[l]
<1>1. b \in BufferMaps
  BY DEF Types
<1> HIDE DEF b
<1>2. PICK S \in SUBSET Producers : b \in [S -> Buffers]
  BY <1>1 DEF BufferMaps
<1>3. DOMAIN b \subseteq Producers /\ \A t \in DOMAIN b : b[t] \in Buffers
  BY <1>2
<1> QED
  BY <1>3 DEF b

(* Flush gives the thread a buffer with what it had in the old one. *)
LEMMA FlushData ==
  ASSUME IInv, NEW t \in Producers, Flush(t), NEW k \in Loggers, NEW u \in Producers
  PROVE  Data(k, u)' = Data(k, u)
<1> DEFINE l == Stmt(t).log
           b == buffers[l]
           d == IF t \in DOMAIN b THEN b[t].data ELSE <<>>
           c == [v \in DOMAIN b \cup {t} |->
                   IF v = t THEN [inuse |-> TRUE, data |-> d] ELSE b[v]]
<1>1. pc[t] # "idle"
  BY DEF Flush, At
<1>2. l \in Loggers /\ buffers \in [Loggers -> BufferMaps]
  BY <1>1, StmtType DEF IInv, Types
<1>3. buffers' = [buffers EXCEPT ![l] = c]
  BY DEF Flush
<1>4. /\ t \in DOMAIN c /\ c[t].data = d
      /\ \A v \in Producers \ {t} : /\ v \in DOMAIN c <=> v \in DOMAIN b
                                    /\ v \in DOMAIN b => c[v] = b[v]
  OBVIOUS
<1> HIDE DEF c, l
<1>5. CASE k # l
  <2>1. buffers'[k] = buffers[k]
    BY <1>2, <1>3, <1>5
  <2> QED
    BY <2>1 DEF Data
<1>6. CASE k = l
  <2>1. buffers'[k] = c
    BY <1>2, <1>3, <1>6
  <2>2. CASE u = t
    BY <1>4, <1>6, <2>1, <2>2 DEF Data
  <2>3. CASE u # t
    BY <1>4, <1>6, <2>1, <2>3 DEF Data
  <2> QED
    BY <2>2, <2>3
<1> QED
  BY <1>5, <1>6

(* The buffers with buffer v for thread t of logger l. *)
Put(bs, l, t, v) == [bs EXCEPT ![l] = [bs[l] EXCEPT ![t] = v]]

(* A change to one thread's buffer, which is there. *)
LEMMA OwnData ==
  ASSUME IInv, NEW t \in Producers, NEW l \in Loggers, l = Stmt(t).log,
         pc[t] \in {"push", "release"},
         NEW v, buffers' = Put(buffers, l, t, v)
  PROVE  /\ Data(l, t)' = v.data /\ Data(l, t) = buffers[l][t].data
         /\ \A k \in Loggers, u \in Producers :
              k # l \/ u # t => Data(k, u)' = Data(k, u)
<1> DEFINE b == buffers[l]
           c == [b EXCEPT ![t] = v]
<1>1. t \in DOMAIN b /\ buffers \in [Loggers -> BufferMaps]
  BY DEF IInv, BufferOwned, Types
<1>2. DOMAIN c = DOMAIN b /\ c[t] = v /\ \A u \in DOMAIN b \ {t} : c[u] = b[u]
  BY <1>1
<1>3. buffers' = [buffers EXCEPT ![l] = c]
  BY DEF Put
<1> HIDE DEF c
<1>4. buffers'[l] = c /\ \A k \in Loggers \ {l} : buffers'[k] = buffers[k]
  BY <1>1, <1>3
<1>5. Data(l, t)' = v.data /\ Data(l, t) = buffers[l][t].data
  BY <1>1, <1>2, <1>4 DEF Data
<1>6. ASSUME NEW k \in Loggers, NEW u \in Producers, k # l \/ u # t
      PROVE  Data(k, u)' = Data(k, u)
  <2>1. CASE k # l
    BY <1>4, <2>1 DEF Data
  <2>2. CASE k = l
    <3>1. u # t
      BY <1>6, <2>2
    <3> QED
      BY <1>2, <1>4, <2>2, <3>1 DEF Data
  <2> QED
    BY <2>1, <2>2
<1> QED
  BY <1>5, <1>6

(* The line of a thread that is about to push it. *)
LineOf(t) == [level |-> Stmt(t).level, text |-> text[t]]

(* Flush appends the frame of its line to the words in its buffer. *)
LEMMA PushData ==
  ASSUME IInv, NEW t \in Producers, FlushPush(t), NEW l \in Loggers, l = Stmt(t).log
  PROVE  /\ Data(l, t)' = Data(l, t) \o <<LineOf(t).level, Len(LineOf(t).text)>>
                                      \o LineOf(t).text
         /\ \A k \in Loggers, u \in Producers :
              k # l \/ u # t => Data(k, u)' = Data(k, u)
<1>1. pc[t] = "push"
  BY DEF FlushPush, At
<1> DEFINE d == buffers[l][t].data \o <<Stmt(t).level, Len(text[t])>> \o text[t]
           v == [buffers[l][t] EXCEPT !.data = d]
<1>2. buffers[l][t] \in Buffers
  BY <1>1, BufferType DEF IInv, BufferOwned
<1>3. buffers' = Put(buffers, l, t, v)
  BY DEF FlushPush, Put
<1> HIDE DEF d
<1>4. v.data = d
  BY <1>2 DEF Buffers
<1> HIDE DEF v
<1>5. /\ Data(l, t)' = d /\ Data(l, t) = buffers[l][t].data
      /\ \A k \in Loggers, u \in Producers :
           k # l \/ u # t => Data(k, u)' = Data(k, u)
  BY <1>1, <1>3, <1>4, OwnData
<1>6. LineOf(t).level = Stmt(t).level /\ LineOf(t).text = text[t]
  BY DEF LineOf
<1>7. Data(l, t)' = Data(l, t) \o <<LineOf(t).level, Len(LineOf(t).text)>> \o LineOf(t).text
  BY <1>5, <1>6 DEF d
<1> QED
  BY <1>5, <1>7

(* Releasing a buffer leaves what is in it. *)
LEMMA ReleaseData ==
  ASSUME IInv, NEW t \in Producers, FlushRelease(t), NEW k \in Loggers, NEW u \in Producers
  PROVE  Data(k, u)' = Data(k, u)
<1> DEFINE l == Stmt(t).log
           v == [buffers[l][t] EXCEPT !.inuse = FALSE]
<1>1. pc[t] = "release"
  BY DEF FlushRelease, At
<1>2. PICK j \in Loggers : j = Stmt(t).log
  BY <1>1, StmtType DEF IInv
<1>3. buffers[j][t] \in Buffers
  BY <1>1, <1>2, BufferType DEF IInv, BufferOwned
<1>4. buffers' = Put(buffers, j, t, v)
  BY <1>2 DEF FlushRelease, Put
<1>5. v.data = buffers[j][t].data
  BY <1>2, <1>3 DEF Buffers
<1> HIDE DEF v, l
<1>6. /\ Data(j, t)' = Data(j, t)
      /\ \A i \in Loggers, s \in Producers : i # j \/ s # t => Data(i, s)' = Data(i, s)
  BY <1>1, <1>2, <1>4, <1>5, OwnData
<1> QED
  BY <1>6

(* Update empties the buffers not in use and leaves the others alone. *)
LEMMA UpdateData ==
  ASSUME Types, NEW l \in Loggers, Update(l)
  PROVE  \A k \in Loggers, u \in Producers :
           Data(k, u)' = IF k = l /\ u \in DOMAIN buffers[l] \ InUse(l)
                           THEN <<>> ELSE Data(k, u)
<1>1. /\ buffers' = [buffers EXCEPT ![l] = [t \in InUse(l) |-> buffers[l][t]]]
      /\ buffers \in [Loggers -> BufferMaps]
  BY UpdateEffect DEF Types
<1> DEFINE c == [t \in InUse(l) |-> buffers[l][t]]
<1>2. InUse(l) \subseteq DOMAIN buffers[l]
  BY DEF InUse
<1>3. buffers'[l] = c /\ \A k \in Loggers \ {l} : buffers'[k] = buffers[k]
  BY <1>1
<1>4. ASSUME NEW k \in Loggers, NEW u \in Producers
      PROVE  Data(k, u)' = IF k = l /\ u \in DOMAIN buffers[l] \ InUse(l)
                             THEN <<>> ELSE Data(k, u)
  <2>1. CASE k # l
    BY <1>3, <2>1 DEF Data
  <2>2. CASE k = l /\ u \in InUse(l)
    BY <1>2, <1>3, <2>2 DEF Data
  <2>3. CASE k = l /\ u \notin InUse(l)
    BY <1>2, <1>3, <2>3 DEF Data
  <2> QED
    BY <2>1, <2>2, <2>3
<1> QED
  BY <1>4

-----------------------------------------------------------------------------
(* Where text goes.  w is what is written, b what is in buffers, x the lines of threads. *)
Shaped(w, b, x) ==
  /\ \A l \in Loggers : w[l] \in Seq(Nat)
  /\ \A l \in Loggers, t \in Producers : b[l][t] \in Seq(Nat)
  /\ \A t \in Producers : x[t] \in Seq(Nat)

(* Printing or refusing a line leaves text where it is. *)
LEMMA PlacedPrinted ==
  ASSUME NEW w, NEW b, NEW x, NEW n, NEW a, NEW d, NEW d2, NEW c, NEW c2,
         Placed(w, b, x, n, a, d, c), d \subseteq d2, c \subseteq c2
  PROVE  Placed(w, b, x, n, a, d2, c2)
BY DEF Placed, Present

(* A line is thrown away that was printed or refused. *)
LEMMA PlacedReset ==
  ASSUME NEW w, NEW b, NEW x, NEW x2, NEW n, NEW a, NEW d, NEW c, NEW t \in Producers,
         Placed(w, b, x, n, a, d, c),
         \A i \in DOMAIN x[t] : x[t][i] \in c \cup d,
         x2[t] = <<>>, \A u \in Producers \ {t} : x2[u] = x[u]
  PROVE  Placed(w, b, x2, n, a, d, c)
<1>1. Authored(w, b, x, n, a) /\ Rising(w, b, x, a) /\ Apart(w, b) /\ Present(w, b, x, n, d, c)
  BY DEF Placed
<1>2. \A u \in Producers : \A i \in DOMAIN x2[u] : i \in DOMAIN x[u] /\ x2[u][i] = x[u][i]
  <2>1. DOMAIN x2[t] = {}
    OBVIOUS
  <2> QED
    BY <2>1
<1>3. Authored(w, b, x2, n, a)
  BY <1>1, <1>2 DEF Authored
<1>4. Rising(w, b, x2, a)
  BY <1>1, <1>2 DEF Rising
<1>5. Present(w, b, x2, n, d, c)
  <2> SUFFICES ASSUME NEW m \in (1..(n - 1)) \ d, m \notin c
               PROVE  \/ \E u \in Producers : \E i \in DOMAIN x2[u] : x2[u][i] = m
                      \/ \E l \in Loggers : m \in In(w, b, l)
    BY DEF Present
  <2>1. CASE \E l \in Loggers : m \in In(w, b, l)
    BY <2>1
  <2>2. CASE \E u \in Producers : \E i \in DOMAIN x[u] : x[u][i] = m
    <3>1. PICK u \in Producers : \E i \in DOMAIN x[u] : x[u][i] = m
      BY <2>2
    <3>2. u # t
      BY <3>1
    <3> QED
      BY <3>1, <3>2
  <2> QED
    BY <1>1, <2>1, <2>2 DEF Present
<1> QED
  BY <1>1, <1>3, <1>4, <1>5 DEF Placed

(* Text that operator<< does not take. *)
LEMMA PlacedDropped ==
  ASSUME NEW w, NEW b, NEW x, NEW n \in Nat \ {0}, NEW a, NEW a2, NEW d, NEW c,
         Placed(w, b, x, n, a, d, c), \A m \in 1..(n - 1) : a2[m] = a[m]
  PROVE  Placed(w, b, x, n + 1, a2, d \cup {n}, c)
<1>1. Authored(w, b, x, n, a) /\ Rising(w, b, x, a) /\ Apart(w, b) /\ Present(w, b, x, n, d, c)
  BY DEF Placed
<1>2. \A m \in 1..(n - 1) : m \in 1..(n + 1 - 1)
  OBVIOUS
<1>3. Authored(w, b, x, n + 1, a2)
  BY <1>1, <1>2 DEF Authored
<1>4. Rising(w, b, x, a2)
  BY <1>1 DEF Authored, Rising
<1>5. \A m \in (1..(n + 1 - 1)) \ (d \cup {n}) : m \in (1..(n - 1)) \ d
  OBVIOUS
<1>6. Present(w, b, x, n + 1, d \cup {n}, c)
  BY <1>1, <1>5 DEF Present
<1> QED
  BY <1>1, <1>3, <1>4, <1>6 DEF Placed

(* Text that operator<< takes, and what Flush appends. *)
LEMMA PlacedComposed ==
  ASSUME NEW w, NEW b, NEW x, NEW x2, NEW n \in Nat \ {0}, NEW a, NEW a2, NEW d, NEW c,
         NEW t \in Producers,
         Placed(w, b, x, n, a, d, c), Shaped(w, b, x),
         \A m \in 1..(n - 1) : a2[m] = a[m],
         a2[n] = t, x2[t] = Append(x[t], n), \A u \in Producers \ {t} : x2[u] = x[u]
  PROVE  Placed(w, b, x2, n + 1, a2, d, c)
<1> DEFINE len == Len(x[t])
<1>1. Authored(w, b, x, n, a) /\ Rising(w, b, x, a) /\ Apart(w, b) /\ Present(w, b, x, n, d, c)
  BY DEF Placed
<1>2. /\ \A m \in 1..(n - 1) : m \in 1..(n + 1 - 1) /\ m < n
      /\ n \in 1..(n + 1 - 1) /\ n \notin 1..(n - 1)
      /\ \A m \in 1..(n + 1 - 1) : m = n \/ m \in 1..(n - 1)
  OBVIOUS
<1>3. /\ len \in Nat /\ DOMAIN x[t] = 1..len /\ DOMAIN x2[t] = 1..(len + 1)
      /\ \A i \in 1..len : x2[t][i] = x[t][i]
      /\ x2[t][len + 1] = n
  BY DEF Shaped
<1> HIDE DEF len
<1>4. /\ \A i \in DOMAIN x2[t] : (i \in DOMAIN x[t] /\ x2[t][i] = x[t][i]) \/ i = len + 1
      /\ \A i \in DOMAIN x2[t], j \in DOMAIN x2[t] : i < j => i \in DOMAIN x[t]
      /\ \A i \in DOMAIN x[t] : i \in DOMAIN x2[t] /\ x2[t][i] = x[t][i]
      /\ len + 1 \in DOMAIN x2[t]
  BY <1>3
<1>5. Authored(w, b, x2, n + 1, a2)
  <2>1. \A l \in Loggers : \A i \in DOMAIN w[l] : w[l][i] \in 1..(n + 1 - 1)
    BY <1>1, <1>2 DEF Authored
  <2>2. \A l \in Loggers, u \in Producers : \A i \in DOMAIN b[l][u] :
          b[l][u][i] \in 1..(n + 1 - 1) /\ a2[b[l][u][i]] = u
    BY <1>1, <1>2 DEF Authored
  <2>3. ASSUME NEW u \in Producers, NEW i \in DOMAIN x2[u]
        PROVE  x2[u][i] \in 1..(n + 1 - 1) /\ a2[x2[u][i]] = u
    <3>1. CASE u = t /\ i = len + 1
      BY <1>2, <1>3, <3>1
    <3>2. CASE i \in DOMAIN x[u] /\ x2[u][i] = x[u][i]
      BY <1>1, <1>2, <3>2 DEF Authored
    <3> QED
      BY <1>4, <3>1, <3>2
  <2> QED
    BY <2>1, <2>2, <2>3 DEF Authored
<1>6. ASSUME NEW u \in Producers, NEW j \in DOMAIN x2[u]
      PROVE  \/ j \in DOMAIN x[u] /\ x2[u][j] = x[u][j]
             \/ u = t /\ j = len + 1 /\ x2[u][j] = n
  BY <1>3, <1>4
<1>7. Rising(w, b, x2, a2)
  <2>1. \A l \in Loggers : \A i, j \in DOMAIN w[l] :
          i < j /\ a2[w[l][i]] = a2[w[l][j]] => w[l][i] < w[l][j]
    BY <1>1 DEF Authored, Rising
  <2>2. \A l \in Loggers, u \in Producers : \A i, j \in DOMAIN b[l][u] :
          i < j => b[l][u][i] < b[l][u][j]
    BY <1>1 DEF Rising
  <2>3. ASSUME NEW u \in Producers, NEW i \in DOMAIN x2[u], NEW j \in DOMAIN x2[u], i < j
        PROVE  x2[u][i] < x2[u][j]
    <3>1. i \in DOMAIN x[u] /\ x2[u][i] = x[u][i]
      BY <1>4, <2>3
    <3>2. CASE j \in DOMAIN x[u] /\ x2[u][j] = x[u][j]
      BY <1>1, <2>3, <3>1, <3>2 DEF Rising
    <3>3. CASE u = t /\ j = len + 1 /\ x2[u][j] = n
      BY <1>1, <1>2, <3>1, <3>3 DEF Authored
    <3> QED
      BY <1>6, <3>2, <3>3
  <2>4. \A l \in Loggers, u \in Producers : \A i \in DOMAIN w[l], j \in DOMAIN b[l][u] :
          a2[w[l][i]] = u => w[l][i] < b[l][u][j]
    BY <1>1 DEF Authored, Rising
  <2>5. ASSUME NEW l \in Loggers, NEW u \in Producers, NEW i \in DOMAIN w[l],
               NEW j \in DOMAIN x2[u], a2[w[l][i]] = u
        PROVE  w[l][i] < x2[u][j]
    <3>1. w[l][i] \in 1..(n - 1) /\ a[w[l][i]] = u
      BY <1>1, <2>5 DEF Authored
    <3>2. CASE j \in DOMAIN x[u] /\ x2[u][j] = x[u][j]
      BY <1>1, <3>1, <3>2 DEF Rising
    <3>3. CASE u = t /\ j = len + 1 /\ x2[u][j] = n
      BY <1>2, <3>1, <3>3
    <3> QED
      BY <1>6, <3>2, <3>3
  <2>6. ASSUME NEW l \in Loggers, NEW u \in Producers, NEW i \in DOMAIN b[l][u],
               NEW j \in DOMAIN x2[u]
        PROVE  b[l][u][i] < x2[u][j]
    <3>1. b[l][u][i] \in 1..(n - 1)
      BY <1>1 DEF Authored
    <3>2. CASE j \in DOMAIN x[u] /\ x2[u][j] = x[u][j]
      BY <1>1, <3>2 DEF Rising
    <3>3. CASE u = t /\ j = len + 1 /\ x2[u][j] = n
      BY <1>2, <3>1, <3>3
    <3> QED
      BY <1>6, <3>2, <3>3
  <2> QED
    BY <2>1, <2>2, <2>3, <2>4, <2>5, <2>6 DEF Rising
<1>8. Present(w, b, x2, n + 1, d, c)
  <2> SUFFICES ASSUME NEW m \in (1..(n + 1 - 1)) \ d
               PROVE  \/ m \in c
                      \/ \E u \in Producers : \E i \in DOMAIN x2[u] : x2[u][i] = m
                      \/ \E l \in Loggers : m \in In(w, b, l)
    BY DEF Present
  <2>1. CASE m = n
    BY <1>3, <1>4, <2>1
  <2>2. CASE m # n
    <3>1. m \in (1..(n - 1)) \ d
      BY <1>2, <2>2
    <3>2. \A u \in Producers : \A i \in DOMAIN x[u] : i \in DOMAIN x2[u] /\ x2[u][i] = x[u][i]
      BY <1>4
    <3> QED
      BY <1>1, <3>1, <3>2 DEF Present
  <2> QED
    BY <2>1, <2>2
<1> QED
  BY <1>1, <1>5, <1>7, <1>8 DEF Placed

(* Flush moves a line to the thread's buffer of a logger. *)
Pushed(b, b2, x, x2, l, t) ==
  /\ b2[l][t] = Cat(b[l][t], x[t])
  /\ \A k \in Loggers, u \in Producers : k # l \/ u # t => b2[k][u] = b[k][u]
  /\ x2[t] = <<>> /\ \A u \in Producers \ {t} : x2[u] = x[u]

(* Then the text is still in order, in one place and present. *)
LEMMA PlacedPushed ==
  ASSUME NEW w, NEW b, NEW b2, NEW x, NEW x2, NEW n \in Nat \ {0}, NEW a, NEW d, NEW c,
         NEW l \in Loggers, NEW t \in Producers,
         Placed(w, b, x, n, a, d, c), Shaped(w, b, x), Pushed(b, b2, x, x2, l, t)
  PROVE  Placed(w, b2, x2, n, a, d, c)
<1>0. /\ b2[l][t] = Cat(b[l][t], x[t])
      /\ \A k \in Loggers, u \in Producers : k # l \/ u # t => b2[k][u] = b[k][u]
      /\ x2[t] = <<>> /\ \A u \in Producers \ {t} : x2[u] = x[u]
  BY DEF Pushed
<1> USE <1>0
<1> DEFINE s == b[l][t]
           y == x[t]
           z == b2[l][t]
           len == Len(s)
<1>1. Authored(w, b, x, n, a) /\ Rising(w, b, x, a) /\ Apart(w, b) /\ Present(w, b, x, n, d, c)
  BY DEF Placed
<1>2. s \in Seq(Nat) /\ y \in Seq(Nat) /\ z = s \o y
  BY DEF Shaped, Cat
<1>3. DOMAIN x2[t] = {} /\ \A u \in Producers : DOMAIN x2[u] # {} => u # t /\ x2[u] = x[u]
  <2>1. DOMAIN x2[t] = {}
    OBVIOUS
  <2> QED
    BY <2>1
<1> HIDE DEF s, y, z
<1>4. /\ DOMAIN s = 1..len /\ len \in Nat /\ DOMAIN y = 1..Len(y) /\ Len(y) \in Nat
      /\ DOMAIN z = 1..(len + Len(y))
      /\ \A i \in 1..(len + Len(y)) : z[i] = IF i <= len THEN s[i] ELSE y[i - len]
  <2>1. z \in Seq(Nat) /\ Len(z) = len + Len(y)
        /\ \A i \in 1..(len + Len(y)) : z[i] = IF i <= len THEN s[i] ELSE y[i - len]
    BY <1>2, ConcatProperties
  <2> QED
    BY <1>2, <2>1
<1> HIDE DEF len
<1>5. /\ \A i \in DOMAIN s : i \in DOMAIN z /\ z[i] = s[i]
      /\ \A i \in DOMAIN y : len + i \in DOMAIN z /\ z[len + i] = y[i]
      /\ \A i \in DOMAIN z : \/ i \in DOMAIN s /\ z[i] = s[i]
                             \/ \E j \in DOMAIN y : i = len + j /\ z[i] = y[j]
  <2>1. ASSUME NEW i \in DOMAIN s PROVE i \in DOMAIN z /\ z[i] = s[i]
    BY <1>4
  <2>2. ASSUME NEW i \in DOMAIN y PROVE len + i \in DOMAIN z /\ z[len + i] = y[i]
    <3>1. len + i \in 1..(len + Len(y)) /\ ~(len + i <= len) /\ len + i - len = i
      BY <1>4
    <3> QED
      BY <1>4, <3>1
  <2>3. ASSUME NEW i \in DOMAIN z
        PROVE  \/ i \in DOMAIN s /\ z[i] = s[i]
               \/ \E j \in DOMAIN y : i = len + j /\ z[i] = y[j]
    <3>1. CASE i <= len
      BY <1>4, <3>1
    <3>2. CASE ~(i <= len)
      <4>1. i - len \in 1..Len(y) /\ i = len + (i - len)
        BY <1>4, <3>2
      <4> QED
        BY <1>4, <3>2, <4>1
    <3> QED
      BY <3>1, <3>2
  <2> QED
    BY <2>1, <2>2, <2>3
<1>6. /\ \A i \in DOMAIN y : y[i] \in 1..(n - 1) /\ a[y[i]] = t
      /\ \A i, j \in DOMAIN y : i < j => y[i] < y[j]
      /\ \A i \in DOMAIN s, j \in DOMAIN y : s[i] < y[j]
  BY <1>1 DEF Authored, Rising, s, y
<1>7. /\ \A i \in DOMAIN s : s[i] \in 1..(n - 1) /\ a[s[i]] = t
      /\ \A i, j \in DOMAIN s : i < j => s[i] < s[j]
  BY <1>1 DEF Authored, Rising, s
<1>8. Authored(w, b2, x2, n, a)
  <2>1. ASSUME NEW k \in Loggers, NEW u \in Producers, NEW i \in DOMAIN b2[k][u]
        PROVE  b2[k][u][i] \in 1..(n - 1) /\ a[b2[k][u][i]] = u
    <3>1. CASE k = l /\ u = t
      <4>1. b2[k][u] = z
        BY <3>1 DEF z
      <4> QED
        BY <1>5, <1>6, <1>7, <3>1, <4>1
    <3>2. CASE k # l \/ u # t
      BY <1>1, <3>2 DEF Authored
    <3> QED
      BY <3>1, <3>2
  <2>2. \A u \in Producers : \A i \in DOMAIN x2[u] :
          x2[u][i] \in 1..(n - 1) /\ a[x2[u][i]] = u
    BY <1>1, <1>3 DEF Authored
  <2> QED
    BY <1>1, <2>1, <2>2 DEF Authored
<1>9. ASSUME NEW i \in DOMAIN z, NEW j \in DOMAIN z, i < j PROVE z[i] < z[j]
  <2>1. CASE i \in DOMAIN s /\ z[i] = s[i]
    <3>1. CASE j \in DOMAIN s /\ z[j] = s[j]
      BY <1>7, <1>9, <2>1, <3>1
    <3>2. CASE \E q \in DOMAIN y : j = len + q /\ z[j] = y[q]
      BY <1>6, <2>1, <3>2
    <3> QED
      BY <1>5, <3>1, <3>2
  <2>2. CASE \E p \in DOMAIN y : i = len + p /\ z[i] = y[p]
    <3>1. PICK p \in DOMAIN y : i = len + p /\ z[i] = y[p]
      BY <2>2
    <3>2. j \notin DOMAIN s
      BY <1>4, <1>9, <3>1
    <3>3. PICK q \in DOMAIN y : j = len + q /\ z[j] = y[q]
      BY <1>5, <3>2
    <3>4. p < q
      BY <1>4, <1>9, <3>1, <3>3
    <3> QED
      BY <1>6, <3>1, <3>3, <3>4
  <2> QED
    BY <1>5, <2>1, <2>2
<1>10. Rising(w, b2, x2, a)
  <2>1. ASSUME NEW k \in Loggers, NEW u \in Producers,
               NEW i \in DOMAIN b2[k][u], NEW j \in DOMAIN b2[k][u], i < j
        PROVE  b2[k][u][i] < b2[k][u][j]
    <3>1. CASE k = l /\ u = t
      <4>1. b2[k][u] = z
        BY <3>1 DEF z
      <4> QED
        BY <1>9, <2>1, <4>1
    <3>2. CASE k # l \/ u # t
      BY <1>1, <2>1, <3>2 DEF Rising
    <3> QED
      BY <3>1, <3>2
  <2>2. ASSUME NEW k \in Loggers, NEW u \in Producers, NEW i \in DOMAIN w[k],
               NEW j \in DOMAIN b2[k][u], a[w[k][i]] = u
        PROVE  w[k][i] < b2[k][u][j]
    <3>1. CASE k = l /\ u = t
      <4>1. b2[k][u] = z
        BY <3>1 DEF z
      <4>2. /\ \A q \in DOMAIN s : w[k][i] < s[q]
            /\ \A q \in DOMAIN y : w[k][i] < y[q]
        BY <1>1, <2>2, <3>1 DEF Rising, s, y
      <4> QED
        BY <1>5, <4>1, <4>2
    <3>2. CASE k # l \/ u # t
      BY <1>1, <2>2, <3>2 DEF Rising
    <3> QED
      BY <3>1, <3>2
  <2>3. \A u \in Producers : \A i, j \in DOMAIN x2[u] : i < j => x2[u][i] < x2[u][j]
    BY <1>1, <1>3 DEF Rising
  <2>4. \A k \in Loggers, u \in Producers : \A i \in DOMAIN w[k], j \in DOMAIN x2[u] :
          a[w[k][i]] = u => w[k][i] < x2[u][j]
    BY <1>1, <1>3 DEF Rising
  <2>5. \A k \in Loggers, u \in Producers : \A i \in DOMAIN b2[k][u], j \in DOMAIN x2[u] :
          b2[k][u][i] < x2[u][j]
    BY <1>1, <1>3 DEF Rising
  <2> QED
    BY <1>1, <2>1, <2>2, <2>3, <2>4, <2>5 DEF Rising
<1>11. ASSUME NEW k \in Loggers, k # l PROVE In(w, b2, k) = In(w, b, k)
  BY <1>11 DEF In
<1>12. ASSUME NEW m \in In(w, b2, l)
       PROVE  m \in In(w, b, l) \/ \E q \in DOMAIN y : m = y[q]
  <2>1. CASE \E i \in DOMAIN w[l] : m = w[l][i]
    BY <2>1 DEF In
  <2>2. CASE \E i \in DOMAIN b2[l][t] : m = b2[l][t][i]
    <3>1. PICK i \in DOMAIN z : m = z[i]
      BY <2>2 DEF z
    <3>2. CASE i \in DOMAIN s /\ m = s[i]
      BY <3>2 DEF In, s
    <3> QED
      BY <1>5, <3>1, <3>2
  <2>3. CASE \E u \in Producers \ {t} : \E i \in DOMAIN b2[l][u] : m = b2[l][u][i]
    BY <2>3 DEF In
  <2> QED
    BY <2>1, <2>2, <2>3 DEF In
<1>13. ASSUME NEW k \in Loggers, k # l, NEW q \in DOMAIN y PROVE y[q] \notin In(w, b, k)
  <2> SUFFICES ASSUME y[q] \in In(w, b, k) PROVE FALSE
    OBVIOUS
  <2>0. y[q] \in 1..(n - 1) /\ a[y[q]] = t
    BY <1>6
  <2>1. CASE \E i \in DOMAIN w[k] : y[q] = w[k][i]
    <3>1. \A i \in DOMAIN w[k] : a[w[k][i]] = t => w[k][i] < y[q]
      BY <1>1 DEF Rising, y
    <3>2. y[q] < y[q]
      BY <2>0, <2>1, <3>1
    <3> QED
      BY <2>0, <3>2
  <2>2. CASE \E u \in Producers : \E i \in DOMAIN b[k][u] : y[q] = b[k][u][i]
    <3>1. PICK u \in Producers : \E i \in DOMAIN b[k][u] : y[q] = b[k][u][i]
      BY <2>2
    <3>2. u = t
      BY <1>1, <2>0, <3>1 DEF Authored
    <3>3. \A i \in DOMAIN b[k][t] : b[k][t][i] < y[q]
      BY <1>1 DEF Rising, y
    <3>4. y[q] < y[q]
      BY <3>1, <3>2, <3>3
    <3> QED
      BY <2>0, <3>4
  <2> QED
    BY <2>1, <2>2 DEF In
<1>14. Apart(w, b2)
  <2> SUFFICES ASSUME NEW i \in Loggers, NEW j \in Loggers, i # j,
                      NEW m, m \in In(w, b2, i), m \in In(w, b2, j)
               PROVE  FALSE
    BY DEF Apart
  <2>1. ASSUME NEW k \in Loggers, k # l, m \in In(w, b2, l), m \in In(w, b2, k) PROVE FALSE
    <3>1. m \in In(w, b, k)
      BY <1>11, <2>1
    <3>2. m \notin In(w, b, l)
      BY <1>1, <2>1, <3>1 DEF Apart
    <3> QED
      BY <1>12, <1>13, <2>1, <3>1, <3>2
  <2>2. CASE i # l /\ j # l
    BY <1>1, <1>11, <2>2 DEF Apart
  <2> QED
    BY <2>1, <2>2
<1>15. Present(w, b2, x2, n, d, c)
  <2>1. \A k \in Loggers : In(w, b, k) \subseteq In(w, b2, k)
    <3> SUFFICES ASSUME NEW m \in In(w, b, l) PROVE m \in In(w, b2, l)
      BY <1>11
    <3>1. CASE \E i \in DOMAIN w[l] : m = w[l][i]
      BY <3>1 DEF In
    <3>2. CASE \E i \in DOMAIN b[l][t] : m = b[l][t][i]
      <4>1. \E i \in DOMAIN z : m = z[i]
        BY <1>5, <3>2 DEF s
      <4> QED
        BY <4>1 DEF In, z
    <3>3. CASE \E u \in Producers \ {t} : \E i \in DOMAIN b[l][u] : m = b[l][u][i]
      BY <3>3 DEF In
    <3> QED
      BY <3>1, <3>2, <3>3 DEF In
  <2>2. \A q \in DOMAIN y : y[q] \in In(w, b2, l)
    <3> SUFFICES ASSUME NEW q \in DOMAIN y PROVE y[q] \in In(w, b2, l)
      OBVIOUS
    <3>1. \E i \in DOMAIN z : y[q] = z[i]
      BY <1>5
    <3> QED
      BY <3>1 DEF In, z
  <2> SUFFICES ASSUME NEW m \in (1..(n - 1)) \ d
               PROVE  \/ m \in c
                      \/ \E u \in Producers : \E i \in DOMAIN x2[u] : x2[u][i] = m
                      \/ \E k \in Loggers : m \in In(w, b2, k)
    BY DEF Present
  <2>3. CASE \E i \in DOMAIN x[t] : x[t][i] = m
    BY <2>2, <2>3 DEF y
  <2>4. CASE \E u \in Producers \ {t} : \E i \in DOMAIN x[u] : x[u][i] = m
    BY <2>4
  <2> QED
    BY <1>1, <2>1, <2>3, <2>4 DEF Present
<1> QED
  BY <1>1, <1>8, <1>10, <1>14, <1>15 DEF Placed

-----------------------------------------------------------------------------
(* The order in which Update writes buffers has each of them once. *)
Order(order, m, E) ==
  /\ m \in Nat /\ DOMAIN order = 1..m
  /\ \A k \in 1..m : order[k] \in E
  /\ \A i, j \in 1..m : order[i] = order[j] => i = j
  /\ \A u \in E : \E k \in 1..m : order[k] = u

(* Injective from as many numbers as there are buffers, it reaches them all. *)
LEMMA OrderFacts ==
  ASSUME NEW E, IsFiniteSet(E), NEW order \in SetToSeqs(E)
  PROVE  Order(order, Cardinality(E), E)
<1> DEFINE m == Cardinality(E)
<1>1. m \in Nat
  BY FS_CardinalityType
<1>2. order \in [1..m -> E] /\ \A i, j \in 1..m : i # j => order[i] # order[j]
  BY DEF SetToSeqs
<1> HIDE DEF m
<1>3. Cardinality(1..m) = m
  <2>1. Cardinality(1..m) = IF 1 > m THEN 0 ELSE m - 1 + 1
    BY <1>1, FS_Interval
  <2> QED
    BY <1>1, <2>1
<1>4. order \in Injection(1..m, E)
  BY <1>2 DEF Injection, IsInjective
<1>5. order \in Surjection(1..m, E)
  BY <1>3, <1>4, FS_Injection DEF m
<1>6. \A u \in E : \E k \in 1..m : order[k] = u
  BY <1>5 DEF Surjection
<1>7. Order(order, m, E)
  BY <1>1, <1>2, <1>6 DEF Order
<1> QED
  BY <1>7 DEF m

(* z is what was written, w, and behind it what the threads of E have in their buffers. *)
Gathered(z, w, b, E) ==
  /\ \A i \in DOMAIN w : i \in DOMAIN z /\ z[i] = w[i]
  /\ \A i \in DOMAIN z :
       i \in DOMAIN w \/ \E u \in E : \E p \in DOMAIN b[u] : z[i] = b[u][p]
  /\ \A i, j \in DOMAIN z :
       i < j /\ i \notin DOMAIN w =>
         /\ j \notin DOMAIN w
         /\ \E u, v \in E : \E p \in DOMAIN b[u], q \in DOMAIN b[v] :
              z[i] = b[u][p] /\ z[j] = b[v][q] /\ (u = v => p < q)
  /\ \A u \in E : \A p \in DOMAIN b[u] : \E i \in DOMAIN z : z[i] = b[u][p]

(* Buffers written one after the other. *)
LEMMA GatherFlat ==
  ASSUME NEW E, NEW b, NEW w \in Seq(Nat), NEW order, NEW m, Order(order, m, E),
         \A u \in E : b[u] \in Seq(Nat)
  PROVE  /\ FlattenSeq([k \in 1..m |-> b[order[k]]]) \in Seq(Nat)
         /\ Gathered(Cat(w, FlattenSeq([k \in 1..m |-> b[order[k]]])), w, b, E)
<1> DEFINE T == Seq(Nat)
           ss == [k \in 1..m |-> b[order[k]]]
           f == FlattenSeq(ss)
           z == Cat(w, f)
           len == Len(w)
<1>1. /\ m \in Nat
      /\ \A k \in 1..m : order[k] \in E
      /\ \A i, j \in 1..m : order[i] = order[j] => i = j
      /\ \A u \in E : \E k \in 1..m : order[k] = u
  BY DEF Order
<1>2. \A u \in E : b[u] \in T
  OBVIOUS
<1> HIDE DEF T
<1>3. ss \in Seq(T) /\ Len(ss) = m
  BY <1>1, <1>2
<1>4. \A k \in 1..m : ss[k] = b[order[k]]
  OBVIOUS
<1> HIDE DEF ss
<1>5. f \in Seq(Nat) /\ \E off : Laid(off, ss, f)
  BY <1>3, FlattenAt DEF T
<1>6. PICK off : Laid(off, ss, f)
  BY <1>5
<1> HIDE DEF f
<1>7. \A u \in E : Len(b[u]) \in Nat /\ DOMAIN b[u] = 1..Len(b[u])
  OBVIOUS
<1>8. \A k \in 1..m : Len(ss[k]) \in Nat /\ DOMAIN b[order[k]] = 1..Len(ss[k])
  <2> SUFFICES ASSUME NEW k \in 1..m
               PROVE  Len(ss[k]) \in Nat /\ DOMAIN b[order[k]] = 1..Len(ss[k])
    OBVIOUS
  <2>1. order[k] \in E /\ ss[k] = b[order[k]]
    BY <1>1, <1>4
  <2> QED
    BY <1>7, <2>1
<1>9. /\ \A k \in 1..m : off[k - 1] \in Nat
      /\ \A k \in 1..m : off[k] = off[k - 1] + Len(ss[k]) /\ off[k] <= Len(f)
  <2>1. \A k \in 1..m : k - 1 \in 0..m
    BY <1>1
  <2> QED
    BY <1>3, <1>6, <2>1 DEF Laid
<1>10. \A k \in 1..m : \A p \in DOMAIN b[order[k]] :
        /\ off[k - 1] + p \in 1..Len(f) /\ f[off[k - 1] + p] = b[order[k]][p]
  <2> SUFFICES ASSUME NEW k \in 1..m, NEW p \in DOMAIN b[order[k]]
               PROVE  /\ off[k - 1] + p \in 1..Len(f) /\ f[off[k - 1] + p] = b[order[k]][p]
    OBVIOUS
  <2> DEFINE lk == Len(ss[k])
             o == off[k - 1]
  <2>1. lk \in Nat /\ p \in 1..lk
    BY <1>8
  <2>2. f[o + p] = ss[k][p]
    BY <1>3, <1>6, <2>1 DEF Laid
  <2>3. o \in Nat /\ o + lk <= Len(f) /\ Len(f) \in Nat
    BY <1>5, <1>9
  <2> HIDE DEF lk, o
  <2>4. o + p \in 1..Len(f)
    BY <2>1, <2>3
  <2> QED
    BY <1>4, <2>2, <2>4 DEF o
<1>11. \A i \in 1..Len(f) : \E k \in 1..m : \E p \in DOMAIN b[order[k]] : i = off[k - 1] + p
  <2>1. \A i \in 1..Len(f) : \E k \in 1..m : \E p \in 1..Len(ss[k]) : i = off[k - 1] + p
    BY <1>3, <1>6 DEF Laid
  <2> QED
    BY <1>8, <2>1
<1>12. len \in Nat /\ Len(f) \in Nat /\ DOMAIN w = 1..len
  BY <1>5
<1>13. /\ DOMAIN z = 1..(len + Len(f))
       /\ \A i \in 1..(len + Len(f)) : z[i] = IF i <= len THEN w[i] ELSE f[i - len]
  <2> DEFINE y == w \o f
  <2>1. /\ y \in Seq(Nat) /\ Len(y) = len + Len(f)
        /\ \A i \in 1..(len + Len(f)) : y[i] = IF i <= len THEN w[i] ELSE f[i - len]
    BY <1>5, ConcatProperties
  <2>2. z = y
    BY DEF Cat
  <2> HIDE DEF y, z
  <2> QED
    BY <2>1, <2>2
<1> HIDE DEF z, len
<1>14. \A i \in DOMAIN w : i \in DOMAIN z /\ z[i] = w[i]
  BY <1>12, <1>13
<1>15. ASSUME NEW i \in DOMAIN z, i \notin DOMAIN w
       PROVE  \E k \in 1..m : \E p \in DOMAIN b[order[k]] :
                i = len + (off[k - 1] + p) /\ z[i] = b[order[k]][p]
  <2>1. i - len \in 1..Len(f) /\ i = len + (i - len) /\ ~(i <= len)
    BY <1>12, <1>13, <1>15
  <2>2. PICK k \in 1..m : \E p \in DOMAIN b[order[k]] : i - len = off[k - 1] + p
    BY <1>11, <2>1
  <2>3. PICK p \in DOMAIN b[order[k]] : i - len = off[k - 1] + p
    BY <2>2
  <2>4. z[i] = f[i - len]
    BY <1>13, <2>1
  <2>5. z[i] = b[order[k]][p]
    BY <1>10, <2>3, <2>4
  <2> QED
    BY <2>1, <2>3, <2>5
<1>16. ASSUME NEW i \in DOMAIN z, i \notin DOMAIN w
       PROVE  \E u \in E : \E p \in DOMAIN b[u] : z[i] = b[u][p]
  BY <1>1, <1>15, <1>16
<1>17. ASSUME NEW i \in DOMAIN z, NEW j \in DOMAIN z, i < j, i \notin DOMAIN w
       PROVE  /\ j \notin DOMAIN w
              /\ \E u, v \in E : \E p \in DOMAIN b[u], q \in DOMAIN b[v] :
                   z[i] = b[u][p] /\ z[j] = b[v][q] /\ (u = v => p < q)
  <2>1. j \notin DOMAIN w
    BY <1>12, <1>13, <1>17
  <2>2. PICK k \in 1..m : \E p \in DOMAIN b[order[k]] :
          i = len + (off[k - 1] + p) /\ z[i] = b[order[k]][p]
    BY <1>15, <1>17
  <2>3. PICK p \in DOMAIN b[order[k]] : i = len + (off[k - 1] + p) /\ z[i] = b[order[k]][p]
    BY <2>2
  <2>4. PICK h \in 1..m : \E q \in DOMAIN b[order[h]] :
          j = len + (off[h - 1] + q) /\ z[j] = b[order[h]][q]
    BY <1>15, <2>1
  <2>5. PICK q \in DOMAIN b[order[h]] : j = len + (off[h - 1] + q) /\ z[j] = b[order[h]][q]
    BY <2>4
  <2>6. order[k] \in E /\ order[h] \in E
    BY <1>1
  <2>7. ASSUME order[k] = order[h] PROVE p < q
    <3>1. k = h
      BY <1>1, <2>7
    <3> DEFINE o == off[k - 1]
    <3>2. o \in Nat /\ p \in Nat /\ q \in Nat
      <4>1. \A u \in E : \A r \in DOMAIN b[u] : r \in Nat
        BY <1>7
      <4> QED
        BY <1>9, <2>6, <4>1
    <3>3. len + (o + p) < len + (o + q)
      BY <1>17, <2>3, <2>5, <3>1
    <3> HIDE DEF o
    <3> QED
      BY <1>12, <3>2, <3>3
  <2> QED
    BY <2>1, <2>3, <2>5, <2>6, <2>7
<1>18. ASSUME NEW u \in E, NEW p \in DOMAIN b[u]
       PROVE  \E i \in DOMAIN z : z[i] = b[u][p]
  <2>1. PICK k \in 1..m : order[k] = u
    BY <1>1
  <2> DEFINE o == off[k - 1] + p
  <2>2. o \in 1..Len(f) /\ f[o] = b[u][p]
    BY <1>10, <2>1
  <2> HIDE DEF o
  <2>3. len + o \in 1..(len + Len(f)) /\ ~(len + o <= len) /\ (len + o) - len = o
    BY <1>12, <2>2
  <2>4. z[len + o] = f[o]
    BY <1>13, <2>3
  <2> QED
    BY <1>13, <2>2, <2>3, <2>4
<1>19. Gathered(z, w, b, E)
  BY <1>14, <1>16, <1>17, <1>18 DEF Gathered
<1> QED
  BY <1>5, <1>19 DEF f, z, ss

(* Update moves the text of the threads of E from their buffers of a logger to its output. *)
Updated(w, w2, b, b2, l, E) ==
  /\ Gathered(w2[l], w[l], b[l], E)
  /\ \A k \in Loggers \ {l} : w2[k] = w[k]
  /\ \A k \in Loggers, u \in Producers :
       b2[k][u] = IF k = l /\ u \in E THEN <<>> ELSE b[k][u]

(* Then, too, the text is still in order, in one place and present. *)
LEMMA PlacedUpdated ==
  ASSUME NEW w, NEW w2, NEW b, NEW b2, NEW x, NEW n \in Nat \ {0}, NEW a, NEW d, NEW c,
         NEW l \in Loggers, NEW E \in SUBSET Producers,
         Placed(w, b, x, n, a, d, c), Updated(w, w2, b, b2, l, E)
  PROVE  Placed(w2, b2, x, n, a, d, c)
<1>0. /\ Gathered(w2[l], w[l], b[l], E)
      /\ \A k \in Loggers \ {l} : w2[k] = w[k]
      /\ \A k \in Loggers, u \in Producers :
           b2[k][u] = IF k = l /\ u \in E THEN <<>> ELSE b[k][u]
  BY DEF Updated
<1> USE <1>0
<1> DEFINE z == w2[l]
           y == w[l]
           e == b[l]
<1>1. Authored(w, b, x, n, a) /\ Rising(w, b, x, a) /\ Apart(w, b) /\ Present(w, b, x, n, d, c)
  BY DEF Placed
<1>2. /\ \A i \in DOMAIN y : i \in DOMAIN z /\ z[i] = y[i]
      /\ \A i \in DOMAIN z :
           i \in DOMAIN y \/ \E u \in E : \E p \in DOMAIN e[u] : z[i] = e[u][p]
      /\ \A i, j \in DOMAIN z :
           i < j /\ i \notin DOMAIN y =>
             /\ j \notin DOMAIN y
             /\ \E u, v \in E : \E p \in DOMAIN e[u], q \in DOMAIN e[v] :
                  z[i] = e[u][p] /\ z[j] = e[v][q] /\ (u = v => p < q)
      /\ \A u \in E : \A p \in DOMAIN e[u] : \E i \in DOMAIN z : z[i] = e[u][p]
  BY DEF Gathered
<1>3. \A k \in Loggers, u \in Producers : \A i \in DOMAIN b2[k][u] :
        /\ ~(k = l /\ u \in E)
        /\ i \in DOMAIN b[k][u] /\ b2[k][u][i] = b[k][u][i]
  <2> SUFFICES ASSUME NEW k \in Loggers, NEW u \in Producers, NEW i \in DOMAIN b2[k][u]
               PROVE  /\ ~(k = l /\ u \in E)
                      /\ i \in DOMAIN b[k][u] /\ b2[k][u][i] = b[k][u][i]
    OBVIOUS
  <2>1. DOMAIN <<>> = {}
    OBVIOUS
  <2>2. ~(k = l /\ u \in E)
    BY <2>1
  <2> QED
    BY <2>2
<1> HIDE DEF z, y, e
<1>4. /\ \A i \in DOMAIN y : y[i] \in 1..(n - 1)
      /\ \A u \in Producers : \A p \in DOMAIN e[u] : e[u][p] \in 1..(n - 1) /\ a[e[u][p]] = u
  BY <1>1 DEF Authored, y, e
<1>5. \A u \in E : u \in Producers
  OBVIOUS
<1>6. Authored(w2, b2, x, n, a)
  <2>1. ASSUME NEW k \in Loggers, NEW i \in DOMAIN w2[k] PROVE w2[k][i] \in 1..(n - 1)
    <3>1. CASE k = l
      <4>1. z[i] \in 1..(n - 1)
        BY <1>2, <1>4, <1>5, <3>1 DEF z
      <4> QED
        BY <3>1, <4>1 DEF z
    <3>2. CASE k # l
      BY <1>1, <3>2 DEF Authored
    <3> QED
      BY <3>1, <3>2
  <2>2. \A k \in Loggers, u \in Producers : \A i \in DOMAIN b2[k][u] :
          b2[k][u][i] \in 1..(n - 1) /\ a[b2[k][u][i]] = u
    BY <1>1, <1>3 DEF Authored
  <2> QED
    BY <1>1, <2>1, <2>2 DEF Authored
<1>7. /\ \A i, j \in DOMAIN y : i < j /\ a[y[i]] = a[y[j]] => y[i] < y[j]
      /\ \A u \in Producers : \A i, j \in DOMAIN e[u] : i < j => e[u][i] < e[u][j]
      /\ \A u \in Producers : \A i \in DOMAIN y, j \in DOMAIN e[u] :
           a[y[i]] = u => y[i] < e[u][j]
      /\ \A u \in Producers : \A i \in DOMAIN y, j \in DOMAIN x[u] :
           a[y[i]] = u => y[i] < x[u][j]
      /\ \A u \in Producers : \A i \in DOMAIN e[u], j \in DOMAIN x[u] : e[u][i] < x[u][j]
  BY <1>1 DEF Rising, y, e
<1>8. ASSUME NEW i \in DOMAIN z, NEW j \in DOMAIN z, i < j, a[z[i]] = a[z[j]]
      PROVE  z[i] < z[j]
  <2>1. CASE i \in DOMAIN y /\ j \in DOMAIN y
    BY <1>2, <1>7, <1>8, <2>1
  <2>2. CASE i \in DOMAIN y /\ j \notin DOMAIN y
    <3>1. PICK u \in E : \E p \in DOMAIN e[u] : z[j] = e[u][p]
      BY <1>2, <2>2
    <3>2. PICK p \in DOMAIN e[u] : z[j] = e[u][p]
      BY <3>1
    <3>3. z[i] = y[i] /\ a[y[i]] = u
      BY <1>2, <1>4, <1>8, <2>2, <3>2
    <3> QED
      BY <1>7, <2>2, <3>2, <3>3
  <2>3. CASE i \notin DOMAIN y
    <3>1. PICK u \in E, v \in E : \E p \in DOMAIN e[u], q \in DOMAIN e[v] :
            z[i] = e[u][p] /\ z[j] = e[v][q] /\ (u = v => p < q)
      BY <1>2, <1>8, <2>3
    <3>2. PICK p \in DOMAIN e[u], q \in DOMAIN e[v] :
            z[i] = e[u][p] /\ z[j] = e[v][q] /\ (u = v => p < q)
      BY <3>1
    <3>3. u = v
      BY <1>4, <1>8, <3>2
    <3> QED
      BY <1>7, <3>2, <3>3
  <2> QED
    BY <2>1, <2>2, <2>3
<1>9. Rising(w2, b2, x, a)
  <2>1. ASSUME NEW k \in Loggers, NEW i \in DOMAIN w2[k], NEW j \in DOMAIN w2[k], i < j,
               a[w2[k][i]] = a[w2[k][j]]
        PROVE  w2[k][i] < w2[k][j]
    <3>1. CASE k = l
      BY <1>8, <2>1, <3>1 DEF z
    <3>2. CASE k # l
      BY <1>1, <2>1, <3>2 DEF Rising
    <3> QED
      BY <3>1, <3>2
  <2>2. \A k \in Loggers, u \in Producers : \A i, j \in DOMAIN b2[k][u] :
          i < j => b2[k][u][i] < b2[k][u][j]
    BY <1>1, <1>3 DEF Rising
  <2>3. \A u \in Producers : \A i, j \in DOMAIN x[u] : i < j => x[u][i] < x[u][j]
    BY <1>1 DEF Rising
  <2>4. ASSUME NEW k \in Loggers, NEW u \in Producers, NEW i \in DOMAIN w2[k],
               NEW j \in DOMAIN b2[k][u], a[w2[k][i]] = u
        PROVE  w2[k][i] < b2[k][u][j]
    <3>1. CASE k # l
      BY <1>1, <1>3, <2>4, <3>1 DEF Rising
    <3>2. CASE k = l
      <4>1. /\ i \in DOMAIN z /\ w2[k][i] = z[i]
            /\ u \notin E /\ j \in DOMAIN e[u] /\ b2[k][u][j] = e[u][j]
        BY <1>3, <3>2 DEF z, e
      <4>2. CASE i \in DOMAIN y
        BY <1>2, <1>7, <2>4, <4>1, <4>2
      <4>3. CASE i \notin DOMAIN y
        <5>1. PICK v \in E : \E p \in DOMAIN e[v] : z[i] = e[v][p]
          BY <1>2, <4>1, <4>3
        <5>2. v = u
          BY <1>4, <2>4, <4>1, <5>1
        <5> QED
          BY <4>1, <5>2
      <4> QED
        BY <4>2, <4>3
    <3> QED
      BY <3>1, <3>2
  <2>5. ASSUME NEW k \in Loggers, NEW u \in Producers, NEW i \in DOMAIN w2[k],
               NEW j \in DOMAIN x[u], a[w2[k][i]] = u
        PROVE  w2[k][i] < x[u][j]
    <3>1. CASE k # l
      BY <1>1, <2>5, <3>1 DEF Rising
    <3>2. CASE k = l
      <4>1. i \in DOMAIN z /\ w2[k][i] = z[i]
        BY <3>2 DEF z
      <4>2. CASE i \in DOMAIN y
        BY <1>2, <1>7, <2>5, <4>1, <4>2
      <4>3. CASE i \notin DOMAIN y
        <5>1. PICK v \in E : \E p \in DOMAIN e[v] : z[i] = e[v][p]
          BY <1>2, <4>1, <4>3
        <5>2. v = u
          BY <1>4, <2>5, <4>1, <5>1
        <5> QED
          BY <1>7, <4>1, <5>1, <5>2
      <4> QED
        BY <4>2, <4>3
    <3> QED
      BY <3>1, <3>2
  <2>6. \A k \in Loggers, u \in Producers : \A i \in DOMAIN b2[k][u], j \in DOMAIN x[u] :
          b2[k][u][i] < x[u][j]
    BY <1>1, <1>3 DEF Rising
  <2> QED
    BY <2>1, <2>2, <2>3, <2>4, <2>5, <2>6 DEF Rising
<1>10. ASSUME NEW k \in Loggers PROVE In(w2, b2, k) = In(w, b, k)
  <2>1. CASE k # l
    BY <2>1 DEF In
  <2>2. CASE k = l
    <3>1. ASSUME NEW m \in In(w2, b2, l) PROVE m \in In(w, b, l)
      <4>1. CASE \E i \in DOMAIN z : m = z[i]
        <5>1. PICK i \in DOMAIN z : m = z[i]
          BY <4>1
        <5>2. CASE i \in DOMAIN y
          BY <1>2, <5>1, <5>2 DEF In, y
        <5>3. CASE \E u \in E : \E p \in DOMAIN e[u] : z[i] = e[u][p]
          BY <5>1, <5>3 DEF In, e
        <5> QED
          BY <1>2, <5>2, <5>3
      <4>2. CASE \E u \in Producers : \E i \in DOMAIN b2[l][u] : m = b2[l][u][i]
        BY <1>3, <4>2 DEF In
      <4> QED
        BY <4>1, <4>2 DEF In, z
    <3>2. ASSUME NEW m \in In(w, b, l) PROVE m \in In(w2, b2, l)
      <4>1. CASE \E i \in DOMAIN y : m = y[i]
        <5>1. \E i \in DOMAIN z : m = z[i]
          BY <1>2, <4>1
        <5> QED
          BY <5>1 DEF In, z
      <4>2. CASE \E u \in E : \E i \in DOMAIN e[u] : m = e[u][i]
        <5>1. \E i \in DOMAIN z : m = z[i]
          BY <1>2, <4>2
        <5> QED
          BY <5>1 DEF In, z
      <4>3. CASE \E u \in Producers \ E : \E i \in DOMAIN e[u] : m = e[u][i]
        BY <4>3 DEF In, e
      <4> QED
        BY <4>1, <4>2, <4>3 DEF In, y, e
    <3>3. In(w2, b2, l) = In(w, b, l)
      BY <3>1, <3>2
    <3> QED
      BY <2>2, <3>3
  <2> QED
    BY <2>1, <2>2
<1>11. Apart(w2, b2)
  BY <1>1, <1>10 DEF Apart
<1>12. Present(w2, b2, x, n, d, c)
  BY <1>1, <1>10 DEF Present
<1> QED
  BY <1>6, <1>9, <1>11, <1>12 DEF Placed

-----------------------------------------------------------------------------
(* The text that is written and in buffers. *)
LEMMA BufferedText ==
  ASSUME NEW l \in Loggers, NEW t \in Producers
  PROVE  Buffered(l, t) = Stored(Data(l, t))
<1>1. Stored(<<>>) = <<>>
  BY FramedNone, TextNone DEF Stored
<1> QED
  BY <1>1 DEF Buffered, Stored, Data

(* The text in a buffer is a sequence of pieces. *)
LEMMA StoredType == ASSUME NEW d, Framed(d) PROVE Stored(d) \in Seq(Nat)
BY FramedFacts, TextType DEF Stored

(* So is what is written and what is being composed. *)
LEMMA TextShaped ==
  ASSUME IInv, TextInv
  PROVE  Shaped(AllWritten, AllBuffered, text)
<1>1. \A l \in Loggers : AllWritten[l] \in Seq(Nat)
  <2>1. \A l \in Loggers : out[l] \in Seq(Lines)
    BY DEF TextInv, Composing
  <2>2. \A l \in Loggers : Written(l) \in Seq(Nat)
    BY <2>1, TextType DEF Written
  <2> QED
    BY <2>2 DEF AllWritten
<1>2. \A l \in Loggers, t \in Producers : AllBuffered[l][t] \in Seq(Nat)
  <2>1. \A l \in Loggers, t \in Producers : Stored(Data(l, t)) \in Seq(Nat)
    BY StoredType DEF TextInv, AllFramed
  <2> QED
    BY <2>1 DEF AllBuffered
<1>3. \A t \in Producers : text[t] \in Seq(Nat)
  BY DEF IInv, Types
<1> QED
  BY <1>1, <1>2, <1>3 DEF Shaped

(* The lines of the other threads. *)
LEMMA OthersSettled ==
  ASSUME Composing, NEW t \in Producers, Settled(t)',
         console \subseteq console', dropped \subseteq dropped',
         \A u \in Producers \ {t} :
           pc'[u] = pc[u] /\ curLevel'[u] = curLevel[u] /\ text'[u] = text[u]
  PROVE  \A u \in Producers : Settled(u)'
<1> SUFFICES ASSUME NEW u \in Producers, u # t PROVE Settled(u)'
  OBVIOUS
<1>1. Settled(u)
  BY DEF Composing
<1>2. pc'[u] = pc[u] /\ curLevel'[u] = curLevel[u] /\ text'[u] = text[u]
  OBVIOUS
<1> QED
  BY <1>1, <1>2 DEF Settled

(* A step that moves no text. *)
LEMMA Quiet ==
  ASSUME TextInv, UNCHANGED <<out, text, next, author>>,
         console \subseteq console', dropped \subseteq dropped',
         \A k \in Loggers, u \in Producers : Data(k, u)' = Data(k, u),
         curLevel' \in [Producers -> Levels \cup {0}],
         \A t \in Producers : Settled(t)'
  PROVE  TextInv'
<1>1. AllWritten' = AllWritten
  BY DEF AllWritten, Written
<1>2. AllBuffered' = AllBuffered
  BY DEF AllBuffered
<1>3. AllFramed'
  BY DEF TextInv, AllFramed
<1>4. Composing'
  BY DEF TextInv, Composing
<1>5. Placed(AllWritten, AllBuffered, text, next, author, dropped', console')
  BY PlacedPrinted DEF TextInv
<1>6. Placed(AllWritten', AllBuffered', text', next', author', dropped', console')
  BY <1>1, <1>2, <1>5
<1> QED
  BY <1>3, <1>4, <1>6 DEF TextInv

(* A line whose text was printed or refused is thrown away. *)
LEMMA ResetText ==
  ASSUME IInv, TextInv, NEW t \in Producers, pc[t] = "idle", Reset(t),
         UNCHANGED <<out, buffers, console, pc, next, author, dropped>>
  PROVE  TextInv'
<1>1. text'[t] = <<>> /\ \A u \in Producers \ {t} : text'[u] = text[u]
  BY ResetType DEF IInv
<1>2. /\ curLevel' \in [Producers -> Levels \cup {0}]
      /\ \A u \in Producers \ {t} : curLevel'[u] = curLevel[u]
  BY DEF Reset, TextInv, Composing
<1>3. Composing'
  <2>1. Settled(t)'
    BY <1>1 DEF Settled
  <2>2. \A u \in Producers : Settled(u)'
    BY <1>1, <1>2, <2>1, OthersSettled DEF TextInv
  <2> QED
    BY <1>2, <2>2 DEF TextInv, Composing
<1>4. AllWritten' = AllWritten /\ AllBuffered' = AllBuffered /\ AllFramed'
  BY DEF AllWritten, Written, AllBuffered, Data, TextInv, AllFramed
<1>5. \A i \in DOMAIN text[t] : text[t][i] \in console \cup dropped
  BY DEF TextInv, Composing, Settled
<1>6. Placed(AllWritten, AllBuffered, text', next, author, dropped, console)
  BY <1>1, <1>5, PlacedReset DEF TextInv
<1> QED
  BY <1>3, <1>4, <1>6 DEF TextInv

(* A new piece: its author, and where the rest stays. *)
LEMMA PieceEffect ==
  ASSUME TextInv, NEW t \in Producers, NewPiece(t), UNCHANGED out,
         \A k \in Loggers, u \in Producers : Data(k, u)' = Data(k, u)
  PROVE  /\ next \in Nat \ {0} /\ next' = next + 1 /\ next' \in Nat \ {0}
         /\ author' \in Seq(Producers) /\ Len(author') = next' - 1
         /\ author'[next] = t
         /\ \A m \in 1..(next - 1) : author'[m] = author[m]
         /\ AllWritten' = AllWritten /\ AllBuffered' = AllBuffered /\ AllFramed'
<1>1. next \in Nat \ {0} /\ author \in Seq(Producers) /\ Len(author) = next - 1
  BY DEF TextInv, Composing
<1>2. author' = Append(author, t) /\ next' = next + 1
  BY DEF NewPiece
<1>3. /\ author' \in Seq(Producers) /\ Len(author') = next' - 1 /\ next' \in Nat \ {0}
      /\ author'[next] = t
      /\ \A m \in 1..(next - 1) : author'[m] = author[m]
  BY <1>1, <1>2
<1>4. AllWritten' = AllWritten /\ AllBuffered' = AllBuffered /\ AllFramed'
  BY DEF AllWritten, Written, AllBuffered, TextInv, AllFramed
<1> QED
  BY <1>1, <1>2, <1>3, <1>4

(* A piece at the end of a line: of operator<<, or the thread ID. *)
LEMMA AppendText ==
  ASSUME IInv, TextInv, NEW t \in Producers, NewPiece(t),
         text' = [text EXCEPT ![t] = Append(@, next)], curLevel[t] # 0,
         UNCHANGED <<out, curLevel, dropped>>, console \subseteq console',
         \A k \in Loggers, u \in Producers : Data(k, u)' = Data(k, u),
         \A u \in Producers \ {t} : pc'[u] = pc[u],
         pc'[t] \notin {"release", "busy"},
         pc'[t] = "idle" => \A i \in DOMAIN text'[t] : text'[t][i] \in console'
  PROVE  TextInv'
<1>1. /\ text'[t] = Append(text[t], next) /\ text'[t] # <<>>
      /\ \A u \in Producers \ {t} : text'[u] = text[u]
  BY PieceType DEF IInv
<1>2. Composing'
  <2>1. Settled(t)'
    BY <1>1 DEF Settled
  <2>2. \A u \in Producers : Settled(u)'
    BY <1>1, <2>1, OthersSettled DEF TextInv
  <2> QED
    BY <2>2, PieceEffect DEF TextInv, Composing
<1>3. Placed(AllWritten, AllBuffered, text', next + 1, author', dropped, console)
  <2>1. Placed(AllWritten, AllBuffered, text, next, author, dropped, console)
    BY DEF TextInv
  <2> QED
    BY <1>1, <2>1, PieceEffect, TextShaped, PlacedComposed
<1>4. Placed(AllWritten, AllBuffered, text', next + 1, author', dropped, console')
  BY <1>3, PlacedPrinted
<1> QED
  BY <1>2, <1>4, PieceEffect DEF TextInv

(* operator<<. *)
LEMMA ComposeText ==
  ASSUME IInv, TextInv, NEW t \in Producers, Compose(t)
  PROVE  TextInv'
<1>1. UNCHANGED <<out, pc, curLevel, buffers, console>> /\ NewPiece(t) /\ pc[t] = "compose"
  BY DEF Compose, loggers, At
<1>2. \A k \in Loggers, u \in Producers : Data(k, u)' = Data(k, u)
  BY <1>1 DEF Data
<1>3. CASE /\ ~Forbidden(curLevel[t])
           /\ text' = [text EXCEPT ![t] = Append(@, next)] /\ UNCHANGED dropped
  <2>1. curLevel[t] # 0
    BY <1>3, ConstantsOK DEF Forbidden
  <2> QED
    BY <1>1, <1>2, <1>3, <2>1, AppendText
<1>4. CASE dropped' = dropped \cup {next} /\ UNCHANGED text
  <2>1. Composing'
    <3>1. Settled(t)
      BY DEF TextInv, Composing
    <3>2. Settled(t)'
      BY <1>1, <1>4, <3>1 DEF Settled
    <3>3. \A u \in Producers : Settled(u)'
      BY <1>1, <1>4, <3>2, OthersSettled DEF TextInv
    <3> QED
      BY <1>1, <1>2, <3>3, PieceEffect DEF TextInv, Composing
  <2>2. Placed(AllWritten, AllBuffered, text, next + 1, author', dropped \cup {next}, console)
    <3>1. Placed(AllWritten, AllBuffered, text, next, author, dropped, console)
      BY DEF TextInv
    <3> QED
      BY <1>1, <1>2, <3>1, PieceEffect, PlacedDropped
  <2> QED
    BY <1>1, <1>2, <1>4, <2>1, <2>2, PieceEffect DEF TextInv
<1> QED
  BY <1>3, <1>4 DEF Compose

(* Flush with its line in hand. *)
LEMMA PushText ==
  ASSUME IInv, TextInv, NEW t \in Producers, FlushPush(t)
  PROVE  TextInv'
<1>1. /\ pc[t] = "push" /\ Reset(t) /\ pc' = [pc EXCEPT ![t] = "release"]
      /\ UNCHANGED <<out, console, next, author, dropped>>
  BY DEF FlushPush, At, ghost
<1>2. PICK l \in Loggers : l = Stmt(t).log
  BY <1>1, StmtType DEF IInv
<1> DEFINE x == LineOf(t)
<1>3. x \in FullLines /\ x.text = text[t]
  <2>1. text[t] # <<>> /\ text[t] \in Seq(Nat) /\ Stmt(t).level \in Nat
    BY <1>1, StmtType, ConstantsOK DEF TextInv, Composing, Settled, IInv, Types
  <2> QED
    BY <2>1 DEF LineOf, FullLines, Lines
<1>4. /\ Data(l, t)' = Data(l, t) \o <<x.level, Len(x.text)>> \o x.text
      /\ \A k \in Loggers, u \in Producers :
           k # l \/ u # t => Data(k, u)' = Data(k, u)
  BY <1>2, PushData
<1> HIDE DEF x
<1>5. /\ Framed(Data(l, t)) /\ Framed(Data(l, t)')
      /\ Log(Data(l, t)') = Append(Log(Data(l, t)), x)
  <2> DEFINE d == Data(l, t)
  <2>1. Framed(d)
    BY DEF TextInv, AllFramed
  <2> HIDE DEF d
  <2>2. Framed(d \o <<x.level, Len(x.text)>> \o x.text)
        /\ Log(d \o <<x.level, Len(x.text)>> \o x.text) = Append(Log(d), x)
    BY <1>3, <2>1, FramedPush
  <2> QED
    BY <1>4, <2>1, <2>2 DEF d
<1>6. AllFramed'
  BY <1>4, <1>5 DEF TextInv, AllFramed
<1>7. Stored(Data(l, t)') = Cat(Stored(Data(l, t)), text[t])
  <2> DEFINE lines == Log(Data(l, t))
             one == <<x>>
  <2>1. lines \in Seq(Lines) /\ x \in Lines
    BY <1>3, <1>5, FramedFacts DEF FullLines
  <2>2. Text(one) = text[t]
    <3>1. x.text \in Seq(Nat)
      BY <2>1 DEF Lines
    <3>2. [i \in DOMAIN one |-> one[i].text] = <<x.text>>
      BY <2>1
    <3>3. FlattenSeq(<<x.text>>) = x.text
      <4>1. /\ <<>> \in Seq(Seq(Nat)) /\ Append(<<>>, x.text) = <<x.text>>
            /\ <<>> \o x.text = x.text
        BY <3>1
      <4>2. FlattenSeq(Append(<<>>, x.text)) = FlattenSeq(<<>>) \o x.text
        BY <3>1, <4>1, FlattenLast
      <4> QED
        BY <4>1, <4>2, FlattenNone
    <3> QED
      BY <1>3, <3>2, <3>3 DEF Text
  <2>3. Append(lines, x) = lines \o one /\ one \in Seq(Lines)
    BY <2>1
  <2> HIDE DEF one, lines
  <2>4. Text(lines \o one) = Cat(Text(lines), Text(one))
    BY <2>1, <2>3, TextConcat
  <2> QED
    BY <1>5, <2>2, <2>3, <2>4 DEF Stored, lines
<1>8. /\ text \in [Producers -> Seq(Nat)] /\ curLevel \in [Producers -> Levels \cup {0}]
      /\ next \in Nat \ {0}
  BY DEF IInv, Types, TextInv, Composing
<1>9. text'[t] = <<>> /\ \A u \in Producers \ {t} : text'[u] = text[u]
  BY <1>1, <1>8 DEF Reset
<1>10. Composing'
  <2>1. curLevel' \in [Producers -> Levels \cup {0}]
        /\ \A u \in Producers \ {t} : curLevel'[u] = curLevel[u]
    BY <1>1, <1>8 DEF Reset
  <2>2. pc'[t] = "release" /\ \A u \in Producers \ {t} : pc'[u] = pc[u]
    BY <1>1 DEF IInv, Types
  <2>3. Settled(t)'
    BY <1>9, <2>2 DEF Settled
  <2>4. \A u \in Producers : Settled(u)'
    BY <1>1, <1>9, <2>1, <2>2, <2>3, OthersSettled DEF TextInv
  <2> QED
    BY <1>1, <2>1, <2>4 DEF TextInv, Composing
<1>11. AllWritten' = AllWritten
  BY <1>1 DEF AllWritten, Written
<1>12. /\ AllBuffered'[l][t] = Cat(AllBuffered[l][t], text[t])
       /\ \A k \in Loggers, u \in Producers :
            k # l \/ u # t => AllBuffered'[k][u] = AllBuffered[k][u]
  <2>1. \A k \in Loggers, u \in Producers : AllBuffered[k][u] = Stored(Data(k, u))
    BY DEF AllBuffered
  <2>2. \A k \in Loggers, u \in Producers : AllBuffered'[k][u] = Stored(Data(k, u)')
    BY DEF AllBuffered, Stored
  <2>3. AllBuffered'[l][t] = Cat(AllBuffered[l][t], text[t])
    BY <1>7, <2>1, <2>2
  <2>4. ASSUME NEW k \in Loggers, NEW u \in Producers, k # l \/ u # t
        PROVE  AllBuffered'[k][u] = AllBuffered[k][u]
    <3>1. Data(k, u)' = Data(k, u)
      BY <1>4, <2>4
    <3> QED
      BY <2>1, <2>2, <3>1
  <2> QED
    BY <2>3, <2>4
<1>13. Placed(AllWritten, AllBuffered, text, next, author, dropped, console)
  BY DEF TextInv
<1>14. Placed(AllWritten, AllBuffered', text', next, author, dropped, console)
  <2>1. Pushed(AllBuffered, AllBuffered', text, text', l, t)
    BY <1>9, <1>12 DEF Pushed
  <2> QED
    BY <1>8, <1>13, <2>1, TextShaped, PlacedPushed
<1> QED
  BY <1>1, <1>6, <1>10, <1>11, <1>14 DEF TextInv

(* What Update writes. *)
LEMMA UpdateText ==
  ASSUME IInv, TextInv, NEW l \in Loggers, Update(l)
  PROVE  /\ out' \in [Loggers -> Seq(Lines)] /\ \A k \in Loggers \ {l} : out'[k] = out[k]
         /\ Gathered(Written(l)', Written(l), AllBuffered[l], DOMAIN buffers[l] \ InUse(l))
<1> DEFINE E == DOMAIN buffers[l] \ InUse(l)
           m == Cardinality(E)
           b == AllBuffered[l]
<1>1. PICK order \in SetToSeqs(E) :
        out' = [out EXCEPT ![l] =
          @ \o FlattenSeq([i \in DOMAIN order |-> Log(buffers[l][order[i]].data)])]
  BY DEF Update
<1>2. E \in SUBSET Producers /\ IsFiniteSet(E)
  <2>1. E \in SUBSET Producers
    BY BufferType DEF IInv
  <2> QED
    BY <2>1, FS_Subset, ConstantsOK
<1>3. \A u \in E : /\ buffers[l][u].data = Data(l, u) /\ b[u] = Stored(Data(l, u))
                   /\ Framed(Data(l, u)) /\ b[u] \in Seq(Nat)
  <2> SUFFICES ASSUME NEW u \in E
               PROVE  /\ buffers[l][u].data = Data(l, u) /\ b[u] = Stored(Data(l, u))
                      /\ Framed(Data(l, u)) /\ b[u] \in Seq(Nat)
    OBVIOUS
  <2>1. u \in Producers /\ buffers[l][u].data = Data(l, u)
    BY <1>2 DEF Data
  <2>2. b[u] = Stored(Data(l, u)) /\ Framed(Data(l, u))
    BY <2>1 DEF AllBuffered, TextInv, AllFramed
  <2> QED
    BY <2>1, <2>2, StoredType
<1> HIDE DEF E, b
<1>4. Order(order, m, E)
  BY <1>2, OrderFacts
<1> HIDE DEF m
<1>5. m \in Nat /\ DOMAIN order = 1..m /\ \A k \in 1..m : order[k] \in E
  BY <1>4 DEF Order
<1> DEFINE lls == [k \in 1..m |-> Log(buffers[l][order[k]].data)]
           U == Seq(Lines)
           more == FlattenSeq(lls)
<1>6. \A k \in 1..m : lls[k] \in U /\ Text(lls[k]) = b[order[k]]
  <2> SUFFICES ASSUME NEW k \in 1..m PROVE lls[k] \in U /\ Text(lls[k]) = b[order[k]]
    OBVIOUS
  <2>1. order[k] \in E /\ lls[k] = Log(buffers[l][order[k]].data)
    BY <1>5
  <2>2. lls[k] = Log(Data(l, order[k])) /\ Framed(Data(l, order[k]))
        /\ b[order[k]] = Stored(Data(l, order[k]))
    BY <1>3, <2>1
  <2> HIDE DEF lls
  <2>3. Log(Data(l, order[k])) \in Seq(Lines)
    BY <2>2, FramedFacts
  <2> QED
    BY <2>2, <2>3 DEF Stored
<1>7. out' = [out EXCEPT ![l] = @ \o more]
  BY <1>1, <1>5
<1>8. lls = [k \in 1..m |-> lls[k]]
  OBVIOUS
<1> HIDE DEF lls
<1>9. lls \in Seq(U) /\ Len(lls) = m
  <2> HIDE DEF U
  <2> QED
    BY <1>5, <1>6, <1>8
<1>10. more \in Seq(Lines)
  BY <1>9, FlattenAt
<1>11. Text(more) = FlattenSeq([k \in 1..m |-> b[order[k]]])
  <2>1. Text(FlattenSeq(lls)) = FlattenSeq([k \in 1..Len(lls) |-> Text(lls[k])])
    BY <1>9, TextFlatten
  <2>2. [k \in 1..Len(lls) |-> Text(lls[k])] = [k \in 1..m |-> b[order[k]]]
    BY <1>6, <1>9
  <2> QED
    BY <2>1, <2>2
<1> HIDE DEF more
<1>12. out \in [Loggers -> Seq(Lines)] /\ out[l] \in Seq(Lines)
  BY DEF TextInv, Composing
<1>13. out[l] \o more \in Seq(Lines)
  BY <1>10, <1>12
<1>14. /\ out' \in [Loggers -> Seq(Lines)] /\ out'[l] = out[l] \o more
       /\ \A k \in Loggers \ {l} : out'[k] = out[k]
  <2> HIDE DEF U
  <2> DEFINE o == out[l] \o more
  <2>1. out' = [out EXCEPT ![l] = o]
    BY <1>7
  <2>2. o \in Seq(Lines)
    BY <1>13
  <2> HIDE DEF o
  <2>3. out' \in [Loggers -> Seq(Lines)] /\ out'[l] = o
        /\ \A k \in Loggers \ {l} : out'[k] = out[k]
    BY <1>12, <2>1, <2>2
  <2> QED
    BY <2>3 DEF o
<1>15. Written(l)' = Cat(Written(l), Text(more))
  <2>1. Text(out[l] \o more) = Cat(Text(out[l]), Text(more))
    BY <1>10, <1>12, TextConcat
  <2> QED
    BY <1>14, <2>1 DEF Written
<1>16. Written(l) \in Seq(Nat)
  BY <1>12, TextType DEF Written
<1>17. Gathered(Cat(Written(l), FlattenSeq([k \in 1..m |-> b[order[k]]])), Written(l), b, E)
  <2> DEFINE w == Written(l)
  <2>1. \A u \in E : b[u] \in Seq(Nat)
    BY <1>3
  <2> HIDE DEF w
  <2> QED
    BY <1>4, <1>16, <2>1, GatherFlat DEF w
<1>18. Gathered(Written(l)', Written(l), b, E)
  BY <1>11, <1>15, <1>17
<1> QED
  BY <1>14, <1>18 DEF E, b

(* Update moves text from buffers to the output. *)
LEMMA UpdatePlaces ==
  ASSUME IInv, TextInv, NEW l \in Loggers, Update(l),
         UNCHANGED <<console, pc, curLevel, text, next, author, dropped>>
  PROVE  TextInv'
<1> DEFINE E == DOMAIN buffers[l] \ InUse(l)
<1>1. /\ out' \in [Loggers -> Seq(Lines)] /\ \A k \in Loggers \ {l} : out'[k] = out[k]
      /\ Gathered(Written(l)', Written(l), AllBuffered[l], E)
  BY UpdateText
<1>2. \A k \in Loggers, u \in Producers :
        Data(k, u)' = IF k = l /\ u \in E THEN <<>> ELSE Data(k, u)
  BY UpdateData DEF IInv
<1>3. E \in SUBSET Producers
  BY BufferType DEF IInv
<1> HIDE DEF E
<1>4. Composing'
  BY <1>1 DEF TextInv, Composing, Settled
<1>5. AllFramed'
  BY <1>2, FramedNone DEF TextInv, AllFramed
<1>6. Stored(<<>>) = <<>>
  BY FramedNone, TextNone DEF Stored
<1>7. \A k \in Loggers, u \in Producers :
        AllBuffered'[k][u] = IF k = l /\ u \in E THEN <<>> ELSE AllBuffered[k][u]
  <2>1. \A k \in Loggers, u \in Producers : AllBuffered[k][u] = Stored(Data(k, u))
    BY DEF AllBuffered
  <2>2. \A k \in Loggers, u \in Producers : AllBuffered'[k][u] = Stored(Data(k, u)')
    BY DEF AllBuffered, Stored
  <2> QED
    BY <1>2, <1>6, <2>1, <2>2
<1>8. /\ Gathered(AllWritten'[l], AllWritten[l], AllBuffered[l], E)
      /\ \A k \in Loggers \ {l} : AllWritten'[k] = AllWritten[k]
  <2>1. /\ AllWritten'[l] = Written(l)' /\ AllWritten[l] = Written(l)
        /\ \A k \in Loggers \ {l} : AllWritten'[k] = AllWritten[k]
    BY <1>1 DEF AllWritten, Written
  <2> QED
    BY <1>1, <2>1
<1>9. Placed(AllWritten, AllBuffered, text, next, author, dropped, console)
  BY DEF TextInv
<1>10. next \in Nat \ {0}
  BY DEF TextInv, Composing
<1>11. Placed(AllWritten', AllBuffered', text, next, author, dropped, console)
  <2>1. Updated(AllWritten, AllWritten', AllBuffered, AllBuffered', l, E)
    BY <1>7, <1>8 DEF Updated
  <2> QED
    BY <1>3, <1>9, <1>10, <2>1, PlacedUpdated
<1> QED
  BY <1>4, <1>5, <1>11 DEF TextInv

(* Every step keeps the invariant of the text. *)
LEMMA TextStep == ASSUME IInv, TextInv, Next PROVE TextInv'
<1> USE DEF loggers, locals, ghost
<1>0. /\ curLevel \in [Producers -> Levels \cup {0}]
      /\ pc \in [Producers -> {"idle", "compose", "push", "release", "busy"}]
      /\ \A t \in Producers : Settled(t)
      /\ text \in [Producers -> Seq(Nat)]
  BY DEF TextInv, Composing, IInv, Types
<1>a. ASSUME UNCHANGED <<out, buffers, console, pc, curLevel, text, next, author, dropped>>
      PROVE  TextInv'
  <2>1. \A k \in Loggers, u \in Producers : Data(k, u)' = Data(k, u)
    BY <1>a DEF Data
  <2>2. \A t \in Producers : Settled(t)'
    BY <1>0, <1>a DEF Settled
  <2> QED
    BY <1>0, <1>a, <2>1, <2>2, Quiet
<1>1. ASSUME Start \/ Stop \/ StopLogs \/ StopJoin PROVE TextInv'
  BY <1>a, <1>1 DEF Start, Stop, StopLogs, StopLock, Shutdown, StopUnlock, StopJoin
<1>2. ASSUME RunWake \/ RunCollect \/ RunLoop \/ RunPass PROVE TextInv'
  BY <1>a, <1>2 DEF RunWake, RunCollect, RunLoop, RunPass
<1>3. ASSUME RunUpdate \/ RunFinal PROVE TextInv'
  <2>1. PICK l \in tmp : Update(l)
    BY <1>3 DEF RunUpdate, RunFinal
  <2>2. l \in Loggers
    BY DEF IInv, Types
  <2>3. UNCHANGED <<console, pc, curLevel, text, next, author, dropped>>
    BY <1>3 DEF RunUpdate, RunFinal
  <2> QED
    BY <2>1, <2>2, <2>3, UpdatePlaces
<1>4. ASSUME NEW t \in Producers, CreateNull(t) \/ \E l \in Loggers : CreateLog(t, l)
      PROVE  TextInv'
  <2>1. /\ pc[t] = "idle" /\ Reset(t)
        /\ UNCHANGED <<out, buffers, console, pc, next, author, dropped>>
    BY <1>4 DEF CreateLog, CreateNull, At
  <2> QED
    BY <2>1, ResetText
<1>5. ASSUME NEW t \in Producers, NEW l \in Loggers, NEW level \in Levels,
             SetCurLevel(t, l, level)
      PROVE  TextInv'
  <2>1. /\ UNCHANGED <<out, buffers, console, text, next, author, dropped>>
        /\ curLevel' = [curLevel EXCEPT ![t] = level] /\ pc' = [pc EXCEPT ![t] = "compose"]
    BY <1>5 DEF SetCurLevel
  <2>2. level # 0
    BY ConstantsOK
  <2>3. /\ curLevel' \in [Producers -> Levels \cup {0}] /\ curLevel'[t] # 0
        /\ pc'[t] = "compose"
        /\ \A u \in Producers \ {t} : curLevel'[u] = curLevel[u] /\ pc'[u] = pc[u]
    BY <1>0, <2>1, <2>2
  <2>4. \A u \in Producers : Settled(u)'
    <3>1. Settled(t)'
      BY <2>3 DEF Settled
    <3> QED
      BY <2>1, <2>3, <3>1, OthersSettled DEF TextInv
  <2>5. \A k \in Loggers, u \in Producers : Data(k, u)' = Data(k, u)
    BY <2>1 DEF Data
  <2> QED
    BY <2>1, <2>3, <2>4, <2>5, Quiet
<1>6. ASSUME NEW t \in Producers, Compose(t) PROVE TextInv'
  BY <1>6, ComposeText
<1>7. ASSUME NEW t \in Producers, pc[t] # "idle", Return(t), UNCHANGED <<curLevel, text>>,
             console \subseteq console', dropped \subseteq dropped',
             \A i \in DOMAIN text[t] : text[t][i] \in console' \cup dropped'
      PROVE  \A u \in Producers : Settled(u)'
  <2>1. /\ pc'[t] \in {"idle", "compose"}
        /\ \A u \in Producers \ {t} : pc'[u] = pc[u]
    BY <1>7, ReturnEffect DEF IInv
  <2>2. Settled(t)'
    BY <1>0, <1>7, <2>1 DEF Settled
  <2> QED
    BY <1>7, <2>1, <2>2, OthersSettled DEF TextInv
<1>8. ASSUME NEW t \in Producers, FlushNothing(t) PROVE TextInv'
  <2>1. /\ pc[t] # "idle" /\ Return(t)
        /\ UNCHANGED <<out, buffers, console, next, author>>
    BY <1>8 DEF FlushNothing, At
  <2>2. \A k \in Loggers, u \in Producers : Data(k, u)' = Data(k, u)
    BY <2>1 DEF Data
  <2>3. ASSUME UNCHANGED <<curLevel, text>>, dropped \subseteq dropped',
               \A i \in DOMAIN text[t] : text[t][i] \in console' \cup dropped'
        PROVE  TextInv'
    <3>1. \A u \in Producers : Settled(u)'
      BY <1>7, <2>1, <2>3
    <3> QED
      BY <1>0, <2>1, <2>2, <2>3, <3>1, Quiet
  <2>4. CASE Forbidden(curLevel[t]) /\ Reset(t) /\ UNCHANGED dropped
    <3>1. curLevel[t] = 0 /\ text[t] = <<>>
      BY <1>0, <2>4 DEF Forbidden, Settled
    <3>2. text' = text /\ curLevel' = curLevel
      BY <1>0, <2>4, <3>1 DEF Reset
    <3>3. DOMAIN text[t] = {}
      BY <3>1
    <3> QED
      BY <2>3, <2>4, <3>2, <3>3
  <2>5. CASE dropped' = dropped \cup ToSet(text[t]) /\ UNCHANGED <<curLevel, text>>
    BY <2>3, <2>5 DEF ToSet
  <2> QED
    BY <1>8, <2>4, <2>5 DEF FlushNothing
<1>9. ASSUME NEW t \in Producers, FlushConsole(t) PROVE TextInv'
  <2>1. /\ pc[t] # "idle" /\ Return(t) /\ NewPiece(t) /\ ~Forbidden(curLevel[t])
        /\ text' = [text EXCEPT ![t] = Append(@, next)]
        /\ console' = console \cup ToSet(text[t]) \cup {next}
        /\ UNCHANGED <<out, buffers, curLevel, dropped>>
    BY <1>9 DEF FlushConsole, AppendTid, HasLine, At
  <2>2. \A k \in Loggers, u \in Producers : Data(k, u)' = Data(k, u)
    BY <2>1 DEF Data
  <2>3. curLevel[t] # 0
    BY <2>1, ConstantsOK DEF Forbidden
  <2>4. /\ pc'[t] \in {"idle", "compose"}
        /\ \A u \in Producers \ {t} : pc'[u] = pc[u]
    BY <2>1, ReturnEffect DEF IInv
  <2>5. \A i \in DOMAIN text'[t] : text'[t][i] \in console'
    <3>1. text[t] \in Seq(Nat) /\ text'[t] = Append(text[t], next)
      BY <1>0, <2>1
    <3>2. \A i \in DOMAIN text'[t] : text'[t][i] = next \/ \E j \in DOMAIN text[t] :
                                                            text'[t][i] = text[t][j]
      BY <3>1
    <3> QED
      BY <2>1, <3>2 DEF ToSet
  <2> QED
    BY <2>1, <2>2, <2>3, <2>4, <2>5, AppendText
<1>10. ASSUME NEW t \in Producers, Flush(t) PROVE TextInv'
  <2>1. /\ pc' = [pc EXCEPT ![t] = "push"] /\ NewPiece(t) /\ ~Forbidden(curLevel[t])
        /\ text' = [text EXCEPT ![t] = Append(@, next)]
        /\ UNCHANGED <<out, console, curLevel, dropped>>
    BY <1>10 DEF Flush, AppendTid, HasLine
  <2>2. \A k \in Loggers, u \in Producers : Data(k, u)' = Data(k, u)
    BY <1>10, FlushData
  <2>3. curLevel[t] # 0
    BY <2>1, ConstantsOK DEF Forbidden
  <2>4. pc'[t] = "push" /\ \A u \in Producers \ {t} : pc'[u] = pc[u]
    BY <1>0, <2>1
  <2> QED
    BY <2>1, <2>2, <2>3, <2>4, AppendText
<1>11. ASSUME NEW t \in Producers, FlushPush(t) PROVE TextInv'
  BY <1>11, PushText
<1>12. ASSUME NEW t \in Producers, FlushRelease(t) PROVE TextInv'
  <2>1. UNCHANGED <<out, console, curLevel, text, next, author, dropped>>
    BY <1>12 DEF FlushRelease
  <2>2. \A u \in Producers : Settled(u)'
    <3>1. pc'[t] # "push" /\ \A u \in Producers \ {t} : pc'[u] = pc[u]
      BY <1>12, ReleaseReturns
    <3>2. text[t] = <<>>
      BY <1>0, <1>12 DEF FlushRelease, At, Settled
    <3>3. Settled(t)'
      BY <2>1, <3>1, <3>2 DEF Settled
    <3> QED
      BY <2>1, <3>1, <3>3, OthersSettled DEF TextInv
  <2>3. \A k \in Loggers, u \in Producers : Data(k, u)' = Data(k, u)
    BY <1>12, ReleaseData
  <2> QED
    BY <1>0, <2>1, <2>2, <2>3, Quiet
<1>13. ASSUME NEW t \in Producers, AddBusyLog(t) PROVE TextInv'
  <2>1. /\ pc[t] # "idle" /\ Return(t)
        /\ UNCHANGED <<out, buffers, console, curLevel, text, next, author, dropped>>
    BY <1>13 DEF AddBusyLog, At
  <2>2. \A u \in Producers : Settled(u)'
    <3>1. text[t] = <<>>
      BY <1>0, <1>13 DEF AddBusyLog, At, Settled
    <3>2. DOMAIN text[t] = {}
      BY <3>1
    <3> QED
      BY <1>7, <2>1, <3>2
  <2>3. \A k \in Loggers, u \in Producers : Data(k, u)' = Data(k, u)
    BY <2>1 DEF Data
  <2> QED
    BY <1>0, <2>1, <2>2, <2>3, Quiet
<1> QED
  BY <1>1, <1>2, <1>3, <1>4, <1>5, <1>6, <1>8, <1>9, <1>10, <1>11, <1>12, <1>13
     DEF Next, Run, Flushing

(* At first there is no text. *)
LEMMA InitText == Init => TextInv
<1> SUFFICES ASSUME Init PROVE TextInv
  OBVIOUS
<1>1. DOMAIN <<>> = {} /\ Len(<<>>) = 0 /\ Stored(<<>>) = <<>>
  BY FramedNone, TextNone DEF Stored
<1>2. \A l \in Loggers, t \in Producers : Data(l, t) = <<>>
  BY <1>1 DEF Init, Data
<1>3. AllFramed
  BY <1>2, FramedNone DEF AllFramed
<1>4. Composing
  <2>1. \A t \in Producers : Settled(t)
    BY <1>1 DEF Init, Settled
  <2> QED
    BY <2>1 DEF Init, Composing
<1>5. /\ \A l \in Loggers : DOMAIN AllWritten[l] = {}
      /\ \A l \in Loggers, t \in Producers : DOMAIN AllBuffered[l][t] = {}
      /\ \A t \in Producers : DOMAIN text[t] = {}
  <2>1. \A l \in Loggers : Written(l) = <<>>
    BY TextNone DEF Init, Written
  <2>2. \A l \in Loggers, t \in Producers : Stored(Data(l, t)) = <<>>
    BY <1>1, <1>2
  <2> QED
    BY <1>1, <2>1, <2>2 DEF Init, AllWritten, AllBuffered
<1> DEFINE w == AllWritten
           b == AllBuffered
           x == text
<1>6. next = 1
  BY DEF Init
<1> HIDE DEF w, b, x
<1>7. /\ \A l \in Loggers : DOMAIN w[l] = {}
      /\ \A l \in Loggers, t \in Producers : DOMAIN b[l][t] = {}
      /\ \A t \in Producers : DOMAIN x[t] = {}
  BY <1>5 DEF w, b, x
<1>8. Authored(w, b, x, next, author)
  BY <1>7 DEF Authored
<1>9. Rising(w, b, x, author)
  BY <1>7 DEF Rising
<1>10. Apart(w, b)
  <2>1. \A l \in Loggers : In(w, b, l) = {}
    BY <1>7 DEF In
  <2> QED
    BY <2>1 DEF Apart
<1>11. Present(w, b, x, next, dropped, console)
  <2>1. 1..(next - 1) = {}
    BY <1>6
  <2> QED
    BY <2>1 DEF Present
<1> QED
  BY <1>3, <1>4, <1>8, <1>9, <1>10, <1>11 DEF TextInv, Placed, w, b, x

(* The invariant of the text holds in every state of every run. *)
THEOREM TextInvariance == Spec => []TextInv
<1>1. IInv /\ TextInv /\ Next => TextInv'
  BY TextStep
<1>2. TextInv /\ UNCHANGED vars => TextInv'
  <2> SUFFICES ASSUME TextInv, UNCHANGED vars PROVE TextInv'
    OBVIOUS
  <2>1. UNCHANGED <<out, buffers, console, pc, curLevel, text, next, author, dropped>>
    BY DEF vars, loggers, locals, ghost
  <2>2. \A k \in Loggers, u \in Producers : Data(k, u)' = Data(k, u)
    BY <2>1 DEF Data
  <2> QED
    BY <2>1, <2>2, Quiet DEF TextInv, Composing, Settled
<1> QED
  BY <1>1, <1>2, InitText, Invariance, PTL DEF Spec

(* Whatever lines threads push while the I/O thread takes buffers away, every buffer holds
   whole frames: _Log finds the lines again and consumes the buffer to its last byte, as
   assert(nWritten == size) demands (FramesWhole). *)
THEOREM FramesStayWhole == Spec => []FramesWhole
<1>1. IInv /\ TextInv => FramesWhole
  <2> SUFFICES ASSUME IInv, TextInv, NEW l \in Loggers, NEW t \in DOMAIN buffers[l]
               PROVE  Frames(Log(buffers[l][t].data)) = buffers[l][t].data
    BY DEF FramesWhole
  <2>1. t \in Producers /\ Data(l, t) = buffers[l][t].data
    BY BufferType DEF IInv, Data
  <2>2. Framed(buffers[l][t].data)
    BY <2>1 DEF TextInv, AllFramed
  <2> QED
    BY <2>2, FramedFacts
<1> QED
  BY <1>1, Invariance, TextInvariance, PTL

(* The lines of one thread reach the output of a logger in the order it logged them, although
   its buffers come and go: what is in its buffer is in order, and later than what the
   logger has written of it (ProgramOrder). *)
THEOREM WrittenInOrder == Spec => []ProgramOrder
<1>1. TextInv => ProgramOrder
  <2> SUFFICES ASSUME TextInv, NEW l \in Loggers
               PROVE  LET v == Written(l) IN
                      /\ \A i, j \in DOMAIN v :
                           i < j /\ author[v[i]] = author[v[j]] => v[i] < v[j]
                      /\ \A t \in Producers :
                           LET e == Buffered(l, t) IN
                           /\ \A i, j \in DOMAIN e : i < j => e[i] < e[j]
                           /\ \A i \in DOMAIN v, j \in DOMAIN e :
                                author[v[i]] = t => v[i] < e[j]
    BY DEF ProgramOrder
  <2>1. Rising(AllWritten, AllBuffered, text, author)
    BY DEF TextInv, Placed
  <2>2. /\ AllWritten[l] = Written(l)
        /\ \A t \in Producers : AllBuffered[l][t] = Buffered(l, t)
    BY BufferedText DEF AllWritten, AllBuffered
  <2>3. \A i, j \in DOMAIN AllWritten[l] :
          i < j /\ author[AllWritten[l][i]] = author[AllWritten[l][j]]
            => AllWritten[l][i] < AllWritten[l][j]
    BY <2>1 DEF Rising
  <2>4. ASSUME NEW t \in Producers
        PROVE  /\ \A i, j \in DOMAIN AllBuffered[l][t] :
                    i < j => AllBuffered[l][t][i] < AllBuffered[l][t][j]
               /\ \A i \in DOMAIN AllWritten[l], j \in DOMAIN AllBuffered[l][t] :
                    author[AllWritten[l][i]] = t => AllWritten[l][i] < AllBuffered[l][t][j]
    BY <2>1 DEF Rising
  <2> QED
    BY <2>2, <2>3, <2>4
<1> QED
  BY <1>1, TextInvariance, PTL

(* A piece of text is in one place only. *)
LEMMA OnePlace ==
  ASSUME NEW w, NEW b, NEW x, NEW n, NEW a, NEW d, NEW c, NEW m,
         Placed(w, b, x, n, a, d, c), Shaped(w, b, x)
  PROVE  /\ \A t, u \in Producers : \A i \in Positions(m, x[t]), j \in Positions(m, x[u]) :
              t = u /\ i = j
         /\ \A k, l \in Loggers : \A i \in Positions(m, w[k]), j \in Positions(m, w[l]) :
              k = l /\ i = j
         /\ \A k, l \in Loggers, t, u \in Producers :
              \A i \in Positions(m, b[k][t]), j \in Positions(m, b[l][u]) :
                k = l /\ t = u /\ i = j
         /\ \A l \in Loggers, t \in Producers : \A i \in Positions(m, x[t]) :
              Positions(m, w[l]) = {}
         /\ \A l \in Loggers, t, u \in Producers : \A i \in Positions(m, x[t]) :
              Positions(m, b[l][u]) = {}
         /\ \A k, l \in Loggers, t \in Producers : \A i \in Positions(m, w[k]) :
              Positions(m, b[l][t]) = {}
<1>1. Authored(w, b, x, n, a) /\ Rising(w, b, x, a) /\ Apart(w, b)
  BY DEF Placed
<1>2. /\ \A l \in Loggers : \A i \in DOMAIN w[l] : i \in Nat /\ w[l][i] \in Nat
      /\ \A l \in Loggers, t \in Producers : \A i \in DOMAIN b[l][t] :
           i \in Nat /\ b[l][t][i] \in Nat
      /\ \A t \in Producers : \A i \in DOMAIN x[t] : i \in Nat /\ x[t][i] \in Nat
  <2>1. \A s \in Seq(Nat) : \A i \in DOMAIN s : i \in Nat /\ s[i] \in Nat
    OBVIOUS
  <2> QED
    BY <2>1 DEF Shaped
<1>3. /\ \A t \in Producers : \A i \in Positions(m, x[t]) :
           i \in DOMAIN x[t] /\ x[t][i] = m /\ m \in Nat /\ i \in Nat /\ a[m] = t
      /\ \A l \in Loggers : \A i \in Positions(m, w[l]) :
           i \in DOMAIN w[l] /\ w[l][i] = m /\ m \in Nat /\ i \in Nat /\ m \in In(w, b, l)
      /\ \A l \in Loggers, t \in Producers : \A i \in Positions(m, b[l][t]) :
           /\ i \in DOMAIN b[l][t] /\ b[l][t][i] = m /\ m \in Nat /\ i \in Nat /\ a[m] = t
           /\ m \in In(w, b, l)
  <2>1. \A t \in Producers : \A i \in Positions(m, x[t]) :
          i \in DOMAIN x[t] /\ x[t][i] = m /\ m \in Nat /\ i \in Nat /\ a[m] = t
    BY <1>1, <1>2 DEF Authored, Positions
  <2>2. \A l \in Loggers : \A i \in Positions(m, w[l]) :
          i \in DOMAIN w[l] /\ w[l][i] = m /\ m \in Nat /\ i \in Nat /\ m \in In(w, b, l)
    BY <1>1, <1>2 DEF In, Positions
  <2>3. \A l \in Loggers, t \in Producers : \A i \in Positions(m, b[l][t]) :
          /\ i \in DOMAIN b[l][t] /\ b[l][t][i] = m /\ m \in Nat /\ i \in Nat /\ a[m] = t
          /\ m \in In(w, b, l)
    BY <1>1, <1>2 DEF In, Authored, Positions
  <2> QED
    BY <2>1, <2>2, <2>3
<1>4. ASSUME NEW t \in Producers, NEW u \in Producers,
             NEW i \in Positions(m, x[t]), NEW j \in Positions(m, x[u])
      PROVE  t = u /\ i = j
  <2>1. t = u /\ i \in Nat /\ j \in Nat /\ m \in Nat
    BY <1>3
  <2>2. ~(i < j) /\ ~(j < i)
    BY <1>1, <1>3, <2>1 DEF Rising
  <2> QED
    BY <2>1, <2>2
<1>5. ASSUME NEW k \in Loggers, NEW l \in Loggers,
             NEW i \in Positions(m, w[k]), NEW j \in Positions(m, w[l])
      PROVE  k = l /\ i = j
  <2>1. k = l /\ i \in Nat /\ j \in Nat /\ m \in Nat
    BY <1>1, <1>3 DEF Apart
  <2>2. ~(i < j) /\ ~(j < i)
    BY <1>1, <1>3, <2>1 DEF Rising
  <2> QED
    BY <2>1, <2>2
<1>6. ASSUME NEW k \in Loggers, NEW l \in Loggers, NEW t \in Producers, NEW u \in Producers,
             NEW i \in Positions(m, b[k][t]), NEW j \in Positions(m, b[l][u])
      PROVE  k = l /\ t = u /\ i = j
  <2>1. k = l /\ t = u /\ i \in Nat /\ j \in Nat /\ m \in Nat
    BY <1>1, <1>3 DEF Apart
  <2>2. ~(i < j) /\ ~(j < i)
    BY <1>1, <1>3, <2>1 DEF Rising
  <2> QED
    BY <2>1, <2>2
<1>7. ASSUME NEW l \in Loggers, NEW t \in Producers,
             NEW i \in Positions(m, x[t]), NEW j \in Positions(m, w[l])
      PROVE  FALSE
  <2>1. m < m /\ m \in Nat
    BY <1>1, <1>3 DEF Rising
  <2> QED
    BY <2>1
<1>8. ASSUME NEW l \in Loggers, NEW t \in Producers, NEW u \in Producers,
             NEW i \in Positions(m, x[t]), NEW j \in Positions(m, b[l][u])
      PROVE  FALSE
  <2>1. u = t
    BY <1>3
  <2>2. m < m /\ m \in Nat
    BY <1>1, <1>3, <2>1 DEF Rising
  <2> QED
    BY <2>2
<1>9. ASSUME NEW k \in Loggers, NEW l \in Loggers, NEW t \in Producers,
             NEW i \in Positions(m, w[k]), NEW j \in Positions(m, b[l][t])
      PROVE  FALSE
  <2>1. k = l /\ a[m] = t
    BY <1>1, <1>3 DEF Apart
  <2>2. m < m /\ m \in Nat
    BY <1>1, <1>3, <2>1 DEF Rising
  <2> QED
    BY <2>2
<1>10. \A t, u \in Producers : \A i \in Positions(m, x[t]), j \in Positions(m, x[u]) :
         t = u /\ i = j
  BY <1>4
<1>11. \A k, l \in Loggers : \A i \in Positions(m, w[k]), j \in Positions(m, w[l]) :
         k = l /\ i = j
  BY <1>5
<1>12. \A k, l \in Loggers, t, u \in Producers :
         \A i \in Positions(m, b[k][t]), j \in Positions(m, b[l][u]) :
           k = l /\ t = u /\ i = j
  BY <1>6
<1>13. \A l \in Loggers, t \in Producers : \A i \in Positions(m, x[t]) :
         Positions(m, w[l]) = {}
  BY <1>7
<1>14. \A l \in Loggers, t, u \in Producers : \A i \in Positions(m, x[t]) :
         Positions(m, b[l][u]) = {}
  BY <1>8
<1>15. \A k, l \in Loggers, t \in Producers : \A i \in Positions(m, w[k]) :
         Positions(m, b[l][t]) = {}
  BY <1>9
<1> QED
  BY <1>10, <1>11, <1>12, <1>13, <1>14, <1>15

(* Text is in one place at most, in a line, a buffer or an output, and when it is in none
   Flush has printed it or it was refused: whatever Update, Stop, the final loop and the
   constructors of loggers do meanwhile, none is lost and none is written twice
   (ExactlyOnce). *)
THEOREM WrittenOnce == Spec => []ExactlyOnce
<1>1. IInv /\ TextInv => ExactlyOnce
  <2> SUFFICES ASSUME IInv, TextInv, NEW m \in 1..(next - 1)
               PROVE  /\ \A p, q \in Copies(m) : p = q
                      /\ Copies(m) # {} \/ m \in console \/ m \in dropped
    BY DEF ExactlyOnce
  <2> DEFINE w == AllWritten
             b == AllBuffered
             x == text
             Line(p) == \E t \in Producers : \E i \in Positions(m, x[t]) : p = <<"line", t, i>>
             Out(p) == \E l \in Loggers : \E i \in Positions(m, w[l]) : p = <<"out", l, i>>
             Buf(p) == \E l \in Loggers, t \in Producers : \E i \in Positions(m, b[l][t]) :
                         p = <<"buffer", l, t, i>>
  <2>1. Placed(w, b, x, next, author, dropped, console) /\ Shaped(w, b, x)
    BY TextShaped DEF TextInv
  <2>2. \A p : p \in Copies(m) <=> Line(p) \/ Out(p) \/ Buf(p)
    <3>1. /\ \A l \in Loggers : w[l] = Written(l)
          /\ \A l \in Loggers, t \in Producers : b[l][t] = Buffered(l, t)
      BY BufferedText DEF AllWritten, AllBuffered
    <3> DEFINE C1 == UNION {{<<"line", t, i>> : i \in Positions(m, text[t])} : t \in Producers}
               C2 == UNION {{<<"out", l, i>> : i \in Positions(m, Written(l))} : l \in Loggers}
               C3 == UNION {{<<"buffer", l, t, i>> : i \in Positions(m, Buffered(l, t))} :
                              l \in Loggers, t \in Producers}
    <3>2. \A p : p \in C1 <=> Line(p)
      OBVIOUS
    <3>3. \A p : p \in C2 <=> Out(p)
      BY <3>1
    <3>4. \A p : p \in C3 <=> Buf(p)
      <4> DEFINE at(l, t) == {<<"buffer", l, t, i>> : i \in Positions(m, Buffered(l, t))}
      <4>1. ASSUME NEW p
            PROVE  p \in C3 <=> \E l \in Loggers, t \in Producers : p \in at(l, t)
        <5> HIDE DEF at
        <5>1. p \in UNION {at(l, t) : l \in Loggers, t \in Producers}
              <=> \E l \in Loggers, t \in Producers : p \in at(l, t)
          OBVIOUS
        <5> QED
          BY <5>1 DEF at
      <4>2. ASSUME NEW p, NEW l \in Loggers, NEW t \in Producers
            PROVE  p \in at(l, t) <=> \E i \in Positions(m, b[l][t]) : p = <<"buffer", l, t, i>>
        BY <3>1
      <4> HIDE DEF C3, at
      <4> QED
        BY <4>1, <4>2
    <3>5. Copies(m) = C1 \cup C2 \cup C3
      BY DEF Copies
    <3> HIDE DEF C1, C2, C3, Line, Out, Buf
    <3> QED
      BY <3>2, <3>3, <3>4, <3>5
  <2> HIDE DEF w, b, x
  <2>3. /\ \A t, u \in Producers : \A i \in Positions(m, x[t]), j \in Positions(m, x[u]) :
              t = u /\ i = j
        /\ \A k, l \in Loggers : \A i \in Positions(m, w[k]), j \in Positions(m, w[l]) :
              k = l /\ i = j
        /\ \A k, l \in Loggers, t, u \in Producers :
              \A i \in Positions(m, b[k][t]), j \in Positions(m, b[l][u]) :
                k = l /\ t = u /\ i = j
        /\ \A l \in Loggers, t \in Producers : \A i \in Positions(m, x[t]) :
              Positions(m, w[l]) = {}
        /\ \A l \in Loggers, t, u \in Producers : \A i \in Positions(m, x[t]) :
              Positions(m, b[l][u]) = {}
        /\ \A k, l \in Loggers, t \in Producers : \A i \in Positions(m, w[k]) :
              Positions(m, b[l][t]) = {}
    BY <2>1, OnePlace
  <2>4. ASSUME NEW p \in Copies(m), NEW q \in Copies(m) PROVE p = q
    <3>1. ASSUME Line(p), Line(q) PROVE p = q
      BY <2>3, <3>1
    <3>2. ASSUME Out(p), Out(q) PROVE p = q
      BY <2>3, <3>2
    <3>3. ASSUME Buf(p), Buf(q) PROVE p = q
      BY <2>3, <3>3
    <3>4. \A r, s : ~(Line(r) /\ Out(s)) /\ ~(Line(r) /\ Buf(s)) /\ ~(Out(r) /\ Buf(s))
      BY <2>3
    <3> HIDE DEF Line, Out, Buf
    <3> QED
      BY <2>2, <3>1, <3>2, <3>3, <3>4
  <2>5. Copies(m) # {} \/ m \in console \/ m \in dropped
    <3>1. \/ m \in console \/ m \in dropped
          \/ \E t \in Producers : \E i \in DOMAIN x[t] : x[t][i] = m
          \/ \E l \in Loggers : m \in In(w, b, l)
      BY <2>1 DEF Placed, Present
    <3>2. CASE \E t \in Producers : \E i \in DOMAIN x[t] : x[t][i] = m
      <4>1. \E p : Line(p)
        BY <3>2 DEF Positions
      <4> QED
        BY <2>2, <4>1
    <3>3. CASE \E l \in Loggers : m \in In(w, b, l)
      <4>1. PICK l \in Loggers : m \in In(w, b, l)
        BY <3>3
      <4>2. CASE \E i \in DOMAIN w[l] : w[l][i] = m
        <5>1. \E p : Out(p)
          BY <4>2 DEF Positions
        <5> QED
          BY <2>2, <5>1
      <4>3. CASE \E t \in Producers : \E i \in DOMAIN b[l][t] : b[l][t][i] = m
        <5>1. \E p : Buf(p)
          BY <4>3 DEF Positions
        <5> QED
          BY <2>2, <5>1
      <4> QED
        BY <4>1, <4>2, <4>3 DEF In
    <3> QED
      BY <3>1, <3>2, <3>3
  <2> QED
    BY <2>4, <2>5
<1> QED
  BY <1>1, Invariance, TextInvariance, PTL

-----------------------------------------------------------------------------
(* The bounds of the counters and of what was printed and refused. *)
Bounds ==
  /\ starts \in 0..MaxStart /\ stops \in 0..MaxStop
  /\ console \in SUBSET Nat
  /\ next \in 1..(MaxMsg + 1)
  /\ dropped \in SUBSET (1..(next - 1))

(* Every step keeps the bounds; what Flush refuses are pieces of the thread's line. *)
LEMMA BoundsStep == ASSUME IInv, TextInv, Bounds, Next PROVE Bounds'
<1> USE DEF manager, ioThread, control, loggers, locals, ghost
<1>0. /\ text \in [Producers -> Seq(Nat)]
      /\ MaxStart \in Nat /\ MaxStop \in Nat /\ MaxMsg \in Nat
  BY ConstantsOK DEF IInv, Types
<1>1. ASSUME Start \/ Stop \/ StopLogs \/ StopJoin PROVE Bounds'
  <2>1. /\ starts' \in 0..MaxStart /\ stops' \in 0..MaxStop
        /\ UNCHANGED <<console, next, dropped>>
    BY <1>0, <1>1
       DEF Start, Stop, StopLogs, StopLock, Shutdown, StopUnlock, StopJoin, Bounds
  <2> QED
    BY <2>1 DEF Bounds
<1>2. ASSUME UNCHANGED <<starts, stops, console, next, dropped>> PROVE Bounds'
  BY <1>2 DEF Bounds
<1>3. ASSUME Run PROVE Bounds'
  BY <1>2, <1>3 DEF Run, RunWake, RunCollect, RunUpdate, RunLoop, RunFinal, RunPass
<1>4. ASSUME NEW t \in Producers, CreateNull(t) \/ \E l \in Loggers : CreateLog(t, l)
      PROVE  Bounds'
  BY <1>2, <1>4 DEF CreateLog, CreateNull
<1>5. ASSUME NEW t \in Producers, NEW l \in Loggers, NEW level \in Levels,
             SetCurLevel(t, l, level)
      PROVE  Bounds'
  BY <1>2, <1>5 DEF SetCurLevel
<1>6. ASSUME NEW t \in Producers, NewPiece(t), UNCHANGED <<starts, stops>>,
             console' \in SUBSET Nat, dropped' \subseteq dropped \cup {next}
      PROVE  Bounds'
  <2>1. next <= MaxMsg /\ next' = next + 1 /\ next \in 1..(MaxMsg + 1)
    BY <1>6 DEF NewPiece, Bounds
  <2>2. next' \in 1..(MaxMsg + 1) /\ next' - 1 = next /\ next \in 1..next
    BY <1>0, <2>1
  <2>3. dropped' \in SUBSET (1..(next' - 1))
    <3>1. \A m \in dropped : m \in 1..next
      BY <2>1 DEF Bounds
    <3> QED
      BY <1>6, <2>2, <3>1
  <2> QED
    BY <1>6, <2>2, <2>3 DEF Bounds
<1>7. ASSUME NEW t \in Producers, Compose(t) PROVE Bounds'
  <2>1. /\ NewPiece(t) /\ UNCHANGED <<starts, stops, console>>
        /\ dropped' \subseteq dropped \cup {next}
    BY <1>7 DEF Compose
  <2> QED
    BY <1>6, <2>1 DEF Bounds
<1>8. ASSUME NEW t \in Producers, FlushNothing(t) PROVE Bounds'
  <2>1. ToSet(text[t]) \in SUBSET (1..(next - 1))
    BY DEF ToSet, TextInv, Placed, Authored
  <2>2. /\ UNCHANGED <<starts, stops, console, next>>
        /\ dropped' \subseteq dropped \cup ToSet(text[t])
    BY <1>8 DEF FlushNothing
  <2> QED
    BY <2>1, <2>2 DEF Bounds
<1>9. ASSUME NEW t \in Producers, FlushConsole(t) PROVE Bounds'
  <2>1. /\ NewPiece(t) /\ UNCHANGED <<starts, stops, dropped>>
        /\ console' = console \cup ToSet(text[t]) \cup {next}
    BY <1>9 DEF FlushConsole, AppendTid
  <2>2. ToSet(text[t]) \subseteq Nat /\ next \in Nat
    BY <1>0 DEF ToSet, IInv, Types
  <2> QED
    BY <1>6, <2>1, <2>2 DEF Bounds
<1>10. ASSUME NEW t \in Producers, Flush(t) PROVE Bounds'
  <2>1. NewPiece(t) /\ UNCHANGED <<starts, stops, console, dropped>>
    BY <1>10 DEF Flush, AppendTid
  <2> QED
    BY <1>6, <2>1 DEF Bounds
<1>11. ASSUME NEW t \in Producers, FlushPush(t) PROVE Bounds'
  BY <1>2, <1>11 DEF FlushPush
<1>12. ASSUME NEW t \in Producers, FlushRelease(t) \/ AddBusyLog(t) PROVE Bounds'
  BY <1>2, <1>12 DEF FlushRelease, AddBusyLog
<1> QED
  BY <1>1, <1>3, <1>4, <1>5, <1>7, <1>8, <1>9, <1>10, <1>11, <1>12 DEF Next, Flushing

(* Every variable keeps its type (TypeOK). *)
THEOREM TypesHold == Spec => []TypeOK
<1>1. Init => Bounds
  BY ConstantsOK DEF Init, Bounds
<1>2. IInv /\ TextInv /\ Bounds /\ Next => Bounds'
  BY BoundsStep
<1>3. Bounds /\ UNCHANGED vars => Bounds'
  BY DEF Bounds, vars, control, locals, ghost
<1>4. Spec => []Bounds
  BY <1>1, <1>2, <1>3, Invariance, TextInvariance, PTL DEF Spec
<1>5. IInv /\ TextInv /\ Bounds => TypeOK
  <2> SUFFICES ASSUME IInv, TextInv, Bounds PROVE TypeOK
    OBVIOUS
  <2>1. author \in [1..(next - 1) -> Producers]
    BY DEF TextInv, Composing
  <2>2. \A l \in Loggers : /\ DOMAIN buffers[l] \subseteq Producers
                           /\ \A t \in DOMAIN buffers[l] : buffers[l][t] \in Buffers
                           /\ out[l] \in Seq(Lines)
    BY BufferType DEF IInv, TextInv, Composing
  <2> QED
    BY <2>1, <2>2 DEF IInv, Types, TextInv, Composing, Bounds, TypeOK
<1> QED
  BY <1>4, <1>5, Invariance, TextInvariance, PTL

-----------------------------------------------------------------------------
(* Without log statements in arguments of log statements, a thread is in one at most. *)
OneStatement ==
  \A t \in Producers : /\ Len(stmt[t]) <= 1
                       /\ pc[t] = "compose" => curLevel[t] = Stmt(t).level

(* Every step of threads that do not nest statements keeps this. *)
LEMMA OneStatementStep ==
  ASSUME MaxNest <= 1, IInv, OneStatement,
         curLevel \in [Producers -> Levels \cup {0}], Next
  PROVE  OneStatement'
<1> USE DEF manager, ioThread, control, loggers, locals, ghost
<1>0. /\ MaxNest \in Nat /\ stmt \in [Producers -> Seq(Stmts)]
      /\ pc \in [Producers -> {"idle", "compose", "push", "release", "busy"}]
  BY ConstantsOK DEF IInv, Types
<1>1. ASSUME UNCHANGED <<stmt, pc, curLevel>> PROVE OneStatement'
  BY <1>1 DEF OneStatement, Stmt
<1>2. ASSUME Start \/ Stop \/ StopLogs \/ StopJoin PROVE OneStatement'
  BY <1>1, <1>2 DEF Start, Stop, StopLogs, StopLock, Shutdown, StopUnlock, StopJoin
<1>3. ASSUME Run PROVE OneStatement'
  BY <1>1, <1>3 DEF Run, RunWake, RunCollect, RunUpdate, RunLoop, RunFinal, RunPass
<1>4. ASSUME NEW t \in Producers, Len(stmt'[t]) <= 1, pc'[t] # "compose",
             \A u \in Producers \ {t} :
               stmt'[u] = stmt[u] /\ pc'[u] = pc[u] /\ curLevel'[u] = curLevel[u]
      PROVE  OneStatement'
  BY <1>4 DEF OneStatement, Stmt
<1>5. ASSUME NEW t \in Producers, CreateNull(t) \/ \E l \in Loggers : CreateLog(t, l)
      PROVE  OneStatement'
  <2>1. UNCHANGED <<stmt, pc>> /\ pc[t] = "idle" /\ Reset(t)
    BY <1>5 DEF CreateLog, CreateNull, At
  <2>2. \A u \in Producers \ {t} : curLevel'[u] = curLevel[u]
    BY <2>1 DEF Reset
  <2> QED
    BY <1>4, <2>1, <2>2 DEF OneStatement
<1>6. ASSUME NEW t \in Producers, NEW l \in Loggers, NEW level \in Levels,
             SetCurLevel(t, l, level)
      PROVE  OneStatement'
  <2> DEFINE s == [log |-> l, level |-> level]
  <2>1. /\ Len(stmt[t]) < MaxNest
        /\ stmt' = [stmt EXCEPT ![t] = Append(@, s)]
        /\ curLevel' = [curLevel EXCEPT ![t] = level]
        /\ pc' = [pc EXCEPT ![t] = "compose"]
    BY <1>6 DEF SetCurLevel
  <2>2. stmt[t] \in Seq(Stmts) /\ s \in Stmts /\ s.level = level
    BY <1>0 DEF Stmts
  <2> HIDE DEF s
  <2>3. stmt'[t] = Append(stmt[t], s) /\ curLevel'[t] = level
    BY <1>0, <2>1
  <2>4. Len(stmt[t]) = 0 /\ Len(stmt'[t]) = 1 /\ stmt'[t][1] = s
    <3>1. Len(stmt[t]) \in Nat
      BY <2>2
    <3>2. Len(stmt[t]) = 0
      BY <1>0, <2>1, <3>1
    <3> QED
      BY <2>2, <2>3, <3>2
  <2>5. Stmt(t)'.level = level
    BY <2>2, <2>4 DEF Stmt, Last
  <2>6. \A u \in Producers \ {t} :
          stmt'[u] = stmt[u] /\ pc'[u] = pc[u] /\ curLevel'[u] = curLevel[u]
    BY <1>0, <2>1
  <2>7. ASSUME NEW u \in Producers
        PROVE  /\ Len(stmt'[u]) <= 1
               /\ pc'[u] = "compose" => curLevel'[u] = Stmt(u)'.level
    <3>1. CASE u = t
      BY <2>3, <2>4, <2>5, <3>1
    <3>2. CASE u # t
      BY <2>6, <3>2 DEF OneStatement, Stmt
    <3> QED
      BY <3>1, <3>2
  <2> QED
    BY <2>7 DEF OneStatement
<1>7. ASSUME NEW t \in Producers, Compose(t) PROVE OneStatement'
  BY <1>1, <1>7 DEF Compose
<1>8. ASSUME NEW t \in Producers, pc[t] # "idle", Return(t),
             \A u \in Producers \ {t} : curLevel'[u] = curLevel[u]
      PROVE  OneStatement'
  <2>1. stmt[t] \in Seq(Stmts) /\ Len(stmt[t]) \in Nat \ {0} /\ Len(stmt[t]) <= 1
    BY <1>0, <1>8, StmtType DEF OneStatement, IInv
  <2>2. Len(stmt[t]) = 1 /\ Len(Front(stmt[t])) = 0
    <3>1. Len(Front(stmt[t])) = Len(stmt[t]) - 1
      BY <2>1 DEF Front
    <3> DEFINE n == Len(stmt[t])
    <3>2. n \in Nat \ {0} /\ n <= 1
      BY <2>1
    <3> HIDE DEF n
    <3>3. n = 1
      BY <3>2
    <3> QED
      BY <3>1, <3>3 DEF n
  <2>3. pc'[t] = "idle" /\ stmt'[t] = Front(stmt[t])
    BY <1>0, <1>8, <2>2 DEF Return
  <2>4. \A u \in Producers \ {t} : stmt'[u] = stmt[u] /\ pc'[u] = pc[u]
    BY <1>0, <1>8 DEF Return
  <2> QED
    BY <1>4, <1>8, <2>2, <2>3, <2>4
<1>9. ASSUME NEW t \in Producers, FlushNothing(t) PROVE OneStatement'
  <2>1. pc[t] # "idle" /\ Return(t)
    BY <1>9 DEF FlushNothing, At
  <2>2. \A u \in Producers \ {t} : curLevel'[u] = curLevel[u]
    BY <1>9 DEF FlushNothing, Reset
  <2> QED
    BY <1>8, <2>1, <2>2
<1>10. ASSUME NEW t \in Producers, FlushConsole(t) \/ AddBusyLog(t) PROVE OneStatement'
  <2>1. pc[t] # "idle" /\ Return(t) /\ UNCHANGED curLevel
    BY <1>10 DEF FlushConsole, AddBusyLog, At
  <2> QED
    BY <1>8, <2>1
<1>11. ASSUME NEW t \in Producers, Flush(t) \/ FlushPush(t) PROVE OneStatement'
  <2>1. /\ UNCHANGED stmt
        /\ pc' = [pc EXCEPT ![t] = "push"] \/ pc' = [pc EXCEPT ![t] = "release"]
        /\ \A u \in Producers \ {t} : curLevel'[u] = curLevel[u]
    BY <1>11 DEF Flush, FlushPush, Reset
  <2>2. pc'[t] # "compose" /\ \A u \in Producers \ {t} : pc'[u] = pc[u]
    BY <1>0, <2>1
  <2> QED
    BY <1>4, <2>1, <2>2 DEF OneStatement
<1>12. ASSUME NEW t \in Producers, FlushRelease(t) PROVE OneStatement'
  <2>1. pc[t] # "idle" /\ UNCHANGED curLevel
    BY <1>12 DEF FlushRelease, At
  <2>2. CASE Return(t)
    BY <1>8, <2>1, <2>2
  <2>3. CASE pc' = [pc EXCEPT ![t] = "busy"] /\ UNCHANGED stmt
    <3>1. pc'[t] # "compose" /\ \A u \in Producers \ {t} : pc'[u] = pc[u]
      BY <1>0, <2>3
    <3> QED
      BY <1>4, <2>1, <2>3, <3>1 DEF OneStatement
  <2> QED
    BY <1>12, <2>2, <2>3 DEF FlushRelease
<1> QED
  BY <1>2, <1>3, <1>5, <1>6, <1>7, <1>9, <1>10, <1>11, <1>12 DEF Next, Flushing

(* Threads that do not log in the arguments of a log statement call Flush at the level
   their statement set, as assert(level == curLevel_) demands (FlushLevel).  With nested
   statements it fails: the run LoggerNested. *)
THEOREM LevelOfStatement == ASSUME MaxNest <= 1 PROVE Spec => []FlushLevel
<1>1. Init => OneStatement
  BY DEF Init, OneStatement
<1>2. IInv /\ TextInv /\ OneStatement /\ Next => OneStatement'
  BY OneStatementStep DEF TextInv, Composing
<1>3. OneStatement /\ UNCHANGED vars => OneStatement'
  BY DEF OneStatement, vars, locals, Stmt
<1>4. OneStatement => FlushLevel
  BY DEF OneStatement, FlushLevel
<1> QED
  BY <1>1, <1>2, <1>3, <1>4, Invariance, TextInvariance, PTL DEF Spec
=============================================================================
