-------------------------------- MODULE Logger --------------------------------
(***************************************************************************)
(* netbridge/Logger.cc: loggers and the LogManager that serves them.       *)
(*                                                                         *)
(* A thread composes a line in its thread-local tmpBuffer_ (shared by all  *)
(* loggers) and Flush frames it into the thread's own buffer of the logger.*)
(* The manager's I/O thread moves whole buffers out of the loggers and     *)
(* writes their lines.  inuse_ keeps it away from a buffer that is being   *)
(* written, logger mutexes protect the map of buffers, logsMutex_ the list *)
(* of loggers; the manager's mutex_ protects shutdown_ and busyLogs_.      *)
(*                                                                         *)
(* A piece of text is a number, given out in increasing order; what Flush  *)
(* appends to a line (thread ID and newline) is a piece too.  A buffer is  *)
(* the sequence of words Flush pushed: level, length, text.  The time and  *)
(* the level at the head of a line have a place of their own and are left  *)
(* out.  Nothing stops a line from growing past the end of tmpBuffer_ here,*)
(* and nothing does in the code; what is behind it in memory is left out.  *)
(* Only the I/O thread writes to a logger's output, so moving buffers out  *)
(* of the map and writing them is one step.                                *)
(***************************************************************************)
EXTENDS Naturals, Sequences, FiniteSets, SequencesExt

CONSTANTS Producers,       (* the threads that log                         *)
          Loggers,         (* the loggers they may create                  *)
          Levels,          (* the levels enabled, each a bit of its own    *)
          kMaxCharPerLog,  (* pieces to which operator<< keeps a line      *)
          kFlushThreshold, (* words in a buffer that make its logger busy  *)
          MaxMsg,          (* bound: pieces of text                        *)
          MaxStart,        (* bound: calls of LogManager::Start            *)
          MaxStop,         (* bound: calls of LogManager::Stop             *)
          MaxNest          (* bound: log statements inside one another     *)

ASSUME ConstantsOK ==
  /\ Levels \subseteq Nat \ {0} /\ IsFiniteSet(Producers)
  /\ {kMaxCharPerLog, kFlushThreshold, MaxMsg, MaxStart, MaxStop, MaxNest} \subseteq Nat

VARIABLES
  shutdown,  (* LogManager::shutdown_                                      *)
  logs,      (* LogManager::logs_                                          *)
  busyLogs,  (* LogManager::busyLogs_                                      *)
  io,        (* where the I/O thread is in LogManager::Run                 *)
  tmp,       (* its tmpBusy; in the final loop, what is left of the pass   *)
  run,       (* its local run                                              *)
  main,      (* where the thread is that starts and stops the manager      *)
  starts,    (* calls of Start so far                                      *)
  stops,     (* calls of Stop so far                                       *)
  known,     (* the loggers CreateLog has returned                         *)
  stopped,   (* Logger::shutdown_ of each                                  *)
  buffers,   (* Logger::buffers_ of each: a map from threads to buffers    *)
  out,       (* the lines each has written                                 *)
  console,   (* text printed by Flush itself                               *)
  pc,        (* where each producer is                                     *)
  stmt,      (* its log statements in progress, innermost last             *)
  curLevel,  (* its Logger::curLevel_                                      *)
  text,      (* the text in its tmpBuffer_                                 *)
  next,      (* the next piece of text                                     *)
  author,    (* who logged which piece                                     *)
  dropped    (* pieces that operator<< or Flush refused                    *)

manager  == <<shutdown, logs, busyLogs>>
ioThread == <<io, tmp, run>>
control  == <<main, starts, stops>>
loggers  == <<known, stopped, buffers, out>>
locals   == <<pc, stmt, curLevel, text>>
ghost    == <<next, author, dropped>>
vars     == <<manager, ioThread, control, loggers, console, locals, ghost>>

Stmts   == [log : Loggers, level : Levels]
Buffers == [inuse : BOOLEAN, data : Seq(Nat)]
Lines   == [level : Nat, text : Seq(Nat)]

TypeOK ==
  /\ shutdown \in BOOLEAN
  /\ logs \in SUBSET Loggers /\ busyLogs \in SUBSET Loggers /\ tmp \in SUBSET Loggers
  /\ io \in {"none", "wait", "collect", "update", "final", "ended"}
  /\ run \in BOOLEAN
  /\ main \in {"idle", "stop_logs", "stopping", "stop_join"}
  /\ starts \in 0..MaxStart /\ stops \in 0..MaxStop
  /\ known \in SUBSET Loggers
  /\ stopped \in [Loggers -> BOOLEAN]
  /\ \A l \in Loggers : /\ DOMAIN buffers[l] \subseteq Producers
                        /\ \A t \in DOMAIN buffers[l] : buffers[l][t] \in Buffers
                        /\ out[l] \in Seq(Lines)
  /\ console \in SUBSET Nat
  /\ pc \in [Producers -> {"idle", "compose", "push", "release", "busy"}]
  /\ stmt \in [Producers -> Seq(Stmts)]
  /\ curLevel \in [Producers -> Levels \cup {0}]
  /\ text \in [Producers -> Seq(Nat)]
  /\ next \in 1..(MaxMsg + 1)
  /\ author \in [1..(next - 1) -> Producers]
  /\ dropped \in SUBSET (1..(next - 1))

Init ==
  /\ shutdown = TRUE
  /\ logs = {} /\ busyLogs = {}
  /\ io = "none" /\ tmp = {} /\ run = TRUE
  /\ main = "idle" /\ starts = 0 /\ stops = 0
  /\ known = {}
  /\ stopped = [l \in Loggers |-> FALSE]
  /\ buffers = [l \in Loggers |-> <<>>]
  /\ out = [l \in Loggers |-> <<>>]
  /\ console = {}
  /\ pc = [t \in Producers |-> "idle"]
  /\ stmt = [t \in Producers |-> <<>>]
  /\ curLevel = [t \in Producers |-> 0]
  /\ text = [t \in Producers |-> <<>>]
  /\ next = 1 /\ author = <<>> /\ dropped = {}

At(t, l) == pc[t] = l

(* The innermost log statement, its logger and its level. *)
Stmt(t) == Last(stmt[t])

(* A log statement ends; the one around it goes on. *)
Return(t) ==
  /\ stmt' = [stmt EXCEPT ![t] = Front(@)]
  /\ pc' = [pc EXCEPT ![t] = IF Len(stmt[t]) > 1 THEN "compose" ELSE "idle"]

(* Logger::_Reset. *)
Reset(t) ==
  /\ curLevel' = [curLevel EXCEPT ![t] = 0]
  /\ text' = [text EXCEPT ![t] = <<>>]

(* The next piece of text is one of thread t. *)
NewPiece(t) ==
  /\ next <= MaxMsg
  /\ author' = Append(author, t)
  /\ next' = next + 1

(* logsMutex_ is held over several steps by the final loop of Run and by Stop. *)
LogsMutexFree == io # "final" /\ main # "stopping"

-----------------------------------------------------------------------------
(* LogManager::Start, Stop and CreateLog. *)

Start ==
  /\ main = "idle"
  /\ shutdown /\ starts < MaxStart
  /\ shutdown' = FALSE
  /\ io' = "wait"
  /\ starts' = starts + 1
  /\ UNCHANGED <<logs, busyLogs, tmp, run, main, stops, loggers, console, locals, ghost>>

Stop ==
  /\ main = "idle"
  /\ ~shutdown /\ stops < MaxStop
  /\ shutdown' = TRUE
  /\ main' = "stop_logs"
  /\ stops' = stops + 1
  /\ UNCHANGED <<logs, busyLogs, ioThread, starts, loggers, console, locals, ghost>>

StopLock ==
  /\ main = "stop_logs"
  /\ LogsMutexFree
  /\ main' = "stopping"
  /\ UNCHANGED <<manager, ioThread, starts, stops, loggers, console, locals, ghost>>

(* Logger::Shutdown of one logger after the other. *)
Shutdown ==
  /\ main = "stopping"
  /\ \E l \in logs : ~stopped[l] /\ stopped' = [stopped EXCEPT ![l] = TRUE]
  /\ UNCHANGED <<manager, ioThread, control, known, buffers, out, console, locals, ghost>>

StopUnlock ==
  /\ main = "stopping"
  /\ \A l \in logs : stopped[l]
  /\ main' = "stop_join"
  /\ UNCHANGED <<manager, ioThread, starts, stops, loggers, console, locals, ghost>>

StopJoin ==
  /\ main = "stop_join"
  /\ io = "ended"
  /\ main' = "idle"
  /\ UNCHANGED <<manager, ioThread, starts, stops, loggers, console, locals, ghost>>

(* The constructor of the new logger resets the line of the thread that calls it. *)
CreateLog(t, l) ==
  /\ At(t, "idle")
  /\ l \notin known
  /\ LogsMutexFree
  /\ ~shutdown
  /\ logs' = logs \cup {l}
  /\ known' = known \cup {l}
  /\ Reset(t)
  /\ UNCHANGED <<shutdown, busyLogs, ioThread, control, stopped, buffers, out, console,
                 pc, stmt, ghost>>

(* When Init fails or shutdown_ is set, the caller gets the null logger. *)
CreateNull(t) ==
  /\ At(t, "idle")
  /\ Reset(t)
  /\ UNCHANGED <<manager, ioThread, control, loggers, console, pc, stmt, ghost>>

-----------------------------------------------------------------------------
(* A log statement: LOG_INFO(log) << a << b.  The arguments are evaluated between
   SetCurLevel and Flush and may log themselves.                             *)

SetCurLevel(t, l, level) ==
  /\ pc[t] \in {"idle", "compose"}
  /\ l \in known
  /\ Len(stmt[t]) < MaxNest
  /\ stmt' = [stmt EXCEPT ![t] = Append(@, [log |-> l, level |-> level])]
  /\ curLevel' = [curLevel EXCEPT ![t] = level]
  /\ pc' = [pc EXCEPT ![t] = "compose"]
  /\ UNCHANGED <<manager, ioThread, control, loggers, console, text, ghost>>

(* IsLevelForbid *)
Forbidden(level) == level \notin Levels

(* operator<<: text that does not fit is left out. *)
Compose(t) ==
  /\ At(t, "compose")
  /\ NewPiece(t)
  /\ \/ /\ ~Forbidden(curLevel[t]) /\ Len(text[t]) < kMaxCharPerLog
        /\ text' = [text EXCEPT ![t] = Append(@, next)]
        /\ UNCHANGED dropped
     \/ /\ Forbidden(curLevel[t]) \/ Len(text[t]) >= kMaxCharPerLog
        /\ dropped' = dropped \cup {next}
        /\ UNCHANGED text
  /\ UNCHANGED <<manager, ioThread, control, loggers, console, pc, stmt, curLevel>>

(* Logger::Flush finds a level that is enabled and its own, and text. *)
HasLine(t) == ~Forbidden(curLevel[t]) /\ curLevel[t] = Stmt(t).level /\ text[t] # <<>>

(* Logger::Flush when it does not.  It resets a line whose level is forbidden, and
   leaves any other where it is: an empty one, or, where assertions are off, one whose
   level is not that of the statement.                                       *)
FlushNothing(t) ==
  /\ At(t, "compose")
  /\ ~HasLine(t)
  /\ \/ Forbidden(curLevel[t]) /\ Reset(t) /\ UNCHANGED dropped
     \/ /\ ~Forbidden(curLevel[t])
        /\ dropped' = dropped \cup ToSet(text[t])
        /\ UNCHANGED <<curLevel, text>>
  /\ Return(t)
  /\ UNCHANGED <<manager, ioThread, control, loggers, console, next, author>>

(* Flush appends thread ID and newline, whatever the length of the line. *)
AppendTid(t) ==
  /\ NewPiece(t)
  /\ text' = [text EXCEPT ![t] = Append(@, next)]
  /\ UNCHANGED dropped

(* Logger::Flush of a logger that was shut down: it prints the line and does not reset
   it, so that the next line of the thread begins with it.                   *)
FlushConsole(t) ==
  /\ At(t, "compose")
  /\ HasLine(t)
  /\ stopped[Stmt(t).log]
  /\ AppendTid(t)
  /\ console' = console \cup ToSet(text[t]) \cup {next}
  /\ Return(t)
  /\ UNCHANGED <<manager, ioThread, control, loggers, curLevel>>

(* Otherwise it finds or makes the thread's buffer and marks it in use. *)
Flush(t) ==
  LET l == Stmt(t).log IN
  /\ At(t, "compose")
  /\ HasLine(t)
  /\ ~stopped[l]
  /\ AppendTid(t)
  /\ buffers' = [buffers EXCEPT ![l] =
       [u \in DOMAIN @ \cup {t} |->
          IF u = t THEN [inuse |-> TRUE, data |-> IF t \in DOMAIN @ THEN @[t].data ELSE <<>>]
                   ELSE @[u]]]
  /\ pc' = [pc EXCEPT ![t] = "push"]
  /\ UNCHANGED <<manager, ioThread, control, known, stopped, out, console, stmt, curLevel>>

(* A frame whose length counts its header. *)
FlushPushWholeLength(t) ==
  LET s == Stmt(t) IN
  /\ At(t, "push")
  /\ buffers' = [buffers EXCEPT ![s.log][t].data =
                   @ \o <<s.level, Len(text[t]) + 2>> \o text[t]]
  /\ Reset(t)
  /\ pc' = [pc EXCEPT ![t] = "release"]
  /\ UNCHANGED <<manager, ioThread, control, known, stopped, out, console, stmt, ghost>>

(* A Flush that leaves the line in tmpBuffer_. *)
FlushPushNoReset(t) ==
  LET s == Stmt(t) IN
  /\ At(t, "push")
  /\ buffers' = [buffers EXCEPT ![s.log][t].data =
                   @ \o <<s.level, Len(text[t])>> \o text[t]]
  /\ pc' = [pc EXCEPT ![t] = "release"]
  /\ UNCHANGED <<manager, ioThread, control, known, stopped, out, console, stmt, curLevel,
                 text, ghost>>

(* A Flush that puts the line in front of those already there. *)
FlushPushInFront(t) ==
  LET s == Stmt(t) IN
  /\ At(t, "push")
  /\ buffers' = [buffers EXCEPT ![s.log][t].data =
                   <<s.level, Len(text[t])>> \o text[t] \o @]
  /\ Reset(t)
  /\ pc' = [pc EXCEPT ![t] = "release"]
  /\ UNCHANGED <<manager, ioThread, control, known, stopped, out, console, stmt, ghost>>

FlushPush(t) ==
  LET s == Stmt(t) IN
  /\ At(t, "push")
  /\ buffers' = [buffers EXCEPT ![s.log][t].data =
                   @ \o <<s.level, Len(text[t])>> \o text[t]]
  /\ Reset(t)
  /\ pc' = [pc EXCEPT ![t] = "release"]
  /\ UNCHANGED <<manager, ioThread, control, known, stopped, out, console, stmt, ghost>>

(* A Flush that leaves its buffer marked in use. *)
FlushReleaseForgotten(t) ==
  LET l == Stmt(t).log IN
  /\ At(t, "release")
  /\ IF Len(buffers[l][t].data) > kFlushThreshold
       THEN pc' = [pc EXCEPT ![t] = "busy"] /\ UNCHANGED stmt
       ELSE Return(t)
  /\ UNCHANGED <<manager, ioThread, control, loggers, console, curLevel, text, ghost>>

FlushRelease(t) ==
  LET l == Stmt(t).log IN
  /\ At(t, "release")
  /\ buffers' = [buffers EXCEPT ![l][t].inuse = FALSE]
  /\ IF Len(buffers[l][t].data) > kFlushThreshold
       THEN pc' = [pc EXCEPT ![t] = "busy"] /\ UNCHANGED stmt
       ELSE Return(t)
  /\ UNCHANGED <<manager, ioThread, control, known, stopped, out, console, curLevel, text,
                 ghost>>

(* AddBusyLog that does not look at shutdown_. *)
AddBusyLogAnyTime(t) ==
  /\ At(t, "busy")
  /\ busyLogs' = busyLogs \cup {Stmt(t).log}
  /\ Return(t)
  /\ UNCHANGED <<shutdown, logs, ioThread, control, loggers, console, curLevel, text, ghost>>

(* LogManager::AddBusyLog. *)
AddBusyLog(t) ==
  /\ At(t, "busy")
  /\ busyLogs' = IF shutdown THEN busyLogs ELSE busyLogs \cup {Stmt(t).log}
  /\ Return(t)
  /\ UNCHANGED <<shutdown, logs, ioThread, control, loggers, console, curLevel, text, ghost>>

-----------------------------------------------------------------------------
(* Logger::_Log: the lines in a buffer. *)
Log(data) ==
  LET from[n \in 0..Len(data)] ==
        IF n + 2 < Len(data) /\ n + 2 + data[n + 2] <= Len(data)
          THEN <<[level |-> data[n + 1],
                  text |-> SubSeq(data, n + 3, n + 2 + data[n + 2])]>>
               \o from[n + 2 + data[n + 2]]
          ELSE <<>>
  IN  from[0]

(* The threads that are writing to their buffers of logger l. *)
InUse(l) == {t \in DOMAIN buffers[l] : buffers[l][t].inuse}

(* Update that takes buffers in use too. *)
UpdateAll(l) ==
  \E order \in SetToSeqs(DOMAIN buffers[l]) :
    /\ out' = [out EXCEPT ![l] =
         @ \o FlattenSeq([i \in DOMAIN order |-> Log(buffers[l][order[i]].data)])]
    /\ buffers' = [buffers EXCEPT ![l] = <<>>]

(* Logger::Update: the buffers not in use leave the map and are written one after
   the other.                                                                *)
Update(l) ==
  \E order \in SetToSeqs(DOMAIN buffers[l] \ InUse(l)) :
    /\ out' = [out EXCEPT ![l] =
         @ \o FlattenSeq([i \in DOMAIN order |-> Log(buffers[l][order[i]].data)])]
    /\ buffers' = [buffers EXCEPT ![l] = [t \in InUse(l) |-> @[t]]]

-----------------------------------------------------------------------------
(* LogManager::Run.  Its wait times out after a millisecond, so it may wake up at
   any moment, notified or not.                                              *)

RunWake ==
  /\ io = "wait"
  /\ tmp' = busyLogs
  /\ busyLogs' = {}
  /\ run' = ~shutdown
  /\ io' = "collect"
  /\ UNCHANGED <<shutdown, logs, control, loggers, console, locals, ghost>>

(* An I/O thread that looks only at busy loggers. *)
RunCollectBusy ==
  /\ io = "collect"
  /\ io' = "update"
  /\ UNCHANGED <<manager, tmp, run, control, loggers, console, locals, ghost>>

RunCollect ==
  /\ io = "collect"
  /\ tmp = {} => LogsMutexFree
  /\ tmp' = IF tmp = {} THEN logs ELSE tmp
  /\ io' = "update"
  /\ UNCHANGED <<manager, run, control, loggers, console, locals, ghost>>

RunUpdate ==
  /\ io = "update"
  /\ \E l \in tmp : Update(l) /\ tmp' = tmp \ {l}
  /\ UNCHANGED <<manager, io, run, control, known, stopped, console, locals, ghost>>

RunLoop ==
  /\ io = "update" /\ tmp = {}
  /\ \/ run /\ io' = "wait" /\ UNCHANGED tmp
     \/ ~run /\ LogsMutexFree /\ io' = "final" /\ tmp' = logs
  /\ UNCHANGED <<manager, run, control, loggers, console, locals, ghost>>

(* A final loop that makes one pass. *)
RunFinalOnce ==
  /\ io = "final"
  /\ \E l \in tmp : /\ Update(l)
                    /\ logs' = logs \ {l}
                    /\ tmp' = tmp \ {l}
  /\ UNCHANGED <<shutdown, busyLogs, io, run, control, known, stopped, console, locals,
                 ghost>>

(* The final loop, under logsMutex_: a logger with nothing in production is dropped. *)
RunFinal ==
  /\ io = "final"
  /\ \E l \in tmp : /\ Update(l)
                    /\ logs' = IF InUse(l) = {} THEN logs \ {l} ELSE logs
                    /\ tmp' = tmp \ {l}
  /\ UNCHANGED <<shutdown, busyLogs, io, run, control, known, stopped, console, locals,
                 ghost>>

RunPass ==
  /\ io = "final" /\ tmp = {}
  /\ \/ logs = {} /\ io' = "ended" /\ UNCHANGED tmp
     \/ logs # {} /\ tmp' = logs /\ UNCHANGED io
  /\ UNCHANGED <<manager, run, control, loggers, console, locals, ghost>>

-----------------------------------------------------------------------------
StopLogs == StopLock \/ Shutdown \/ StopUnlock

Run == RunWake \/ RunCollect \/ RunUpdate \/ RunLoop \/ RunFinal \/ RunPass

(* From the moment a thread has its buffer to the end of its statement. *)
Flushing(t) == FlushPush(t) \/ FlushRelease(t) \/ AddBusyLog(t)

Next ==
  \/ Start \/ Stop \/ StopLogs \/ StopJoin
  \/ Run
  \/ \E t \in Producers :
       \/ \E l \in Loggers : CreateLog(t, l)
       \/ CreateNull(t)
       \/ \E l \in Loggers, level \in Levels : SetCurLevel(t, l, level)
       \/ Compose(t)
       \/ FlushNothing(t) \/ FlushConsole(t) \/ Flush(t)
       \/ Flushing(t)

Spec == Init /\ [][Next]_vars

(* The I/O thread runs, a Flush that has begun ends, and Stop goes on.       *)
FairSpec ==
  /\ Spec
  /\ WF_vars(Run)
  /\ WF_vars(StopLogs) /\ WF_vars(StopJoin)
  /\ \A t \in Producers : WF_vars(Flushing(t))

-----------------------------------------------------------------------------
(* The text in a sequence of lines; what logger l has written; what a thread has
   left in its buffer.                                                       *)
Text(lines) == FlattenSeq([i \in DOMAIN lines |-> lines[i].text])
Written(l) == Text(out[l])
Buffered(l, t) == IF t \in DOMAIN buffers[l] THEN Text(Log(buffers[l][t].data)) ELSE <<>>

(* The bytes Flush pushes for a sequence of lines. *)
Frames(lines) ==
  FlattenSeq([i \in DOMAIN lines |-> <<lines[i].level, Len(lines[i].text)>> \o lines[i].text])

(* Where a piece of text is: in a line that a thread composes, in what a logger has
   written, or in a buffer.                                                  *)
Positions(m, s) == {i \in DOMAIN s : s[i] = m}
Copies(m) ==
       (UNION {{<<"line", t, i>> : i \in Positions(m, text[t])} : t \in Producers})
  \cup (UNION {{<<"out", l, i>> : i \in Positions(m, Written(l))} : l \in Loggers})
  \cup (UNION {{<<"buffer", l, t, i>> : i \in Positions(m, Buffered(l, t))} :
                 l \in Loggers, t \in Producers})

(* Between marking its buffer and releasing it a thread writes to it without a lock
   (Logger.cc:207-217): the I/O thread must not have taken it from the map, where
   it would be freed after being written.                                    *)
BufferOwned ==
  \A t \in Producers :
    pc[t] \in {"push", "release"} =>
      t \in DOMAIN buffers[Stmt(t).log] /\ buffers[Stmt(t).log][t].inuse

(* Logger.cc:435, assert(nWritten == size): whatever lines threads pushed, _Log
   finds them again and consumes the buffer to its last byte.                *)
FramesWhole ==
  \A l \in Loggers : \A t \in DOMAIN buffers[l] :
    Frames(Log(buffers[l][t].data)) = buffers[l][t].data

(* Text is in one place, being composed, in a buffer or written, and never in two; or
   Flush has printed it because the logger was shut down, or it was refused.  None is
   lost or written twice, whatever Update, Stop, the final loop and the constructors of
   other loggers do meanwhile, although one thread-local line serves all loggers and a
   line that was printed stays in it.                                        *)
ExactlyOnce ==
  \A m \in 1..(next - 1) :
    /\ \A p, q \in Copies(m) : p = q
    /\ Copies(m) # {} \/ m \in console \/ m \in dropped

(* The lines of one thread reach a logger's output in the order it logged them,
   although its buffers come and go.                                         *)
ProgramOrder ==
  \A l \in Loggers :
    LET w == Written(l) IN
    /\ \A i, j \in DOMAIN w : i < j /\ author[w[i]] = author[w[j]] => w[i] < w[j]
    /\ \A t \in Producers :
         LET b == Buffered(l, t) IN
         /\ \A i, j \in DOMAIN b : i < j => b[i] < b[j]
         /\ \A i \in DOMAIN w, j \in DOMAIN b : author[w[i]] = t => w[i] < b[j]

(* When the I/O thread has ended, it leaves no logger in logs_ and no pointer to one
   in busyLogs_, although CreateLog and AddBusyLog race with Stop.           *)
EndedClean == io = "ended" => logs = {} /\ busyLogs = {}

(* A logger that Stop has shut down is dropped by the final loop only with all its
   buffers written: none can be marked in use after Shutdown, and those that were
   are waited for.                                                           *)
StoppedDrained ==
  \A l \in Loggers : stopped[l] /\ l \notin logs => DOMAIN buffers[l] = {}

(* Logger.cc:118, assert(level == curLevel_): Flush is called at the level its own
   statement set.                                                            *)
FlushLevel ==
  \A t \in Producers : pc[t] = "compose" => curLevel[t] = Stmt(t).level

(* What is flushed gets written, by way of busyLogs_ or of a timeout, unless Stop is
   called first.  (The threads log MaxMsg pieces at most: a logger that is busy for
   ever would keep RunCollect from looking at the others.)                   *)
EventuallyWritten ==
  \A l \in Loggers : \A m \in 1..MaxMsg :
    (\E t \in Producers : m \in ToSet(Buffered(l, t)))
      ~> (m \in ToSet(Written(l)) \/ stops > 0)

(* LogManager::Stop returns: whether it or the final loop gets logsMutex_ first, and
   whatever buffers are in use, the final loop ends.  (Again for at most MaxMsg
   pieces: threads that never pause could keep it going.)                    *)
StopReturns == main = "stop_logs" ~> main = "idle"
=============================================================================
