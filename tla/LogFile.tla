------------------------------- MODULE LogFile -------------------------------
(***************************************************************************)
(* The files of the loggers: Logger::_WriteLog with its rotation of files, *)
(* over MmapFile.  It is the inside of Update in module Logger, one line   *)
(* at a time: the manager's I/O thread, which alone calls it, decides      *)
(* whether the file is full, closes it, opens the next, makes room, copies.*)
(*                                                                         *)
(* The process may die between any two steps, and inside memcpy, which     *)
(* copies the bytes of a line in any order; open and mmap may fail.  A     *)
(* restarted process has another ID, which is part of the names of its     *)
(* files.  A line is a run of equal bytes, its number.                     *)
(***************************************************************************)
EXTENDS MmapFile, FiniteSets

CONSTANTS kMaxCharPerLog,  (* what operator<< keeps a line below             *)
          Suffix,          (* what Flush appends: the thread ID, a newline   *)
          kDefaultLogSize, (* the size at which the next file is begun       *)
          MaxLen,          (* bound: the length of a line                    *)
          MaxLine,         (* bound: lines written                           *)
          MaxPid,          (* bound: processes                               *)
          MaxFail          (* bound: calls of open or mmap that fail         *)

ASSUME LogConstantsOK ==
  /\ {Suffix, MaxLen, MaxLine, MaxFail} \subseteq Nat
  /\ {kMaxCharPerLog, MaxPid} \subseteq Nat \ {0}
  /\ kDefaultLogSize \in Nat /\ kMaxCharPerLog <= kDefaultLogSize
  /\ Zero = 0 /\ NoFile \notin (1..MaxPid) \X Nat

VARIABLES pc,     (* where the I/O thread is                                *)
          cur,    (* the logger it updates                                  *)
          line,   (* the bytes it writes                                    *)
          pid,    (* the process                                            *)
          seq,    (* Logger::seq_, common to all loggers                    *)
          count,  (* the lines begun so far                                 *)
          fails,  (* the calls that failed so far                           *)
          files,  (* the files of each logger, in the order of their Open   *)
          logged, (* the bytes each logger was given and has written        *)
          torn    (* the lines during whose memcpy the process died         *)

ghost == <<files, logged, torn>>
vars  == <<storage, pc, cur, line, pid, seq, count, fails, ghost>>

Loggers == Files
Names   == (1..MaxPid) \X Nat

(* The lengths of a line.  Flush appends to at least one character, and does so again when
   it finds a line that an earlier Flush has printed and not reset: a line has no limit. *)
Lengths == (Suffix + 1)..MaxLen

TypeOK ==
  /\ obj \in [Files -> [file : Names \cup {NoFile}, memory : BOOLEAN, offset : Nat,
                        size : Nat, syncPos : Nat]]
  /\ \A o \in Files : obj[o].offset <= obj[o].size
  /\ DOMAIN disk \subseteq Names
  /\ \A f \in DOMAIN disk : disk[f] \in Seq(0..MaxLine)
  /\ leaked \in [DOMAIN disk -> Nat]
  /\ handed \in [DOMAIN disk -> SUBSET Nat]
  /\ pc \in {"idle", "lines", "check", "close", "open", "space", "copy", "down"}
  /\ cur \in Loggers
  /\ line \in Seq(1..MaxLine)
  /\ pid \in 1..MaxPid /\ seq \in Nat /\ count \in 0..MaxLine /\ fails \in 0..MaxFail
  /\ files \in [Loggers -> Seq(Names)]
  /\ logged \in [Loggers -> Seq(1..MaxLine)]
  /\ torn \in SUBSET (1..MaxLine)

Init ==
  /\ obj = [o \in Files |-> Closed]
  /\ disk = <<>> /\ leaked = <<>> /\ handed = <<>>
  /\ pc = "idle" /\ cur \in Loggers /\ line = <<>>
  /\ pid = 1 /\ seq = 0 /\ count = 0 /\ fails = 0
  /\ files = [l \in Loggers |-> <<>>]
  /\ logged = [l \in Loggers |-> <<>>]
  /\ torn = {}

Goto(from, to) == pc = from /\ pc' = to

-----------------------------------------------------------------------------
(* Logger::Update of logger l, and Logger::_Log, which gives _WriteLog one line after
   the other.                                                                *)
BeginUpdate(l) ==
  /\ Goto("idle", "lines")
  /\ cur' = l
  /\ UNCHANGED <<storage, line, pid, seq, count, fails, ghost>>

WriteLog ==
  /\ Goto("lines", "check")
  /\ count < MaxLine
  /\ count' = count + 1
  /\ \E len \in Lengths : line' = [i \in 1..len |-> count + 1]
  /\ UNCHANGED <<storage, cur, pid, seq, fails, ghost>>

EndUpdate ==
  /\ Goto("lines", "idle")
  /\ Sync(cur)
  /\ UNCHANGED <<cur, line, pid, seq, count, fails, ghost>>

(* A test that leaves no room for the line. *)
NeedsFileLate == ~IsOpen(cur) \/ obj[cur].offset > kDefaultLogSize

(* Logger::_CheckChangeFile, the condition of the loop in _WriteLog. *)
NeedsFile == ~IsOpen(cur) \/ obj[cur].offset + kMaxCharPerLog > kDefaultLogSize

CheckChangeFile ==
  /\ Goto("check", IF NeedsFile THEN "close" ELSE "space")
  /\ UNCHANGED <<storage, cur, line, pid, seq, count, fails, ghost>>

CloseLogFile ==
  /\ Goto("close", "open")
  /\ Close(cur)
  /\ UNCHANGED <<cur, line, pid, seq, count, fails, ghost>>

(* A name without the sequence number. *)
NextSeqSame == seq

(* Logger::_MakeFileName. *)
NextSeq == seq + 1

(* Logger::_OpenLogFile.  When the file cannot be mapped the loop ends with it open. *)
OpenLogFile ==
  \E mapped \in BOOLEAN :
    /\ Goto("open", IF mapped THEN "check" ELSE "space")
    /\ mapped \/ fails < MaxFail
    /\ fails' = IF mapped THEN fails ELSE fails + 1
    /\ seq' = NextSeq
    /\ Open(cur, <<pid, NextSeq>>, mapped)
    /\ files' = [files EXCEPT ![cur] = Append(@, <<pid, NextSeq>>)]
    /\ UNCHANGED <<cur, line, pid, count, logged, torn>>

(* OMmapFile::Write, in two steps. *)
Space ==
  \E mapped \in BOOLEAN :
    /\ Goto("space", "copy")
    /\ mapped \/ (fails < MaxFail /\ NewSize(cur, Len(line)) > obj[cur].size)
    /\ fails' = IF mapped THEN fails ELSE fails + 1
    /\ AssureSpace(cur, Len(line), mapped)
    /\ UNCHANGED <<cur, line, pid, seq, count, ghost>>

Copy ==
  /\ obj[cur].memory
  /\ Goto("copy", "lines")
  /\ Put(cur, line)
  /\ logged' = [logged EXCEPT ![cur] = @ \o line]
  /\ UNCHANGED <<cur, line, pid, seq, count, fails, files, torn>>

(* Logger::~Logger, when the last owner of a logger lets go of it. *)
Destroy(l) ==
  /\ pc = "idle" \/ (pc # "down" /\ l # cur)
  /\ IsOpen(l)
  /\ Close(l)
  /\ UNCHANGED <<pc, cur, line, pid, seq, count, fails, ghost>>

-----------------------------------------------------------------------------
(* The process ends: its objects and mappings are gone, its files are not cut. *)
Die ==
  /\ pc' = "down"
  /\ obj' = [o \in Files |-> Closed]
  /\ leaked' = [f \in DOMAIN leaked |-> 0]
  /\ UNCHANGED <<handed, cur, line, pid, seq, count, files, logged>>

(* open fails: assert(false). *)
OpenFails ==
  /\ pc = "open" /\ fails < MaxFail
  /\ Die
  /\ fails' = fails + 1
  /\ UNCHANGED <<disk, torn>>

(* A Write that tries again when there is no mapping. *)
CopyRetries ==
  /\ ~obj[cur].memory
  /\ Goto("copy", "space")
  /\ UNCHANGED <<storage, cur, line, pid, seq, count, fails, ghost>>

(* memcpy to kInvalidAddr. *)
CopyFaults ==
  /\ pc = "copy" /\ ~obj[cur].memory
  /\ Die
  /\ UNCHANGED <<disk, torn, fails>>

(* The process is killed; inside memcpy, some of the bytes are copied. *)
Crash ==
  /\ pc # "down" /\ pid < MaxPid
  /\ Die
  /\ IF pc = "copy" /\ obj[cur].memory
       THEN \E done \in SUBSET DOMAIN line :
              /\ disk' = [disk EXCEPT ![obj[cur].file] =
                            Memcpy(@, obj[cur].offset,
                                   [i \in DOMAIN line |-> IF i \in done THEN line[i] ELSE Zero])]
              /\ torn' = torn \cup {line[1]}
       ELSE UNCHANGED <<disk, torn>>
  /\ UNCHANGED fails

Restart ==
  /\ Goto("down", "idle")
  /\ pid < MaxPid
  /\ pid' = pid + 1 /\ seq' = 0 /\ line' = <<>>
  /\ UNCHANGED <<storage, cur, count, fails, ghost>>

-----------------------------------------------------------------------------
Write == CheckChangeFile \/ CloseLogFile \/ OpenLogFile \/ OpenFails \/ Space \/ Copy \/ CopyFaults

Next ==
  \/ \E l \in Loggers : BeginUpdate(l) \/ Destroy(l)
  \/ WriteLog \/ EndUpdate
  \/ Write
  \/ Crash \/ Restart

Spec == Init /\ [][Next]_vars

(* The I/O thread runs while it writes a line. *)
FairSpec == Spec /\ WF_vars(Write)

-----------------------------------------------------------------------------
(* A byte of a line that was written whole. *)
Whole(b) == b # Zero /\ b \notin torn

(* The text in a file, padding and torn lines left out; all the text of logger l. *)
TextOf(bytes) ==
  FlattenSeq([i \in DOMAIN bytes |-> IF Whole(bytes[i]) THEN <<bytes[i]>> ELSE <<>>])
Text(l) ==
  FlattenSeq([i \in DOMAIN files[l] |-> TextOf(disk[files[l][i]])])

(* Whatever the process does, every line it has written is in the logger's files,
   whole, once and in order: through the change of file and the remapping of a file
   that grows (Logger.cc:498, MmapFile.cc:103), through mmap and open failures, and
   through the death of this process or of earlier ones.  A file that was closed has
   been cut to its text (MmapFile.cc:71): only a process that died leaves padding or a
   torn line.                                                                *)
Kept ==
  \A l \in Loggers :
    /\ Text(l) = logged[l]
    /\ \A f \in ToSet(files[l]) :
         pc # "down" /\ f[1] = pid /\ obj[l].file # f =>
           \A i \in DOMAIN disk[f] : Whole(disk[f][i])

(* Files that are open belong to one logger, and no file is opened twice, although
   seq_ is common to all loggers (Logger.cc:100): two writers of one file, each with
   an offset_ of its own, would overwrite each other.                        *)
OneWriter ==
  /\ \A k, l \in Loggers : k # l /\ IsOpen(k) => obj[k].file # obj[l].file
  /\ \A l \in Loggers : IsInjective(files[l])

(* _CheckChangeFile (Logger.cc:89) looks ahead by kMaxCharPerLog, not by the line, which
   may be longer.  So a file has no limit, but no line begins in it where kMaxCharPerLog
   would not fit: only its last line reaches past kDefaultLogSize.           *)
LinesBeginInside ==
  \A f \in DOMAIN disk : \A i \in DOMAIN disk[f] :
    Whole(disk[f][i]) /\ i - 1 + kMaxCharPerLog > kDefaultLogSize =>
      i > 1 /\ disk[f][i - 1] = disk[f][i]

(* The mappings that Truncate forgets (MmapFile.cc:115) are never released, of files
   closed long ago neither.  Of one file they stay below twice its length, because
   _AssureSpace doubles, and no further than it has to.  So all of them together stay
   below twice the length of what the process has written, and under no other bound. *)
FileBound ==
  /\ LinesBeginInside
  /\ \A f \in DOMAIN disk : leaked[f] > 0 => leaked[f] + kDefaultSize < 2 * Len(disk[f])

(* After Update, the text of every open file has been given to msync, to the last
   byte: syncPos_ starts again with each file (MmapFile.cc:79).              *)
SyncCovers ==
  pc = "idle" =>
    \A l \in Loggers : IsOpen(l) => 1..obj[l].offset \subseteq handed[obj[l].file]

(* The loop that looks for a file with room ends (Logger.cc:498): the line is written,
   or the process dies.                                                      *)
LineEnds == pc = "check" ~> pc \in {"lines", "down"}
=============================================================================
