----------------------------- MODULE LogFileProofs -----------------------------
(***************************************************************************)
(* Proofs about LogFile, for any loggers, processes, lines and sizes, with *)
(* crashes and with maps and truncations that fail.                        *)
(*                                                                         *)
(* Two loggers never write to the same file because a name that exists has *)
(* an older process or a smaller number than the next one (NamesTaken).    *)
(* The mappings that are forgotten of an open file are smaller than it     *)
(* because a size that grows at least doubles (NewSizeGrows), so that it   *)
(* exceeds all the mappings forgotten before (Leaks).                      *)
(* That msync has covered a file when its logger is left needs that it     *)
(* covers every other logger's file all the time (Synced).                 *)
(*                                                                         *)
(* That the files hold the text that was written needs to know of every    *)
(* open file that it is the last of its logger and of no other (LastFile)  *)
(* and that it is text up to offset_ and padding from there (Content), and *)
(* of the line being written that its number is new (Fresh), so that a     *)
(* line torn by a crash takes no other line's text with it.                *)
(*                                                                         *)
(* Lines begin where kMaxCharPerLog fits because the I/O thread makes room *)
(* in no other file (Where).  What is forgotten of a file stays below      *)
(* twice its length when it is closed and cut because a size that grew is  *)
(* less than twice the text it grew for (Grown).                           *)
(***************************************************************************)
EXTENDS LogFile, RecursionProofs

(* What is known of every file is a function of the files there are. *)
Disk ==
  /\ disk \in [DOMAIN disk -> Seq(0..MaxLine)]
  /\ \A l \in Loggers : ToSet(files[l]) \subseteq DOMAIN disk

(* A name is not given out twice: of this process those up to seq are taken. *)
NamesTaken == \A f \in DOMAIN disk : f[1] < pid \/ (f[1] = pid /\ f[2] <= seq)

(* A closed object is as new. *)
Objects ==
  \A l \in Loggers :
    /\ IsOpen(l) => obj[l].file \in DOMAIN disk
    /\ ~IsOpen(l) => obj[l] = Closed

(* What the I/O thread has made sure of where it is. *)
Where ==
  /\ pc = "open" => ~IsOpen(cur)
  /\ pc = "down" => \A l \in Loggers : ~IsOpen(l)
  /\ pc \in {"check", "close", "open", "space", "copy"} => Len(line) \in Lengths
  /\ pc \in {"space", "copy"} =>
       IsOpen(cur) /\ obj[cur].offset + kMaxCharPerLog <= kDefaultLogSize
  /\ pc = "copy" => obj[cur].offset + Len(line) <= obj[cur].size

(* What was given to msync, and that only the logger at work has more. *)
Synced ==
  \A l \in Loggers : IsOpen(l) =>
    /\ obj[l].syncPos <= obj[l].offset
    /\ 1..obj[l].syncPos \subseteq handed[obj[l].file]
    /\ l # cur \/ pc = "idle" => obj[l].syncPos = obj[l].offset

(* The mappings that were forgotten of an open file are smaller than the file. *)
Leaks ==
  \A l \in Loggers : IsOpen(l) => leaked[obj[l].file] + kDefaultSize <= obj[l].size

(* The inductive invariant. *)
IInv == TypeOK /\ Disk /\ NamesTaken /\ Objects /\ Where /\ OneWriter /\ Leaks /\ Synced

-----------------------------------------------------------------------------
(* ftruncate and memcpy make sequences of bytes of sequences of bytes. *)
LEMMA FtruncateType ==
  ASSUME NEW B, NEW s \in Seq(B), NEW n \in Nat, Zero \in B
  PROVE  Ftruncate(s, n) \in Seq(B)
<1>1. \A i \in 1..n : (IF i <= Len(s) THEN s[i] ELSE Zero) \in B
  OBVIOUS
<1>2. [i \in 1..n |-> IF i <= Len(s) THEN s[i] ELSE Zero] \in Seq(B)
  BY <1>1
<1> QED
  BY <1>2 DEF Ftruncate

(* What a file holds after ftruncate. *)
LEMMA TruncatedDisk ==
  ASSUME NEW s \in Seq(0..MaxLine), NEW n \in Nat
  PROVE  Ftruncate(s, n) \in Seq(0..MaxLine)
<1> DEFINE B == 0..MaxLine
<1>1. Zero \in B
  BY LogConstantsOK
<1> HIDE DEF B
<1>2. ASSUME NEW r \in Seq(B) PROVE Ftruncate(r, n) \in Seq(B)
  BY <1>1, FtruncateType
<1> QED
  BY <1>2 DEF B

(* Copying bytes into a file keeps it a sequence of them. *)
LEMMA MemcpyType ==
  ASSUME NEW B, NEW s \in Seq(B), NEW at \in Nat, NEW bytes \in Seq(B)
  PROVE  Memcpy(s, at, bytes) \in Seq(B)
<1> DEFINE v(i) == IF i \in (at + 1)..(at + Len(bytes)) THEN bytes[i - at] ELSE s[i]
<1>1. \A i \in 1..Len(s) : v(i) \in B
  <2> SUFFICES ASSUME NEW i \in 1..Len(s) PROVE v(i) \in B
    OBVIOUS
  <2>1. CASE i \in (at + 1)..(at + Len(bytes))
    <3>1. i - at \in 1..Len(bytes)
      BY <2>1
    <3>2. bytes[i - at] \in B
      BY <3>1
    <3> QED
      BY <2>1, <3>2
  <2>2. CASE i \notin (at + 1)..(at + Len(bytes))
    BY <2>2
  <2> QED
    BY <2>1, <2>2
<1>2. DOMAIN s = 1..Len(s) /\ Len(s) \in Nat
  OBVIOUS
<1>3. Memcpy(s, at, bytes) = [i \in 1..Len(s) |-> v(i)]
  BY <1>2 DEF Memcpy
<1> HIDE DEF v
<1> QED
  BY <1>1, <1>2, <1>3

(* What a file holds after a line was copied into it. *)
LEMMA CopiedDisk ==
  ASSUME NEW s \in Seq(0..MaxLine), NEW at \in Nat, NEW bytes \in Seq(1..MaxLine)
  PROVE  Memcpy(s, at, bytes) \in Seq(0..MaxLine)
<1> DEFINE B == 0..MaxLine
<1>1. bytes \in Seq(B)
  <2> DEFINE C == 1..MaxLine
  <2>1. C \subseteq B /\ bytes \in Seq(C)
    BY LogConstantsOK
  <2> HIDE DEF B, C
  <2>2. Len(bytes) \in Nat /\ bytes = [i \in 1..Len(bytes) |-> bytes[i]]
    BY <2>1
  <2>3. \A i \in 1..Len(bytes) : bytes[i] \in B
    BY <2>1
  <2> QED
    BY <2>2, <2>3
<1> HIDE DEF B
<1>2. ASSUME NEW r \in Seq(B) PROVE Memcpy(r, at, bytes) \in Seq(B)
  BY <1>1, MemcpyType
<1> QED
  BY <1>2 DEF B

(* The size _AssureSpace asks for has room for the line.  If it is not the one the file
   had it is at least twice that, and less than twice what the line needs. *)
LEMMA NewSizeGrows ==
  ASSUME NEW o \in Files, obj[o].size \in Nat \ {0}, obj[o].offset \in Nat, NEW len \in Nat
  PROVE  /\ NewSize(o, len) \in Nat
         /\ NewSize(o, len) >= obj[o].offset + len
         /\ NewSize(o, len) > obj[o].size => NewSize(o, len) >= 2 * obj[o].size
         /\ NewSize(o, len) >= obj[o].size
         /\ NewSize(o, len) > obj[o].size => NewSize(o, len) < 2 * (obj[o].offset + len)
<1> DEFINE least  == obj[o].offset + len
           larger == [n \in Nat |-> IF n = 0 THEN kDefaultSize ELSE 2 * n]
           double == CHOOSE f : f = [n \in Nat |->
                       IF obj[o].offset + len > n
                         THEN f[IF n = 0 THEN kDefaultSize ELSE 2 * n] ELSE n]
<1>1. NewSize(o, len) = double[obj[o].size]
  BY DEF NewSize
<1>2. least \in Nat /\ Larger(larger, least)
  BY FileConstantsOK DEF Larger
<1>3. ASSUME NEW f
      PROVE  Grows(f, larger, least)
               <=> f = [n \in Nat |->
                     IF obj[o].offset + len > n
                       THEN f[IF n = 0 THEN kDefaultSize ELSE 2 * n] ELSE n]
  <2>1. \A n \in Nat : (n < least <=> obj[o].offset + len > n)
                       /\ larger[n] = IF n = 0 THEN kDefaultSize ELSE 2 * n
    OBVIOUS
  <2>2. [n \in Nat |-> IF n < least THEN f[larger[n]] ELSE n]
          = [n \in Nat |-> IF obj[o].offset + len > n
                             THEN f[IF n = 0 THEN kDefaultSize ELSE 2 * n] ELSE n]
    BY <2>1
  <2> QED
    BY <2>2 DEF Grows
<1>4. \A n \in Nat \ {0} : larger[n] = 2 * n
  OBVIOUS
<1> HIDE DEF larger, least
<1>5. \E f : f = [n \in Nat |-> IF obj[o].offset + len > n
                    THEN f[IF n = 0 THEN kDefaultSize ELSE 2 * n] ELSE n]
  BY <1>2, <1>3, GrowthExists
<1>6. Grows(double, larger, least)
  BY <1>3, <1>5
<1> HIDE DEF double
<1>7. /\ double[obj[o].size] \in Nat /\ double[obj[o].size] >= least
      /\ double[obj[o].size] >= obj[o].size
      /\ obj[o].size < least => double[obj[o].size] >= larger[obj[o].size]
      /\ obj[o].size >= least => double[obj[o].size] = obj[o].size
  BY <1>2, <1>6, GrowthReaches
<1>8. obj[o].size < least => \E n \in Nat \ {0} : n < least /\ double[obj[o].size] = larger[n]
  BY <1>2, <1>6, GrowthStops
<1>9. obj[o].size < least => double[obj[o].size] < 2 * least
  BY <1>2, <1>4, <1>8
<1> QED
  BY <1>1, <1>2, <1>4, <1>7, <1>9 DEF least

(* The objects and what the system knows of their files, by type. *)
ObjType == [file : Names \cup {NoFile}, memory : BOOLEAN, offset : Nat, size : Nat,
            syncPos : Nat]

(* The fields of an OMmapFile. *)
LEMMA ObjectTypes ==
  ASSUME IInv, NEW l \in Loggers
  PROVE  /\ obj \in [Files -> ObjType]
         /\ obj[l].file \in Names \cup {NoFile} /\ obj[l].memory \in BOOLEAN
         /\ obj[l].offset \in Nat /\ obj[l].size \in Nat /\ obj[l].syncPos \in Nat
         /\ obj[l].offset <= obj[l].size
         /\ IsOpen(l) => /\ obj[l].file \in DOMAIN disk
                         /\ disk[obj[l].file] \in Seq(0..MaxLine)
                         /\ leaked[obj[l].file] \in Nat
                         /\ handed[obj[l].file] \in SUBSET Nat
                         /\ obj[l].size \in Nat \ {0}
<1>1. obj \in [Files -> ObjType] /\ obj[l] \in ObjType /\ obj[l].offset <= obj[l].size
  BY DEF IInv, TypeOK, ObjType, Loggers
<1>2. /\ obj[l].file \in Names \cup {NoFile} /\ obj[l].memory \in BOOLEAN
      /\ obj[l].offset \in Nat /\ obj[l].size \in Nat /\ obj[l].syncPos \in Nat
  BY <1>1 DEF ObjType
<1>3. ASSUME IsOpen(l)
      PROVE  /\ obj[l].file \in DOMAIN disk
             /\ disk[obj[l].file] \in Seq(0..MaxLine)
             /\ leaked[obj[l].file] \in Nat
             /\ handed[obj[l].file] \in SUBSET Nat
             /\ leaked[obj[l].file] + kDefaultSize <= obj[l].size
  <2>1. obj[l].file \in DOMAIN disk
    BY <1>3 DEF IInv, Objects
  <2>2. leaked[obj[l].file] + kDefaultSize <= obj[l].size
    BY <1>3 DEF IInv, Leaks
  <2> QED
    BY <2>1, <2>2 DEF IInv, TypeOK
<1>4. IsOpen(l) => obj[l].size \in Nat \ {0}
  BY <1>2, <1>3, FileConstantsOK
<1> QED
  BY <1>1, <1>2, <1>3, <1>4

(* A file name is a process ID and a number. *)
LEMMA NameParts == ASSUME NEW f \in Names PROVE f[1] \in Nat /\ f[2] \in Nat
  BY LogConstantsOK DEF Names

(* A closed OMmapFile. *)
LEMMA ClosedType == Closed \in ObjType /\ Closed.file = NoFile
  BY DEF Closed, ObjType

(* Where the I/O thread is. *)
PCs == {"idle", "lines", "check", "close", "open", "space", "copy", "down"}

(* Steps that leave the files alone. *)
LEMMA StorageKept ==
  ASSUME IInv, UNCHANGED <<storage, files, logged, torn, pid, seq>>,
         pc' \in PCs, cur' \in Loggers, line' \in Seq(1..MaxLine), count' \in 0..MaxLine,
         fails' \in 0..MaxFail, Where',
         \A l \in Loggers : IsOpen(l) /\ (l # cur' \/ pc' = "idle") => l # cur \/ pc = "idle"
  PROVE  IInv'
<1> USE DEF storage
<1>1. TypeOK'
  BY DEF IInv, TypeOK, PCs
<1>2. Disk' /\ NamesTaken' /\ Objects'
  BY DEF IInv, Disk, NamesTaken, Objects, IsOpen
<1>3. OneWriter' /\ Leaks'
  BY DEF IInv, OneWriter, Leaks, IsOpen
<1>4. Synced'
  BY DEF IInv, Synced, IsOpen
<1> QED
  BY <1>1, <1>2, <1>3, <1>4 DEF IInv

(* The I/O thread turns to a logger. *)
LEMMA BeginStep == ASSUME IInv, NEW l \in Loggers, BeginUpdate(l) PROVE IInv'
<1>1. /\ pc = "idle" /\ pc' = "lines" /\ cur' = l
      /\ UNCHANGED <<storage, line, pid, seq, count, fails, files, logged, torn>>
  BY DEF BeginUpdate, Goto, ghost
<1>2. Where'
  BY <1>1 DEF Where
<1> QED
  BY <1>1, <1>2, StorageKept DEF PCs, IInv, TypeOK

(* Logger::_WriteLog starts on the next line. *)
LEMMA WriteLogStep == ASSUME IInv, WriteLog PROVE IInv'
<1>1. /\ pc = "lines" /\ pc' = "check" /\ count < MaxLine /\ count' = count + 1
      /\ UNCHANGED <<storage, cur, pid, seq, fails, files, logged, torn>>
  BY DEF WriteLog, Goto, ghost
<1>2. PICK len \in Lengths : line' = [i \in 1..len |-> count + 1]
  BY DEF WriteLog
<1>3. len \in Nat
  BY <1>2, LogConstantsOK DEF Lengths
<1>4. count \in Nat /\ MaxLine \in Nat
  BY LogConstantsOK DEF IInv, TypeOK
<1>5. count + 1 \in 1..MaxLine /\ count' \in 0..MaxLine
  BY <1>1, <1>4
<1>6. line' \in Seq(1..MaxLine) /\ Len(line') = len
  <2> DEFINE B == 1..MaxLine
             c == count + 1
  <2>1. c \in B
    BY <1>5
  <2> HIDE DEF B, c
  <2>2. [i \in 1..len |-> c] \in Seq(B) /\ Len([i \in 1..len |-> c]) = len
    BY <1>3, <2>1
  <2> QED
    BY <1>2, <2>2 DEF B, c
<1>7. Where'
  BY <1>1, <1>2, <1>6 DEF Where, Lengths
<1> QED
  BY <1>1, <1>5, <1>6, <1>7, StorageKept DEF PCs, IInv, TypeOK

(* _CheckChangeFile decides whether the line needs a new file. *)
LEMMA CheckStep == ASSUME IInv, CheckChangeFile PROVE IInv'
<1>1. /\ pc = "check" /\ pc' = IF NeedsFile THEN "close" ELSE "space"
      /\ UNCHANGED <<storage, cur, line, pid, seq, count, fails, files, logged, torn>>
  BY DEF CheckChangeFile, Goto, ghost
<1>2. cur \in Loggers
  BY DEF IInv, TypeOK
<1>3. ~NeedsFile => IsOpen(cur) /\ obj[cur].offset + kMaxCharPerLog <= kDefaultLogSize
  BY <1>2, ObjectTypes, LogConstantsOK DEF NeedsFile
<1>4. Len(line) \in Lengths
  BY <1>1 DEF IInv, Where
<1>5. Where'
  BY <1>1, <1>3, <1>4 DEF Where, IsOpen, storage, Lengths
<1> QED
  BY <1>1, <1>5, StorageKept DEF PCs, IInv, TypeOK

(* A new process has a new ID, and counts its files anew. *)
LEMMA RestartStep == ASSUME IInv, Restart PROVE IInv'
<1>1. /\ pc = "down" /\ pc' = "idle" /\ pid < MaxPid /\ pid' = pid + 1 /\ seq' = 0
      /\ line' = <<>> /\ UNCHANGED <<storage, cur, count, fails, files, logged, torn>>
  BY DEF Restart, Goto, ghost
<1> USE DEF storage
<1>2. pid \in Nat /\ pid' \in 1..MaxPid
  BY <1>1, LogConstantsOK DEF IInv, TypeOK
<1>3. TypeOK'
  BY <1>1, <1>2 DEF IInv, TypeOK
<1>4. Disk' /\ Objects' /\ OneWriter' /\ Leaks'
  BY <1>1 DEF IInv, Disk, Objects, OneWriter, Leaks, IsOpen
<1>5. NamesTaken'
  <2> SUFFICES ASSUME NEW f \in DOMAIN disk PROVE f[1] < pid + 1
    BY <1>1 DEF NamesTaken
  <2>1. f[1] \in Nat
    BY NameParts DEF IInv, TypeOK
  <2> QED
    BY <1>2, <2>1 DEF IInv, NamesTaken
<1>6. Where' /\ Synced'
  BY <1>1 DEF IInv, Where, Synced, IsOpen
<1> QED
  BY <1>3, <1>4, <1>5, <1>6 DEF IInv

(* Close, by the I/O thread or by the destructor of a logger it does not work for. *)
LEMMA CloseStep ==
  ASSUME IInv, NEW o \in Loggers, Close(o), pc' \in PCs,
         UNCHANGED <<cur, line, pid, seq, count, fails, files, logged, torn>>,
         \/ pc' = pc /\ (pc = "idle" \/ (pc # "down" /\ o # cur))
         \/ pc = "close" /\ pc' = "open" /\ o = cur
  PROVE  IInv'
<1>1. /\ obj' = [obj EXCEPT ![o] = Closed]
      /\ disk' \in [DOMAIN disk -> Seq(0..MaxLine)]
      /\ UNCHANGED <<leaked, handed>>
  <2>1. CASE IsOpen(o)
    <3> DEFINE f == obj[o].file
    <3>1. f \in DOMAIN disk /\ disk[f] \in Seq(0..MaxLine) /\ obj[o].offset \in Nat
      BY <2>1, ObjectTypes
    <3>2. Ftruncate(disk[f], obj[o].offset) \in Seq(0..MaxLine)
      BY <3>1, TruncatedDisk
    <3>3. disk' = [disk EXCEPT ![f] = Ftruncate(disk[f], obj[o].offset)]
      BY <2>1 DEF Close
    <3>4. disk \in [DOMAIN disk -> Seq(0..MaxLine)]
      BY DEF IInv, Disk
    <3> HIDE DEF f
    <3>5. disk' \in [DOMAIN disk -> Seq(0..MaxLine)]
      BY <3>1, <3>2, <3>3, <3>4
    <3> QED
      BY <2>1, <3>5 DEF Close
  <2>2. CASE ~IsOpen(o)
    <3>1. obj[o] = Closed /\ obj \in [Files -> ObjType] /\ UNCHANGED <<obj, disk, leaked, handed>>
      BY <2>2, ObjectTypes DEF Close, IInv, Objects, storage
    <3> QED
      BY <3>1 DEF IInv, Disk
  <2> QED
    BY <2>1, <2>2
<1>2. obj \in [Files -> ObjType] /\ Loggers = Files
  BY ObjectTypes DEF Loggers
<1>3. /\ obj'[o] = Closed /\ ~IsOpen(o)'
      /\ \A l \in Loggers : l # o => obj'[l] = obj[l] /\ (IsOpen(l)' <=> IsOpen(l))
  BY <1>1, <1>2, ClosedType DEF IsOpen
<1>4. DOMAIN disk' = DOMAIN disk
  BY <1>1
<1>5. TypeOK'
  <2>1. obj' \in [Files -> ObjType]
    BY <1>1, <1>2, ClosedType
  <2>2. \A l \in Files : obj'[l].offset <= obj'[l].size
    BY <1>2, <1>3, ObjectTypes DEF Closed
  <2>3. DOMAIN disk' \subseteq Names /\ \A f \in DOMAIN disk' : disk'[f] \in Seq(0..MaxLine)
    BY <1>1, <1>4 DEF IInv, TypeOK
  <2> QED
    BY <1>1, <1>4, <2>1, <2>2, <2>3 DEF IInv, TypeOK, PCs, ObjType
<1>6. Disk' /\ NamesTaken'
  BY <1>1, <1>4 DEF IInv, Disk, NamesTaken
<1>7. Objects'
  BY <1>3, <1>4 DEF IInv, Objects
<1>8. OneWriter'
  BY <1>3, ClosedType DEF IInv, OneWriter, IsOpen
<1>9. Leaks'
  BY <1>1, <1>3 DEF IInv, Leaks
<1>10. Where'
  BY <1>3 DEF IInv, Where, TypeOK
<1>11. Synced'
  BY <1>1, <1>3 DEF IInv, Synced
<1> QED
  BY <1>5, <1>6, <1>7, <1>8, <1>9, <1>10, <1>11 DEF IInv

(* EndUpdate: Sync hands the rest of the text to msync. *)
LEMMA SyncStep == ASSUME IInv, EndUpdate PROVE IInv'
<1> DEFINE f == obj[cur].file
           s == obj[cur].syncPos
           p == obj[cur].offset
<1>1. /\ pc = "lines" /\ pc' = "idle" /\ Sync(cur)
      /\ UNCHANGED <<cur, line, pid, seq, count, fails, files, logged, torn>>
  BY DEF EndUpdate, Goto, ghost
<1>2. cur \in Loggers /\ Loggers = Files
  BY DEF IInv, TypeOK, Loggers
<1>3. obj \in [Files -> ObjType] /\ s \in Nat /\ p \in Nat
  BY <1>2, ObjectTypes
<1>4. Where'
  BY <1>1 DEF Where
<1>5. CASE ~(IsOpen(cur) /\ s < p)
  <2>1. UNCHANGED <<obj, disk, leaked, handed>>
    BY <1>1, <1>5 DEF Sync, storage
  <2>2. TypeOK'
    BY <1>1, <2>1 DEF IInv, TypeOK
  <2>3. Disk' /\ NamesTaken' /\ Objects' /\ OneWriter' /\ Leaks'
    BY <1>1, <2>1 DEF IInv, Disk, NamesTaken, Objects, OneWriter, Leaks, IsOpen
  <2>4. IsOpen(cur) => s = p
    BY <1>2, <1>3, <1>5 DEF IInv, Synced
  <2>5. Synced'
    BY <1>1, <2>1, <2>4 DEF IInv, Synced, IsOpen
  <2> QED
    BY <1>4, <2>2, <2>3, <2>5 DEF IInv
<1>6. CASE IsOpen(cur) /\ s < p
  <2> DEFINE h == handed[f] \cup ((s + 1)..p)
  <2>1. /\ handed' = [handed EXCEPT ![f] = h]
        /\ obj' = [obj EXCEPT ![cur].syncPos = p]
        /\ UNCHANGED <<disk, leaked>>
    BY <1>1, <1>6 DEF Sync
  <2>2. f \in DOMAIN disk /\ handed[f] \in SUBSET Nat /\ handed \in [DOMAIN disk -> SUBSET Nat]
    BY <1>2, <1>6, ObjectTypes DEF IInv, TypeOK
  <2>3. h \in SUBSET Nat
    BY <1>3, <2>2
  <2>4. /\ handed' \in [DOMAIN disk -> SUBSET Nat] /\ handed'[f] = h
        /\ \A g \in DOMAIN disk : g # f => handed'[g] = handed[g]
    BY <2>1, <2>2, <2>3
  <2>5. /\ obj' \in [Files -> ObjType]
        /\ \A l \in Files : l # cur => obj'[l] = obj[l]
        /\ obj'[cur].file = f /\ obj'[cur].offset = p /\ obj'[cur].syncPos = p
        /\ obj'[cur].size = obj[cur].size
    <3>1. obj[cur] \in ObjType
      BY <1>2, <1>3
    <3>2. [obj[cur] EXCEPT !.syncPos = p] \in ObjType
      BY <1>3, <3>1 DEF ObjType
    <3>3. obj' = [obj EXCEPT ![cur] = [obj[cur] EXCEPT !.syncPos = p]]
      BY <2>1
    <3>4. obj'[cur] = [obj[cur] EXCEPT !.syncPos = p]
      BY <1>2, <1>3, <3>3
    <3>5. obj'[cur].file = f /\ obj'[cur].offset = p /\ obj'[cur].syncPos = p
          /\ obj'[cur].size = obj[cur].size
      BY <3>1, <3>4 DEF ObjType
    <3> QED
      BY <1>2, <1>3, <3>2, <3>3, <3>5
  <2>6. \A l \in Loggers : (IsOpen(l)' <=> IsOpen(l)) /\ obj'[l].file = obj[l].file
                           /\ obj'[l].offset = obj[l].offset /\ obj'[l].size = obj[l].size
    BY <1>2, <2>5 DEF IsOpen
  <2>7. TypeOK'
    BY <1>1, <1>2, <2>1, <2>4, <2>5, <2>6 DEF IInv, TypeOK, ObjType
  <2>8. Disk' /\ NamesTaken'
    BY <1>1, <2>1 DEF IInv, Disk, NamesTaken
  <2>9. Objects'
    BY <1>2, <1>6, <2>1, <2>2, <2>5, <2>6 DEF IInv, Objects
  <2>10. OneWriter' /\ Leaks'
    BY <1>1, <2>1, <2>6 DEF IInv, OneWriter, Leaks
  <2>11. Synced'
    <3> SUFFICES ASSUME NEW l \in Loggers, IsOpen(l)
                 PROVE  /\ obj'[l].syncPos = obj'[l].offset
                        /\ 1..obj'[l].syncPos \subseteq handed'[obj'[l].file]
                        /\ obj'[l].syncPos <= obj'[l].offset
      BY <2>6 DEF Synced
    <3>1. CASE l = cur
      <4>1. 1..s \subseteq handed[f]
        BY <1>2, <1>6 DEF IInv, Synced
      <4>2. 1..p \subseteq h
        BY <1>3, <4>1
      <4> QED
        BY <1>3, <2>4, <2>5, <3>1, <4>2
    <3>2. CASE l # cur
      <4>1. obj[l].file # f /\ obj[l].file \in DOMAIN disk
        BY <1>2, <1>6, <3>2, ObjectTypes DEF IInv, OneWriter
      <4>2. handed'[obj[l].file] = handed[obj[l].file] /\ obj'[l] = obj[l]
        BY <1>2, <2>4, <2>5, <3>2, <4>1
      <4> QED
        BY <3>2, <4>2, ObjectTypes DEF IInv, Synced
    <3> QED
      BY <3>1, <3>2
  <2> QED
    BY <1>4, <2>7, <2>8, <2>9, <2>10, <2>11 DEF IInv
<1> QED
  BY <1>5, <1>6

(* _OpenLogFile: the name is new, so the file is, and empty. *)
LEMMA OpenStep == ASSUME IInv, OpenLogFile PROVE IInv'
<1> DEFINE f == <<pid, seq + 1>>
<1>1. PICK mapped \in BOOLEAN :
        /\ pc = "open" /\ pc' = IF mapped THEN "check" ELSE "space"
        /\ mapped \/ fails < MaxFail
        /\ fails' = IF mapped THEN fails ELSE fails + 1
        /\ seq' = seq + 1
        /\ Open(cur, f, mapped)
        /\ files' = [files EXCEPT ![cur] = Append(@, f)]
        /\ UNCHANGED <<cur, line, pid, count, logged, torn>>
  BY DEF OpenLogFile, Goto, NextSeq
<1>2. cur \in Loggers /\ Loggers = Files /\ obj \in [Files -> ObjType] /\ ~IsOpen(cur)
  BY <1>1, ObjectTypes DEF IInv, TypeOK, Loggers, Where
<1>3. obj[cur] = Closed
  BY <1>2 DEF IInv, Objects
<1>4. f \in Names /\ f # NoFile /\ pid \in Nat /\ seq \in Nat
  BY LogConstantsOK, SMTT(30) DEF IInv, TypeOK, Names
<1>5. f \notin DOMAIN disk
  <2>1. f \in DOMAIN disk => pid < pid \/ (pid = pid /\ seq + 1 <= seq)
    BY DEF IInv, NamesTaken
  <2> QED
    BY <1>4, <2>1
<1> HIDE DEF f
<1> DEFINE new == [Closed EXCEPT !.file = f, !.memory = mapped, !.offset = 0,
                                 !.size = kDefaultSize]
<1>6. /\ disk' = With(disk, f, Ftruncate(<<>>, kDefaultSize))
      /\ leaked' = With(leaked, f, 0) /\ handed' = With(handed, f, {})
      /\ obj' = [obj EXCEPT ![cur].file = f, ![cur].memory = mapped, ![cur].offset = 0,
                            ![cur].size = kDefaultSize]
  <2> DEFINE old == IF f \in DOMAIN disk THEN disk[f] ELSE <<>>
             size == IF Len(old) > kDefaultSize THEN Len(old) ELSE kDefaultSize
  <2>1. old = <<>> /\ Len(old) = 0 /\ size = kDefaultSize
    BY <1>5, FileConstantsOK
  <2>2. /\ disk' = With(disk, f, Ftruncate(old, size))
        /\ leaked' = With(leaked, f, IF f \in DOMAIN disk THEN leaked[f] ELSE 0)
        /\ handed' = With(handed, f, IF f \in DOMAIN disk THEN handed[f] ELSE {})
        /\ obj' = [obj EXCEPT ![cur].file = f, ![cur].memory = mapped,
                              ![cur].offset = Len(old), ![cur].size = size]
    BY <1>1 DEF Open
  <2> HIDE DEF old, size
  <2> QED
    BY <1>5, <2>1, <2>2
<1>7. obj' = [obj EXCEPT ![cur] = new]
  <2>1. obj' = [obj EXCEPT ![cur] = [obj[cur] EXCEPT !.file = f, !.memory = mapped,
                                                     !.offset = 0, !.size = kDefaultSize]]
    BY <1>2, <1>6
  <2> QED
    BY <1>3, <2>1
<1>8. new \in ObjType /\ new.file = f /\ new.offset = 0 /\ new.size = kDefaultSize
      /\ new.syncPos = 0
  BY <1>4, FileConstantsOK DEF ObjType, Closed
<1> HIDE DEF new
<1>9. /\ obj' \in [Files -> ObjType] /\ obj'[cur] = new /\ IsOpen(cur)'
      /\ \A l \in Loggers : l # cur => obj'[l] = obj[l] /\ (IsOpen(l)' <=> IsOpen(l))
  BY <1>1, <1>2, <1>4, <1>7, <1>8 DEF IsOpen
<1>10. /\ DOMAIN disk' = DOMAIN disk \cup {f} /\ disk' \in [DOMAIN disk' -> Seq(0..MaxLine)]
       /\ DOMAIN disk' \subseteq Names
  <2>1. <<>> \in Seq(0..MaxLine) /\ kDefaultSize \in Nat
    BY FileConstantsOK
  <2>2. Ftruncate(<<>>, kDefaultSize) \in Seq(0..MaxLine)
    BY <2>1, TruncatedDisk
  <2>3. disk \in [DOMAIN disk -> Seq(0..MaxLine)] /\ DOMAIN disk \subseteq Names
    BY DEF IInv, Disk, TypeOK
  <2> QED
    BY <1>4, <1>6, <2>2, <2>3 DEF With
<1>11. /\ leaked' \in [DOMAIN disk' -> Nat] /\ leaked'[f] = 0
       /\ \A g \in DOMAIN disk : leaked'[g] = leaked[g]
  <2>1. leaked \in [DOMAIN disk -> Nat]
    BY DEF IInv, TypeOK
  <2> QED
    BY <1>5, <1>6, <1>10, <2>1 DEF With
<1>12. /\ handed' \in [DOMAIN disk' -> SUBSET Nat]
       /\ \A g \in DOMAIN disk : handed'[g] = handed[g]
  <2>1. handed \in [DOMAIN disk -> SUBSET Nat]
    BY DEF IInv, TypeOK
  <2> QED
    BY <1>5, <1>6, <1>10, <2>1 DEF With
<1>13. /\ files' \in [Loggers -> Seq(Names)]
       /\ \A l \in Loggers : l # cur => files'[l] = files[l]
       /\ files'[cur] = Append(files[cur], f)
  <2>1. files \in [Loggers -> Seq(Names)]
    BY DEF IInv, TypeOK
  <2>2. Append(files[cur], f) \in Seq(Names)
    BY <1>2, <1>4, <2>1
  <2> QED
    BY <1>1, <1>2, <2>1, <2>2
<1>14. ToSet(files'[cur]) = ToSet(files[cur]) \cup {f} /\ IsInjective(files'[cur])
  <2> DEFINE s == files[cur]
  <2>1. s \in Seq(Names) /\ IsInjective(s) /\ ToSet(s) \subseteq DOMAIN disk
    BY <1>2 DEF IInv, TypeOK, OneWriter, Disk
  <2>2. f \notin ToSet(s)
    BY <1>5, <2>1
  <2> HIDE DEF s
  <2> DEFINE a == Append(s, f)
  <2>3. /\ DOMAIN s = 1..Len(s) /\ Len(s) \in Nat /\ DOMAIN a = 1..(Len(s) + 1)
        /\ \A i \in DOMAIN s : a[i] = s[i]
        /\ a[Len(s) + 1] = f
    BY <1>4, <2>1
  <2> HIDE DEF a
  <2>4. ToSet(a) = ToSet(s) \cup {f}
    BY <2>3 DEF ToSet
  <2>5. \A i \in DOMAIN s : s[i] # f
    BY <2>2 DEF ToSet
  <2>6. IsInjective(a)
    <3> SUFFICES ASSUME NEW i \in DOMAIN a, NEW j \in DOMAIN a, a[i] = a[j] PROVE i = j
      BY DEF IsInjective
    <3>1. CASE i \in DOMAIN s /\ j \in DOMAIN s
      BY <2>1, <2>3, <3>1 DEF IsInjective
    <3>2. CASE i \notin DOMAIN s \/ j \notin DOMAIN s
      BY <2>3, <2>5, <3>2
    <3> QED
      BY <3>1, <3>2
  <2> QED
    BY <1>13, <2>4, <2>6 DEF a, s
<1>15. TypeOK'
  <2>1. \A l \in Files : obj'[l].offset <= obj'[l].size
    BY <1>2, <1>8, <1>9, ObjectTypes, FileConstantsOK
  <2>2. fails' \in 0..MaxFail /\ seq' \in Nat /\ pc' \in PCs
    BY <1>1, <1>4, LogConstantsOK, SMTT(30) DEF IInv, TypeOK, PCs
  <2>3. \A g \in DOMAIN disk' : disk'[g] \in Seq(0..MaxLine)
    BY <1>10
  <2> QED
    BY <1>1, <1>9, <1>10, <1>11, <1>12, <1>13, <2>1, <2>2, <2>3
       DEF IInv, TypeOK, PCs, ObjType
<1>16. Disk'
  BY <1>10, <1>13, <1>14 DEF IInv, Disk
<1>17. NamesTaken'
  <2> SUFFICES ASSUME NEW g \in DOMAIN disk'
               PROVE  g[1] < pid \/ (g[1] = pid /\ g[2] <= seq + 1)
    BY <1>1 DEF NamesTaken
  <2>1. CASE g = f
    <3>1. g[1] = pid /\ g[2] = seq + 1
      BY <2>1 DEF f
    <3> QED
      BY <1>4, <3>1
  <2>2. CASE g \in DOMAIN disk
    <3>1. g[1] \in Nat /\ g[2] \in Nat
      BY <2>2, NameParts DEF IInv, TypeOK
    <3> QED
      BY <1>4, <2>2, <3>1 DEF IInv, NamesTaken
  <2> QED
    BY <1>10, <2>1, <2>2
<1>18. Objects'
  <2> SUFFICES ASSUME NEW l \in Loggers
               PROVE  /\ IsOpen(l)' => obj'[l].file \in DOMAIN disk'
                      /\ ~IsOpen(l)' => obj'[l] = Closed
    BY DEF Objects, Closed
  <2>1. CASE l = cur
    BY <1>4, <1>8, <1>9, <1>10, <2>1 DEF IsOpen
  <2>2. CASE l # cur
    BY <1>9, <1>10, <2>2 DEF IInv, Objects
  <2> QED
    BY <2>1, <2>2
<1>19. OneWriter'
  <2>1. \A l \in Loggers : l # cur => obj'[l].file # f
    BY <1>4, <1>5, <1>9 DEF IInv, Objects, IsOpen
  <2>2. obj'[cur].file = f
    BY <1>8, <1>9
  <2>3. \A k, l \in Loggers : k # l /\ IsOpen(k)' => obj'[k].file # obj'[l].file
    BY <1>9, <2>1, <2>2 DEF IInv, OneWriter
  <2>4. \A l \in Loggers : IsInjective(files'[l])
    BY <1>13, <1>14 DEF IInv, OneWriter
  <2> QED
    BY <2>3, <2>4 DEF OneWriter
<1>20. kMaxCharPerLog <= kDefaultLogSize
       /\ {kMaxCharPerLog, kDefaultLogSize} \subseteq Nat
  BY LogConstantsOK
<1>21. Leaks'
  <2> SUFFICES ASSUME NEW l \in Loggers, IsOpen(l)'
               PROVE  leaked'[obj'[l].file] + kDefaultSize <= obj'[l].size
    BY DEF Leaks
  <2>1. CASE l = cur
    BY <1>8, <1>9, <1>11, <1>20, <2>1, FileConstantsOK
  <2>2. CASE l # cur
    <3>1. IsOpen(l) /\ obj'[l] = obj[l] /\ leaked'[obj[l].file] = leaked[obj[l].file]
      BY <1>9, <1>11, <2>2, ObjectTypes
    <3> QED
      BY <3>1 DEF IInv, Leaks
  <2> QED
    BY <2>1, <2>2
<1>22. Where'
  <2>1. Len(line) \in Lengths
    BY <1>1 DEF IInv, Where
  <2>2. Len(line)' \in Lengths'
    BY <1>1, <2>1 DEF Lengths
  <2>3. obj'[cur].offset + kMaxCharPerLog <= kDefaultLogSize
    BY <1>8, <1>9, <1>20
  <2> QED
    BY <1>1, <1>9, <2>2, <2>3 DEF Where
<1>23. Synced'
  <2> SUFFICES ASSUME NEW l \in Loggers, IsOpen(l)'
               PROVE  /\ obj'[l].syncPos <= obj'[l].offset
                      /\ 1..obj'[l].syncPos \subseteq handed'[obj'[l].file]
                      /\ l # cur \/ pc' = "idle" => obj'[l].syncPos = obj'[l].offset
    BY <1>1 DEF Synced
  <2>1. CASE l = cur
    <3>1. obj'[l].syncPos = 0 /\ obj'[l].offset = 0
      BY <1>8, <1>9, <2>1
    <3> QED
      BY <3>1
  <2>2. CASE l # cur
    <3>1. IsOpen(l) /\ obj'[l] = obj[l] /\ handed'[obj[l].file] = handed[obj[l].file]
      BY <1>9, <1>12, <2>2, ObjectTypes
    <3> QED
      BY <2>2, <3>1 DEF IInv, Synced
  <2> QED
    BY <2>1, <2>2
<1> QED
  BY <1>15, <1>16, <1>17, <1>18, <1>19, <1>21, <1>22, <1>23 DEF IInv

(* _AssureSpace: a file that is extended is at least doubled, which pays for the mapping
   that is forgotten. *)
LEMMA SpaceStep == ASSUME IInv, Space PROVE IInv'
<1> DEFINE f == obj[cur].file
           n == NewSize(cur, Len(line))
<1>1. PICK mapped \in BOOLEAN :
        /\ pc = "space" /\ pc' = "copy"
        /\ mapped \/ fails < MaxFail
        /\ fails' = IF mapped THEN fails ELSE fails + 1
        /\ AssureSpace(cur, Len(line), mapped)
        /\ UNCHANGED <<cur, line, pid, seq, count, files, logged, torn>>
  BY DEF Space, Goto, ghost
<1>2. cur \in Loggers /\ Loggers = Files /\ obj \in [Files -> ObjType]
      /\ line \in Seq(1..MaxLine) /\ Len(line) \in Nat
  BY ObjectTypes, SMTT(30) DEF IInv, TypeOK, Loggers
<1>3. /\ IsOpen(cur) /\ obj[cur].offset + kMaxCharPerLog <= kDefaultLogSize
      /\ Len(line) \in Lengths
  BY <1>1 DEF IInv, Where
<1>4. /\ f \in DOMAIN disk /\ disk[f] \in Seq(0..MaxLine) /\ leaked[f] \in Nat
      /\ obj[cur].size \in Nat \ {0} /\ obj[cur].offset \in Nat
      /\ obj[cur].memory \in BOOLEAN /\ obj[cur].offset <= obj[cur].size
  BY <1>2, <1>3, ObjectTypes
<1>5. /\ n \in Nat /\ n >= obj[cur].offset + Len(line) /\ n >= obj[cur].size
      /\ n > obj[cur].size => n >= 2 * obj[cur].size
  BY <1>2, <1>4, NewSizeGrows
<1>6. fails' \in 0..MaxFail
  BY <1>1, LogConstantsOK DEF IInv, TypeOK
<1>7. Len(line)' \in Lengths'
  BY <1>1, <1>3 DEF Lengths
<1>8. CASE n > obj[cur].size
  <2> DEFINE v == IF obj[cur].memory THEN leaked[f] + obj[cur].size ELSE leaked[f]
  <2>1. /\ disk' = [disk EXCEPT ![f] = Ftruncate(disk[f], n)]
        /\ leaked' = [leaked EXCEPT ![f] = v]
        /\ obj' = [obj EXCEPT ![cur].size = n, ![cur].memory = mapped]
        /\ UNCHANGED handed
    BY <1>1, <1>8 DEF AssureSpace
  <2>2. leaked[f] + kDefaultSize <= obj[cur].size
    BY <1>2, <1>3 DEF IInv, Leaks
  <2>3. v \in Nat /\ v + kDefaultSize <= n
    <3>1. v \in {leaked[f], leaked[f] + obj[cur].size}
      OBVIOUS
    <3> HIDE DEF v, n, f
    <3> QED
      BY <1>4, <1>5, <1>8, <2>2, <3>1, FileConstantsOK, SMTT(30)
  <2> HIDE DEF v, n, f
  <2>4. DOMAIN disk' = DOMAIN disk /\ disk' \in [DOMAIN disk -> Seq(0..MaxLine)]
    <3>1. Ftruncate(disk[f], n) \in Seq(0..MaxLine)
      BY <1>4, <1>5, TruncatedDisk
    <3> QED
      BY <1>4, <2>1, <3>1 DEF IInv, Disk
  <2>5. /\ leaked' \in [DOMAIN disk -> Nat] /\ leaked'[f] = v
        /\ \A g \in DOMAIN disk : g # f => leaked'[g] = leaked[g]
    BY <1>4, <2>1, <2>3 DEF IInv, TypeOK
  <2>6. /\ obj' \in [Files -> ObjType]
        /\ \A l \in Files : l # cur => obj'[l] = obj[l]
        /\ obj'[cur].file = f /\ obj'[cur].offset = obj[cur].offset
        /\ obj'[cur].syncPos = obj[cur].syncPos /\ obj'[cur].size = n
    <3> DEFINE new == [obj[cur] EXCEPT !.size = n, !.memory = mapped]
    <3>1. obj[cur] \in ObjType
      BY <1>2
    <3>2. new \in ObjType
      BY <1>1, <1>5, <3>1 DEF ObjType
    <3>3. obj' = [obj EXCEPT ![cur] = new]
      BY <1>2, <2>1
    <3>4. /\ new.file = f /\ new.offset = obj[cur].offset
          /\ new.syncPos = obj[cur].syncPos /\ new.size = n
      BY <3>1 DEF ObjType, f
    <3> HIDE DEF new
    <3> QED
      BY <1>2, <3>2, <3>3, <3>4
  <2>7. \A l \in Loggers : /\ (IsOpen(l)' <=> IsOpen(l)) /\ obj'[l].file = obj[l].file
                           /\ obj'[l].offset = obj[l].offset
                           /\ obj'[l].syncPos = obj[l].syncPos
    BY <1>2, <2>6 DEF IsOpen, f
  <2>8. TypeOK'
    <3>1. \A l \in Files : obj'[l].offset <= obj'[l].size
      BY <1>2, <1>4, <1>5, <2>6, <2>7, ObjectTypes, SMTT(30)
    <3>2. DOMAIN disk' \subseteq Names /\ \A g \in DOMAIN disk' : disk'[g] \in Seq(0..MaxLine)
      BY <2>4 DEF IInv, TypeOK
    <3> QED
      BY <1>1, <1>6, <2>1, <2>4, <2>5, <2>6, <3>1, <3>2 DEF IInv, TypeOK, ObjType
  <2>9. Disk' /\ NamesTaken'
    BY <1>1, <2>4 DEF IInv, Disk, NamesTaken
  <2>10. Objects'
    BY <1>2, <1>3, <1>4, <2>4, <2>6, <2>7 DEF IInv, Objects, f
  <2>11. OneWriter'
    BY <1>1, <2>7 DEF IInv, OneWriter
  <2>12. Leaks'
    <3> SUFFICES ASSUME NEW l \in Loggers, IsOpen(l)
                 PROVE  leaked'[obj'[l].file] + kDefaultSize <= obj'[l].size
      BY <2>7 DEF Leaks
    <3>1. CASE l = cur
      BY <2>3, <2>5, <2>6, <3>1
    <3>2. CASE l # cur
      <4>1. obj[l].file # f /\ obj[l].file \in DOMAIN disk /\ obj'[l] = obj[l]
        BY <1>2, <2>6, <3>2, ObjectTypes DEF IInv, OneWriter, f
      <4> QED
        BY <2>5, <4>1 DEF IInv, Leaks
    <3> QED
      BY <3>1, <3>2
  <2>13. Where'
    <3>1. IsOpen(cur)' /\ obj'[cur].offset + kMaxCharPerLog <= kDefaultLogSize
          /\ obj'[cur].offset + Len(line) <= obj'[cur].size
      BY <1>1, <1>2, <1>3, <1>5, <2>6, <2>7 DEF IsOpen
    <3> QED
      BY <1>1, <1>7, <3>1 DEF Where, IsOpen
  <2>14. Synced'
    BY <1>1, <2>1, <2>7 DEF IInv, Synced
  <2> QED
    BY <2>8, <2>9, <2>10, <2>11, <2>12, <2>13, <2>14 DEF IInv
<1>9. CASE ~(n > obj[cur].size)
  <2>1. UNCHANGED storage
    BY <1>1, <1>9 DEF AssureSpace
  <2>2. obj[cur].offset + Len(line) <= obj[cur].size
    BY <1>2, <1>4, <1>5, <1>9
  <2>3. Where'
    BY <1>1, <1>3, <1>7, <2>1, <2>2 DEF Where, IsOpen, storage
  <2> QED
    BY <1>1, <1>6, <2>1, <2>3, StorageKept DEF PCs, IInv, TypeOK
<1> QED
  BY <1>8, <1>9

(* The rest of Write: the line fits. *)
LEMMA CopyStep == ASSUME IInv, Copy PROVE IInv'
<1> DEFINE f == obj[cur].file
           p == obj[cur].offset
           len == Len(line)
<1>1. /\ pc = "copy" /\ pc' = "lines" /\ Put(cur, line)
      /\ logged' = [logged EXCEPT ![cur] = @ \o line]
      /\ UNCHANGED <<cur, line, pid, seq, count, fails, files, torn>>
  BY DEF Copy, Goto
<1>2. cur \in Loggers /\ Loggers = Files /\ obj \in [Files -> ObjType]
      /\ line \in Seq(1..MaxLine) /\ len \in Nat
  BY ObjectTypes, SMTT(30) DEF IInv, TypeOK, Loggers
<1>3. /\ IsOpen(cur) /\ p + kMaxCharPerLog <= kDefaultLogSize
      /\ len \in Lengths /\ p + len <= obj[cur].size
  BY <1>1 DEF IInv, Where
<1>4. /\ f \in DOMAIN disk /\ disk[f] \in Seq(0..MaxLine) /\ p \in Nat
      /\ obj[cur].size \in Nat /\ obj[cur].syncPos \in Nat
  BY <1>2, <1>3, ObjectTypes
<1>5. /\ disk' = [disk EXCEPT ![f] = Memcpy(disk[f], p, line)]
      /\ obj' = [obj EXCEPT ![cur].offset = p + len]
      /\ UNCHANGED <<leaked, handed>>
  BY <1>1 DEF Put
<1>6. p + len \in Nat
  BY <1>2, <1>4
<1>7. logged' \in [Loggers -> Seq(1..MaxLine)]
  <2> DEFINE B == 1..MaxLine
  <2>1. logged \in [Loggers -> Seq(B)] /\ line \in Seq(B)
    BY DEF IInv, TypeOK
  <2> HIDE DEF B
  <2>2. logged[cur] \o line \in Seq(B)
    BY <1>2, <2>1
  <2>3. logged' \in [Loggers -> Seq(B)]
    BY <1>1, <2>1, <2>2
  <2> QED
    BY <2>3 DEF B
<1> HIDE DEF f, p, len
<1>8. DOMAIN disk' = DOMAIN disk /\ disk' \in [DOMAIN disk -> Seq(0..MaxLine)]
  <2>1. Memcpy(disk[f], p, line) \in Seq(0..MaxLine)
    BY <1>2, <1>4, CopiedDisk
  <2> QED
    BY <1>4, <1>5, <2>1 DEF IInv, Disk
<1>9. /\ obj' \in [Files -> ObjType]
      /\ \A l \in Files : l # cur => obj'[l] = obj[l]
      /\ obj'[cur].file = f /\ obj'[cur].offset = p + len
      /\ obj'[cur].syncPos = obj[cur].syncPos /\ obj'[cur].size = obj[cur].size
  <2> DEFINE new == [obj[cur] EXCEPT !.offset = p + len]
  <2>1. obj[cur] \in ObjType
    BY <1>2
  <2>2. new \in ObjType
    BY <1>6, <2>1 DEF ObjType
  <2>3. obj' = [obj EXCEPT ![cur] = new]
    BY <1>2, <1>5
  <2>4. /\ new.file = f /\ new.offset = p + len
        /\ new.syncPos = obj[cur].syncPos /\ new.size = obj[cur].size
    BY <2>1 DEF ObjType, f
  <2> HIDE DEF new
  <2> QED
    BY <1>2, <2>2, <2>3, <2>4
<1>10. \A l \in Loggers : /\ (IsOpen(l)' <=> IsOpen(l)) /\ obj'[l].file = obj[l].file
                          /\ obj'[l].size = obj[l].size
                          /\ obj'[l].syncPos = obj[l].syncPos
  BY <1>2, <1>9 DEF IsOpen, f
<1>11. TypeOK'
  <2>1. \A l \in Files : obj'[l].offset <= obj'[l].size
    BY <1>2, <1>3, <1>9, ObjectTypes
  <2>2. DOMAIN disk' \subseteq Names /\ \A g \in DOMAIN disk' : disk'[g] \in Seq(0..MaxLine)
    BY <1>8 DEF IInv, TypeOK
  <2> QED
    BY <1>1, <1>5, <1>7, <1>8, <1>9, <2>1, <2>2 DEF IInv, TypeOK, ObjType
<1>12. Disk' /\ NamesTaken'
  BY <1>1, <1>8 DEF IInv, Disk, NamesTaken
<1>13. Objects'
  BY <1>2, <1>3, <1>4, <1>8, <1>9, <1>10 DEF IInv, Objects, f
<1>14. OneWriter'
  BY <1>1, <1>10 DEF IInv, OneWriter
<1>15. Leaks'
  BY <1>2, <1>5, <1>6, <1>9, <1>10 DEF IInv, Leaks
<1>16. Where'
  BY <1>1 DEF Where
<1>17. Synced'
  <2> SUFFICES ASSUME NEW l \in Loggers, IsOpen(l)
               PROVE  /\ obj'[l].syncPos <= obj'[l].offset
                      /\ 1..obj'[l].syncPos \subseteq handed'[obj'[l].file]
                      /\ l # cur => obj'[l].syncPos = obj'[l].offset
    BY <1>1, <1>10 DEF Synced
  <2>1. CASE l = cur
    <3>1. obj[cur].syncPos <= p /\ 1..obj[cur].syncPos \subseteq handed[f]
      BY <1>2, <1>3 DEF IInv, Synced, f, p
    <3>2. obj[cur].syncPos <= p + len
      BY <1>2, <1>4, <3>1
    <3> QED
      BY <1>5, <1>9, <2>1, <3>1, <3>2
  <2>2. CASE l # cur
    BY <1>2, <1>5, <1>9, <2>2 DEF IInv, Synced
  <2> QED
    BY <2>1, <2>2
<1> QED
  BY <1>11, <1>12, <1>13, <1>14, <1>15, <1>16, <1>17 DEF IInv

(* The process ends, whatever memcpy has left of the last line in its file. *)
LEMMA DieStep ==
  ASSUME IInv, Die, DOMAIN disk' = DOMAIN disk, disk' \in [DOMAIN disk -> Seq(0..MaxLine)],
         torn' \in SUBSET (1..MaxLine), fails' \in 0..MaxFail
  PROVE  IInv'
<1>1. /\ pc' = "down" /\ obj' = [o \in Files |-> Closed]
      /\ leaked' = [f \in DOMAIN leaked |-> 0]
      /\ UNCHANGED <<handed, cur, line, pid, seq, count, files, logged>>
  BY DEF Die
<1>2. \A l \in Loggers : obj'[l] = Closed /\ ~IsOpen(l)'
  BY <1>1, ClosedType DEF IsOpen, Loggers
<1>3. TypeOK'
  <2>1. obj' \in [Files -> ObjType] /\ \A l \in Files : obj'[l].offset <= obj'[l].size
    BY <1>1, ClosedType DEF Closed
  <2>2. leaked' \in [DOMAIN disk' -> Nat]
    BY <1>1 DEF IInv, TypeOK
  <2>3. DOMAIN disk' \subseteq Names /\ \A g \in DOMAIN disk' : disk'[g] \in Seq(0..MaxLine)
    BY DEF IInv, TypeOK
  <2> QED
    BY <1>1, <2>1, <2>2, <2>3 DEF IInv, TypeOK, ObjType
<1>4. Disk' /\ NamesTaken'
  BY <1>1 DEF IInv, Disk, NamesTaken
<1>5. Objects' /\ Leaks' /\ Where' /\ Synced'
  BY <1>1, <1>2 DEF Objects, Leaks, Where, Synced
<1>6. OneWriter'
  BY <1>1, <1>2 DEF IInv, OneWriter
<1> QED
  BY <1>3, <1>4, <1>5, <1>6 DEF IInv

(* The process is killed, perhaps with some of the bytes of a line copied. *)
LEMMA CrashStep == ASSUME IInv, Crash PROVE IInv'
<1>1. Die /\ UNCHANGED fails
  BY DEF Crash
<1>2. /\ disk \in [DOMAIN disk -> Seq(0..MaxLine)] /\ torn \in SUBSET (1..MaxLine)
      /\ fails \in 0..MaxFail
  BY DEF IInv, Disk, TypeOK
<1>3. CASE ~(pc = "copy" /\ obj[cur].memory)
  <2>1. UNCHANGED <<disk, torn>>
    BY <1>3 DEF Crash
  <2> QED
    BY <1>1, <1>2, <2>1, DieStep
<1>4. CASE pc = "copy" /\ obj[cur].memory
  <2> DEFINE f == obj[cur].file
             p == obj[cur].offset
             part(done) == [i \in DOMAIN line |-> IF i \in done THEN line[i] ELSE Zero]
  <2>1. PICK done \in SUBSET DOMAIN line :
          /\ disk' = [disk EXCEPT ![f] = Memcpy(disk[f], p, part(done))]
          /\ torn' = torn \cup {line[1]}
    BY <1>4 DEF Crash
  <2>2. cur \in Loggers /\ line \in Seq(1..MaxLine) /\ IsOpen(cur) /\ Len(line) \in Lengths
    BY <1>4 DEF IInv, TypeOK, Where
  <2>3. f \in DOMAIN disk /\ disk[f] \in Seq(0..MaxLine) /\ p \in Nat
    BY <2>2, ObjectTypes
  <2>4. Len(line) \in Nat \ {0}
    BY <2>2, LogConstantsOK DEF Lengths
  <2>5. line[1] \in 1..MaxLine
    <3> DEFINE C == 1..MaxLine
    <3>1. line \in Seq(C)
      BY <2>2
    <3> HIDE DEF C
    <3>2. line[1] \in C
      BY <2>4, <3>1
    <3> QED
      BY <3>2 DEF C
  <2>6. part(done) \in Seq(0..MaxLine)
    <3> DEFINE B == 0..MaxLine
               C == 1..MaxLine
    <3>1. C \subseteq B /\ Zero \in B /\ line \in Seq(C)
      BY <2>2, LogConstantsOK
    <3> HIDE DEF B, C
    <3>2. DOMAIN line = 1..Len(line) /\ \A i \in 1..Len(line) : line[i] \in B
      BY <3>1
    <3>3. \A i \in 1..Len(line) : (IF i \in done THEN line[i] ELSE Zero) \in B
      BY <3>1, <3>2
    <3>4. [i \in 1..Len(line) |-> IF i \in done THEN line[i] ELSE Zero] \in Seq(B)
      BY <2>4, <3>3
    <3> QED
      BY <3>2, <3>4 DEF B
  <2> HIDE DEF f, p, part
  <2>7. Memcpy(disk[f], p, part(done)) \in Seq(0..MaxLine)
    BY <2>3, <2>6, MemcpyType
  <2>8. DOMAIN disk' = DOMAIN disk /\ disk' \in [DOMAIN disk -> Seq(0..MaxLine)]
    BY <1>2, <2>1, <2>3, <2>7
  <2>9. torn' \in SUBSET (1..MaxLine)
    BY <1>2, <2>1, <2>5
  <2> QED
    BY <1>1, <1>2, <2>8, <2>9, DieStep
<1> QED
  BY <1>3, <1>4

(* Every step of the I/O thread, of the destructors and of the system keeps the
   invariant. *)
LEMMA NextStep == ASSUME IInv, Next PROVE IInv'
<1>1. ASSUME NEW l \in Loggers, BeginUpdate(l) PROVE IInv'
  BY <1>1, BeginStep
<1>2. ASSUME NEW l \in Loggers, Destroy(l) PROVE IInv'
  <2>1. /\ Close(l) /\ pc' = pc /\ (pc = "idle" \/ (pc # "down" /\ l # cur))
        /\ UNCHANGED <<cur, line, pid, seq, count, fails, files, logged, torn>>
    BY <1>2 DEF Destroy, ghost
  <2>2. pc' \in PCs
    BY <2>1 DEF IInv, TypeOK, PCs
  <2> QED
    BY <2>1, <2>2, CloseStep
<1>3. CASE WriteLog
  BY <1>3, WriteLogStep
<1>4. CASE EndUpdate
  BY <1>4, SyncStep
<1>5. CASE CheckChangeFile
  BY <1>5, CheckStep
<1>6. CASE CloseLogFile
  <2>1. /\ Close(cur) /\ pc = "close" /\ pc' = "open" /\ cur \in Loggers
        /\ UNCHANGED <<cur, line, pid, seq, count, fails, files, logged, torn>>
    BY <1>6 DEF CloseLogFile, Goto, ghost, IInv, TypeOK
  <2>2. pc' \in PCs
    BY <2>1 DEF PCs
  <2> QED
    BY <2>1, <2>2, CloseStep
<1>7. CASE OpenLogFile
  BY <1>7, OpenStep
<1>8. CASE OpenFails
  <2>1. Die /\ UNCHANGED <<disk, torn>> /\ fails < MaxFail /\ fails' = fails + 1
    BY <1>8 DEF OpenFails
  <2>2. fails' \in 0..MaxFail /\ torn \in SUBSET (1..MaxLine)
    BY <2>1, LogConstantsOK, SMTT(30) DEF IInv, TypeOK
  <2> QED
    BY <2>1, <2>2, DieStep DEF IInv, Disk
<1>9. CASE Space
  BY <1>9, SpaceStep
<1>10. CASE Copy
  BY <1>10, CopyStep
<1>11. CASE CopyFaults
  <2>1. Die /\ UNCHANGED <<disk, torn, fails>>
    BY <1>11 DEF CopyFaults
  <2> QED
    BY <2>1, DieStep DEF IInv, Disk, TypeOK
<1>12. CASE Crash
  BY <1>12, CrashStep
<1>13. CASE Restart
  BY <1>13, RestartStep
<1> QED
  BY <1>1, <1>2, <1>3, <1>4, <1>5, <1>6, <1>7, <1>8, <1>9, <1>10, <1>11, <1>12, <1>13
     DEF Next, Write

(* A process begins without files. *)
LEMMA InitIInv == Init => IInv
<1> SUFFICES ASSUME Init PROVE IInv
  OBVIOUS
<1>1. /\ obj = [o \in Files |-> Closed] /\ disk = <<>> /\ leaked = <<>> /\ handed = <<>>
      /\ pc = "idle" /\ files = [l \in Loggers |-> <<>>] /\ Loggers = Files
  BY DEF Init, Loggers
<1>2. DOMAIN disk = {} /\ disk \in [DOMAIN disk -> Seq(0..MaxLine)]
  BY <1>1
<1>3. leaked \in [DOMAIN disk -> Nat] /\ handed \in [DOMAIN disk -> SUBSET Nat]
  BY <1>1
<1>4. \A l \in Loggers : obj[l] = Closed /\ ~IsOpen(l)
  BY <1>1, ClosedType DEF IsOpen
<1>5. TypeOK
  <2>1. obj \in [Files -> ObjType] /\ \A l \in Files : obj[l].offset <= obj[l].size
    BY <1>1, ClosedType DEF Closed
  <2>2. files \in [Loggers -> Seq(Names)] /\ logged \in [Loggers -> Seq(1..MaxLine)]
        /\ line \in Seq(1..MaxLine)
    BY DEF Init
  <2>3. pid \in 1..MaxPid /\ seq \in Nat /\ count \in 0..MaxLine /\ fails \in 0..MaxFail
    BY LogConstantsOK DEF Init
  <2> QED
    BY <1>2, <1>3, <2>1, <2>2, <2>3 DEF Init, TypeOK, ObjType
<1>6. Disk /\ NamesTaken
  BY <1>1, <1>2 DEF Disk, NamesTaken, ToSet
<1>7. Objects /\ Leaks /\ Where /\ Synced
  BY <1>1, <1>4 DEF Objects, Leaks, Where, Synced
<1>8. OneWriter
  BY <1>1, <1>4 DEF OneWriter, IsInjective
<1> QED
  BY <1>5, <1>6, <1>7, <1>8 DEF IInv

(* A step that changes nothing keeps the invariant. *)
LEMMA StutterIInv == IInv /\ UNCHANGED vars => IInv'
<1> SUFFICES ASSUME IInv, UNCHANGED vars PROVE IInv'
  OBVIOUS
<1>1. UNCHANGED <<storage, pc, cur, line, pid, seq, count, fails, files, logged, torn>>
  BY DEF vars, ghost
<1>2. Where'
  BY <1>1 DEF IInv, Where, IsOpen, storage, Lengths
<1> QED
  BY <1>1, <1>2, StorageKept DEF IInv, TypeOK, PCs

(* The invariant holds in every state of every run of Logger::_WriteLog over OMmapFile,
   with crashes, restarts and calls that fail. *)
THEOREM Invariance == Spec => []IInv
<1>1. IInv /\ Next => IInv'
  BY NextStep
<1> QED
  BY <1>1, InitIInv, StutterIInv, PTL DEF Spec

(* The positions and sizes of OMmapFile keep their types, and its offset_ never passes its
   size_. *)
THEOREM Types == Spec => []TypeOK
<1>1. IInv => TypeOK
  BY DEF IInv
<1> QED
  BY <1>1, Invariance, PTL

(* No two loggers ever have the same file open, and none opens a file twice, although seq_
   is common to all and starts again with each process (OneWriter). *)
THEOREM NamesUnique == Spec => []OneWriter
<1>1. IInv => OneWriter
  BY DEF IInv
<1> QED
  BY <1>1, Invariance, PTL


(* After Update all text of every open file has been given to msync (SyncCovers). *)
THEOREM AllSynced == Spec => []SyncCovers
<1>1. ASSUME IInv PROVE SyncCovers
  <2> SUFFICES ASSUME pc = "idle", NEW l \in Loggers, IsOpen(l)
               PROVE  1..obj[l].offset \subseteq handed[obj[l].file]
    BY DEF SyncCovers
  <2> QED
    BY <1>1 DEF IInv, Synced
<1> QED
  BY <1>1, Invariance, PTL

-----------------------------------------------------------------------------
(* The text that is left of bytes when the lines of tn are torn, and of all the files fs
   of a logger; they are TextOf and Text in a state where d is the disk. *)
Txt(tn, bytes) ==
  FlattenSeq([i \in DOMAIN bytes |->
                IF bytes[i] # Zero /\ bytes[i] \notin tn THEN <<bytes[i]>> ELSE <<>>])
AllText(tn, d, fs) == FlattenSeq([i \in DOMAIN fs |-> Txt(tn, d[fs[i]])])

(* A file with text up to n and padding behind it. *)
Filled(tn, bytes, n) ==
  /\ n <= Len(bytes)
  /\ \A i \in 1..n : bytes[i] # Zero /\ bytes[i] \notin tn
  /\ \A i \in (n + 1)..Len(bytes) : bytes[i] = Zero

(* The file that is open is the last one of its logger, and no other logger has had it. *)
LastFile ==
  /\ \A l \in Loggers : IsOpen(l) =>
       files[l] # <<>> /\ files[l][Len(files[l])] = obj[l].file
  /\ \A k, l \in Loggers : k # l =>
       \A i \in DOMAIN files[k], j \in DOMAIN files[l] : files[k][i] # files[l][j]

(* An open file has its text up to offset_ and is as long as size_. *)
Content ==
  \A l \in Loggers : IsOpen(l) =>
    /\ Len(disk[obj[l].file]) = obj[l].size
    /\ Filled(torn, disk[obj[l].file], obj[l].offset)

(* The line being written is in no file, and none of an equal number was torn. *)
Writing == pc \in {"check", "close", "open", "space", "copy"}
Fresh ==
  /\ \A f \in DOMAIN disk : \A i \in DOMAIN disk[f] : disk[f][i] <= count
  /\ \A c \in torn : c <= count
  /\ Writing =>
       /\ \A i \in DOMAIN line : line[i] = count
       /\ count \notin torn
       /\ \A f \in DOMAIN disk : \A i \in DOMAIN disk[f] : disk[f][i] # count

(* All the text that was written is in the files. *)
AllKept == \A l \in Loggers : AllText(torn, disk, files[l]) = logged[l]

(* A file this process has closed has nothing but text. *)
Trimmed ==
  \A l \in Loggers : \A j \in DOMAIN files[l] :
    pc # "down" /\ files[l][j][1] = pid /\ obj[l].file # files[l][j] =>
      \A i \in DOMAIN disk[files[l][j]] :
        disk[files[l][j]][i] # Zero /\ disk[files[l][j]][i] \notin torn

TInv == LastFile /\ Content /\ Fresh /\ AllKept /\ Trimmed

-----------------------------------------------------------------------------
(* The text of bytes is a sequence of them. *)
LEMMA TxtType ==
  ASSUME NEW S, NEW bytes \in Seq(S), NEW tn
  PROVE  Txt(tn, bytes) \in Seq(S)
<1> DEFINE v(i) == IF bytes[i] # Zero /\ bytes[i] \notin tn THEN <<bytes[i]>> ELSE <<>>
           T == Seq(S)
<1>1. Len(bytes) \in Nat /\ DOMAIN bytes = 1..Len(bytes)
  OBVIOUS
<1>2. \A i \in 1..Len(bytes) : v(i) \in T
  OBVIOUS
<1> HIDE DEF v, T
<1>3. [i \in DOMAIN bytes |-> v(i)] \in Seq(T)
  BY <1>1, <1>2
<1>4. FlattenSeq([i \in DOMAIN bytes |-> v(i)]) \in Seq(S)
  BY <1>3, FlattenLast DEF T
<1> QED
  BY <1>4 DEF Txt, v

(* Bytes of which the first n are text and no other is. *)
Begins(tn, bytes, n) ==
  /\ n <= Len(bytes)
  /\ \A i \in 1..n : bytes[i] # Zero /\ bytes[i] \notin tn
  /\ \A i \in (n + 1)..Len(bytes) : bytes[i] = Zero \/ bytes[i] \in tn

(* Their text is the first n of them. *)
LEMMA TxtPrefix ==
  ASSUME NEW S, NEW bytes \in Seq(S), NEW tn, NEW n \in Nat, Begins(tn, bytes, n)
  PROVE  Txt(tn, bytes) = [i \in 1..n |-> bytes[i]]
<1>0. /\ n <= Len(bytes)
      /\ \A i \in 1..n : bytes[i] # Zero /\ bytes[i] \notin tn
      /\ \A i \in (n + 1)..Len(bytes) : bytes[i] = Zero \/ bytes[i] \in tn
  BY DEF Begins
<1> USE <1>0
<1> DEFINE T == Seq(S)
           m == Len(bytes)
           ss == [i \in 1..m |-> IF bytes[i] # Zero /\ bytes[i] \notin tn
                                   THEN <<bytes[i]>> ELSE <<>>]
           first(k) == [i \in 1..k |-> bytes[i]]
           f == [k \in 0..m |-> IF k <= n THEN first(k) ELSE first(n)]
<1>1. m \in Nat /\ n <= m /\ DOMAIN bytes = 1..m /\ \A i \in 1..m : bytes[i] \in S
  OBVIOUS
<1>2. /\ \A i \in 1..n : ss[i] = <<bytes[i]>>
      /\ \A i \in (n + 1)..m : ss[i] = <<>>
  BY <1>1
<1>3. \A k \in 0..n : first(k) \in T /\ Len(first(k)) = k
  BY <1>1
<1>4. \A k \in 1..n : first(k) = first(k - 1) \o <<bytes[k]>>
  <2> SUFFICES ASSUME NEW k \in 1..n PROVE first(k) = first(k - 1) \o <<bytes[k]>>
    OBVIOUS
  <2>1. k - 1 \in 0..n /\ k \in 0..n /\ bytes[k] \in S
    BY <1>1
  <2> QED
    BY <1>1, <1>3, <2>1
<1>5. ss \in Seq(T) /\ Len(ss) = m
  <2>1. \A i \in 1..m : ss[i] \in T
    <3> SUFFICES ASSUME NEW i \in 1..m PROVE ss[i] \in T
      OBVIOUS
    <3>1. <<bytes[i]>> \in T /\ <<>> \in T
      BY <1>1
    <3> HIDE DEF T, m
    <3> QED
      BY <3>1
  <2>2. ss = [i \in 1..m |-> ss[i]]
    OBVIOUS
  <2> HIDE DEF T, m, ss
  <2> QED
    BY <1>1, <2>1, <2>2
<1>6. first(0) = <<>>
  OBVIOUS
<1> HIDE DEF m, ss, first
<1>7. f \in [0..m -> T] /\ f[0] = <<>>
  <2> HIDE DEF T
  <2> QED
    BY <1>1, <1>3, <1>6
<1>8. \A i \in 1..m : f[i] = Cat(f[i - 1], ss[i])
  <2> SUFFICES ASSUME NEW i \in 1..m PROVE f[i] = Cat(f[i - 1], ss[i])
    OBVIOUS
  <2>1. CASE i <= n
    <3>1. i \in 1..n /\ i - 1 \in 0..m /\ i - 1 <= n /\ i \in 0..m
      BY <1>1, <2>1
    <3> QED
      BY <1>2, <1>4, <2>1, <3>1 DEF Cat
  <2>2. CASE ~(i <= n)
    <3>1. i \in (n + 1)..m /\ i - 1 \in 0..m /\ i \in 0..m /\ n \in 0..n
      BY <1>1, <2>2
    <3>2. ss[i] = <<>> /\ first(n) \in Seq(S)
      BY <1>2, <1>3, <3>1
    <3>3. f[i] = first(n)
      BY <2>2, <3>1
    <3>4. f[i - 1] = first(n)
      <4>1. i - 1 <= n => i - 1 = n
        BY <1>1, <2>2
      <4> QED
        BY <3>1, <4>1
    <3>5. Cat(first(n), <<>>) = first(n)
      BY <3>2, CatFacts
    <3> QED
      BY <3>2, <3>3, <3>4, <3>5
  <2> QED
    BY <2>1, <2>2
<1>9. Flats(f, ss, S)
  <2> HIDE DEF f
  <2> QED
    BY <1>5, <1>7, <1>8 DEF Flats, T
<1>10. FlattenSeq(ss) = f[m]
  BY <1>5, <1>9, FlatsValue DEF T
<1>11. f[m] = first(n)
  BY <1>1
<1>12. Txt(tn, bytes) = FlattenSeq(ss)
  BY <1>1 DEF Txt, ss
<1> QED
  BY <1>10, <1>11, <1>12 DEF first

(* Another line that is torn does not change the text of bytes it is not among. *)
LEMMA TxtTorn ==
  ASSUME NEW S, NEW bytes \in Seq(S), NEW tn, NEW c, \A i \in DOMAIN bytes : bytes[i] # c
  PROVE  Txt(tn \cup {c}, bytes) = Txt(tn, bytes)
<1>1. [i \in DOMAIN bytes |->
         IF bytes[i] # Zero /\ bytes[i] \notin tn \cup {c} THEN <<bytes[i]>> ELSE <<>>]
      = [i \in DOMAIN bytes |->
         IF bytes[i] # Zero /\ bytes[i] \notin tn THEN <<bytes[i]>> ELSE <<>>]
  OBVIOUS
<1> QED
  BY <1>1 DEF Txt

(* The text of a logger is that of its files. *)
LEMMA AllTextSame ==
  ASSUME NEW fs, NEW tn, NEW d, NEW un, NEW e,
         \A i \in DOMAIN fs : Txt(un, e[fs[i]]) = Txt(tn, d[fs[i]])
  PROVE  AllText(un, e, fs) = AllText(tn, d, fs)
<1>1. [i \in DOMAIN fs |-> Txt(un, e[fs[i]])] = [i \in DOMAIN fs |-> Txt(tn, d[fs[i]])]
  OBVIOUS
<1> QED
  BY <1>1 DEF AllText

(* The names in TInv are those of module LogFile. *)
LEMMA TextNames == AllKept /\ Trimmed => Kept
<1> SUFFICES ASSUME AllKept, Trimmed, NEW l \in Loggers
             PROVE  /\ Text(l) = logged[l]
                    /\ \A f \in ToSet(files[l]) :
                         pc # "down" /\ f[1] = pid /\ obj[l].file # f =>
                           \A i \in DOMAIN disk[f] : Whole(disk[f][i])
  BY DEF Kept
<1>1. Text(l) = AllText(torn, disk, files[l])
  BY DEF Text, TextOf, Whole, AllText, Txt
<1>2. ASSUME NEW f \in ToSet(files[l]), pc # "down", f[1] = pid, obj[l].file # f,
             NEW i \in DOMAIN disk[f]
      PROVE  Whole(disk[f][i])
  <2>1. PICK j \in DOMAIN files[l] : files[l][j] = f
    BY <1>2 DEF ToSet
  <2> QED
    BY <1>2, <2>1 DEF Trimmed, Whole
<1> QED
  BY <1>1, <1>2 DEF AllKept

(* The files a logger has had are on the disk, each once. *)
LEMMA FileFacts ==
  ASSUME IInv, NEW l \in Loggers
  PROVE  /\ Len(files[l]) \in Nat /\ DOMAIN files[l] = 1..Len(files[l])
         /\ files[l] \in Seq(Names)
         /\ \A j \in DOMAIN files[l] : /\ files[l][j] \in DOMAIN disk
                                       /\ disk[files[l][j]] \in Seq(0..MaxLine)
         /\ \A i, j \in DOMAIN files[l] : files[l][i] = files[l][j] => i = j
<1>1. files[l] \in Seq(Names)
  BY DEF IInv, TypeOK
<1>2. \A j \in DOMAIN files[l] : files[l][j] \in DOMAIN disk
  BY DEF IInv, Disk, ToSet
<1>3. \A f \in DOMAIN disk : disk[f] \in Seq(0..MaxLine)
  BY DEF IInv, TypeOK
<1>4. IsInjective(files[l])
  BY DEF IInv, OneWriter
<1> QED
  BY <1>1, <1>2, <1>3, <1>4 DEF IsInjective

(* The file that is open is no other file of any logger. *)
LEMMA OpenFileIsLast ==
  ASSUME IInv, LastFile, NEW o \in Loggers, IsOpen(o), NEW l \in Loggers,
         NEW j \in DOMAIN files[l], files[l][j] = obj[o].file
  PROVE  l = o /\ j = Len(files[o])
<1>1. files[o] # <<>> /\ files[o][Len(files[o])] = obj[o].file
  BY DEF LastFile
<1>2. Len(files[o]) \in DOMAIN files[o]
  BY <1>1, FileFacts, EmptySeq
<1>3. l = o
  BY <1>1, <1>2 DEF LastFile
<1> QED
  BY <1>1, <1>2, <1>3, FileFacts

(* Steps that neither change a file nor what an object knows of its own. *)
LEMMA FilesKept ==
  ASSUME TInv, UNCHANGED <<disk, files, logged, torn>>, Fresh', Trimmed',
         \A l \in Loggers : /\ obj'[l].file = obj[l].file /\ obj'[l].offset = obj[l].offset
                            /\ obj'[l].size = obj[l].size
  PROVE  TInv'
<1>1. \A l \in Loggers : IsOpen(l)' <=> IsOpen(l)
  BY DEF IsOpen
<1>2. LastFile'
  BY <1>1 DEF TInv, LastFile
<1>3. Content'
  BY <1>1 DEF TInv, Content
<1>4. AllKept'
  BY DEF TInv, AllKept
<1> QED
  BY <1>2, <1>3, <1>4 DEF TInv

(* Steps that do not change a file at all, and that begin no line. *)
LEMMA Quiet ==
  ASSUME IInv, TInv, UNCHANGED <<disk, files, logged, torn, pid, count>>, pc # "down",
         Writing' => Writing /\ line' = line,
         \A l \in Loggers : /\ obj'[l].file = obj[l].file /\ obj'[l].offset = obj[l].offset
                            /\ obj'[l].size = obj[l].size
  PROVE  TInv'
<1>1. Fresh'
  BY DEF TInv, Fresh
<1>2. Trimmed'
  BY DEF TInv, Trimmed
<1> QED
  BY <1>1, <1>2, FilesKept

(* The I/O thread turns to a logger, or decides on its next step. *)
LEMMA BeginText == ASSUME IInv, TInv, NEW l \in Loggers, BeginUpdate(l) PROVE TInv'
  BY Quiet DEF BeginUpdate, Goto, ghost, storage, Writing

(* CheckChangeFile only decides whether the file is to change. *)
LEMMA CheckText == ASSUME IInv, TInv, CheckChangeFile PROVE TInv'
  BY Quiet DEF CheckChangeFile, Goto, ghost, storage, Writing

(* The end of an Update syncs the file and leaves its text alone. *)
LEMMA EndText == ASSUME IInv, TInv, EndUpdate PROVE TInv'
<1>1. /\ pc = "lines" /\ pc' = "idle" /\ Sync(cur)
      /\ UNCHANGED <<cur, line, pid, seq, count, fails, files, logged, torn>>
  BY DEF EndUpdate, Goto, ghost
<1>2. cur \in Loggers /\ Loggers = Files /\ obj \in [Files -> ObjType]
  BY ObjectTypes DEF IInv, TypeOK, Loggers
<1>3. UNCHANGED disk /\ (obj' = obj \/ obj' = [obj EXCEPT ![cur].syncPos = obj[cur].offset])
  BY <1>1 DEF Sync, storage
<1>4. ASSUME NEW l \in Loggers
      PROVE  /\ obj'[l].file = obj[l].file /\ obj'[l].offset = obj[l].offset
             /\ obj'[l].size = obj[l].size
  <2>1. obj[l] \in ObjType /\ l \in Files
    BY <1>2
  <2> QED
    BY <1>2, <1>3, <2>1 DEF ObjType
<1>5. ~Writing'
  BY <1>1 DEF Writing
<1> QED
  BY <1>1, <1>3, <1>4, <1>5, Quiet

(* Logger::_WriteLog starts on a line of a number that no file has. *)
LEMMA WriteLogText == ASSUME IInv, TInv, WriteLog PROVE TInv'
<1>1. /\ pc = "lines" /\ pc' = "check" /\ count' = count + 1
      /\ UNCHANGED <<obj, disk, leaked, handed, cur, pid, seq, fails, files, logged, torn>>
  BY DEF WriteLog, Goto, ghost, storage
<1>2. PICK len \in Lengths : line' = [i \in 1..len |-> count + 1]
  BY DEF WriteLog
<1>3. count \in Nat /\ torn \in SUBSET Nat
  BY LogConstantsOK DEF IInv, TypeOK
<1>4. \A f \in DOMAIN disk : \A i \in DOMAIN disk[f] : disk[f][i] \in Nat /\ disk[f][i] <= count
  <2> SUFFICES ASSUME NEW f \in DOMAIN disk, NEW i \in DOMAIN disk[f] PROVE disk[f][i] \in Nat
    BY DEF TInv, Fresh
  <2> DEFINE B == 0..MaxLine
  <2>1. disk[f] \in Seq(B)
    BY DEF IInv, TypeOK
  <2> HIDE DEF B
  <2>2. disk[f][i] \in B
    BY <2>1
  <2> QED
    BY <2>2 DEF B
<1>5. Fresh'
  <2>1. \A i \in DOMAIN line' : line'[i] = count'
    BY <1>1, <1>2
  <2>2. \A c \in torn : c <= count + 1 /\ c # count + 1
    BY <1>3 DEF TInv, Fresh
  <2>3. \A f \in DOMAIN disk : \A i \in DOMAIN disk[f] :
          disk[f][i] <= count + 1 /\ disk[f][i] # count + 1
    BY <1>3, <1>4
  <2> QED
    BY <1>1, <2>1, <2>2, <2>3 DEF Fresh
<1>6. Trimmed'
  BY <1>1 DEF TInv, Trimmed
<1> QED
  BY <1>1, <1>5, <1>6, FilesKept

(* A new process has no files, so it has closed none. *)
LEMMA RestartText == ASSUME IInv, TInv, Restart PROVE TInv'
<1>1. /\ pc = "down" /\ pc' = "idle" /\ pid' = pid + 1
      /\ UNCHANGED <<obj, disk, leaked, handed, cur, count, fails, files, logged, torn>>
  BY DEF Restart, Goto, ghost, storage
<1>2. Fresh'
  BY <1>1 DEF TInv, Fresh, Writing
<1>3. Trimmed'
  <2> SUFFICES ASSUME NEW l \in Loggers, NEW j \in DOMAIN files[l] PROVE files[l][j][1] # pid + 1
    BY <1>1 DEF Trimmed
  <2>1. files[l][j] \in DOMAIN disk
    BY FileFacts
  <2>2. files[l][j][1] \in Nat /\ pid \in Nat
    BY <2>1, NameParts, LogConstantsOK DEF IInv, TypeOK
  <2>3. files[l][j][1] < pid \/ files[l][j][1] = pid
    BY <2>1 DEF IInv, NamesTaken
  <2> QED
    BY <2>2, <2>3
<1> QED
  BY <1>1, <1>2, <1>3, FilesKept

(* ftruncate of a file to no less than its text keeps the text. *)
LEMMA TruncatedText ==
  ASSUME NEW bytes \in Seq(0..MaxLine), NEW tn, NEW n \in Nat, NEW k \in Nat,
         Filled(tn, bytes, n), n <= k
  PROVE  /\ Len(Ftruncate(bytes, k)) = k
         /\ Filled(tn, Ftruncate(bytes, k), n)
         /\ Txt(tn, Ftruncate(bytes, k)) = Txt(tn, bytes)
         /\ \A i \in 1..k : \/ Ftruncate(bytes, k)[i] = Zero
                            \/ \E j \in DOMAIN bytes : Ftruncate(bytes, k)[i] = bytes[j]
<1> DEFINE B == 0..MaxLine
           cut == Ftruncate(bytes, k)
<1>1. cut \in Seq(B) /\ bytes \in Seq(B)
  BY TruncatedDisk
<1> HIDE DEF B
<1>2. Len(bytes) \in Nat /\ DOMAIN bytes = 1..Len(bytes)
  BY <1>1
<1>3. /\ Len(cut) = k
      /\ \A i \in 1..k : cut[i] = IF i <= Len(bytes) THEN bytes[i] ELSE Zero
  <2>1. cut = [i \in 1..k |-> IF i <= Len(bytes) THEN bytes[i] ELSE Zero]
    BY DEF Ftruncate
  <2> HIDE DEF cut
  <2>2. Len(cut) = k
    BY <1>1, <2>1
  <2> QED
    BY <2>1, <2>2
<1> HIDE DEF cut
<1>4. /\ n <= Len(bytes)
      /\ \A i \in 1..n : bytes[i] # Zero /\ bytes[i] \notin tn
      /\ \A i \in (n + 1)..Len(bytes) : bytes[i] = Zero
  BY DEF Filled
<1>5. \A i \in 1..n : cut[i] = bytes[i]
  <2> SUFFICES ASSUME NEW i \in 1..n PROVE cut[i] = bytes[i]
    OBVIOUS
  <2>1. i \in 1..k /\ i <= Len(bytes)
    BY <1>2, <1>4
  <2> QED
    BY <1>3, <2>1
<1>6. \A i \in (n + 1)..k : cut[i] = Zero
  <2> SUFFICES ASSUME NEW i \in (n + 1)..k PROVE cut[i] = Zero
    OBVIOUS
  <2>1. i \in 1..k /\ (i <= Len(bytes) => i \in (n + 1)..Len(bytes))
    BY <1>2
  <2> QED
    BY <1>3, <1>4, <2>1
<1>7. Filled(tn, cut, n)
  BY <1>3, <1>4, <1>5, <1>6 DEF Filled
<1>8. Txt(tn, bytes) = [i \in 1..n |-> bytes[i]]
  <2>1. Begins(tn, bytes, n)
    BY <1>4 DEF Begins
  <2> QED
    BY <1>1, <2>1, TxtPrefix
<1>9. Txt(tn, cut) = [i \in 1..n |-> cut[i]]
  <2>1. Begins(tn, cut, n)
    BY <1>7 DEF Filled, Begins
  <2> QED
    BY <1>1, <1>3, <2>1, TxtPrefix
<1>10. Txt(tn, cut) = Txt(tn, bytes)
  BY <1>5, <1>8, <1>9
<1>11. \A i \in 1..k : cut[i] = Zero \/ \E j \in DOMAIN bytes : cut[i] = bytes[j]
  <2> SUFFICES ASSUME NEW i \in 1..k, i <= Len(bytes) PROVE \E j \in DOMAIN bytes : cut[i] = bytes[j]
    BY <1>3
  <2>1. i \in DOMAIN bytes
    BY <1>2
  <2> QED
    BY <1>3, <2>1
<1> QED
  BY <1>3, <1>7, <1>10, <1>11 DEF cut

(* While a line is written it is not empty, and its number is not that of padding. *)
LEMMA LineNumber ==
  ASSUME IInv, TInv, Writing
  PROVE  /\ Len(line) \in Nat \ {0} /\ DOMAIN line = 1..Len(line)
         /\ count \in 1..MaxLine /\ count # Zero
         /\ \A i \in DOMAIN line : line[i] = count
<1> DEFINE C == 1..MaxLine
<1>1. line \in Seq(C) /\ \A i \in DOMAIN line : line[i] = count
  BY DEF IInv, TypeOK, TInv, Fresh
<1>2. Len(line) \in Nat \ {0}
  BY LogConstantsOK, SMTT(30) DEF IInv, Where, Writing, Lengths
<1> HIDE DEF C
<1>3. DOMAIN line = 1..Len(line) /\ 1 \in DOMAIN line /\ line[1] \in C
  BY <1>1, <1>2
<1>4. count \in C
  BY <1>1, <1>3
<1> QED
  BY <1>1, <1>2, <1>3, <1>4, LogConstantsOK DEF C

(* The I/O thread, or a destructor, gives an open file another length. *)
LEMMA Resized ==
  ASSUME IInv, TInv, NEW o \in Loggers, IsOpen(o), NEW k \in Nat, obj[o].offset <= k,
         disk' = [disk EXCEPT ![obj[o].file] = Ftruncate(disk[obj[o].file], k)],
         UNCHANGED <<files, logged, torn, count>>, Writing' => Writing /\ line' = line
  PROVE  /\ AllKept' /\ Fresh'
         /\ Len(disk'[obj[o].file]) = k /\ Filled(torn, disk'[obj[o].file], obj[o].offset)
         /\ DOMAIN disk' = DOMAIN disk
         /\ \A g \in DOMAIN disk : g # obj[o].file => disk'[g] = disk[g]
<1> DEFINE f == obj[o].file
           n == obj[o].offset
           cut == Ftruncate(disk[f], k)
<1>1. f \in DOMAIN disk /\ disk[f] \in Seq(0..MaxLine) /\ n \in Nat
  BY ObjectTypes
<1>2. Filled(torn, disk[f], n)
  BY DEF TInv, Content
<1>3. /\ Len(cut) = k /\ Filled(torn, cut, n) /\ Txt(torn, cut) = Txt(torn, disk[f])
      /\ \A i \in 1..k : cut[i] = Zero \/ \E j \in DOMAIN disk[f] : cut[i] = disk[f][j]
  BY <1>1, <1>2, TruncatedText
<1>4. cut \in Seq(0..MaxLine)
  BY <1>1, TruncatedDisk
<1>5. n <= k /\ disk' = [disk EXCEPT ![f] = cut]
  OBVIOUS
<1> HIDE DEF f, n, cut
<1>6. disk'[f] = cut /\ DOMAIN disk' = DOMAIN disk
      /\ \A g \in DOMAIN disk : g # f => disk'[g] = disk[g]
  BY <1>1, <1>5
<1>7. AllKept'
  <2> SUFFICES ASSUME NEW l \in Loggers PROVE AllText(torn, disk', files[l]) = logged[l]
    BY DEF AllKept
  <2>1. \A i \in DOMAIN files[l] : files[l][i] \in DOMAIN disk
    BY FileFacts
  <2>2. \A i \in DOMAIN files[l] : Txt(torn, disk'[files[l][i]]) = Txt(torn, disk[files[l][i]])
    BY <1>3, <1>6, <2>1
  <2> QED
    BY <2>2, AllTextSame DEF TInv, AllKept
<1>8. DOMAIN cut = 1..k
  BY <1>3, <1>4
<1>9. Zero <= count /\ (Writing => Zero # count)
  <2>1. count \in Nat /\ Zero = 0
    BY LogConstantsOK DEF IInv, TypeOK
  <2> QED
    BY <2>1, LineNumber
<1>10. Fresh'
  <2>1. \A g \in DOMAIN disk : \A i \in DOMAIN disk[g] :
          disk[g][i] <= count /\ (Writing => disk[g][i] # count)
    BY DEF TInv, Fresh
  <2>2. \A i \in DOMAIN cut : cut[i] <= count /\ (Writing => cut[i] # count)
    BY <1>1, <1>3, <1>8, <1>9, <2>1
  <2>3. \A g \in DOMAIN disk' : \A i \in DOMAIN disk'[g] :
          disk'[g][i] <= count /\ (Writing => disk'[g][i] # count)
    BY <1>6, <2>1, <2>2
  <2> QED
    BY <2>3 DEF TInv, Fresh
<1> QED
  BY <1>3, <1>6, <1>7, <1>10 DEF f, n

(* Close cuts the file to its text. *)
LEMMA CloseText ==
  ASSUME IInv, TInv, NEW o \in Loggers, Close(o), pc # "down",
         Writing' => Writing,
         UNCHANGED <<line, pid, count, files, logged, torn>>
  PROVE  TInv'
<1>1. CASE ~IsOpen(o)
  BY <1>1, Quiet DEF Close, storage
<1>2. CASE IsOpen(o)
  <2> DEFINE f == obj[o].file
             n == obj[o].offset
  <2>1. /\ disk' = [disk EXCEPT ![f] = Ftruncate(disk[f], n)]
        /\ obj' = [obj EXCEPT ![o] = Closed]
    BY <1>2 DEF Close
  <2>2. n \in Nat /\ n <= n /\ obj \in [Files -> ObjType] /\ o \in Files /\ f \in DOMAIN disk
    BY <1>2, ObjectTypes DEF Loggers
  <2>3. /\ AllKept' /\ Fresh' /\ Len(disk'[f]) = n /\ Filled(torn, disk'[f], n)
        /\ DOMAIN disk' = DOMAIN disk
        /\ \A g \in DOMAIN disk : g # f => disk'[g] = disk[g]
    BY <1>2, <2>1, <2>2, Resized
  <2>4. /\ ~IsOpen(o)'
        /\ \A l \in Loggers : l # o => obj'[l] = obj[l] /\ (IsOpen(l)' <=> IsOpen(l))
    BY <2>1, <2>2, ClosedType DEF IsOpen, Loggers
  <2>5. LastFile'
    BY <2>4 DEF TInv, LastFile
  <2>6. Content'
    <3> SUFFICES ASSUME NEW l \in Loggers, l # o, IsOpen(l)
                 PROVE  /\ Len(disk'[obj[l].file]) = obj[l].size
                        /\ Filled(torn, disk'[obj[l].file], obj[l].offset)
      BY <2>4 DEF Content
    <3>1. obj[l].file # f /\ obj[l].file \in DOMAIN disk
      BY <1>2, ObjectTypes DEF IInv, OneWriter
    <3> QED
      BY <2>3, <3>1 DEF TInv, Content
  <2>7. Trimmed'
    <3> SUFFICES ASSUME NEW l \in Loggers, NEW j \in DOMAIN files[l], files[l][j][1] = pid,
                        obj'[l].file # files[l][j], NEW i \in DOMAIN disk'[files[l][j]]
                 PROVE  disk'[files[l][j]][i] # Zero /\ disk'[files[l][j]][i] \notin torn
      BY DEF Trimmed
    <3>1. files[l][j] \in DOMAIN disk
      BY FileFacts
    <3>2. CASE files[l][j] = f
      <4>1. disk'[f] \in Seq(0..MaxLine)
        <5>1. disk[f] \in Seq(0..MaxLine)
          BY <1>2, ObjectTypes
        <5> QED
          BY <2>1, <2>2, <5>1, TruncatedDisk
      <4>2. DOMAIN disk'[f] = 1..n
        BY <2>3, <4>1
      <4> HIDE DEF f, n
      <4> QED
        BY <2>3, <3>2, <4>2 DEF Filled
    <3>3. CASE files[l][j] # f
      <4>1. obj[l].file # files[l][j]
        BY <2>4, <3>3
      <4> QED
        BY <2>3, <3>1, <3>3, <4>1 DEF TInv, Trimmed
    <3> QED
      BY <3>2, <3>3
  <2> QED
    BY <2>3, <2>5, <2>6, <2>7 DEF TInv
<1> QED
  BY <1>1, <1>2

(* _AssureSpace extends the file with padding. *)
LEMMA SpaceText == ASSUME IInv, TInv, Space PROVE TInv'
<1> DEFINE f == obj[cur].file
           n == NewSize(cur, Len(line))
<1>1. PICK mapped \in BOOLEAN :
        /\ pc = "space" /\ pc' = "copy"
        /\ AssureSpace(cur, Len(line), mapped)
        /\ UNCHANGED <<cur, line, pid, seq, count, files, logged, torn>>
  BY DEF Space, Goto, ghost
<1>2. cur \in Loggers /\ Loggers = Files /\ obj \in [Files -> ObjType] /\ Len(line) \in Nat
  <2>1. cur \in Loggers /\ Loggers = Files
    BY DEF IInv, TypeOK, Loggers
  <2>2. line \in Seq(1..MaxLine)
    BY DEF IInv, TypeOK
  <2>3. Len(line) \in Nat
    BY <2>2
  <2>4. obj \in [Files -> ObjType]
    BY <2>1, ObjectTypes
  <2> QED
    BY <2>1, <2>3, <2>4
<1>3. IsOpen(cur)
  BY <1>1 DEF IInv, Where
<1>4. /\ f \in DOMAIN disk /\ obj[cur].size \in Nat \ {0} /\ obj[cur].offset \in Nat
      /\ obj[cur].offset <= obj[cur].size
  BY <1>2, <1>3, ObjectTypes
<1>5. n \in Nat /\ n >= obj[cur].size
  BY <1>2, <1>4, NewSizeGrows
<1>6. Writing' => Writing /\ line' = line
  BY <1>1 DEF Writing
<1>7. CASE ~(n > obj[cur].size)
  <2>1. UNCHANGED <<obj, disk>>
    BY <1>1, <1>7 DEF AssureSpace, storage
  <2> QED
    BY <1>1, <1>6, <2>1, Quiet
<1>8. CASE n > obj[cur].size
  <2>1. /\ disk' = [disk EXCEPT ![f] = Ftruncate(disk[f], n)]
        /\ obj' = [obj EXCEPT ![cur].size = n, ![cur].memory = mapped]
    BY <1>1, <1>8 DEF AssureSpace
  <2>2. obj[cur].offset <= n
    BY <1>4, <1>5
  <2> HIDE DEF n
  <2>3. /\ AllKept' /\ Fresh' /\ Len(disk'[f]) = n /\ Filled(torn, disk'[f], obj[cur].offset)
        /\ DOMAIN disk' = DOMAIN disk
        /\ \A g \in DOMAIN disk : g # f => disk'[g] = disk[g]
    BY <1>1, <1>2, <1>3, <1>5, <1>6, <2>1, <2>2, Resized
  <2>4. /\ \A l \in Loggers : l # cur => obj'[l] = obj[l]
        /\ obj'[cur].file = f /\ obj'[cur].offset = obj[cur].offset /\ obj'[cur].size = n
    <3>1. obj[cur] \in ObjType
      BY <1>2
    <3>2. obj' = [obj EXCEPT ![cur] = [obj[cur] EXCEPT !.size = n, !.memory = mapped]]
      BY <1>2, <2>1
    <3>3. obj'[cur] = [obj[cur] EXCEPT !.size = n, !.memory = mapped]
      BY <1>2, <3>2
    <3>4. obj'[cur].file = f /\ obj'[cur].offset = obj[cur].offset /\ obj'[cur].size = n
      BY <3>1, <3>3 DEF ObjType
    <3> QED
      BY <1>2, <3>2, <3>4
  <2>5. \A l \in Loggers : obj'[l].file = obj[l].file /\ (IsOpen(l)' <=> IsOpen(l))
    BY <2>4 DEF IsOpen
  <2>6. LastFile'
    BY <1>1, <2>5 DEF TInv, LastFile
  <2>7. Content'
    <3> SUFFICES ASSUME NEW l \in Loggers, IsOpen(l)
                 PROVE  /\ Len(disk'[obj'[l].file]) = obj'[l].size
                        /\ Filled(torn, disk'[obj'[l].file], obj'[l].offset)
      BY <1>1, <2>5 DEF Content
    <3>1. CASE l = cur
      BY <2>3, <2>4, <3>1
    <3>2. CASE l # cur
      <4>1. obj[l].file # f /\ obj[l].file \in DOMAIN disk
        BY <1>2, <1>3, <3>2, ObjectTypes DEF IInv, OneWriter
      <4> QED
        BY <2>3, <2>4, <3>2, <4>1 DEF TInv, Content
    <3> QED
      BY <3>1, <3>2
  <2>8. Trimmed'
    <3> SUFFICES ASSUME NEW l \in Loggers, NEW j \in DOMAIN files[l], files[l][j][1] = pid,
                        obj[l].file # files[l][j], NEW i \in DOMAIN disk'[files[l][j]]
                 PROVE  disk'[files[l][j]][i] # Zero /\ disk'[files[l][j]][i] \notin torn
      BY <1>1, <2>5 DEF Trimmed
    <3>1. files[l][j] \in DOMAIN disk
      BY FileFacts
    <3>2. files[l][j] # f
      <4>1. files[l][j] = f => l = cur
        BY <1>2, <1>3, OpenFileIsLast DEF TInv
      <4> QED
        BY <4>1
    <3>3. pc # "down"
      BY <1>1
    <3> QED
      BY <2>3, <3>1, <3>2, <3>3 DEF TInv, Trimmed
  <2> QED
    BY <2>3, <2>6, <2>7, <2>8 DEF TInv
<1> QED
  BY <1>7, <1>8

(* The text of a logger that has one file more, and of one whose last file has more. *)
LEMMA AllTextAppend ==
  ASSUME NEW S, NEW F, NEW fs \in Seq(F), NEW f \in F, NEW tn, NEW d,
         \A i \in DOMAIN fs : d[fs[i]] \in Seq(S), d[f] \in Seq(S)
  PROVE  /\ AllText(tn, d, fs) \in Seq(S)
         /\ AllText(tn, d, Append(fs, f)) = AllText(tn, d, fs) \o Txt(tn, d[f])
<1> DEFINE T == Seq(S)
           n == Len(fs)
           gs == Append(fs, f)
           ss == [i \in 1..n |-> Txt(tn, d[fs[i]])]
           tt == [i \in 1..(n + 1) |-> Txt(tn, d[gs[i]])]
           x == Txt(tn, d[f])
<1>1. /\ n \in Nat /\ DOMAIN fs = 1..n /\ DOMAIN gs = 1..(n + 1)
      /\ gs[n + 1] = f /\ \A i \in 1..n : gs[i] = fs[i]
  OBVIOUS
<1>2. x \in T /\ \A i \in 1..n : Txt(tn, d[fs[i]]) \in T
  BY <1>1, TxtType
<1>3. /\ AllText(tn, d, fs) = FlattenSeq(ss)
      /\ AllText(tn, d, gs) = FlattenSeq(tt)
  BY <1>1 DEF AllText
<1> HIDE DEF T, n, gs
<1>4. ss \in Seq(T) /\ Len(ss) = n
  BY <1>1, <1>2
<1>5. \A i \in 1..n : tt[i] = ss[i]
  BY <1>1
<1>6. tt[n + 1] = x
  BY <1>1
<1>7. tt \in Seq(T) /\ Len(tt) = n + 1
  <2>1. \A i \in 1..(n + 1) : Txt(tn, d[gs[i]]) \in T
    BY <1>1, <1>2
  <2> QED
    BY <1>1, <2>1
<1> HIDE DEF ss, tt, x
<1>8. tt = Append(ss, x)
  BY <1>1, <1>2, <1>4, <1>5, <1>6, <1>7
<1>9. FlattenSeq(ss) \in Seq(S) /\ FlattenSeq(Append(ss, x)) = FlattenSeq(ss) \o x
  BY <1>2, <1>4, FlattenLast DEF T
<1> QED
  BY <1>3, <1>8, <1>9 DEF gs, x

(* Of the files fs, whose bytes go from d to e, the last gets the text s. *)
LastGrows(S, fs, tn, d, e, s) ==
  /\ fs \in Seq(Names) /\ fs # <<>> /\ s \in Seq(S)
  /\ \A i \in DOMAIN fs : d[fs[i]] \in Seq(S) /\ e[fs[i]] \in Seq(S)
  /\ \A i \in 1..(Len(fs) - 1) : Txt(tn, e[fs[i]]) = Txt(tn, d[fs[i]])
  /\ Txt(tn, e[fs[Len(fs)]]) = Txt(tn, d[fs[Len(fs)]]) \o s

(* When the last of a log's files grows by s, so does all its text. *)
LEMMA AllTextGrows ==
  ASSUME NEW S, NEW fs, NEW tn, NEW d, NEW e, NEW s, LastGrows(S, fs, tn, d, e, s)
  PROVE  AllText(tn, e, fs) = Cat(AllText(tn, d, fs), s)
<1> DEFINE T == Seq(S)
           n == Len(fs)
           ss == [i \in 1..n |-> Txt(tn, d[fs[i]])]
           tt == [i \in 1..n |-> Txt(tn, e[fs[i]])]
<1>1. n \in Nat \ {0} /\ DOMAIN fs = 1..n /\ s \in Seq(S)
  BY EmptySeq DEF LastGrows
<1>2. \A i \in 1..n : Txt(tn, d[fs[i]]) \in T /\ Txt(tn, e[fs[i]]) \in T
  BY <1>1, TxtType DEF LastGrows
<1>3. AllText(tn, d, fs) = FlattenSeq(ss) /\ AllText(tn, e, fs) = FlattenSeq(tt)
  BY <1>1 DEF AllText
<1>4. /\ \A i \in 1..(n - 1) : Txt(tn, e[fs[i]]) = Txt(tn, d[fs[i]])
      /\ Txt(tn, e[fs[n]]) = Txt(tn, d[fs[n]]) \o s
  BY DEF LastGrows
<1> HIDE DEF T, n
<1>5. ss \in Seq(T) /\ tt \in Seq(T) /\ Len(ss) = n /\ Len(tt) = n
  BY <1>1, <1>2
<1>6. \A i \in 1..(n - 1) : tt[i] = ss[i]
  BY <1>1, <1>4
<1>7. tt[n] = ss[n] \o s
  <2>1. n \in 1..n
    BY <1>1
  <2>2. tt[n] = Txt(tn, e[fs[n]]) /\ ss[n] = Txt(tn, d[fs[n]])
    BY <2>1
  <2> QED
    BY <1>4, <2>2
<1>8. ss # <<>>
  BY <1>1, <1>5
<1> HIDE DEF ss, tt
<1>9. FlattenSeq(tt) = FlattenSeq(ss) \o s
  <2>1. /\ ss \in Seq(Seq(S)) /\ tt \in Seq(Seq(S)) /\ s \in Seq(S)
        /\ ss # <<>> /\ Len(tt) = Len(ss)
    BY <1>1, <1>5, <1>8 DEF T
  <2>2. \A i \in 1..(Len(ss) - 1) : tt[i] = ss[i]
    BY <1>5, <1>6
  <2>3. tt[Len(ss)] = ss[Len(ss)] \o s
    BY <1>5, <1>7
  <2> QED
    BY <2>1, <2>2, <2>3, FlattenGrows
<1> QED
  BY <1>3, <1>9 DEF Cat

(* A new file is all padding. *)
LEMMA NewFile ==
  ASSUME NEW n \in Nat, NEW tn
  PROVE  /\ Ftruncate(<<>>, n) \in Seq(0..MaxLine) /\ Len(Ftruncate(<<>>, n)) = n
         /\ \A i \in 1..n : Ftruncate(<<>>, n)[i] = Zero
         /\ Filled(tn, Ftruncate(<<>>, n), 0)
         /\ Txt(tn, Ftruncate(<<>>, n)) = <<>>
<1> DEFINE new == Ftruncate(<<>>, n)
           B == 0..MaxLine
<1>1. new \in Seq(B)
  <2>1. <<>> \in Seq(B)
    OBVIOUS
  <2> QED
    BY <2>1, TruncatedDisk
<1>2. new = [i \in 1..n |-> Zero]
  BY DEF Ftruncate
<1> HIDE DEF new, B
<1>3. Len(new) = n /\ \A i \in 1..n : new[i] = Zero
  BY <1>1, <1>2
<1>4. Filled(tn, new, 0)
  BY <1>3 DEF Filled
<1>5. Txt(tn, new) = [i \in 1..0 |-> new[i]]
  <2>1. Begins(tn, new, 0)
    BY <1>4 DEF Filled, Begins
  <2> QED
    BY <1>1, <2>1, TxtPrefix
<1>6. [i \in 1..0 |-> new[i]] = <<>>
  OBVIOUS
<1> QED
  BY <1>1, <1>3, <1>4, <1>5, <1>6 DEF new, B

(* _OpenLogFile adds a file without text. *)
LEMMA OpenText == ASSUME IInv, TInv, OpenLogFile PROVE TInv'
<1> DEFINE f == <<pid, seq + 1>>
           new == Ftruncate(<<>>, kDefaultSize)
<1>1. PICK mapped \in BOOLEAN :
        /\ pc = "open" /\ pc' = IF mapped THEN "check" ELSE "space"
        /\ Open(cur, f, mapped)
        /\ files' = [files EXCEPT ![cur] = Append(@, f)]
        /\ UNCHANGED <<cur, line, pid, count, logged, torn>>
  BY DEF OpenLogFile, Goto, NextSeq
<1>2. cur \in Loggers /\ Loggers = Files /\ obj \in [Files -> ObjType] /\ ~IsOpen(cur)
  BY <1>1, ObjectTypes DEF IInv, TypeOK, Loggers, Where
<1>3. f \in Names /\ f # NoFile /\ pid \in Nat /\ seq \in Nat
  BY LogConstantsOK, SMTT(30) DEF IInv, TypeOK, Names
<1>4. f \notin DOMAIN disk
  <2>1. f \in DOMAIN disk => pid < pid \/ (pid = pid /\ seq + 1 <= seq)
    BY DEF IInv, NamesTaken
  <2> QED
    BY <1>3, <2>1
<1>5. kDefaultSize \in Nat
  BY FileConstantsOK
<1>6. /\ new \in Seq(0..MaxLine) /\ Len(new) = kDefaultSize
      /\ \A i \in 1..kDefaultSize : new[i] = Zero
      /\ Filled(torn, new, 0) /\ Txt(torn, new) = <<>>
  BY <1>5, NewFile
<1>7. /\ disk' = With(disk, f, new)
      /\ obj' = [obj EXCEPT ![cur].file = f, ![cur].memory = mapped, ![cur].offset = 0,
                            ![cur].size = kDefaultSize]
  <2> DEFINE old == IF f \in DOMAIN disk THEN disk[f] ELSE <<>>
             size == IF Len(old) > kDefaultSize THEN Len(old) ELSE kDefaultSize
  <2>1. old = <<>> /\ Len(old) = 0 /\ size = kDefaultSize
    BY <1>4, FileConstantsOK
  <2>2. /\ disk' = With(disk, f, Ftruncate(old, size))
        /\ obj' = [obj EXCEPT ![cur].file = f, ![cur].memory = mapped,
                              ![cur].offset = Len(old), ![cur].size = size]
    BY <1>1 DEF Open
  <2> HIDE DEF old, size
  <2> QED
    BY <1>4, <2>1, <2>2
<1> HIDE DEF f, new
<1>8. /\ obj'[cur].file = f /\ obj'[cur].offset = 0 /\ obj'[cur].size = kDefaultSize
      /\ \A l \in Loggers : l # cur => obj'[l] = obj[l] /\ (IsOpen(l)' <=> IsOpen(l))
  <2>1. obj[cur] \in ObjType
    BY <1>2
  <2>2. obj' = [obj EXCEPT ![cur] = [obj[cur] EXCEPT !.file = f, !.memory = mapped,
                                                     !.offset = 0, !.size = kDefaultSize]]
    BY <1>2, <1>7
  <2>3. obj'[cur] = [obj[cur] EXCEPT !.file = f, !.memory = mapped, !.offset = 0,
                                     !.size = kDefaultSize]
    BY <1>2, <2>2
  <2>4. obj'[cur].file = f /\ obj'[cur].offset = 0 /\ obj'[cur].size = kDefaultSize
    BY <2>1, <2>3 DEF ObjType
  <2> QED
    BY <1>2, <2>2, <2>4 DEF IsOpen
<1>9. /\ DOMAIN disk' = DOMAIN disk \cup {f} /\ disk'[f] = new
      /\ \A g \in DOMAIN disk : disk'[g] = disk[g] /\ g # f
  BY <1>4, <1>7 DEF With
<1>10. /\ files'[cur] = Append(files[cur], f)
       /\ \A l \in Loggers : l # cur => files'[l] = files[l]
  <2>1. files \in [Loggers -> Seq(Names)]
    BY DEF IInv, TypeOK
  <2> QED
    BY <1>1, <1>2, <2>1
<1>11. /\ files[cur] \in Seq(Names) /\ Len(files[cur]) \in Nat
       /\ DOMAIN files[cur] = 1..Len(files[cur])
  BY <1>2, FileFacts
<1>12. /\ DOMAIN files'[cur] = 1..(Len(files[cur]) + 1) /\ Len(files'[cur]) = Len(files[cur]) + 1
       /\ files'[cur][Len(files[cur]) + 1] = f
       /\ \A j \in 1..Len(files[cur]) : files'[cur][j] = files[cur][j]
  BY <1>3, <1>10, <1>11
<1>13. LastFile'
  <2>1. ASSUME NEW l \in Loggers, IsOpen(l)'
        PROVE  files'[l] # <<>> /\ files'[l][Len(files'[l])] = obj'[l].file
    <3>1. CASE l = cur
      BY <1>8, <1>11, <1>12, <3>1
    <3>2. CASE l # cur
      BY <1>8, <1>10, <2>1, <3>2 DEF TInv, LastFile
    <3> QED
      BY <3>1, <3>2
  <2>2. ASSUME NEW l \in Loggers, NEW j \in DOMAIN files'[l]
        PROVE  \/ l = cur /\ files'[l][j] = f
               \/ /\ j \in DOMAIN files[l] /\ files'[l][j] = files[l][j]
                  /\ files[l][j] # f
    <3>1. CASE l = cur
      <4>1. j = Len(files[cur]) + 1 \/ j \in 1..Len(files[cur])
        BY <1>11, <1>12, <2>2, <3>1
      <4> QED
        BY <1>9, <1>11, <1>12, <3>1, <4>1, FileFacts
    <3>2. CASE l # cur
      BY <1>9, <1>10, <2>2, <3>2, FileFacts
    <3> QED
      BY <3>1, <3>2
  <2>3. ASSUME NEW k \in Loggers, NEW l \in Loggers, k # l, NEW i \in DOMAIN files'[k],
               NEW j \in DOMAIN files'[l]
        PROVE  files'[k][i] # files'[l][j]
    <3>1. \/ k = cur /\ files'[k][i] = f
          \/ i \in DOMAIN files[k] /\ files'[k][i] = files[k][i] /\ files[k][i] # f
      BY <2>2, <2>3
    <3>2. \/ l = cur /\ files'[l][j] = f
          \/ j \in DOMAIN files[l] /\ files'[l][j] = files[l][j] /\ files[l][j] # f
      BY <2>2, <2>3
    <3> QED
      BY <2>3, <3>1, <3>2 DEF TInv, LastFile
  <2> QED
    BY <2>1, <2>3 DEF LastFile
<1>14. Content'
  <2> SUFFICES ASSUME NEW l \in Loggers, IsOpen(l)'
               PROVE  /\ Len(disk'[obj'[l].file]) = obj'[l].size
                      /\ Filled(torn, disk'[obj'[l].file], obj'[l].offset)
    BY <1>1 DEF Content
  <2>1. CASE l = cur
    BY <1>6, <1>8, <1>9, <2>1
  <2>2. CASE l # cur
    <3>1. IsOpen(l) /\ obj'[l] = obj[l]
      BY <1>8, <2>2
    <3>2. disk'[obj[l].file] = disk[obj[l].file]
      BY <1>9, <3>1, ObjectTypes
    <3> QED
      BY <3>1, <3>2 DEF TInv, Content
  <2> QED
    BY <2>1, <2>2
<1>15. Writing
  BY <1>1 DEF Writing
<1>16. Fresh'
  <2>1. /\ \A g \in DOMAIN disk : \A i \in DOMAIN disk[g] : disk[g][i] <= count /\ disk[g][i] # count
        /\ \A c \in torn : c <= count
        /\ count \notin torn /\ \A i \in DOMAIN line : line[i] = count
    BY <1>15 DEF TInv, Fresh
  <2>2. DOMAIN new = 1..kDefaultSize
    BY <1>6
  <2>3. Zero <= count /\ Zero # count
    BY <1>15, LineNumber, LogConstantsOK
  <2>4. \A i \in DOMAIN new : new[i] <= count /\ new[i] # count
    BY <1>6, <2>2, <2>3
  <2>5. \A g \in DOMAIN disk' : \A i \in DOMAIN disk'[g] : disk'[g][i] <= count /\ disk'[g][i] # count
    BY <1>9, <2>1, <2>4
  <2> QED
    BY <1>1, <2>1, <2>5 DEF Fresh
<1>17. \A l \in Loggers : AllText(torn, disk', files[l]) = logged[l]
  <2> SUFFICES ASSUME NEW l \in Loggers PROVE AllText(torn, disk', files[l]) = logged[l]
    OBVIOUS
  <2>1. \A i \in DOMAIN files[l] : Txt(torn, disk'[files[l][i]]) = Txt(torn, disk[files[l][i]])
    BY <1>9, FileFacts
  <2> QED
    BY <2>1, AllTextSame DEF TInv, AllKept
<1>18. AllKept'
  <2> DEFINE B == 0..MaxLine
  <2>1. \A i \in DOMAIN files[cur] : disk'[files[cur][i]] \in Seq(B)
    BY <1>2, <1>9, FileFacts
  <2>2. disk'[f] \in Seq(B)
    BY <1>6, <1>9
  <2> HIDE DEF B
  <2>3. /\ AllText(torn, disk', files[cur]) \in Seq(B)
        /\ AllText(torn, disk', Append(files[cur], f))
             = AllText(torn, disk', files[cur]) \o Txt(torn, disk'[f])
    <3> DEFINE fs == files[cur]
               d == disk'
               F == Names
    <3>1. fs \in Seq(F) /\ f \in F
      BY <1>3, <1>11
    <3>2. d[f] \in Seq(B) /\ \A i \in DOMAIN fs : d[fs[i]] \in Seq(B)
      BY <2>1, <2>2
    <3> HIDE DEF fs, d, F
    <3>3. /\ AllText(torn, d, fs) \in Seq(B)
          /\ AllText(torn, d, Append(fs, f)) = AllText(torn, d, fs) \o Txt(torn, d[f])
      BY <3>1, <3>2, AllTextAppend
    <3> QED
      BY <3>3 DEF fs, d
  <2>4. AllText(torn, disk', Append(files[cur], f)) = AllText(torn, disk', files[cur])
    BY <1>6, <1>9, <2>3
  <2> QED
    BY <1>1, <1>2, <1>10, <1>17, <2>4 DEF AllKept
<1>19. Trimmed'
  <2> SUFFICES ASSUME NEW l \in Loggers, NEW j \in DOMAIN files'[l], files'[l][j][1] = pid,
                      obj'[l].file # files'[l][j], NEW i \in DOMAIN disk'[files'[l][j]]
               PROVE  disk'[files'[l][j]][i] # Zero /\ disk'[files'[l][j]][i] \notin torn
    BY <1>1 DEF Trimmed
  <2>1. j \in DOMAIN files[l] /\ files'[l][j] = files[l][j]
    <3>1. CASE l = cur
      <4>1. j = Len(files[cur]) + 1 \/ j \in 1..Len(files[cur])
        BY <1>11, <1>12, <3>1
      <4> QED
        BY <1>8, <1>11, <1>12, <3>1, <4>1
    <3>2. CASE l # cur
      BY <1>10, <3>2
    <3> QED
      BY <3>1, <3>2
  <2>2. files[l][j] \in DOMAIN disk
    BY <2>1, FileFacts
  <2>3. obj[l].file # files[l][j]
    <3>1. CASE l = cur
      <4>1. obj[cur].file = NoFile
        BY <1>2 DEF IsOpen
      <4>2. files[l][j] \in Names
        BY <2>2 DEF IInv, TypeOK
      <4>3. NoFile \notin Names
        BY LogConstantsOK DEF Names
      <4> QED
        BY <3>1, <4>1, <4>2, <4>3
    <3>2. CASE l # cur
      BY <1>8, <2>1, <3>2
    <3> QED
      BY <3>1, <3>2
  <2>4. disk'[files[l][j]] = disk[files[l][j]] /\ pc # "down"
    BY <1>1, <1>9, <2>2
  <2> QED
    BY <2>1, <2>3, <2>4 DEF TInv, Trimmed
<1> QED
  BY <1>13, <1>14, <1>16, <1>18, <1>19 DEF TInv

(* Where memcpy writes, and where it does not. *)
LEMMA Copied ==
  ASSUME NEW B, NEW s \in Seq(B), NEW p \in Nat, NEW bytes \in Seq(B),
         p + Len(bytes) <= Len(s)
  PROVE  /\ Memcpy(s, p, bytes) \in Seq(B) /\ Len(Memcpy(s, p, bytes)) = Len(s)
         /\ \A i \in 1..p : Memcpy(s, p, bytes)[i] = s[i]
         /\ \A a \in 1..Len(bytes) : Memcpy(s, p, bytes)[p + a] = bytes[a]
         /\ \A i \in (p + Len(bytes) + 1)..Len(s) : Memcpy(s, p, bytes)[i] = s[i]
<1> DEFINE new == Memcpy(s, p, bytes)
<1>1. new \in Seq(B)
  BY MemcpyType
<1>2. Len(s) \in Nat /\ DOMAIN s = 1..Len(s) /\ Len(bytes) \in Nat
  OBVIOUS
<1>3. new = [i \in DOMAIN s |-> IF i \in (p + 1)..(p + Len(bytes)) THEN bytes[i - p] ELSE s[i]]
  BY DEF Memcpy
<1> HIDE DEF new
<1>4. Len(new) = Len(s)
  BY <1>1, <1>2, <1>3
<1>5. ASSUME NEW i \in 1..p PROVE new[i] = s[i]
  <2>1. i \in DOMAIN s /\ i \notin (p + 1)..(p + Len(bytes))
    BY <1>2
  <2> QED
    BY <1>3, <2>1
<1>6. ASSUME NEW a \in 1..Len(bytes) PROVE new[p + a] = bytes[a]
  <2>1. p + a \in DOMAIN s /\ p + a \in (p + 1)..(p + Len(bytes)) /\ (p + a) - p = a
    BY <1>2
  <2> QED
    BY <1>3, <2>1
<1>7. ASSUME NEW i \in (p + Len(bytes) + 1)..Len(s) PROVE new[i] = s[i]
  <2>1. i \in DOMAIN s /\ i \notin (p + 1)..(p + Len(bytes))
    BY <1>2
  <2> QED
    BY <1>3, <2>1
<1> QED
  BY <1>1, <1>4, <1>5, <1>6, <1>7 DEF new

(* A line copied behind the text is the end of the text. *)
LEMMA CopiedText ==
  ASSUME NEW s \in Seq(0..MaxLine), NEW p \in Nat, NEW bytes \in Seq(0..MaxLine), NEW tn,
         Filled(tn, s, p), p + Len(bytes) <= Len(s),
         \A i \in DOMAIN bytes : bytes[i] # Zero /\ bytes[i] \notin tn
  PROVE  /\ Filled(tn, Memcpy(s, p, bytes), p + Len(bytes))
         /\ Txt(tn, Memcpy(s, p, bytes)) = Txt(tn, s) \o bytes
<1> DEFINE B == 0..MaxLine
           new == Memcpy(s, p, bytes)
           q == p + Len(bytes)
<1>1. s \in Seq(B) /\ bytes \in Seq(B)
  OBVIOUS
<1> HIDE DEF B
<1>2. Len(s) \in Nat /\ Len(bytes) \in Nat /\ DOMAIN bytes = 1..Len(bytes)
  BY <1>1
<1>3. /\ new \in Seq(B) /\ Len(new) = Len(s)
      /\ \A i \in 1..p : new[i] = s[i]
      /\ \A a \in 1..Len(bytes) : new[p + a] = bytes[a]
      /\ \A i \in (q + 1)..Len(s) : new[i] = s[i]
  BY <1>1, Copied
<1>4. /\ p <= Len(s)
      /\ \A i \in 1..p : s[i] # Zero /\ s[i] \notin tn
      /\ \A i \in (p + 1)..Len(s) : s[i] = Zero
  BY DEF Filled
<1>5. q \in Nat /\ q <= Len(s)
  BY <1>2
<1> HIDE DEF new
<1>6. \A i \in 1..q : new[i] # Zero /\ new[i] \notin tn
  <2> SUFFICES ASSUME NEW i \in 1..q PROVE new[i] # Zero /\ new[i] \notin tn
    OBVIOUS
  <2>1. CASE i \in 1..p
    BY <1>3, <1>4, <2>1
  <2>2. CASE i \notin 1..p
    <3>1. i - p \in 1..Len(bytes) /\ p + (i - p) = i
      BY <1>2, <2>2
    <3> QED
      BY <1>2, <1>3, <3>1
  <2> QED
    BY <2>1, <2>2
<1>7. \A i \in (q + 1)..Len(s) : new[i] = Zero
  <2> SUFFICES ASSUME NEW i \in (q + 1)..Len(s) PROVE new[i] = Zero
    OBVIOUS
  <2>1. i \in (p + 1)..Len(s)
    BY <1>2
  <2> QED
    BY <1>3, <1>4, <2>1
<1>8. Txt(tn, new) = [i \in 1..q |-> new[i]]
  <2>1. q <= Len(new) /\ \A i \in (q + 1)..Len(new) : new[i] = Zero \/ new[i] \in tn
    BY <1>3, <1>5, <1>7
  <2>2. new \in Seq(B)
    BY <1>3
  <2> HIDE DEF q
  <2>3. Begins(tn, new, q)
    BY <1>6, <2>1 DEF Begins
  <2> QED
    BY <1>5, <2>2, <2>3, TxtPrefix
<1>9. Txt(tn, s) = [i \in 1..p |-> s[i]]
  <2>1. /\ \A i \in (p + 1)..Len(s) : s[i] = Zero \/ s[i] \in tn
        /\ \A i \in 1..p : s[i] # Zero /\ s[i] \notin tn
    BY <1>4
  <2>2. p <= Len(s)
    BY <1>4
  <2>3. Begins(tn, s, p)
    BY <2>1, <2>2 DEF Begins
  <2> QED
    BY <1>1, <2>3, TxtPrefix
<1>10. [i \in 1..q |-> new[i]] = [i \in 1..p |-> s[i]] \o bytes
  <2> DEFINE left == [i \in 1..p |-> s[i]]
  <2>1. left \in Seq(B) /\ Len(left) = p /\ \A i \in 1..p : left[i] = s[i]
    <3>1. \A i \in 1..p : s[i] \in B
      BY <1>1, <1>2, <1>4
    <3> QED
      BY <3>1
  <2>2. [i \in 1..q |-> new[i]] \in Seq(B) /\ Len([i \in 1..q |-> new[i]]) = q
    BY <1>3, <1>5
  <2> HIDE DEF left
  <2>3. Len(left \o bytes) = q /\ left \o bytes \in Seq(B)
    <3>1. left \in Seq(B) /\ bytes \in Seq(B) /\ Len(left) = p
      BY <1>1, <2>1
    <3>2. left \o bytes \in Seq(B) /\ Len(left \o bytes) = Len(left) + Len(bytes)
      BY <3>1, ConcatProperties
    <3> QED
      BY <3>1, <3>2
  <2>4. ASSUME NEW i \in 1..q PROVE new[i] = (left \o bytes)[i]
    <3>1. CASE i \in 1..p
      BY <1>1, <1>3, <2>1, <3>1
    <3>2. CASE i \notin 1..p
      <4>1. i - p \in 1..Len(bytes) /\ p + (i - p) = i
        BY <1>2, <3>2
      <4>2. new[i] = bytes[i - p]
        BY <1>3, <4>1
      <4>3. (left \o bytes)[i] = bytes[i - p]
        BY <1>1, <1>2, <2>1, <3>2, <4>1, SMTT(30)
      <4> QED
        BY <4>2, <4>3
    <3> QED
      BY <3>1, <3>2
  <2>5. left \o bytes = [i \in 1..q |-> (left \o bytes)[i]]
    <3> DEFINE t == left \o bytes
    <3>1. t \in Seq(B) /\ Len(t) = q
      BY <2>3
    <3> HIDE DEF t, q
    <3>2. t = [i \in 1..q |-> t[i]]
      BY <3>1
    <3> QED
      BY <3>2 DEF t
  <2>6. [i \in 1..q |-> new[i]] = [i \in 1..q |-> (left \o bytes)[i]]
    BY <2>4
  <2> QED
    BY <2>5, <2>6 DEF left
<1>11. Filled(tn, new, q)
  BY <1>3, <1>5, <1>6, <1>7 DEF Filled
<1> QED
  BY <1>8, <1>9, <1>10, <1>11 DEF new

(* The line is in the file and offset_ behind it. *)
LEMMA CopyText == ASSUME IInv, TInv, Copy PROVE TInv'
<1> DEFINE f == obj[cur].file
           p == obj[cur].offset
           len == Len(line)
           B == 0..MaxLine
           new == Memcpy(disk[f], p, line)
<1>1. /\ pc = "copy" /\ pc' = "lines" /\ Put(cur, line)
      /\ logged' = [logged EXCEPT ![cur] = @ \o line]
      /\ UNCHANGED <<cur, line, pid, seq, count, fails, files, torn>>
  BY DEF Copy, Goto
<1>2. cur \in Loggers /\ Loggers = Files /\ obj \in [Files -> ObjType]
      /\ line \in Seq(1..MaxLine) /\ len \in Nat
  BY ObjectTypes, SMTT(30) DEF IInv, TypeOK, Loggers
<1>3. IsOpen(cur) /\ p + len <= obj[cur].size /\ Writing
  BY <1>1 DEF IInv, Where, Writing
<1>4. /\ f \in DOMAIN disk /\ disk[f] \in Seq(B) /\ p \in Nat /\ obj[cur].size \in Nat
  BY <1>2, <1>3, ObjectTypes
<1>5. /\ disk' = [disk EXCEPT ![f] = new]
      /\ obj' = [obj EXCEPT ![cur].offset = p + len]
  BY <1>1 DEF Put
<1>6. Filled(torn, disk[f], p) /\ Len(disk[f]) = obj[cur].size
  BY <1>2, <1>3 DEF TInv, Content
<1>7. /\ DOMAIN line = 1..len /\ count \in 1..MaxLine /\ count # Zero
      /\ \A i \in DOMAIN line : line[i] = count
  BY <1>3, LineNumber
<1>8. /\ count \notin torn
      /\ \A g \in DOMAIN disk : \A i \in DOMAIN disk[g] : disk[g][i] <= count
  BY <1>3 DEF TInv, Fresh
<1>9. line \in Seq(B)
  <2>1. count \in B /\ line = [i \in 1..len |-> count]
    BY <1>2, <1>7
  <2> HIDE DEF B, len
  <2> QED
    BY <1>2, <2>1
<1>10. Filled(torn, new, p + len) /\ Txt(torn, new) = Txt(torn, disk[f]) \o line
  <2>1. disk[f] \in Seq(0..MaxLine) /\ line \in Seq(0..MaxLine) /\ p \in Nat
    BY <1>4, <1>9
  <2>2. p + Len(line) <= Len(disk[f])
    BY <1>3, <1>6
  <2>3. \A i \in DOMAIN line : line[i] # Zero /\ line[i] \notin torn
    BY <1>7, <1>8
  <2>4. Filled(torn, disk[f], p)
    BY <1>6
  <2> HIDE DEF f, p, len, B
  <2> QED
    BY <2>1, <2>2, <2>3, <2>4, CopiedText DEF len
<1>11. new \in Seq(B) /\ Len(new) = Len(disk[f])
  <2>1. disk[f] \in Seq(B) /\ line \in Seq(B) /\ p \in Nat /\ p + Len(line) <= Len(disk[f])
    BY <1>3, <1>4, <1>6, <1>9
  <2> HIDE DEF B, f, p
  <2> QED
    BY <2>1, Copied
<1>12. \A i \in DOMAIN new : new[i] <= count
  <2> SUFFICES ASSUME NEW i \in DOMAIN new PROVE new[i] <= count
    OBVIOUS
  <2>1. i \in DOMAIN disk[f]
    BY DEF Memcpy
  <2>2. CASE i \in (p + 1)..(p + len)
    <3>1. i - p \in 1..len
      BY <1>2, <1>4, <2>2
    <3>2. new[i] = line[i - p]
      BY <2>1, <2>2 DEF Memcpy
    <3> QED
      BY <1>7, <3>1, <3>2
  <2>3. CASE i \notin (p + 1)..(p + len)
    <3>1. new[i] = disk[f][i]
      BY <2>1, <2>3 DEF Memcpy
    <3> QED
      BY <1>4, <1>8, <2>1, <3>1
  <2> QED
    BY <2>2, <2>3
<1> HIDE DEF f, p, len, new
<1>13. /\ disk'[f] = new /\ DOMAIN disk' = DOMAIN disk
       /\ \A g \in DOMAIN disk : g # f => disk'[g] = disk[g]
  BY <1>4, <1>5
<1>14. /\ \A l \in Loggers : l # cur => obj'[l] = obj[l]
       /\ obj'[cur].file = f /\ obj'[cur].offset = p + len /\ obj'[cur].size = obj[cur].size
  <2>1. obj[cur] \in ObjType /\ obj[cur].file = f
    BY <1>2 DEF f
  <2>2. obj' = [obj EXCEPT ![cur] = [obj[cur] EXCEPT !.offset = p + len]]
    BY <1>2, <1>5
  <2>3. obj'[cur] = [obj[cur] EXCEPT !.offset = p + len]
    BY <1>2, <2>2
  <2>4. obj'[cur].file = f /\ obj'[cur].offset = p + len /\ obj'[cur].size = obj[cur].size
    BY <2>1, <2>3 DEF ObjType
  <2> QED
    BY <1>2, <2>2, <2>4
<1>15. \A l \in Loggers : obj'[l].file = obj[l].file /\ (IsOpen(l)' <=> IsOpen(l))
  BY <1>14 DEF IsOpen, f
<1>16. LastFile'
  BY <1>1, <1>15 DEF TInv, LastFile
<1>17. Content'
  <2> SUFFICES ASSUME NEW l \in Loggers, IsOpen(l)
               PROVE  /\ Len(disk'[obj'[l].file]) = obj'[l].size
                      /\ Filled(torn, disk'[obj'[l].file], obj'[l].offset)
    BY <1>1, <1>15 DEF Content
  <2>1. CASE l = cur
    BY <1>6, <1>10, <1>11, <1>13, <1>14, <2>1
  <2>2. CASE l # cur
    <3>1. obj[l].file # f /\ obj[l].file \in DOMAIN disk
      BY <1>2, <1>3, <2>2, ObjectTypes DEF IInv, OneWriter, f
    <3> QED
      BY <1>13, <1>14, <2>2, <3>1 DEF TInv, Content
  <2> QED
    BY <2>1, <2>2
<1>18. Fresh'
  <2>1. ~Writing'
    BY <1>1 DEF Writing
  <2>2. \A g \in DOMAIN disk' : \A i \in DOMAIN disk'[g] : disk'[g][i] <= count
    BY <1>8, <1>12, <1>13
  <2> QED
    BY <1>1, <2>1, <2>2 DEF TInv, Fresh
<1>19. ASSUME NEW l \in Loggers, NEW j \in DOMAIN files[l], l # cur \/ j # Len(files[cur])
       PROVE  disk'[files[l][j]] = disk[files[l][j]]
  <2>1. files[l][j] # f
    BY <1>2, <1>3, <1>19, OpenFileIsLast DEF TInv, f
  <2> QED
    BY <1>13, <2>1, FileFacts
<1>20. AllKept'
  <2>1. logged'[cur] = logged[cur] \o line /\ \A l \in Loggers : l # cur => logged'[l] = logged[l]
    BY <1>1, <1>2 DEF IInv, TypeOK
  <2>2. ASSUME NEW l \in Loggers, l # cur PROVE AllText(torn, disk', files[l]) = logged[l]
    <3>1. \A i \in DOMAIN files[l] : Txt(torn, disk'[files[l][i]]) = Txt(torn, disk[files[l][i]])
      BY <1>19, <2>2
    <3> QED
      BY <3>1, AllTextSame DEF TInv, AllKept
  <2>3. AllText(torn, disk', files[cur]) = logged[cur] \o line
    <3> DEFINE fs == files[cur]
               n == Len(fs)
               d == disk'
    <3>1. fs # <<>> /\ fs[n] = f
      BY <1>2, <1>3 DEF TInv, LastFile, f
    <3>2. fs \in Seq(Names) /\ n \in Nat /\ DOMAIN fs = 1..n
      BY <1>2, FileFacts
    <3>3. n \in 1..n
      BY <3>1, <3>2, EmptySeq
    <3>4. \A i \in DOMAIN fs : disk[fs[i]] \in Seq(B)
      BY <1>2, FileFacts
    <3>5. ASSUME NEW i \in 1..(n - 1) PROVE d[fs[i]] = disk[fs[i]]
      <4>1. i \in DOMAIN fs /\ i # n
        BY <3>2
      <4> QED
        BY <1>2, <1>19, <4>1
    <3>6. d[fs[n]] = new
      BY <1>13, <3>1
    <3>7. \A i \in DOMAIN fs : d[fs[i]] \in Seq(B)
      <4> SUFFICES ASSUME NEW i \in DOMAIN fs PROVE d[fs[i]] \in Seq(B)
        OBVIOUS
      <4>1. i = n \/ i \in 1..(n - 1)
        BY <3>2
      <4> QED
        BY <1>11, <3>4, <3>5, <3>6, <4>1
    <3>8. AllText(torn, disk, fs) = logged[cur]
      BY <1>2 DEF TInv, AllKept
    <3>9. Txt(torn, d[fs[n]]) = Txt(torn, disk[fs[n]]) \o line
      BY <1>10, <3>1, <3>6
    <3>10. \A i \in 1..(n - 1) : Txt(torn, d[fs[i]]) = Txt(torn, disk[fs[i]])
      BY <3>5
    <3> HIDE DEF fs, d, B, n
    <3>11. LastGrows(B, fs, torn, disk, d, line)
      BY <1>9, <3>1, <3>2, <3>4, <3>7, <3>9, <3>10 DEF LastGrows, n
    <3>12. AllText(torn, d, fs) = Cat(AllText(torn, disk, fs), line)
      BY <3>11, AllTextGrows
    <3> QED
      BY <3>8, <3>12 DEF fs, d, Cat
  <2> QED
    BY <1>1, <1>2, <2>1, <2>2, <2>3 DEF AllKept
<1>21. Trimmed'
  <2> SUFFICES ASSUME NEW l \in Loggers, NEW j \in DOMAIN files[l], files[l][j][1] = pid,
                      obj[l].file # files[l][j], NEW i \in DOMAIN disk'[files[l][j]]
               PROVE  disk'[files[l][j]][i] # Zero /\ disk'[files[l][j]][i] \notin torn
    BY <1>1, <1>15 DEF Trimmed
  <2>1. l # cur \/ j # Len(files[cur])
    BY <1>2, <1>3 DEF TInv, LastFile
  <2>2. disk'[files[l][j]] = disk[files[l][j]] /\ pc # "down"
    BY <1>1, <1>19, <2>1
  <2> QED
    BY <2>2 DEF TInv, Trimmed
<1> QED
  BY <1>16, <1>17, <1>18, <1>20, <1>21 DEF TInv

(* The process ends; what matters is what it leaves in its files. *)
LEMMA DieText ==
  ASSUME TInv, Die, AllKept', Fresh'
  PROVE  TInv'
<1>1. pc' = "down" /\ obj' = [o \in Files |-> Closed] /\ files' = files
  BY DEF Die
<1>2. \A l \in Loggers : ~IsOpen(l)'
  BY <1>1, ClosedType DEF IsOpen, Loggers
<1>3. LastFile' /\ Content' /\ Trimmed'
  BY <1>1, <1>2 DEF TInv, LastFile, Content, Trimmed
<1> QED
  BY <1>3 DEF TInv

(* A process that ends outside memcpy leaves the files as they are. *)
LEMMA DieQuietly == ASSUME TInv, Die, UNCHANGED <<disk, torn>> PROVE TInv'
<1>1. pc' = "down" /\ UNCHANGED <<files, logged, count>>
  BY DEF Die
<1>2. AllKept'
  BY <1>1 DEF TInv, AllKept
<1>3. Fresh'
  BY <1>1 DEF TInv, Fresh, Writing
<1> QED
  BY <1>2, <1>3, DieText

(* What memcpy has copied when the process dies is a torn line: the text before it is
   what it was, and its number is in no other place. *)
LEMMA CrashText == ASSUME IInv, TInv, Crash PROVE TInv'
<1>1. Die
  BY DEF Crash
<1>2. CASE ~(pc = "copy" /\ obj[cur].memory)
  BY <1>1, <1>2, DieQuietly DEF Crash
<1>3. CASE pc = "copy" /\ obj[cur].memory
  <2> DEFINE f == obj[cur].file
             p == obj[cur].offset
             len == Len(line)
             B == 0..MaxLine
             part(done) == [i \in DOMAIN line |-> IF i \in done THEN line[i] ELSE Zero]
             new(done) == Memcpy(disk[f], p, part(done))
             tn == torn \cup {count}
  <2>1. PICK done \in SUBSET DOMAIN line :
          /\ disk' = [disk EXCEPT ![f] = new(done)]
          /\ torn' = torn \cup {line[1]}
    BY <1>3 DEF Crash
  <2>2. cur \in Loggers /\ IsOpen(cur) /\ Writing /\ p + len <= obj[cur].size
    BY <1>3 DEF IInv, TypeOK, Where, Writing
  <2>3. f \in DOMAIN disk /\ disk[f] \in Seq(B) /\ p \in Nat
    BY <2>2, ObjectTypes
  <2>4. Filled(torn, disk[f], p) /\ Len(disk[f]) = obj[cur].size
    BY <2>2 DEF TInv, Content
  <2>5. /\ len \in Nat \ {0} /\ DOMAIN line = 1..len /\ count \in 1..MaxLine /\ count # Zero
        /\ \A i \in DOMAIN line : line[i] = count
    BY <2>2, LineNumber
  <2>6. /\ count \notin torn /\ \A c \in torn : c <= count
        /\ \A g \in DOMAIN disk : \A i \in DOMAIN disk[g] :
             disk[g][i] <= count /\ disk[g][i] # count
    BY <2>2 DEF TInv, Fresh
  <2>7. torn' = tn
    <3>1. 1 \in DOMAIN line
      BY <2>5
    <3> QED
      BY <2>1, <2>5, <3>1
  <2>8. /\ part(done) \in Seq(B) /\ Len(part(done)) = len
        /\ \A a \in 1..len : part(done)[a] = count \/ part(done)[a] = Zero
    <3>1. count \in B /\ Zero \in B
      BY <2>5, LogConstantsOK
    <3>2. part(done) = [i \in 1..len |-> IF i \in done THEN count ELSE Zero]
      BY <2>5
    <3> HIDE DEF part, B, len
    <3>3. \A i \in 1..len : (IF i \in done THEN count ELSE Zero) \in B
      BY <3>1
    <3> QED
      BY <2>5, <3>2, <3>3
  <2> DEFINE x == new(done)
  <2>9. /\ x \in Seq(B) /\ Len(x) = Len(disk[f])
        /\ \A i \in 1..p : x[i] = disk[f][i]
        /\ \A a \in 1..len : x[p + a] = part(done)[a]
        /\ \A i \in (p + len + 1)..Len(disk[f]) : x[i] = disk[f][i]
    <3>1. part(done) \in Seq(B) /\ Len(part(done)) = len /\ disk[f] \in Seq(B) /\ p \in Nat
          /\ p + Len(part(done)) <= Len(disk[f])
      BY <2>2, <2>3, <2>4, <2>8
    <3> HIDE DEF B, f, p, part, len
    <3> QED
      BY <3>1, Copied
  <2>10. disk' = [disk EXCEPT ![f] = x]
    BY <2>1
  <2>11. /\ Len(disk[f]) \in Nat /\ p <= Len(disk[f]) /\ DOMAIN disk[f] = 1..Len(disk[f])
         /\ \A i \in 1..p : disk[f][i] # Zero /\ disk[f][i] \notin torn
         /\ \A i \in (p + 1)..Len(disk[f]) : disk[f][i] = Zero
    BY <2>3, <2>4 DEF Filled
  <2> HIDE DEF x, new, part, f, p, len
  <2>12. \A i \in (p + 1)..Len(disk[f]) : x[i] = Zero \/ x[i] = count
    <3> SUFFICES ASSUME NEW i \in (p + 1)..Len(disk[f]) PROVE x[i] = Zero \/ x[i] = count
      OBVIOUS
    <3>1. CASE i <= p + len
      <4>1. i - p \in 1..len /\ p + (i - p) = i
        BY <2>3, <2>5, <2>11, <3>1
      <4> QED
        BY <2>8, <2>9, <4>1
    <3>2. CASE ~(i <= p + len)
      <4>1. i \in (p + len + 1)..Len(disk[f])
        BY <2>3, <2>5, <2>11, <3>2
      <4> QED
        BY <2>9, <2>11, <4>1
    <3> QED
      BY <3>1, <3>2
  <2>13. Txt(tn, x) = [i \in 1..p |-> x[i]]
    <3>1. \A i \in 1..p : x[i] # Zero /\ x[i] \notin tn
      <4> SUFFICES ASSUME NEW i \in 1..p PROVE x[i] # Zero /\ x[i] \notin tn
        OBVIOUS
      <4>1. i \in DOMAIN disk[f]
        BY <2>3, <2>11
      <4> QED
        BY <2>3, <2>6, <2>9, <2>11, <4>1
    <3>2. \A i \in (p + 1)..Len(x) : x[i] = Zero \/ x[i] \in tn
      BY <2>9, <2>12
    <3>3. p <= Len(x) /\ x \in Seq(B)
      BY <2>9, <2>11
    <3> HIDE DEF tn, B
    <3>4. Begins(tn, x, p)
      BY <3>1, <3>2, <3>3 DEF Begins
    <3> QED
      BY <2>3, <3>3, <3>4, TxtPrefix
  <2>14. Txt(torn, disk[f]) = [i \in 1..p |-> disk[f][i]]
    <3> DEFINE s == disk[f]
    <3>1. /\ \A i \in 1..p : s[i] # Zero /\ s[i] \notin torn
          /\ \A i \in (p + 1)..Len(s) : s[i] = Zero \/ s[i] \in torn
          /\ p <= Len(s) /\ s \in Seq(B)
      BY <2>3, <2>11
    <3> HIDE DEF s, B
    <3>2. Txt(torn, s) = [i \in 1..p |-> s[i]]
      <4>1. Begins(torn, s, p)
        BY <3>1 DEF Begins
      <4> QED
        BY <2>3, <3>1, <4>1, TxtPrefix
    <3> QED
      BY <3>2 DEF s
  <2>15. Txt(tn, x) = Txt(torn, disk[f])
    BY <2>9, <2>13, <2>14
  <2>16. ASSUME NEW g \in DOMAIN disk PROVE Txt(tn, disk[g]) = Txt(torn, disk[g])
    <3> DEFINE s == disk[g]
    <3>1. s \in Seq(B) /\ \A i \in DOMAIN s : s[i] # count
      BY <2>6 DEF IInv, TypeOK
    <3> HIDE DEF s, B
    <3>2. Txt(torn \cup {count}, s) = Txt(torn, s)
      BY <3>1, TxtTorn
    <3> QED
      BY <3>2 DEF s
  <2>17. /\ disk'[f] = x /\ DOMAIN disk' = DOMAIN disk
         /\ \A g \in DOMAIN disk : g # f => disk'[g] = disk[g]
    BY <2>3, <2>10
  <2>18. pc' = "down" /\ UNCHANGED <<files, logged, count>>
    BY <1>1 DEF Die
  <2>19. AllKept'
    <3> SUFFICES ASSUME NEW l \in Loggers PROVE AllText(tn, disk', files[l]) = logged[l]
      BY <2>7, <2>18 DEF AllKept
    <3> HIDE DEF tn
    <3>1. \A i \in DOMAIN files[l] : Txt(tn, disk'[files[l][i]]) = Txt(torn, disk[files[l][i]])
      BY <2>15, <2>16, <2>17, FileFacts
    <3> QED
      BY <3>1, AllTextSame DEF TInv, AllKept
  <2>20. \A i \in DOMAIN x : x[i] <= count
    <3> SUFFICES ASSUME NEW i \in DOMAIN x PROVE x[i] <= count
      OBVIOUS
    <3>1. DOMAIN x = 1..Len(disk[f])
      BY <2>9
    <3>2. CASE i <= p
      <4>1. i \in 1..p /\ i \in DOMAIN disk[f]
        BY <2>3, <2>11, <3>1, <3>2
      <4> QED
        BY <2>3, <2>6, <2>9, <4>1
    <3>3. CASE ~(i <= p)
      <4>1. i \in (p + 1)..Len(disk[f])
        BY <2>3, <2>11, <3>1, <3>3
      <4>2. Zero <= count /\ count <= count
        BY <2>5, LogConstantsOK
      <4> QED
        BY <2>12, <4>1, <4>2
    <3> QED
      BY <3>2, <3>3
  <2>21. Fresh'
    <3>1. ~Writing'
      BY <2>18 DEF Writing
    <3>2. \A g \in DOMAIN disk' : \A i \in DOMAIN disk'[g] : disk'[g][i] <= count
      BY <2>6, <2>17, <2>20
    <3>3. \A c \in torn' : c <= count
      <4>1. count <= count
        BY <2>5
      <4> QED
        BY <2>6, <2>7, <4>1
    <3> QED
      BY <2>18, <3>1, <3>2, <3>3 DEF Fresh
  <2> QED
    BY <1>1, <2>19, <2>21, DieText
<1> QED
  BY <1>2, <1>3

(* Every step keeps the text. *)
LEMMA NextText == ASSUME IInv, TInv, Next PROVE TInv'
<1>1. ASSUME NEW l \in Loggers, BeginUpdate(l) PROVE TInv'
  BY <1>1, BeginText
<1>2. ASSUME NEW l \in Loggers, Destroy(l) PROVE TInv'
  BY <1>2, CloseText DEF Destroy, ghost, Writing
<1>3. CASE WriteLog
  BY <1>3, WriteLogText
<1>4. CASE EndUpdate
  BY <1>4, EndText
<1>5. CASE CheckChangeFile
  BY <1>5, CheckText
<1>6. CASE CloseLogFile
  <2>1. /\ Close(cur) /\ pc = "close" /\ cur \in Loggers
        /\ UNCHANGED <<line, pid, count, files, logged, torn>>
    BY <1>6 DEF CloseLogFile, Goto, ghost, IInv, TypeOK
  <2>2. Writing' => Writing
    BY <2>1 DEF Writing
  <2> QED
    BY <2>1, <2>2, CloseText
<1>7. CASE OpenLogFile
  BY <1>7, OpenText
<1>8. CASE OpenFails
  BY <1>8, DieQuietly DEF OpenFails
<1>9. CASE Space
  BY <1>9, SpaceText
<1>10. CASE Copy
  BY <1>10, CopyText
<1>11. CASE CopyFaults
  BY <1>11, DieQuietly DEF CopyFaults
<1>12. CASE Crash
  BY <1>12, CrashText
<1>13. CASE Restart
  BY <1>13, RestartText
<1> QED
  BY <1>1, <1>2, <1>3, <1>4, <1>5, <1>6, <1>7, <1>8, <1>9, <1>10, <1>11, <1>12, <1>13
     DEF Next, Write

(* At first there is neither a file nor a line. *)
LEMMA InitText == Init => TInv
<1> SUFFICES ASSUME Init PROVE TInv
  OBVIOUS
<1>1. /\ \A l \in Loggers : ~IsOpen(l) /\ files[l] = <<>> /\ logged[l] = <<>>
      /\ DOMAIN disk = {} /\ torn = {} /\ ~Writing
  BY ClosedType DEF Init, IsOpen, Loggers, Writing
<1>2. LastFile /\ Content /\ Fresh /\ Trimmed
  BY <1>1 DEF LastFile, Content, Fresh, Trimmed
<1>3. AllKept
  <2>1. AllText(torn, disk, <<>>) = FlattenSeq(<<>>)
    <3>1. [i \in DOMAIN <<>> |-> Txt(torn, disk[<<>>[i]])] = <<>>
      OBVIOUS
    <3> QED
      BY <3>1 DEF AllText
  <2> QED
    BY <1>1, <2>1, FlattenNone DEF AllKept
<1> QED
  BY <1>2, <1>3 DEF TInv

(* A step that changes nothing keeps the text. *)
LEMMA StutterText == TInv /\ UNCHANGED vars => TInv'
<1> SUFFICES ASSUME TInv, UNCHANGED vars PROVE TInv'
  OBVIOUS
<1>1. UNCHANGED <<obj, disk, pc, line, pid, count, files, logged, torn>>
  BY DEF vars, ghost, storage
<1>2. Fresh'
  BY <1>1 DEF TInv, Fresh, Writing
<1>3. Trimmed'
  BY <1>1 DEF TInv, Trimmed
<1> QED
  BY <1>1, <1>2, <1>3, FilesKept

(* What the files hold is as TInv says in every state of every run of Logger::_WriteLog. *)
THEOREM TextInvariance == Spec => []TInv
<1>1. IInv /\ TInv /\ Next => TInv'
  BY NextText
<1> QED
  BY <1>1, InitText, StutterText, Invariance, PTL DEF Spec

(* Whatever the process does, every line it has written is in the logger's files, whole,
   once and in order, through changes of file, remappings, failures of open and mmap and
   the death of processes; and a file that was closed has nothing but text (Kept). *)
THEOREM TextKept == Spec => []Kept
<1>1. TInv => Kept
  BY TextNames DEF TInv
<1> QED
  BY <1>1, TextInvariance, PTL

-----------------------------------------------------------------------------
(* No line of bytes begins where kMaxCharPerLog would not fit: LinesBeginInside, of one
   file in which the lines of tn are torn. *)
Starts(tn, bytes) ==
  \A i \in DOMAIN bytes :
    bytes[i] # Zero /\ bytes[i] \notin tn /\ i - 1 + kMaxCharPerLog > kDefaultLogSize =>
      i > 1 /\ bytes[i - 1] = bytes[i]

(* An open file has grown for the text it has, or for the line it is about to get. *)
Pending(l) == IF pc = "copy" /\ l = cur THEN Len(line) ELSE 0
Grown ==
  \A l \in Loggers : IsOpen(l) /\ obj[l].size > kDefaultSize =>
    obj[l].size < 2 * (obj[l].offset + Pending(l))

(* The mappings that were forgotten of a file, open or not: the other part of FileBound. *)
Forgotten ==
  \A f \in DOMAIN disk : leaked[f] > 0 => leaked[f] + kDefaultSize < 2 * Len(disk[f])

BInv == Grown /\ Forgotten /\ LinesBeginInside

(* More torn lines, and nothing but them and padding behind the first n bytes. *)
LEMMA StartsPrefix ==
  ASSUME NEW B, NEW s \in Seq(B), NEW r \in Seq(B), NEW tn, NEW tm, tn \subseteq tm,
         Starts(tn, s), NEW n \in 0..Len(s), \A i \in DOMAIN r : i <= n => r[i] = s[i],
         \A i \in DOMAIN r : i > n => r[i] = Zero \/ r[i] \in tm
  PROVE  Starts(tm, r)
<1> SUFFICES ASSUME NEW i \in DOMAIN r, r[i] # Zero, r[i] \notin tm,
                    i - 1 + kMaxCharPerLog > kDefaultLogSize
             PROVE  i > 1 /\ r[i - 1] = r[i]
  BY DEF Starts
<1>1. /\ DOMAIN r = 1..Len(r) /\ Len(r) \in Nat /\ DOMAIN s = 1..Len(s) /\ Len(s) \in Nat
      /\ i \in Nat /\ n \in Nat /\ n <= Len(s)
  OBVIOUS
<1>2. i <= n
  BY <1>1
<1>3. i \in DOMAIN s /\ r[i] = s[i] /\ s[i] \notin tn
  BY <1>1, <1>2
<1>4. i > 1 /\ s[i - 1] = s[i]
  BY <1>3 DEF Starts
<1>5. i - 1 \in DOMAIN r /\ i - 1 <= n
  BY <1>1, <1>2, <1>4
<1>6. r[i - 1] = s[i - 1]
  BY <1>5
<1> QED
  BY <1>3, <1>4, <1>6

(* Another length of a file begins no line. *)
LEMMA StartsTruncated ==
  ASSUME NEW s \in Seq(0..MaxLine), NEW k \in Nat, NEW tn, Starts(tn, s)
  PROVE  Starts(tn, Ftruncate(s, k))
<1> DEFINE B == 0..MaxLine
           r == Ftruncate(s, k)
<1>1. s \in Seq(B) /\ r \in Seq(B)
  BY TruncatedDisk
<1>2. DOMAIN r = 1..k /\ \A i \in 1..k : r[i] = IF i <= Len(s) THEN s[i] ELSE Zero
  BY DEF Ftruncate
<1> HIDE DEF B, r
<1>3. Len(s) \in Nat /\ Len(s) \in 0..Len(s) /\ tn \subseteq tn
  BY <1>1
<1>4. /\ \A i \in DOMAIN r : i <= Len(s) => r[i] = s[i]
      /\ \A i \in DOMAIN r : i > Len(s) => r[i] = Zero
  BY <1>2, <1>3
<1>5. Starts(tn, r)
  BY <1>1, <1>3, <1>4, StartsPrefix
<1> QED
  BY <1>5 DEF r

(* The line that memcpy appends begins where kMaxCharPerLog fits. *)
LEMMA StartsCopied ==
  ASSUME NEW s \in Seq(0..MaxLine), NEW p \in Nat, NEW bytes \in Seq(0..MaxLine), NEW tn,
         Starts(tn, s), Filled(tn, s, p), p + Len(bytes) <= Len(s),
         p + kMaxCharPerLog <= kDefaultLogSize,
         NEW c, \A i \in DOMAIN bytes : bytes[i] = c
  PROVE  Starts(tn, Memcpy(s, p, bytes))
<1> DEFINE B == 0..MaxLine
           r == Memcpy(s, p, bytes)
           len == Len(bytes)
<1>1. s \in Seq(B) /\ bytes \in Seq(B) /\ len \in Nat /\ DOMAIN bytes = 1..len
  OBVIOUS
<1> HIDE DEF B
<1>2. /\ r \in Seq(B) /\ Len(r) = Len(s)
      /\ \A i \in 1..p : r[i] = s[i]
      /\ \A a \in 1..len : r[p + a] = bytes[a]
      /\ \A i \in (p + len + 1)..Len(s) : r[i] = s[i]
  <2>1. p + Len(bytes) <= Len(s)
    OBVIOUS
  <2> HIDE DEF r, len
  <2>2. /\ Memcpy(s, p, bytes) \in Seq(B) /\ Len(Memcpy(s, p, bytes)) = Len(s)
        /\ \A i \in 1..p : Memcpy(s, p, bytes)[i] = s[i]
        /\ \A a \in 1..Len(bytes) : Memcpy(s, p, bytes)[p + a] = bytes[a]
        /\ \A i \in (p + Len(bytes) + 1)..Len(s) : Memcpy(s, p, bytes)[i] = s[i]
    BY <1>1, <2>1, Copied
  <2> QED
    BY <2>2 DEF r, len
<1>3. DOMAIN r = 1..Len(s) /\ Len(s) \in Nat /\ DOMAIN s = 1..Len(s)
  BY <1>1, <1>2
<1>4. kMaxCharPerLog \in Nat /\ kDefaultLogSize \in Nat
  BY LogConstantsOK
<1>5. \A i \in (p + 1)..Len(s) : s[i] = Zero
  BY DEF Filled
<1>6. \A a \in 1..len : r[p + a] = c
  BY <1>1, <1>2
<1> HIDE DEF r, len
<1>7. ASSUME NEW i \in 1..Len(s), r[i] # Zero, r[i] \notin tn,
             i - 1 + kMaxCharPerLog > kDefaultLogSize
      PROVE  i > 1 /\ r[i - 1] = r[i]
  <2>1. CASE i <= p
    <3>1. i \in 1..p /\ r[i] = s[i] /\ i \in DOMAIN s
      BY <1>2, <1>3, <2>1
    <3>2. i > 1 /\ s[i - 1] = s[i]
      BY <1>7, <3>1 DEF Starts
    <3>3. i - 1 \in 1..p
      BY <3>1, <3>2
    <3> QED
      BY <1>2, <3>1, <3>2, <3>3
  <2>2. CASE i > p + len
    <3>1. i \in (p + len + 1)..Len(s) /\ i \in (p + 1)..Len(s)
      BY <1>1, <1>3, <2>2
    <3> QED
      BY <1>2, <1>5, <1>7, <3>1
  <2>3. CASE i > p /\ i <= p + len
    <3>1. i > p + 1
      BY <1>3, <1>4, <1>7, <2>3
    <3>2. /\ i - p \in 1..len /\ p + (i - p) = i
          /\ i - 1 - p \in 1..len /\ p + (i - 1 - p) = i - 1
      BY <1>1, <1>3, <2>3, <3>1
    <3>3. r[i] = c /\ r[i - 1] = c
      BY <1>6, <3>2
    <3> QED
      BY <3>1, <3>3
  <2> QED
    BY <1>1, <1>3, <2>1, <2>2, <2>3
<1> QED
  BY <1>3, <1>7 DEF Starts, r

(* A step that changes one file, or adds it, and perhaps the torn lines. *)
LEMMA StartsOne ==
  ASSUME IInv, LinesBeginInside, NEW f, torn \subseteq torn',
         DOMAIN disk' = DOMAIN disk \cup {f},
         \A g \in DOMAIN disk : g # f => disk'[g] = disk[g],
         Starts(torn', disk'[f])
  PROVE  LinesBeginInside'
<1>1. ASSUME NEW g \in DOMAIN disk, g # f PROVE Starts(torn', disk'[g])
  <2> DEFINE s == disk[g]
             B == 0..MaxLine
  <2>1. s \in Seq(B)
    BY DEF IInv, TypeOK
  <2>2. Starts(torn, s)
    BY DEF LinesBeginInside, Whole, Starts
  <2> HIDE DEF s, B
  <2>3. Len(s) \in 0..Len(s) /\ DOMAIN s = 1..Len(s) /\ Len(s) \in Nat
    BY <2>1
  <2>4. \A i \in DOMAIN s : i <= Len(s) /\ ~(i > Len(s))
    BY <2>3
  <2>5. Starts(torn', s)
    BY <2>1, <2>2, <2>3, <2>4, StartsPrefix
  <2> QED
    BY <1>1, <2>5 DEF s
<1>2. \A g \in DOMAIN disk' : Starts(torn', disk'[g])
  BY <1>1
<1> QED
  BY <1>2 DEF LinesBeginInside, Whole, Starts

(* A file has the length that ftruncate gives it. *)
LEMMA TruncatedLength ==
  ASSUME NEW s \in Seq(0..MaxLine), NEW n \in Nat
  PROVE  Len(Ftruncate(s, n)) = n
<1> DEFINE B == 0..MaxLine
<1>1. Ftruncate(s, n) \in Seq(B)
  BY TruncatedDisk
<1>2. DOMAIN Ftruncate(s, n) = 1..n
  BY DEF Ftruncate
<1> HIDE DEF B
<1> QED
  BY <1>1, <1>2

(* Steps outside memcpy that neither write nor grow a file. *)
LEMMA BoundQuiet ==
  ASSUME BInv, UNCHANGED <<disk, leaked, torn>>, pc # "copy", pc' # "copy",
         \A l \in Loggers : /\ obj'[l].file = obj[l].file /\ obj'[l].offset = obj[l].offset
                            /\ obj'[l].size = obj[l].size
  PROVE  BInv'
<1>1. Grown'
  BY DEF BInv, Grown, Pending, IsOpen
<1>2. Forgotten' /\ LinesBeginInside'
  BY DEF BInv, Forgotten, LinesBeginInside, Whole
<1> QED
  BY <1>1, <1>2 DEF BInv

(* Sync moves syncPos_ and nothing else. *)
LEMMA EndBound == ASSUME IInv, BInv, EndUpdate PROVE BInv'
<1>1. /\ pc = "lines" /\ pc' = "idle" /\ Sync(cur) /\ UNCHANGED torn
      /\ cur \in Loggers /\ Loggers = Files
  BY DEF EndUpdate, Goto, ghost, IInv, TypeOK, Loggers
<1>2. obj \in [Files -> ObjType] /\ obj[cur] \in ObjType
  BY <1>1, ObjectTypes
<1>3. UNCHANGED <<disk, leaked>> /\ (obj' = obj \/ obj' = [obj EXCEPT ![cur].syncPos = obj[cur].offset])
  BY <1>1 DEF Sync, storage
<1>4. \A l \in Loggers : /\ obj'[l].file = obj[l].file /\ obj'[l].offset = obj[l].offset
                         /\ obj'[l].size = obj[l].size
  BY <1>1, <1>2, <1>3 DEF ObjType
<1> QED
  BY <1>1, <1>3, <1>4, BoundQuiet

(* Close cuts a file to its text, and it had not grown to twice that. *)
LEMMA CloseBound ==
  ASSUME IInv, BInv, NEW o \in Loggers, Close(o), UNCHANGED <<cur, line, torn>>,
         ~(pc = "copy" /\ o = cur), pc' = "copy" <=> pc = "copy"
  PROVE  BInv'
<1>1. CASE ~IsOpen(o)
  <2>1. UNCHANGED <<obj, disk, leaked>>
    BY <1>1 DEF Close, storage
  <2> QED
    BY <2>1 DEF BInv, Grown, Pending, IsOpen, Forgotten, LinesBeginInside, Whole
<1>2. CASE IsOpen(o)
  <2> DEFINE f == obj[o].file
             n == obj[o].offset
  <2>1. /\ disk' = [disk EXCEPT ![f] = Ftruncate(disk[f], n)]
        /\ obj' = [obj EXCEPT ![o] = Closed] /\ UNCHANGED leaked
    BY <1>2 DEF Close
  <2>2. /\ n \in Nat /\ obj \in [Files -> ObjType] /\ o \in Files /\ f \in DOMAIN disk
        /\ disk[f] \in Seq(0..MaxLine) /\ leaked[f] \in Nat /\ obj[o].size \in Nat
    BY <1>2, ObjectTypes DEF Loggers
  <2>3. /\ ~IsOpen(o)'
        /\ \A l \in Loggers : l # o => obj'[l] = obj[l] /\ (IsOpen(l)' <=> IsOpen(l))
    BY <2>1, <2>2, ClosedType DEF IsOpen, Loggers
  <2>4. Grown'
    BY <2>3 DEF BInv, Grown, Pending
  <2>5. leaked[f] + kDefaultSize <= obj[o].size
    BY <1>2 DEF IInv, Leaks
  <2>6. obj[o].size > kDefaultSize => obj[o].size < 2 * (n + 0)
    BY <1>2 DEF BInv, Grown, Pending
  <2> HIDE DEF f, n
  <2>7. /\ disk'[f] = Ftruncate(disk[f], n) /\ DOMAIN disk' = DOMAIN disk
        /\ \A g \in DOMAIN disk : g # f => disk'[g] = disk[g]
    BY <2>1, <2>2
  <2>8. Len(disk'[f]) = n
    BY <2>2, <2>7, TruncatedLength
  <2>9. leaked[f] > 0 => leaked[f] + kDefaultSize < 2 * n
    BY <2>2, <2>5, <2>6, FileConstantsOK
  <2>10. Forgotten'
    <3> SUFFICES ASSUME NEW g \in DOMAIN disk, leaked[g] > 0
                 PROVE  leaked[g] + kDefaultSize < 2 * Len(disk'[g])
      BY <2>1, <2>7 DEF Forgotten
    <3>1. CASE g = f
      BY <2>8, <2>9, <3>1
    <3>2. CASE g # f
      BY <2>7, <3>2 DEF BInv, Forgotten
    <3> QED
      BY <3>1, <3>2
  <2>11. Starts(torn, disk'[f])
    <3>1. Starts(torn, disk[f])
      BY <2>2 DEF BInv, LinesBeginInside, Whole, Starts
    <3> QED
      BY <2>2, <2>7, <3>1, StartsTruncated
  <2>12. DOMAIN disk' = DOMAIN disk \cup {f} /\ torn \subseteq torn' /\ Starts(torn', disk'[f])
    BY <2>2, <2>7, <2>11
  <2>13. LinesBeginInside'
    BY <2>7, <2>12, StartsOne DEF BInv
  <2> QED
    BY <2>4, <2>10, <2>13 DEF BInv
<1> QED
  BY <1>1, <1>2

(* _OpenLogFile adds a file of the default size, of which nothing is forgotten. *)
LEMMA OpenBound == ASSUME IInv, BInv, OpenLogFile PROVE BInv'
<1> DEFINE f == <<pid, seq + 1>>
           new == Ftruncate(<<>>, kDefaultSize)
<1>1. PICK mapped \in BOOLEAN :
        /\ pc = "open" /\ pc' = IF mapped THEN "check" ELSE "space"
        /\ Open(cur, f, mapped)
        /\ UNCHANGED <<cur, line, pid, count, logged, torn>>
  BY DEF OpenLogFile, Goto, NextSeq
<1>2. cur \in Loggers /\ Loggers = Files /\ obj \in [Files -> ObjType]
  BY <1>1, ObjectTypes DEF IInv, TypeOK, Loggers
<1>3. pid \in Nat /\ seq \in Nat
  BY LogConstantsOK, SMTT(30) DEF IInv, TypeOK
<1>4. f \notin DOMAIN disk
  <2>1. f \in DOMAIN disk => pid < pid \/ (pid = pid /\ seq + 1 <= seq)
    BY DEF IInv, NamesTaken
  <2> QED
    BY <1>3, <2>1
<1>5. /\ disk' = With(disk, f, new) /\ leaked' = With(leaked, f, 0)
      /\ obj' = [obj EXCEPT ![cur].file = f, ![cur].memory = mapped, ![cur].offset = 0,
                            ![cur].size = kDefaultSize]
  <2> DEFINE old == IF f \in DOMAIN disk THEN disk[f] ELSE <<>>
             size == IF Len(old) > kDefaultSize THEN Len(old) ELSE kDefaultSize
  <2>1. old = <<>> /\ Len(old) = 0 /\ size = kDefaultSize
    BY <1>4, FileConstantsOK
  <2>2. /\ disk' = With(disk, f, Ftruncate(old, size)) /\ leaked' = With(leaked, f, 0)
        /\ obj' = [obj EXCEPT ![cur].file = f, ![cur].memory = mapped,
                              ![cur].offset = Len(old), ![cur].size = size]
    BY <1>1, <1>4 DEF Open
  <2> HIDE DEF old, size
  <2> QED
    BY <1>4, <2>1, <2>2
<1>6. Starts(torn, new)
  <2>1. DOMAIN new = 1..kDefaultSize /\ \A i \in 1..kDefaultSize : new[i] = Zero
    BY FileConstantsOK DEF Ftruncate
  <2> QED
    BY <2>1 DEF Starts
<1>7. DOMAIN leaked = DOMAIN disk
  BY DEF IInv, TypeOK
<1> HIDE DEF f, new
<1>8. /\ obj'[cur].size = kDefaultSize
      /\ \A l \in Loggers : l # cur => obj'[l] = obj[l] /\ (IsOpen(l)' <=> IsOpen(l))
  <2>1. obj[cur] \in ObjType
    BY <1>2
  <2>2. obj' = [obj EXCEPT ![cur] = [obj[cur] EXCEPT !.file = f, !.memory = mapped,
                                                     !.offset = 0, !.size = kDefaultSize]]
    BY <1>2, <1>5
  <2>3. obj'[cur] = [obj[cur] EXCEPT !.file = f, !.memory = mapped, !.offset = 0,
                                     !.size = kDefaultSize]
    BY <1>2, <2>2
  <2>4. obj'[cur].size = kDefaultSize
    BY <2>1, <2>3 DEF ObjType
  <2> QED
    BY <1>2, <2>2, <2>4 DEF IsOpen
<1>9. /\ DOMAIN disk' = DOMAIN disk \cup {f} /\ disk'[f] = new /\ leaked'[f] = 0
      /\ \A g \in DOMAIN disk : disk'[g] = disk[g] /\ leaked'[g] = leaked[g]
  BY <1>4, <1>5, <1>7 DEF With
<1>10. Grown'
  <2> SUFFICES ASSUME NEW l \in Loggers, IsOpen(l)', obj'[l].size > kDefaultSize
               PROVE  obj'[l].size < 2 * (obj'[l].offset + Pending(l)')
    BY DEF Grown
  <2>1. l # cur
    BY <1>8, FileConstantsOK
  <2>2. Pending(l)' = 0 /\ Pending(l) = 0
    BY <1>1, <2>1 DEF Pending
  <2> QED
    BY <1>8, <2>1, <2>2 DEF BInv, Grown
<1>11. Forgotten'
  BY <1>9 DEF BInv, Forgotten
<1>12. LinesBeginInside'
  BY <1>1, <1>6, <1>9, StartsOne DEF BInv
<1> QED
  BY <1>10, <1>11, <1>12 DEF BInv

(* _AssureSpace doubles no further than the line needs. *)
LEMMA SpaceBound == ASSUME IInv, BInv, TInv', Space PROVE BInv'
<1> DEFINE f == obj[cur].file
           n == NewSize(cur, Len(line))
<1>1. PICK mapped \in BOOLEAN :
        /\ pc = "space" /\ pc' = "copy"
        /\ AssureSpace(cur, Len(line), mapped)
        /\ UNCHANGED <<cur, line, torn>>
  BY DEF Space, Goto, ghost
<1>2. cur \in Loggers /\ Loggers = Files /\ obj \in [Files -> ObjType] /\ Len(line) \in Nat
      /\ IsOpen(cur)
  <2>1. cur \in Loggers /\ Loggers = Files /\ line \in Seq(1..MaxLine)
    BY DEF IInv, TypeOK, Loggers
  <2>2. Len(line) \in Nat
    BY <2>1
  <2>3. obj \in [Files -> ObjType] /\ IsOpen(cur)
    BY <1>1, <2>1, ObjectTypes DEF IInv, Where
  <2> QED
    BY <2>1, <2>2, <2>3
<1>3. /\ f \in DOMAIN disk /\ disk[f] \in Seq(0..MaxLine) /\ leaked[f] \in Nat
      /\ obj[cur].size \in Nat \ {0} /\ obj[cur].offset \in Nat
  BY <1>2, ObjectTypes
<1>4. /\ n \in Nat /\ n >= obj[cur].size
      /\ n > obj[cur].size => n < 2 * (obj[cur].offset + Len(line))
  BY <1>2, <1>3, NewSizeGrows
<1>5. IInv'
  BY SpaceStep
<1>6. \A l \in Loggers : Pending(l) = 0 /\ Pending(l)' = IF l = cur THEN Len(line) ELSE 0
  BY <1>1 DEF Pending
<1>7. CASE ~(n > obj[cur].size)
  <2>1. UNCHANGED <<obj, disk, leaked>>
    BY <1>1, <1>7 DEF AssureSpace, storage
  <2>2. Forgotten' /\ LinesBeginInside'
    BY <1>1, <2>1 DEF BInv, Forgotten, LinesBeginInside, Whole
  <2>3. Grown'
    <3> SUFFICES ASSUME NEW l \in Loggers, IsOpen(l), obj[l].size > kDefaultSize
                 PROVE  obj[l].size < 2 * (obj[l].offset + Pending(l)')
      BY <2>1 DEF Grown, IsOpen
    <3>1. obj[l].size < 2 * (obj[l].offset + 0)
      BY <1>6 DEF BInv, Grown
    <3>2. obj[l].size \in Nat /\ obj[l].offset \in Nat /\ Pending(l)' \in Nat
      BY <1>2, <1>6, ObjectTypes
    <3> QED
      BY <3>1, <3>2
  <2> QED
    BY <2>2, <2>3 DEF BInv
<1>8. CASE n > obj[cur].size
  <2> DEFINE v == IF obj[cur].memory THEN leaked[f] + obj[cur].size ELSE leaked[f]
  <2>1. /\ disk' = [disk EXCEPT ![f] = Ftruncate(disk[f], n)]
        /\ leaked' = [leaked EXCEPT ![f] = v]
        /\ obj' = [obj EXCEPT ![cur].size = n, ![cur].memory = mapped]
    BY <1>1, <1>8 DEF AssureSpace
  <2> HIDE DEF n, v
  <2>2. /\ \A l \in Loggers : l # cur => obj'[l] = obj[l]
        /\ obj'[cur].file = f /\ obj'[cur].offset = obj[cur].offset /\ obj'[cur].size = n
    <3>1. obj[cur] \in ObjType
      BY <1>2
    <3>2. obj' = [obj EXCEPT ![cur] = [obj[cur] EXCEPT !.size = n, !.memory = mapped]]
      BY <1>2, <2>1
    <3>3. obj'[cur] = [obj[cur] EXCEPT !.size = n, !.memory = mapped]
      BY <1>2, <3>2
    <3>4. obj'[cur].file = f /\ obj'[cur].offset = obj[cur].offset /\ obj'[cur].size = n
      BY <3>1, <3>3 DEF ObjType
    <3> QED
      BY <1>2, <3>2, <3>4
  <2>3. \A l \in Loggers : obj'[l].file = obj[l].file /\ (IsOpen(l)' <=> IsOpen(l))
    BY <2>2 DEF IsOpen
  <2>4. Grown'
    <3> SUFFICES ASSUME NEW l \in Loggers, IsOpen(l), obj'[l].size > kDefaultSize
                 PROVE  obj'[l].size < 2 * (obj'[l].offset + Pending(l)')
      BY <2>3 DEF Grown
    <3>1. CASE l = cur
      BY <1>4, <1>6, <1>8, <2>2, <3>1
    <3>2. CASE l # cur
      <4>1. Pending(l)' = Pending(l) /\ obj'[l] = obj[l]
        BY <1>6, <2>2, <3>2
      <4> QED
        BY <4>1 DEF BInv, Grown
    <3> QED
      BY <3>1, <3>2
  <2>5. leaked'[f] + kDefaultSize <= n /\ Len(disk'[f]) = n
    <3>1. leaked'[obj'[cur].file] + kDefaultSize <= obj'[cur].size
      BY <1>1, <1>2, <1>5, <2>3 DEF IInv, Leaks
    <3>2. Len(disk'[obj'[cur].file]) = obj'[cur].size
      BY <1>1, <1>2, <2>3 DEF TInv, Content
    <3> QED
      BY <2>2, <3>1, <3>2
  <2> HIDE DEF f
  <2>6. /\ disk'[f] = Ftruncate(disk[f], n) /\ DOMAIN disk' = DOMAIN disk
        /\ \A g \in DOMAIN disk : g # f => disk'[g] = disk[g] /\ leaked'[g] = leaked[g]
    BY <1>3, <2>1 DEF IInv, TypeOK
  <2>7. Forgotten'
    <3> SUFFICES ASSUME NEW g \in DOMAIN disk, leaked'[g] > 0
                 PROVE  leaked'[g] + kDefaultSize < 2 * Len(disk'[g])
      BY <2>6 DEF Forgotten
    <3>1. CASE g = f
      <4>1. leaked' \in [DOMAIN disk' -> Nat]
        BY <1>5 DEF IInv, TypeOK
      <4>2. leaked'[f] \in Nat /\ n > 0
        BY <1>3, <1>4, <1>8, <2>6, <4>1
      <4> QED
        BY <1>4, <2>5, <3>1, <4>2, FileConstantsOK
    <3>2. CASE g # f
      BY <2>6, <3>2 DEF BInv, Forgotten
    <3> QED
      BY <3>1, <3>2
  <2>8. Starts(torn, disk'[f])
    <3>1. Starts(torn, disk[f])
      BY <1>3 DEF BInv, LinesBeginInside, Whole, Starts
    <3> QED
      BY <1>3, <1>4, <2>6, <3>1, StartsTruncated
  <2>9. DOMAIN disk' = DOMAIN disk \cup {f} /\ torn \subseteq torn' /\ Starts(torn', disk'[f])
    BY <1>1, <1>3, <2>6, <2>8
  <2>10. LinesBeginInside'
    BY <2>6, <2>9, StartsOne DEF BInv
  <2> QED
    BY <2>4, <2>7, <2>10 DEF BInv
<1> QED
  BY <1>7, <1>8

(* The line is now part of the text the file has grown for. *)
LEMMA CopyBound == ASSUME IInv, TInv, BInv, Copy PROVE BInv'
<1> DEFINE f == obj[cur].file
           p == obj[cur].offset
           len == Len(line)
           B == 0..MaxLine
           new == Memcpy(disk[f], p, line)
<1>1. /\ pc = "copy" /\ pc' = "lines" /\ Put(cur, line) /\ UNCHANGED <<cur, line, torn>>
  BY DEF Copy, Goto
<1>2. cur \in Loggers /\ Loggers = Files /\ obj \in [Files -> ObjType]
      /\ line \in Seq(1..MaxLine) /\ len \in Nat
  BY ObjectTypes, SMTT(30) DEF IInv, TypeOK, Loggers
<1>3. IsOpen(cur) /\ p + len <= obj[cur].size /\ p + kMaxCharPerLog <= kDefaultLogSize /\ Writing
  BY <1>1 DEF IInv, Where, Writing
<1>4. /\ f \in DOMAIN disk /\ disk[f] \in Seq(B) /\ p \in Nat /\ obj[cur].size \in Nat
  BY <1>2, <1>3, ObjectTypes
<1>5. /\ disk' = [disk EXCEPT ![f] = new] /\ UNCHANGED leaked
      /\ obj' = [obj EXCEPT ![cur].offset = p + len]
  BY <1>1 DEF Put
<1>6. Filled(torn, disk[f], p) /\ Len(disk[f]) = obj[cur].size
  BY <1>2, <1>3 DEF TInv, Content
<1>7. DOMAIN line = 1..len /\ count \in 1..MaxLine /\ \A i \in DOMAIN line : line[i] = count
  BY <1>3, LineNumber
<1>8. line \in Seq(B)
  <2>1. count \in B /\ line = [i \in 1..len |-> count]
    BY <1>2, <1>7
  <2> HIDE DEF B, len
  <2> QED
    BY <1>2, <2>1
<1>9. Len(new) = Len(disk[f])
  <2>1. disk[f] \in Seq(B) /\ line \in Seq(B) /\ p \in Nat /\ p + Len(line) <= Len(disk[f])
    BY <1>3, <1>4, <1>6, <1>8
  <2> HIDE DEF B, f, p
  <2> QED
    BY <2>1, Copied
<1>10. Starts(torn, new)
  <2>1. Starts(torn, disk[f])
    BY <1>4 DEF BInv, LinesBeginInside, Whole, Starts
  <2>2. /\ disk[f] \in Seq(0..MaxLine) /\ line \in Seq(0..MaxLine)
        /\ p + Len(line) <= Len(disk[f])
    BY <1>3, <1>4, <1>6, <1>8
  <2> HIDE DEF f, p, len, B
  <2> QED
    BY <1>3, <1>4, <1>6, <1>7, <2>1, <2>2, StartsCopied
<1>11. /\ \A l \in Loggers : l # cur => obj'[l] = obj[l]
       /\ obj'[cur].file = f /\ obj'[cur].offset = p + len /\ obj'[cur].size = obj[cur].size
  <2>1. obj[cur] \in ObjType
    BY <1>2
  <2>2. obj' = [obj EXCEPT ![cur] = [obj[cur] EXCEPT !.offset = p + len]]
    BY <1>2, <1>5
  <2>3. obj'[cur] = [obj[cur] EXCEPT !.offset = p + len]
    BY <1>2, <2>2
  <2>4. obj'[cur].file = f /\ obj'[cur].offset = p + len /\ obj'[cur].size = obj[cur].size
    BY <2>1, <2>3 DEF ObjType
  <2> QED
    BY <1>2, <2>2, <2>4
<1>12. Grown'
  <2> SUFFICES ASSUME NEW l \in Loggers, IsOpen(l)', obj'[l].size > kDefaultSize
               PROVE  obj'[l].size < 2 * (obj'[l].offset + Pending(l)')
    BY DEF Grown
  <2>1. Pending(l)' = 0 /\ Pending(l) = IF l = cur THEN len ELSE 0
    BY <1>1 DEF Pending
  <2>2. CASE l = cur
    <3>1. obj[cur].size < 2 * (p + len)
      BY <1>2, <1>3, <1>11, <2>1, <2>2 DEF BInv, Grown
    <3> HIDE DEF p, len
    <3> QED
      BY <1>2, <1>4, <1>11, <2>1, <2>2, <3>1
  <2>3. CASE l # cur
    <3>1. obj'[l] = obj[l] /\ IsOpen(l)
      BY <1>11, <2>3 DEF IsOpen
    <3> QED
      BY <2>1, <2>3, <3>1 DEF BInv, Grown
  <2> QED
    BY <2>2, <2>3
<1> HIDE DEF f, new
<1>13. /\ disk'[f] = new /\ DOMAIN disk' = DOMAIN disk
       /\ \A g \in DOMAIN disk : g # f => disk'[g] = disk[g]
  BY <1>4, <1>5
<1>14. \A g \in DOMAIN disk : Len(disk'[g]) = Len(disk[g])
  BY <1>9, <1>13
<1>15. Forgotten'
  BY <1>5, <1>13, <1>14 DEF BInv, Forgotten
<1>16. DOMAIN disk' = DOMAIN disk \cup {f} /\ torn \subseteq torn' /\ Starts(torn', disk'[f])
  BY <1>1, <1>4, <1>10, <1>13
<1>17. LinesBeginInside'
  BY <1>13, <1>16, StartsOne DEF BInv
<1> QED
  BY <1>12, <1>15, <1>17 DEF BInv

(* With the process its mappings are gone. *)
LEMMA DieBound ==
  ASSUME IInv, Die, DOMAIN disk' = DOMAIN disk, LinesBeginInside'
  PROVE  BInv'
<1>1. obj' = [o \in Files |-> Closed] /\ leaked' = [f \in DOMAIN disk |-> 0]
  BY DEF Die, IInv, TypeOK
<1>2. Grown'
  BY <1>1, ClosedType DEF Grown, IsOpen, Loggers
<1>3. Forgotten'
  BY <1>1 DEF Forgotten
<1> QED
  BY <1>2, <1>3 DEF BInv

(* A process that ends outside memcpy. *)
LEMMA DieQuietlyBound == ASSUME IInv, BInv, Die, UNCHANGED <<disk, torn>> PROVE BInv'
<1>1. LinesBeginInside'
  BY DEF BInv, LinesBeginInside, Whole
<1> QED
  BY <1>1, DieBound

(* A process that ends inside memcpy leaves a torn line, which may begin anywhere. *)
LEMMA CrashBound == ASSUME IInv, TInv, BInv, Crash PROVE BInv'
<1>1. Die
  BY DEF Crash
<1>2. CASE ~(pc = "copy" /\ obj[cur].memory)
  BY <1>1, <1>2, DieQuietlyBound DEF Crash
<1>3. CASE pc = "copy" /\ obj[cur].memory
  <2> DEFINE f == obj[cur].file
             p == obj[cur].offset
             len == Len(line)
             B == 0..MaxLine
             part(done) == [i \in DOMAIN line |-> IF i \in done THEN line[i] ELSE Zero]
             new(done) == Memcpy(disk[f], p, part(done))
             tn == torn \cup {count}
  <2>1. PICK done \in SUBSET DOMAIN line :
          /\ disk' = [disk EXCEPT ![f] = new(done)]
          /\ torn' = torn \cup {line[1]}
    BY <1>3 DEF Crash
  <2>2. cur \in Loggers /\ IsOpen(cur) /\ Writing /\ p + len <= obj[cur].size
    BY <1>3 DEF IInv, TypeOK, Where, Writing
  <2>3. f \in DOMAIN disk /\ disk[f] \in Seq(B) /\ p \in Nat
    BY <2>2, ObjectTypes
  <2>4. Filled(torn, disk[f], p) /\ Len(disk[f]) = obj[cur].size
    BY <2>2 DEF TInv, Content
  <2>5. /\ len \in Nat \ {0} /\ DOMAIN line = 1..len /\ count \in 1..MaxLine
        /\ \A i \in DOMAIN line : line[i] = count
    BY <2>2, LineNumber
  <2>6. torn' = tn
    <3>1. 1 \in DOMAIN line
      BY <2>5
    <3> QED
      BY <2>1, <2>5, <3>1
  <2>7. /\ part(done) \in Seq(B) /\ Len(part(done)) = len
        /\ \A a \in 1..len : part(done)[a] = count \/ part(done)[a] = Zero
    <3>1. count \in B /\ Zero \in B
      BY <2>5, LogConstantsOK
    <3>2. part(done) = [i \in 1..len |-> IF i \in done THEN count ELSE Zero]
      BY <2>5
    <3> HIDE DEF part, B, len
    <3>3. \A i \in 1..len : (IF i \in done THEN count ELSE Zero) \in B
      BY <3>1
    <3> QED
      BY <2>5, <3>2, <3>3
  <2> DEFINE x == new(done)
  <2>8. /\ x \in Seq(B) /\ Len(x) = Len(disk[f])
        /\ \A i \in 1..p : x[i] = disk[f][i]
        /\ \A a \in 1..len : x[p + a] = part(done)[a]
        /\ \A i \in (p + len + 1)..Len(disk[f]) : x[i] = disk[f][i]
    <3>1. part(done) \in Seq(B) /\ Len(part(done)) = len /\ disk[f] \in Seq(B) /\ p \in Nat
          /\ p + Len(part(done)) <= Len(disk[f])
      BY <2>2, <2>3, <2>4, <2>7
    <3> DEFINE s == disk[f]
               y == part(done)
    <3>2. y \in Seq(B) /\ Len(y) = len /\ s \in Seq(B) /\ p \in Nat /\ p + Len(y) <= Len(s)
      BY <3>1
    <3> HIDE DEF B, p, len, s, y
    <3>3. /\ Memcpy(s, p, y) \in Seq(B) /\ Len(Memcpy(s, p, y)) = Len(s)
          /\ \A i \in 1..p : Memcpy(s, p, y)[i] = s[i]
          /\ \A a \in 1..Len(y) : Memcpy(s, p, y)[p + a] = y[a]
          /\ \A i \in (p + Len(y) + 1)..Len(s) : Memcpy(s, p, y)[i] = s[i]
      BY <3>2, Copied, SMTT(60)
    <3>4. x = Memcpy(s, p, y)
      BY DEF s, y
    <3> HIDE DEF x, part
    <3> QED
      BY <3>2, <3>3, <3>4 DEF s, y
  <2>9. disk' = [disk EXCEPT ![f] = x]
    BY <2>1
  <2>10. /\ Len(disk[f]) \in Nat /\ p <= Len(disk[f])
         /\ \A i \in (p + 1)..Len(disk[f]) : disk[f][i] = Zero
    BY <2>3, <2>4 DEF Filled
  <2>11. Starts(torn, disk[f])
    BY <2>3 DEF BInv, LinesBeginInside, Whole, Starts
  <2> HIDE DEF x, new, part, f, p, len, B, tn
  <2>12. DOMAIN x = 1..Len(disk[f])
    BY <2>8, <2>10
  <2>13. ASSUME NEW i \in DOMAIN x, i > p PROVE x[i] = Zero \/ x[i] \in tn
    <3>1. CASE i <= p + len
      <4>1. i - p \in 1..len /\ p + (i - p) = i
        BY <2>3, <2>5, <2>10, <2>12, <2>13, <3>1
      <4> QED
        BY <2>7, <2>8, <4>1 DEF tn
    <3>2. CASE ~(i <= p + len)
      <4>1. i \in (p + len + 1)..Len(disk[f]) /\ i \in (p + 1)..Len(disk[f])
        BY <2>3, <2>5, <2>10, <2>12, <3>2
      <4> QED
        BY <2>8, <2>10, <4>1
    <3> QED
      BY <3>1, <3>2
  <2>14. \A i \in DOMAIN x : i <= p => x[i] = disk[f][i]
    BY <2>3, <2>8, <2>12
  <2>15. torn \subseteq tn /\ p \in 0..Len(disk[f])
    BY <2>3, <2>10 DEF tn
  <2>16. Starts(tn, x)
    BY <2>3, <2>8, <2>11, <2>13, <2>14, <2>15, StartsPrefix
  <2>17. /\ disk'[f] = x /\ DOMAIN disk' = DOMAIN disk /\ DOMAIN disk' = DOMAIN disk \cup {f}
         /\ \A g \in DOMAIN disk : g # f => disk'[g] = disk[g]
    BY <2>3, <2>9
  <2>18. torn \subseteq torn' /\ Starts(torn', disk'[f])
    BY <2>6, <2>15, <2>16, <2>17
  <2>19. LinesBeginInside'
    BY <2>17, <2>18, StartsOne DEF BInv
  <2> QED
    BY <1>1, <2>17, <2>19, DieBound
<1> QED
  BY <1>2, <1>3

(* Every step keeps the bounds. *)
LEMMA NextBound == ASSUME IInv, TInv, BInv, Next PROVE BInv'
<1>0. TInv'
  BY NextText
<1>1. ASSUME NEW l \in Loggers, BeginUpdate(l) PROVE BInv'
  BY <1>1, BoundQuiet DEF BeginUpdate, Goto, storage, ghost
<1>2. ASSUME NEW l \in Loggers, Destroy(l) PROVE BInv'
  <2>1. /\ Close(l) /\ UNCHANGED <<cur, line, torn>> /\ pc' = pc
        /\ ~(pc = "copy" /\ l = cur)
    BY <1>2 DEF Destroy, ghost
  <2> QED
    BY <2>1, CloseBound
<1>3. CASE WriteLog
  BY <1>3, BoundQuiet DEF WriteLog, Goto, storage, ghost
<1>4. CASE EndUpdate
  BY <1>4, EndBound
<1>5. CASE CheckChangeFile
  BY <1>5, BoundQuiet DEF CheckChangeFile, Goto, storage, ghost
<1>6. CASE CloseLogFile
  <2>1. /\ Close(cur) /\ pc = "close" /\ pc' = "open" /\ cur \in Loggers
        /\ UNCHANGED <<cur, line, torn>>
    BY <1>6 DEF CloseLogFile, Goto, ghost, IInv, TypeOK
  <2> QED
    BY <2>1, CloseBound
<1>7. CASE OpenLogFile
  BY <1>7, OpenBound
<1>8. CASE OpenFails
  BY <1>8, DieQuietlyBound DEF OpenFails
<1>9. CASE Space
  BY <1>0, <1>9, SpaceBound
<1>10. CASE Copy
  BY <1>10, CopyBound
<1>11. CASE CopyFaults
  BY <1>11, DieQuietlyBound DEF CopyFaults
<1>12. CASE Crash
  BY <1>12, CrashBound
<1>13. CASE Restart
  BY <1>13, BoundQuiet DEF Restart, Goto, storage, ghost
<1> QED
  BY <1>1, <1>2, <1>3, <1>4, <1>5, <1>6, <1>7, <1>8, <1>9, <1>10, <1>11, <1>12, <1>13
     DEF Next, Write

(* At first there is no file. *)
LEMMA InitBound == Init => BInv
<1> SUFFICES ASSUME Init PROVE BInv
  OBVIOUS
<1>1. (\A l \in Loggers : ~IsOpen(l)) /\ DOMAIN disk = {}
  BY ClosedType DEF Init, IsOpen, Loggers
<1> QED
  BY <1>1 DEF BInv, Grown, Forgotten, LinesBeginInside

(* A step that changes nothing keeps the bounds. *)
LEMMA StutterBound == BInv /\ UNCHANGED vars => BInv'
<1> SUFFICES ASSUME BInv, UNCHANGED vars PROVE BInv'
  OBVIOUS
<1>1. UNCHANGED <<obj, disk, leaked, pc, cur, line, torn>>
  BY DEF vars, ghost, storage
<1>2. Grown'
  BY <1>1 DEF BInv, Grown, Pending, IsOpen
<1>3. Forgotten' /\ LinesBeginInside'
  BY <1>1 DEF BInv, Forgotten, LinesBeginInside, Whole
<1> QED
  BY <1>2, <1>3 DEF BInv

(* However long the lines are, none begins in a file where kMaxCharPerLog would not fit
   any more; and of every file, closed ones too, the mappings that Truncate has forgotten
   are together smaller than twice the file (FileBound). *)
THEOREM FileBounded == Spec => []FileBound
<1>1. IInv /\ TInv /\ BInv /\ Next => BInv'
  BY NextBound
<1>2. BInv => FileBound
  BY DEF BInv, Forgotten, FileBound
<1> QED
  BY <1>1, <1>2, InitBound, StutterBound, Invariance, TextInvariance, PTL DEF Spec
=============================================================================
