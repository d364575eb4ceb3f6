------------------------------ MODULE MmapFile ------------------------------
(***************************************************************************)
(* netbridge/MmapFile.cc: OMmapFile, a file written through a mapping of   *)
(* its memory.  The file is kept longer than its text, in powers of two    *)
(* times its first size, and cut to the text when it is closed.            *)
(*                                                                         *)
(* disk is what the kernel has of each file, padding included: a shared    *)
(* mapping writes there, and it outlives the process.  memory is whether   *)
(* memory_ is a mapping of the whole file or kInvalidAddr.  Open is always *)
(* called with bAppend (the default) and Truncate only to extend: nothing  *)
(* else in the repository uses the class.                                  *)
(***************************************************************************)
EXTENDS Naturals, Sequences, SequencesExt

CONSTANTS Files,        (* the OMmapFile objects                           *)
          NoFile,       (* kInvalidFile                                    *)
          Zero,         (* the byte that ftruncate extends a file with     *)
          kDefaultSize  (* the least size of an open file                  *)

ASSUME FileConstantsOK == kDefaultSize \in Nat \ {0}

VARIABLES obj,     (* file_, memory_, offset_, size_, syncPos_ of each      *)
          disk,    (* a function from the names of files to their bytes     *)
          leaked,  (* bytes mapped of each file that nobody can unmap       *)
          handed   (* bytes of each file that were given to msync           *)

storage == <<obj, disk, leaked, handed>>

Closed == [file |-> NoFile, memory |-> FALSE, offset |-> 0, size |-> 0, syncPos |-> 0]

IsOpen(o) == obj[o].file # NoFile

(* ftruncate; memcpy of data to position at. *)
Ftruncate(s, n) == [i \in 1..n |-> IF i <= Len(s) THEN s[i] ELSE Zero]
Memcpy(s, at, data) ==
  [i \in DOMAIN s |-> IF i \in (at + 1)..(at + Len(data)) THEN data[i - at] ELSE s[i]]

(* A function of file names with f added or changed. *)
With(fn, f, v) == [g \in DOMAIN fn \cup {f} |-> IF g = f THEN v ELSE fn[g]]

(* Open of a closed object; mapped tells whether mmap succeeds. *)
Open(o, f, mapped) ==
  LET old  == IF f \in DOMAIN disk THEN disk[f] ELSE <<>>
      size == IF Len(old) > kDefaultSize THEN Len(old) ELSE kDefaultSize
  IN  /\ disk' = With(disk, f, Ftruncate(old, size))
      /\ leaked' = With(leaked, f, IF f \in DOMAIN disk THEN leaked[f] ELSE 0)
      /\ handed' = With(handed, f, IF f \in DOMAIN disk THEN handed[f] ELSE {})
      /\ obj' = [obj EXCEPT ![o].file = f, ![o].memory = mapped,
                            ![o].offset = Len(old), ![o].size = size]

(* A Close that forgets the position of Sync. *)
CloseKeepsSyncPos(o) ==
  IF IsOpen(o)
    THEN /\ disk' = [disk EXCEPT ![obj[o].file] = Ftruncate(@, obj[o].offset)]
         /\ obj' = [obj EXCEPT ![o] = [Closed EXCEPT !.syncPos = obj[o].syncPos]]
         /\ UNCHANGED <<leaked, handed>>
    ELSE UNCHANGED storage

(* A Close that cuts the file to what was given to msync. *)
CloseAtSyncPos(o) ==
  IF IsOpen(o)
    THEN /\ disk' = [disk EXCEPT ![obj[o].file] = Ftruncate(@, obj[o].syncPos)]
         /\ obj' = [obj EXCEPT ![o] = Closed]
         /\ UNCHANGED <<leaked, handed>>
    ELSE UNCHANGED storage

Close(o) ==
  IF IsOpen(o)
    THEN /\ disk' = [disk EXCEPT ![obj[o].file] = Ftruncate(@, obj[o].offset)]
         /\ obj' = [obj EXCEPT ![o] = Closed]
         /\ UNCHANGED <<leaked, handed>>
    ELSE UNCHANGED storage

Sync(o) ==
  IF IsOpen(o) /\ obj[o].syncPos < obj[o].offset
    THEN /\ handed' = [handed EXCEPT ![obj[o].file] =
                         @ \cup ((obj[o].syncPos + 1)..obj[o].offset)]
         /\ obj' = [obj EXCEPT ![o].syncPos = obj[o].offset]
         /\ UNCHANGED <<disk, leaked>>
    ELSE UNCHANGED storage

(* The size that _AssureSpace asks for. *)
NewSize(o, len) ==
  LET double[n \in Nat] ==
        IF obj[o].offset + len > n THEN double[IF n = 0 THEN kDefaultSize ELSE 2 * n] ELSE n
  IN  double[obj[o].size]

(* _AssureSpace with _ExtendFileSize and Truncate, which maps the file again and
   forgets the mapping it had.                                               *)
AssureSpace(o, len, mapped) ==
  LET f == obj[o].file
      n == NewSize(o, len)
  IN  IF n > obj[o].size
        THEN /\ disk' = [disk EXCEPT ![f] = Ftruncate(@, n)]
             /\ leaked' = [leaked EXCEPT ![f] = IF obj[o].memory THEN @ + obj[o].size ELSE @]
             /\ obj' = [obj EXCEPT ![o].size = n, ![o].memory = mapped]
             /\ UNCHANGED handed
        ELSE UNCHANGED storage

(* The rest of Write. *)
Put(o, data) ==
  /\ disk' = [disk EXCEPT ![obj[o].file] = Memcpy(@, obj[o].offset, data)]
  /\ obj' = [obj EXCEPT ![o].offset = @ + Len(data)]
  /\ UNCHANGED <<leaked, handed>>
=============================================================================
