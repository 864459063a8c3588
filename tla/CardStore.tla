------------------------------ MODULE CardStore ------------------------------
(***************************************************************************)
(* The emulated memory card behind the mailbox (DML/Card.c): a table of    *)
(* CARD_MAX_FILES entries kept in stats.bin, through the FatFs file object *)
(* CardStat, and one SD-card file per save.                                *)
(*                                                                         *)
(* The loader loses power at any moment: the power button's interrupt      *)
(* (DML/main.c:57) shuts the console down whatever the main loop is doing. *)
(* So each write that reaches the SD card is a step of its own, and what   *)
(* is only in memory is kept apart: the one sector that CardStat buffers,  *)
(* and the directory sector in the window of the file system.              *)
(***************************************************************************)
EXTENDS Integers, Sequences, SequencesExt, FiniteSetsExt

CONSTANTS
  Letters,      \* what file names are made of
  Names,        \* the file names the game uses, as sequences of letters
  MaxFiles,     \* CARD_MAX_FILES
  SectorParts,  \* how many parts of an entry fit in a sector of the SD card
  Data, Stats,  \* what the game may write to a save and set as its status
  MaxCrash      \* bound: how often power is lost

Zero   == "zero"   \* what a new save holds, and its status
Absent == "absent"
NoName == <<>>

ASSUME CardStoreAssumption ==
  /\ MaxFiles \in Nat \ {0} /\ MaxCrash \in Nat
  /\ SectorParts \in Nat \ {0, 1}
  /\ Names \subseteq Seq(Letters) \ {NoName}
  /\ Zero \notin Stats
  /\ Data \cap {Zero, Absent, "short", "torn", "garbage", "none", "doing", "pending"} = {}

VARIABLES
  table,    \* stats.bin as f_read through CardStat shows it
  disk,     \* stats.bin on the SD card
  dirty,    \* the sector CardStat buffers and has not written back, or Clean
  files,    \* the files of the save directory as FatFs sees them
  ondisk,   \* the same on the SD card
  pc,       \* where the ARM is in the handler of the call
  req,      \* the call: its command, file name, file number and value
  ret,      \* CARD_SRETURN
  got,      \* the data of the last read
  fileNo,   \* CARD_SCMD_4
  handle,   \* the game: the file number it uses for a name, or None
  crashes,  \* how often power was lost
  torn      \* ghost: it was lost when half an entry had been written

stat == <<table, disk, dirty>>
fat  == <<files, ondisk>>
regs == <<ret, got, fileNo>>
power == <<crashes, torn>>
vars == <<table, disk, dirty, files, ondisk, pc, req, ret, got, fileNo, handle, crashes, torn>>

Slots == 0 .. MaxFiles - 1
None  == -1
Clean == -1

(* An entry has three parts, in the order of struct CARDStat: its name, a  *)
(* length (0 if it is free) and what CARDSetStatus sets.                   *)
Free == [name |-> NoName, used |-> FALSE, stats |-> Zero]
SectorOf(i, part) == (3 * i + part) \div SectorParts
SectorsOf(i) == {SectorOf(i, part) : part \in 0 .. 2}
SectorsUpTo(i) == UNION {SectorsOf(j) : j \in 0 .. i}

NoCall == [op |-> "none", name |-> NoName, slot |-> None, val |-> Zero]

(* CardInit, with an empty save directory: stats.bin is created with       *)
(* CARD_MAX_FILES zeroed entries and synced.                               *)
Init ==
  /\ table = [i \in Slots |-> Free] /\ disk = table /\ dirty = Clean
  /\ files = [n \in Names |-> Absent] /\ ondisk = files
  /\ pc = "idle" /\ req = NoCall
  /\ ret = "none" /\ got = "none" /\ fileNo = 0
  /\ handle = [n \in Names |-> None]
  /\ crashes = 0 /\ torn = FALSE
-----------------------------------------------------------------------------
(* FatFs, as far as Card.c depends on it.                                  *)

(* stats.bin on the card once sector s of t has been written over d.       *)
Flushed(t, d, s) ==
  [i \in Slots |-> [name  |-> (IF SectorOf(i, 0) = s THEN t[i] ELSE d[i]).name,
                    used  |-> (IF SectorOf(i, 1) = s THEN t[i] ELSE d[i]).used,
                    stats |-> (IF SectorOf(i, 2) = s THEN t[i] ELSE d[i]).stats]]

(* Variant for a run: the buffer is replaced without being written back.   *)
Touch_Loses(S) ==
  /\ dirty' = IF S # {dirty} THEN Clean ELSE dirty
  /\ UNCHANGED disk

(* f_lseek and f_read of CardStat in the sectors S: the buffer is written  *)
(* back before another sector is loaded into it.                           *)
Touch(S) ==
  IF dirty # Clean /\ S # {dirty}
    THEN disk' = Flushed(table, disk, dirty) /\ dirty' = Clean
    ELSE UNCHANGED <<disk, dirty>>

(* f_write of entry e at the file pointer: when it crosses into the next   *)
(* sector the first one is written back, the second stays in the buffer.   *)
WriteEntry(i, e) ==
  /\ table' = [table EXCEPT ![i] = e]
  /\ dirty' = SectorOf(i, 2)
  /\ disk' = IF SectorOf(i, 0) = SectorOf(i, 2) THEN disk
             ELSE Flushed(table', disk, SectorOf(i, 0))

(* f_sync of CardStat: its buffer first, the directory window after it.    *)
SyncStat ==
  /\ disk' = IF dirty = Clean THEN disk ELSE Flushed(table, disk, dirty)
  /\ dirty' = Clean
  /\ UNCHANGED table

(* Any access to another sector of the FAT or of a directory may write the *)
(* window back earlier.                                                    *)
MoveWindow ==
  /\ ondisk # files
  /\ ondisk' = files
  /\ UNCHANGED <<stat, files, pc, req, regs, handle, power>>
-----------------------------------------------------------------------------

(* CardFindEntryByName compares strlen(Filename) bytes, so it takes the    *)
(* first entry whose name starts with n.                                   *)
CardFindEntryByName(n) ==
  LET found == {i \in Slots : IsPrefix(n, table[i].name)}
  IN  IF found = {} THEN None ELSE Min(found)

CardFindFreeEntry ==
  LET found == {i \in Slots : ~table[i].used}
  IN  IF found = {} THEN None ELSE Min(found)

(* Both read the entries one by one, up to the one they find.              *)
Scanned(i) == SectorsUpTo(IF i = None THEN MaxFiles - 1 ELSE i)

(* memcpy( CStat.fileName, Filename, strlen(Filename) ): the rest of an    *)
(* older name stays.                                                       *)
Overlay(n, old) == n \o SubSeq(old, Len(n) + 1, Len(old))

Reply(r) == pc' = "reply" /\ ret' = r /\ UNCHANGED got
GoTo(p)  == pc' = p /\ UNCHANGED regs

(* The mailbox hands a call of the game to its handler.  A game reads,     *)
(* writes and sets the status of a file it has opened or created since the *)
(* loader started; it looks at any entry, and opens any, by number.        *)
Call ==
  /\ pc = "idle"
  /\ \/ \E op \in {"Create", "Open", "Delete"}, n \in Names :
          /\ req' = [op |-> op, name |-> n, slot |-> None, val |-> Zero]
          /\ handle' = IF op = "Delete" THEN [handle EXCEPT ![n] = None] ELSE handle
          /\ UNCHANGED fileNo
     \/ \E op \in {"FastOpen", "GetStats"}, i \in Slots :
          /\ req' = [op |-> op, name |-> IF table[i].used THEN table[i].name ELSE NoName,
                     slot |-> i, val |-> Zero]
          /\ UNCHANGED <<handle, fileNo>>
     \/ \E n \in {m \in Names : handle[m] # None} :
          /\ \/ req' = [op |-> "Read", name |-> n, slot |-> handle[n], val |-> Zero]
             \/ \E d \in Data : req' = [op |-> "Write", name |-> n, slot |-> handle[n], val |-> d]
             \/ \E s \in Stats : req' = [op |-> "SetStats", name |-> n, slot |-> handle[n], val |-> s]
          /\ fileNo' = IF req'.op = "SetStats" THEN fileNo ELSE handle[n]
          /\ UNCHANGED handle
  /\ pc' = "serve"
  /\ UNCHANGED <<stat, fat, ret, got, power>>

Serving(op) == pc = "serve" /\ req.op = op
-----------------------------------------------------------------------------
(* CardCreateFile.                                                         *)

(* Both searches.  A full table ends the call with no register written.    *)
CreateFind ==
  /\ Serving("Create")
  /\ LET at == CardFindEntryByName(req.name)
     IN  IF at # None
           THEN Touch(Scanned(at)) /\ Reply("exists") /\ UNCHANGED <<req, fileNo>>
           ELSE /\ Touch(Scanned(None))
                /\ req' = [req EXCEPT !.slot = CardFindFreeEntry]
                /\ IF req'.slot = None THEN pc' = "reply" /\ UNCHANGED regs
                   ELSE GoTo("createOpen")
  /\ UNCHANGED <<table, fat, handle, power>>

(* f_open( FA_CREATE_NEW ): the new directory entry is in the window; the  *)
(* slot's entry is read.                                                   *)
CreateOpen ==
  /\ pc = "createOpen"
  /\ IF files[req.name] # Absent
       THEN /\ Reply("exists") /\ fileNo' = 0
            /\ UNCHANGED <<stat, files>>
       ELSE /\ files' = [files EXCEPT ![req.name] = "short"]
            /\ Touch(SectorsOf(req.slot)) /\ UNCHANGED table
            /\ GoTo("createEntry")
  /\ UNCHANGED <<ondisk, req, handle, power>>

CreateEntry ==
  /\ pc = "createEntry"
  /\ WriteEntry(req.slot, [name  |-> Overlay(req.name, table[req.slot].name),
                           used  |-> TRUE, stats |-> Zero])
  /\ GoTo("createSync")
  /\ UNCHANGED <<fat, req, handle, power>>

(* Variant for a run: the entry is not synced.                             *)
CreateSync_None ==
  /\ pc = "createSync"
  /\ GoTo("createWindow")
  /\ UNCHANGED <<stat, fat, req, handle, power>>

CreateSync ==
  /\ pc = "createSync"
  /\ SyncStat
  /\ GoTo("createWindow")
  /\ UNCHANGED <<fat, req, handle, power>>

CreateWindow ==
  /\ pc = "createWindow"
  /\ ondisk' = files
  /\ GoTo("createFill")
  /\ UNCHANGED <<stat, files, req, handle, power>>

(* Variant for a run: the slot is not reported.                            *)
CreateFill_NoSlot ==
  /\ pc = "createFill"
  /\ files' = [files EXCEPT ![req.name] = Zero]
  /\ ondisk' = files'
  /\ Reply("success") /\ UNCHANGED fileNo
  /\ UNCHANGED <<stat, req, handle, power>>

(* The file is filled with zeros and closed.                               *)
CreateFill ==
  /\ pc = "createFill"
  /\ files' = [files EXCEPT ![req.name] = Zero]
  /\ ondisk' = files'
  /\ Reply("success") /\ fileNo' = req.slot
  /\ UNCHANGED <<stat, req, handle, power>>
-----------------------------------------------------------------------------
(* CardDeleteFile: the entry is zeroed (and not synced), then the file is  *)
(* unlinked whether or not the entry was its own.                          *)
DeleteFind ==
  /\ Serving("Delete")
  /\ LET at == CardFindEntryByName(req.name)
     IN  /\ Touch(Scanned(at))
         /\ req' = [req EXCEPT !.slot = at]
         /\ IF at = None THEN Reply("nofile") /\ UNCHANGED fileNo
            ELSE GoTo("deleteEntry")
  /\ UNCHANGED <<table, fat, handle, power>>

DeleteEntry ==
  /\ pc = "deleteEntry"
  /\ WriteEntry(req.slot, Free)
  /\ GoTo("unlink")
  /\ UNCHANGED <<fat, req, handle, power>>

Unlink ==
  /\ pc = "unlink"
  /\ files' = [files EXCEPT ![req.name] = Absent]
  /\ ondisk' = files'
  /\ Reply("success") /\ UNCHANGED fileNo
  /\ UNCHANGED <<stat, req, handle, power>>
-----------------------------------------------------------------------------
(* A file of that name exists: names outside Names never do.               *)
Exists(n) == n \in Names /\ files[n] # Absent

(* CardOpenFile                                                            *)
Open ==
  /\ Serving("Open")
  /\ LET at == CardFindEntryByName(req.name)
     IN  /\ Touch(Scanned(at))
         /\ IF at # None /\ Exists(req.name)
              THEN Reply("success") /\ fileNo' = at
              ELSE Reply("nofile") /\ fileNo' = None
  /\ UNCHANGED <<table, fat, req, handle, power>>

(* CardFastOpenFile.  f_open of the empty name of half an entry fails with *)
(* FR_INVALID_NAME, which ends in Shutdown.                                *)
FastOpen ==
  /\ Serving("FastOpen")
  /\ Touch(SectorsOf(req.slot))
  /\ LET e == table[req.slot]
     IN  IF e.used /\ e.name = NoName THEN GoTo("off")
         ELSE Reply(IF e.used /\ Exists(e.name) THEN "success" ELSE "nofile")
  /\ UNCHANGED <<table, fat, req, fileNo, handle, power>>

(* CARDGetStatus                                                           *)
GetStats ==
  /\ Serving("GetStats")
  /\ Touch(SectorsOf(req.slot))
  /\ Reply(IF table[req.slot].used THEN "success" ELSE "nofile")
  /\ UNCHANGED <<table, fat, req, fileNo, handle, power>>

(* CardReadFile: a file that cannot be opened reads as whatever the        *)
(* buffer held.                                                            *)
Read ==
  /\ Serving("Read")
  /\ Touch(SectorsOf(req.slot))
  /\ LET n == table[req.slot].name
     IN  got' = IF Exists(n) THEN files[n] ELSE "garbage"
  /\ pc' = "reply" /\ ret' = "success"
  /\ UNCHANGED <<table, fat, req, fileNo, handle, power>>

(* CardWriteFile: the data reaches the card piece by piece, f_close writes *)
(* the rest.  A file that cannot be opened ends in Shutdown.               *)
Write ==
  /\ Serving("Write")
  /\ Touch(SectorsOf(req.slot))
  /\ LET n == table[req.slot].name
     IN  IF Exists(n)
           THEN /\ files' = [files EXCEPT ![n] = "torn"] /\ ondisk' = files'
                /\ pc' = "writeClose"
           ELSE pc' = "off" /\ UNCHANGED fat
  /\ UNCHANGED <<table, req, regs, handle, power>>

WriteClose ==
  /\ pc = "writeClose"
  /\ files' = [files EXCEPT ![table[req.slot].name] = req.val] /\ ondisk' = files'
  /\ Reply("success") /\ UNCHANGED fileNo
  /\ UNCHANGED <<stat, req, handle, power>>

(* CARDSetStatus: read, change, write, f_sync.                             *)
SetStats ==
  /\ Serving("SetStats")
  /\ Touch(SectorsOf(req.slot))
  /\ GoTo("setEntry")
  /\ UNCHANGED <<table, fat, req, handle, power>>

SetEntry ==
  /\ pc = "setEntry"
  /\ WriteEntry(req.slot, [table[req.slot] EXCEPT !.stats = req.val])
  /\ GoTo("setSync")
  /\ UNCHANGED <<fat, req, handle, power>>

(* Variant for a run: no f_sync.                                           *)
SetSync_None ==
  /\ pc = "setSync"
  /\ Reply("success") /\ UNCHANGED fileNo
  /\ UNCHANGED <<stat, fat, req, handle, power>>

SetSync ==
  /\ pc = "setSync"
  /\ SyncStat
  /\ ondisk' = files
  /\ Reply("success") /\ UNCHANGED fileNo
  /\ UNCHANGED <<files, req, handle, power>>
-----------------------------------------------------------------------------
(* The stub returns: the game keeps the file number of a file it opened or *)
(* created, and learns that of a file it opened by number.                 *)
Return ==
  /\ pc = "reply"
  /\ handle' = IF ret = "success" /\ req.name \in Names
                 THEN CASE req.op \in {"Create", "Open"} -> [handle EXCEPT ![req.name] = fileNo]
                        [] req.op = "FastOpen" -> [handle EXCEPT ![req.name] = req.slot]
                        [] OTHER -> handle
                 ELSE handle
  /\ pc' = "idle" /\ req' = NoCall /\ got' = "none"
  /\ UNCHANGED <<stat, fat, ret, fileNo, power>>

(* CARDClose: the game stops using the file; the answer is always 0.       *)
Close ==
  /\ pc = "idle" /\ ret' = "success"
  /\ \E n \in Names :
       /\ handle[n] # None
       /\ handle' = [handle EXCEPT ![n] = None]
  /\ UNCHANGED <<stat, fat, pc, req, got, fileNo, power>>

(* An entry has a name if and only if it has a length.                     *)
Whole(t) == \A i \in Slots : t[i].used <=> t[i].name # NoName

(* Power is lost (or Shutdown was called), the console starts again, and   *)
(* CardInit opens what is on the card.                                     *)
Crash ==
  /\ crashes < MaxCrash
  /\ crashes' = crashes + 1
  /\ torn' = (torn \/ ~Whole(disk))
  /\ table' = disk /\ dirty' = Clean /\ files' = ondisk
  /\ pc' = "idle" /\ req' = NoCall /\ ret' = "none" /\ got' = "none" /\ fileNo' = 0
  /\ handle' = [n \in Names |-> None]
  /\ UNCHANGED <<disk, ondisk>>

Creating == CreateFind \/ CreateOpen \/ CreateEntry \/ CreateSync \/ CreateWindow \/ CreateFill
Deleting == DeleteFind \/ DeleteEntry \/ Unlink
Using == Open \/ FastOpen \/ GetStats \/ Read \/ Write \/ WriteClose
Setting == SetStats \/ SetEntry \/ SetSync

Next == Call \/ Creating \/ Deleting \/ Using \/ Setting
          \/ Return \/ Close \/ MoveWindow \/ Crash

Spec == Init /\ [][Next]_vars
-----------------------------------------------------------------------------
Entry   == [name : Seq(Letters), used : BOOLEAN, stats : Stats \cup {Zero}]
Content == Data \cup {Zero, Absent, "short", "torn"}

(* No write to the table is forgotten: what f_read shows and what is on    *)
(* the card differ in the buffered sector only (CardDeleteFile does not    *)
(* sync, Card.c:206-212).                                                  *)
OnlyTheBufferIsUnsaved ==
  IF dirty = Clean THEN disk = table ELSE Flushed(table, disk, dirty) = table

(* So neither in memory nor on the card do two entries carry the same      *)
(* name, although a delete frees an entry before it is written back and a  *)
(* create takes the first free one (Card.c:59-98, 191-299).  This and what *)
(* follows is promised until power is lost between the two sectors of one  *)
(* f_write that has an entry's name in the first and its length in the     *)
(* second: CardFindEntryByName then finds half an entry, and the next      *)
(* create lays its name over the one that is there (Card.c:252, 273).      *)
TableSound ==
  /\ OnlyTheBufferIsUnsaved
  /\ ~torn => \A t \in {table, disk} : \A i, j \in Slots :
       t[i].name = t[j].name /\ t[i].name # NoName => i = j

(* A game that reads, writes or sets the status of a file only after it    *)
(* opened or created it reaches the entry of that file, and the file is    *)
(* there: CardWriteFile does not end in Shutdown.                          *)
HandleIsOwn ==
  ~torn =>
    /\ \A n \in Names : handle[n] # None =>
         table[handle[n]].used /\ table[handle[n]].name = n /\ Exists(n)
    /\ pc # "off"

(* What a loss of power would newly damage: the file of the call under way, *)
(* and files deleted since their entry's sector was last written back.     *)
HasEntry(t, n) == \E i \in Slots : t[i].used /\ t[i].name = n
Damaged(t, f)  == {n \in Names : HasEntry(t, n) # (f[n] # Absent)}

OnlyUnsavedDeletesAreDamaged ==
  ~torn =>
    \A n \in Damaged(disk, ondisk) \ (Damaged(table, files) \cup {req.name}) :
      /\ ondisk[n] = Absent
      /\ \E i \in Slots : disk[i].name = n /\ dirty \in SectorsOf(i)

(* Card.c as a map from names to saves.  The call takes effect when the    *)
(* file is filled (Create), the entry zeroed (Delete) or changed.          *)
UnderWay == IF pc \in {"createEntry", "createSync", "createWindow", "createFill", "unlink"}
              THEN {req.name} ELSE {}
NoSave == [data |-> Absent, stats |-> Absent]
SavesBar ==
  [n \in Names |->
     IF HasEntry(table, n) /\ files[n] # Absent /\ n \notin UnderWay
       THEN LET i == CHOOSE j \in Slots : table[j].used /\ table[j].name = n
            IN  [data |-> files[n], stats |-> table[i].stats]
       ELSE NoSave]
CallBar ==
  IF pc = "idle" THEN [op |-> "none", name |-> NoName, res |-> "none"]
  ELSE [op |-> req.op, name |-> req.name,
        res |-> CASE pc = "reply" -> IF req.op = "Read" THEN got ELSE ret
                  [] pc \in {"unlink", "writeClose", "setSync"} -> "doing"
                  [] OTHER -> "pending"]
Saves == INSTANCE SaveSpec WITH
  saves <- SavesBar, damaged <- Damaged(table, files) \ UnderWay, call <- CallBar,
  Torn <- "torn", Absent <- NoSave

(* Every call of the card emulation answers as the map of saves would, and *)
(* a loss of power changes no save but that of an unanswered call, until   *)
(* one leaves half an entry behind.                                        *)
ImplementsSaveSpec ==
  Saves!Init /\ [][torn' \/ Saves!Next]_<<SavesBar, Damaged(table, files) \ UnderWay, CallBar>>
=============================================================================
