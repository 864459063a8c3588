--------------------------- MODULE CardStoreProofs ---------------------------
(***************************************************************************)
(* Proofs about the emulated memory card, for every number of entries,     *)
(* every layout of the entries over sectors and any number of losses of    *)
(* power.                                                                  *)
(*                                                                         *)
(* BufferInv says that the only thing not on the SD card is the sector     *)
(* CardStat buffers, whatever happens.  What follows from it holds until   *)
(* power is lost within one f_write of an entry (torn): TableInv, names    *)
(* are unique in memory and on the card; DirInv, what is not yet on the    *)
(* card was deleted, or belongs to the call under way; HandleInv, the      *)
(* numbers the game holds are those of its files.  From them follows, step *)
(* by step, that the card emulation implements SaveSpec.                   *)
(***************************************************************************)
EXTENDS CardStore, FiniteSetTheorems, SequenceTheorems, WellFoundedInduction, TLAPS

Places == {"idle", "serve", "reply", "off", "createOpen", "createEntry", "createSync",
           "createWindow", "createFill", "deleteEntry", "unlink", "writeClose",
           "setEntry", "setSync"}
Ops == {"none", "Create", "Open", "Delete", "FastOpen", "GetStats", "Read", "Write", "SetStats"}
Requests == [op : Ops, name : Seq(Letters), slot : Slots \cup {None},
             val : Data \cup Stats \cup {Zero}]

TypeOK ==
  /\ table \in [Slots -> Entry] /\ disk \in [Slots -> Entry]
  /\ dirty \in Nat \cup {Clean}
  /\ files \in [Names -> Content] /\ ondisk \in [Names -> Content]
  /\ pc \in Places /\ req \in Requests
  /\ fileNo \in Slots \cup {None}
  /\ handle \in [Names -> Slots \cup {None}]
  /\ crashes \in Nat /\ torn \in BOOLEAN

(* Before an entry is written the buffer is clean or holds its sector.     *)
Positioned ==
  pc \in {"createEntry", "deleteEntry", "setEntry"} =>
    req.slot \in Slots /\ (dirty = Clean \/ SectorsOf(req.slot) = {dirty})

(* Which call is under way where.                                          *)
Calls ==
  /\ req.op # "none" <=> pc # "idle"
  /\ req.op \in {"Create", "Open", "Delete", "Read", "Write", "SetStats"} => req.name \in Names
  /\ req.op \in {"FastOpen", "GetStats", "Read", "Write", "SetStats"} => req.slot \in Slots
  /\ pc \in {"createOpen", "createEntry", "createSync", "createWindow", "createFill"} =>
       req.op = "Create" /\ req.slot \in Slots
  /\ pc \in {"deleteEntry", "unlink"} => req.op = "Delete" /\ req.slot \in Slots
  /\ pc = "writeClose" => req.op = "Write"
  /\ req.op = "Write" => req.val \in Data
  /\ req.op = "SetStats" => req.val \in Stats
  /\ pc \in {"setEntry", "setSync"} => req.op = "SetStats"

BufferInv == TypeOK /\ Calls /\ Positioned /\ OnlyTheBufferIsUnsaved

Named(t)  == \A i \in Slots : t[i].name \in Names \cup {NoName}
Unique(t) == \A i, j \in Slots : t[i].name = t[j].name /\ t[i].name # NoName => i = j

(* The table of an untorn card, in memory and on the card, and what the    *)
(* call under way knows of it.                                             *)
Rows == /\ Named(table) /\ Named(disk) /\ Unique(table) /\ Unique(disk)
        /\ Whole(table)
CallRows ==
  /\ pc \in {"createOpen", "createEntry"} =>
       ~table[req.slot].used /\ table[req.slot].name = NoName
  /\ pc \in {"createOpen", "createEntry", "unlink"} => \A i \in Slots : table[i].name # req.name
  /\ pc \in {"createSync", "createWindow", "createFill"} =>
       table[req.slot] = [name |-> req.name, used |-> TRUE, stats |-> Zero]
  /\ pc = "deleteEntry" => table[req.slot].name = req.name
  /\ req.op \in {"FastOpen", "GetStats"} => req.name = table[req.slot].name
TableInv == Rows /\ CallRows

(* The directory, and what of the table may be unsaved.                    *)
DirInv ==
  /\ files = ondisk \/
       /\ pc \in {"createEntry", "createSync", "createWindow"}
       /\ \A n \in Names \ {req.name} : files[n] = ondisk[n]
  /\ \A i \in Slots : disk[i] = table[i] \/ table[i] = Free
                      \/ (i = req.slot /\ pc \in {"createSync", "setSync"})
  /\ pc = "setSync" /\ table[req.slot].used =>
       disk[req.slot].used /\ disk[req.slot].name = table[req.slot].name
  /\ \A n \in Names : HasEntry(disk, n) /\ ~HasEntry(table, n) =>
       ondisk[n] = Absent \/ (n = req.name /\ pc \in {"createEntry", "unlink"})

(* The game's file numbers.                                                *)
HandleInv ==
  /\ pc # "off"
  /\ \A n \in Names : handle[n] # None => table[handle[n]].name = n /\ files[n] # Absent
  /\ req.op = "Delete" => handle[req.name] = None
  /\ req.op \in {"Read", "Write", "SetStats"} => handle[req.name] = req.slot
  /\ pc \in {"createEntry", "createSync", "createWindow", "createFill"} => files[req.name] = "short"
  /\ pc = "reply" /\ ret = "success" /\ req.name \in Names =>
       /\ req.op \in {"Create", "Open"} =>
            fileNo \in Slots /\ table[fileNo].name = req.name /\ files[req.name] # Absent
       /\ req.op = "FastOpen" => files[req.name] # Absent

-----------------------------------------------------------------------------
(* Arithmetic of the sectors.                                              *)

(* Division with remainder.                                                *)
LEMMA DivMod ==
  ASSUME NEW a \in Nat, NEW b \in Nat \ {0}
  PROVE  /\ a \div b \in Nat
         /\ a % b \in 0 .. b - 1
         /\ a = b * (a \div b) + (a % b)
  BY SMT

(* Numbers no further apart than the divisor have quotients that are equal *)
(* or next to each other.                                                  *)
LEMMA NextQuotient ==
  ASSUME NEW P \in Nat \ {0}, NEW a \in Nat, NEW b \in Nat, a <= b, b <= a + P
  PROVE  a \div P <= b \div P /\ b \div P <= (a \div P) + 1
<1> DEFINE q == a \div P
           r == a % P
           u == b \div P
           v == b % P
<1>1. a = P * q + r /\ q \in Nat /\ r \in 0 .. P - 1 BY DivMod
<1>2. b = P * u + v /\ u \in Nat /\ v \in 0 .. P - 1 BY DivMod
<1> HIDE DEF q, r, u, v
<1>3. q <= u
  <2> SUFFICES ASSUME q >= u + 1 PROVE FALSE BY <1>1, <1>2
  <2>1. P * q >= P * (u + 1) BY <1>1, <1>2
  <2>2. P * (u + 1) = P * u + P BY <1>2
  <2> QED BY <1>1, <1>2, <2>1, <2>2
<1>4. u <= q + 1
  <2> SUFFICES ASSUME u >= q + 2 PROVE FALSE BY <1>1, <1>2
  <2>1. P * u >= P * (q + 2) BY <1>1, <1>2
  <2>2. P * (q + 2) = P * q + P + P BY <1>1
  <2> QED BY <1>1, <1>2, <2>1, <2>2
<1> QED BY <1>3, <1>4 DEF q, u

(* An entry lies in one sector or in two that follow each other.           *)
LEMMA EntrySectors ==
  ASSUME NEW i \in Nat
  PROVE  /\ SectorOf(i, 0) \in Nat /\ SectorOf(i, 1) \in Nat /\ SectorOf(i, 2) \in Nat
         /\ SectorOf(i, 1) \in {SectorOf(i, 0), SectorOf(i, 2)}
         /\ SectorsOf(i) = {SectorOf(i, 0), SectorOf(i, 1), SectorOf(i, 2)}
<1> USE CardStoreAssumption
<1> DEFINE a == 3 * i + 0
           b == 3 * i + 1
           c == 3 * i + 2
<1>1. a \in Nat /\ b \in Nat /\ c \in Nat /\ a <= b /\ b <= c
      /\ b <= a + SectorParts /\ c <= b + SectorParts /\ a <= c /\ c <= a + SectorParts
  OBVIOUS
<1>2. SectorParts \in Nat \ {0}
  OBVIOUS
<1>3. SectorOf(i, 0) = a \div SectorParts /\ SectorOf(i, 1) = b \div SectorParts
      /\ SectorOf(i, 2) = c \div SectorParts
  BY DEF SectorOf
<1>4. a \div SectorParts \in Nat /\ b \div SectorParts \in Nat /\ c \div SectorParts \in Nat
  BY <1>1, <1>2, DivMod
<1>5. /\ a \div SectorParts <= b \div SectorParts
      /\ b \div SectorParts <= c \div SectorParts
      /\ c \div SectorParts <= (a \div SectorParts) + 1
  <2> HIDE DEF a, b, c
  <2> QED BY <1>1, <1>2, NextQuotient
<1>6. SectorsOf(i) = {SectorOf(i, 0), SectorOf(i, 1), SectorOf(i, 2)}
  <2>1. 0 .. 2 = {0, 1, 2}
    OBVIOUS
  <2> QED BY <2>1 DEF SectorsOf
<1> QED
  <2> HIDE DEF a, b, c
  <2> QED BY <1>3, <1>4, <1>5, <1>6

(* A search that reads up to an entry reads the sectors of all before it.  *)
LEMMA ScannedSectors ==
  ASSUME NEW i \in Slots, NEW j \in Slots, i <= j
  PROVE  SectorsOf(i) \subseteq SectorsUpTo(j) /\ SectorsOf(i) # {}
BY EntrySectors DEF SectorsUpTo, Slots

(* A set of naturals has a least element, which Min chooses.               *)
LEMMA MinOfNat ==
  ASSUME NEW S, S \subseteq Nat, S # {}
  PROVE  Min(S) \in S
<1> DEFINE Less == {ss \in Nat \X Nat : ss[1] < ss[2]}
<1>1. IsWellFoundedOn(Less, Nat)
  BY NatLessThanWellFounded DEF OpToRel
<1>2. PICK m \in S : \A y \in S : ~ (<<y, m>> \in Less)
  BY <1>1, WFMin
<1>3. ASSUME NEW y \in S PROVE m <= y
  <2>1. ~ (<<y, m>> \in Less) /\ m \in Nat /\ y \in Nat
    BY <1>2
  <2> QED BY <2>1
<1> QED BY <1>3 DEF Min

(* The searches return an entry that is what they look for, or None if     *)
(* there is none.                                                          *)
LEMMA FindEntry ==
  ASSUME NEW n
  PROVE  \/ /\ CardFindEntryByName(n) \in Slots
            /\ IsPrefix(n, table[CardFindEntryByName(n)].name)
         \/ /\ CardFindEntryByName(n) = None
            /\ \A i \in Slots : ~IsPrefix(n, table[i].name)
<1> DEFINE found == {i \in Slots : IsPrefix(n, table[i].name)}
<1>1. CASE found = {}
  BY <1>1 DEF CardFindEntryByName
<1>2. CASE found # {}
  <2>1. found \subseteq Nat
    BY CardStoreAssumption DEF Slots
  <2>2. Min(found) \in found
    <3> HIDE DEF found
    <3> QED BY <1>2, <2>1, MinOfNat
  <2> QED BY <1>2, <2>2 DEF CardFindEntryByName
<1> QED BY <1>1, <1>2

(* The search for a free entry returns one, or None when all are used.     *)
LEMMA FindFree ==
  \/ CardFindFreeEntry \in Slots /\ ~table[CardFindFreeEntry].used
  \/ CardFindFreeEntry = None /\ \A i \in Slots : table[i].used
<1> DEFINE found == {i \in Slots : ~table[i].used}
<1>1. CASE found = {}
  BY <1>1 DEF CardFindFreeEntry
<1>2. CASE found # {}
  <2>1. found \subseteq Nat
    BY CardStoreAssumption DEF Slots
  <2>2. Min(found) \in found
    <3> HIDE DEF found
    <3> QED BY <1>2, <2>1, MinOfNat
  <2> QED BY <1>2, <2>2 DEF CardFindFreeEntry
<1> QED BY <1>1, <1>2

(* A name laid over another is a name.                                     *)
LEMMA OverlayName ==
  ASSUME NEW n \in Seq(Letters), NEW m \in Seq(Letters)
  PROVE  Overlay(n, m) \in Seq(Letters) /\ (m = NoName => Overlay(n, m) = n)
<1>1. SubSeq(m, Len(n) + 1, Len(m)) \in Seq(Letters)
  OBVIOUS
<1>2. Overlay(n, m) \in Seq(Letters)
  BY <1>1 DEF Overlay
<1>3. ASSUME m = NoName PROVE Overlay(n, m) = n
  <2>1. SubSeq(m, Len(n) + 1, Len(m)) = << >>
    BY <1>3 DEF NoName
  <2> QED BY <2>1 DEF Overlay
<1> QED BY <1>2, <1>3
-----------------------------------------------------------------------------
(* BufferInv                                                               *)

(* What the constants range over.                                          *)
LEMMA Values ==
  /\ Names \subseteq Seq(Letters) /\ NoName \notin Names /\ NoName \in Seq(Letters)
  /\ Free \in Entry /\ NoCall \in Requests /\ NoCall.op = "none"
  /\ Slots \subseteq Nat /\ None \notin Slots /\ Clean \notin Nat
  /\ 0 \in Slots
<1> USE CardStoreAssumption
<1>1. NoName \in Seq(Letters) BY DEF NoName
<1>2. Free \in Entry BY <1>1 DEF Free, Entry
<1>3. NoCall \in Requests /\ NoCall.op = "none" BY <1>1 DEF NoCall, Requests, Ops
<1>4. Slots \subseteq Nat /\ None \notin Slots /\ Clean \notin Nat /\ 0 \in Slots
  BY DEF Slots, None, Clean
<1> QED BY <1>1, <1>2, <1>3, <1>4

(* CardInit leaves nothing unsaved.                                        *)
LEMMA BufferInit == Init => BufferInv
<1> SUFFICES ASSUME Init PROVE BufferInv
  OBVIOUS
<1> USE CardStoreAssumption, Values DEF Init
<1>1. table \in [Slots -> Entry] /\ disk \in [Slots -> Entry] OBVIOUS
<1>2. files \in [Names -> Content] /\ ondisk \in [Names -> Content] BY DEF Content
<1>3. handle \in [Names -> Slots \cup {None}] OBVIOUS
<1>4. TypeOK BY <1>1, <1>2, <1>3 DEF TypeOK, Places
<1>5. Calls BY DEF Calls
<1>6. Positioned BY DEF Positioned
<1>7. OnlyTheBufferIsUnsaved BY DEF OnlyTheBufferIsUnsaved
<1> QED BY <1>4, <1>5, <1>6, <1>7 DEF BufferInv

(* An entry of the table is a record of its three parts.                   *)
LEMMA EntryParts ==
  ASSUME NEW e \in Entry, NEW f \in Entry
  PROVE  /\ e = [name |-> e.name, used |-> e.used, stats |-> e.stats]
         /\ e.name \in Seq(Letters) /\ e.used \in BOOLEAN
         /\ e.name = f.name /\ e.used = f.used /\ e.stats = f.stats => e = f
BY DEF Entry

(* Writing a sector back yields a table, that of f_read for the sector     *)
(* that was buffered.                                                      *)
LEMMA FlushedType ==
  ASSUME NEW t \in [Slots -> Entry], NEW d \in [Slots -> Entry], NEW s
  PROVE  Flushed(t, d, s) \in [Slots -> Entry]
BY DEF Flushed, Entry

(* f_read and f_lseek: nothing is lost, and the buffer is clean or holds   *)
(* what is read.                                                           *)
LEMMA Touching ==
  ASSUME TypeOK, OnlyTheBufferIsUnsaved, NEW S, Touch(S), table' = table
  PROVE  /\ disk' \in [Slots -> Entry] /\ dirty' \in Nat \cup {Clean}
         /\ OnlyTheBufferIsUnsaved'
         /\ \/ disk' = disk /\ dirty' = dirty /\ (dirty = Clean \/ S = {dirty})
            \/ disk' = table /\ dirty' = Clean
<1>1. CASE dirty # Clean /\ S # {dirty}
  <2>1. disk' = Flushed(table, disk, dirty) /\ dirty' = Clean
    BY <1>1 DEF Touch
  <2>2. disk' = table
    BY <1>1, <2>1 DEF OnlyTheBufferIsUnsaved
  <2> QED BY <2>1, <2>2 DEF TypeOK, OnlyTheBufferIsUnsaved
<1>2. CASE ~(dirty # Clean /\ S # {dirty})
  <2>1. UNCHANGED <<disk, dirty>>
    BY <1>2 DEF Touch
  <2> QED BY <1>2, <2>1 DEF TypeOK, OnlyTheBufferIsUnsaved, Flushed
<1> QED BY <1>1, <1>2

(* f_sync: the card holds what f_read shows.                               *)
LEMMA Syncing ==
  ASSUME TypeOK, OnlyTheBufferIsUnsaved, SyncStat
  PROVE  table' = table /\ disk' = table /\ dirty' = Clean
BY DEF SyncStat, OnlyTheBufferIsUnsaved

(* f_write of an entry whose sector the buffer holds, or none: again only  *)
(* the buffer is unsaved.  What reaches the card of the entry is its old   *)
(* state, or the parts of the new one in the first of its sectors.         *)
LEMMA Writing ==
  ASSUME TypeOK, OnlyTheBufferIsUnsaved, NEW i \in Slots, NEW e \in Entry, WriteEntry(i, e),
         dirty = Clean \/ SectorsOf(i) = {dirty}
  PROVE  /\ table' \in [Slots -> Entry] /\ disk' \in [Slots -> Entry] /\ dirty' \in Nat
         /\ OnlyTheBufferIsUnsaved'
         /\ table'[i] = e /\ \A j \in Slots : j # i => table'[j] = table[j]
         /\ \/ disk' = disk
            \/ /\ disk = table
               /\ \A j \in Slots : j # i => disk'[j] = disk[j]
               /\ disk'[i].name \in {e.name, disk[i].name}
               /\ disk'[i].used \in {e.used, disk[i].used}
               /\ e.used = disk[i].used /\ e.name = disk[i].name =>
                    disk'[i].used = e.used /\ disk'[i].name = e.name
<1> DEFINE s0 == SectorOf(i, 0)
           s2 == SectorOf(i, 2)
<1>1. /\ s0 \in Nat /\ s2 \in Nat /\ SectorOf(i, 1) \in {s0, s2}
      /\ SectorsOf(i) = {s0, SectorOf(i, 1), s2}
  BY EntrySectors, Values
<1>2. table' = [table EXCEPT ![i] = e] /\ dirty' = s2
      /\ disk' = IF s0 = s2 THEN disk ELSE Flushed(table', disk, s0)
  BY DEF WriteEntry
<1>3. table' \in [Slots -> Entry] /\ table'[i] = e /\ \A j \in Slots : j # i => table'[j] = table[j]
  BY <1>2 DEF TypeOK
<1>4. disk' \in [Slots -> Entry] /\ dirty' \in Nat
  BY <1>1, <1>2, <1>3, FlushedType DEF TypeOK
<1>5. ASSUME NEW j \in Slots, j # i PROVE Flushed(table', disk', dirty')[j] = table'[j]
  <2>1. CASE dirty = Clean
    <3>1. disk[j] = table[j] /\ disk'[j] = table[j]
      <4>1. disk = table BY <2>1 DEF OnlyTheBufferIsUnsaved
      <4>2. Flushed(table', disk, s0)[j] =
              [name |-> table[j].name, used |-> table[j].used, stats |-> table[j].stats]
        BY <1>3, <1>5, <4>1 DEF Flushed
      <4> QED BY <1>2, <4>1, <4>2, EntryParts DEF TypeOK
    <3>2. Flushed(table', disk', dirty')[j] =
            [name |-> table[j].name, used |-> table[j].used, stats |-> table[j].stats]
      BY <1>3, <1>5, <3>1 DEF Flushed
    <3> QED BY <1>3, <1>5, <3>2, EntryParts DEF TypeOK
  <2>2. CASE dirty # Clean
    <3>1. s0 = dirty /\ s2 = dirty
      BY <1>1, <2>2
    <3>2. disk' = disk /\ dirty' = dirty
      BY <1>2, <3>1
    <3>3. Flushed(table', disk', dirty')[j] = Flushed(table, disk, dirty)[j]
      BY <1>3, <1>5, <3>2 DEF Flushed
    <3>4. Flushed(table, disk, dirty) = table
      BY <2>2 DEF OnlyTheBufferIsUnsaved
    <3> QED BY <1>3, <1>5, <3>3, <3>4
  <2> QED BY <2>1, <2>2
<1>6. Flushed(table', disk', dirty')[i] = table'[i]
  <2>1. CASE s0 = s2
    <3>1. Flushed(table', disk', dirty')[i] = [name |-> e.name, used |-> e.used, stats |-> e.stats]
      BY <1>1, <1>2, <1>3, <2>1 DEF Flushed
    <3> QED BY <1>3, <3>1, EntryParts
  <2>2. CASE s0 # s2
    <3>1. disk'[i].name = e.name /\ (SectorOf(i, 1) = s0 => disk'[i].used = e.used)
      BY <1>2, <1>3, <2>2 DEF Flushed
    <3>2. Flushed(table', disk', dirty')[i] = [name |-> e.name, used |-> e.used, stats |-> e.stats]
      BY <1>1, <1>2, <1>3, <2>2, <3>1 DEF Flushed
    <3> QED BY <1>3, <3>2, EntryParts
  <2> QED BY <2>1, <2>2
<1>7. Flushed(table', disk', dirty') = table'
  <2>1. Flushed(table', disk', dirty') \in [Slots -> Entry]
    BY <1>3, <1>4, FlushedType
  <2>2. \A j \in Slots : Flushed(table', disk', dirty')[j] = table'[j]
    BY <1>5, <1>6
  <2> HIDE DEF s0, s2
  <2> QED BY <1>3, <2>1, <2>2
<1>8. OnlyTheBufferIsUnsaved'
  BY <1>4, <1>7, Values DEF OnlyTheBufferIsUnsaved, Flushed, SectorOf
<1>9. CASE s0 = s2
  BY <1>2, <1>3, <1>4, <1>8, <1>9
<1>10. CASE s0 # s2
  <2>1. dirty = Clean
    BY <1>1, <1>10
  <2>2. disk = table
    BY <2>1 DEF OnlyTheBufferIsUnsaved
  <2>3. ASSUME NEW j \in Slots, j # i PROVE disk'[j] = disk[j]
    <3>1. disk'[j] = [name |-> disk[j].name, used |-> disk[j].used, stats |-> disk[j].stats]
      BY <1>2, <1>3, <1>10, <2>2, <2>3 DEF Flushed
    <3> QED BY <3>1, EntryParts DEF TypeOK
  <2>4. /\ disk'[i].name \in {e.name, disk[i].name}
        /\ disk'[i].used \in {e.used, disk[i].used}
    BY <1>2, <1>3, <1>10 DEF Flushed
  <2> QED BY <1>3, <1>4, <1>8, <2>2, <2>3, <2>4
<1> QED BY <1>9, <1>10

(* The handlers that only read stats.bin, or leave it alone.               *)
LEMMA Looking ==
  ASSUME BufferInv, NEW S, Touch(S), table' = table
  PROVE  /\ table' \in [Slots -> Entry] /\ disk' \in [Slots -> Entry]
         /\ dirty' \in Nat \cup {Clean} /\ OnlyTheBufferIsUnsaved'
BY Touching DEF BufferInv, TypeOK

(* The handlers that do not touch stats.bin at all.                        *)
LEMMA Leaving ==
  ASSUME BufferInv, UNCHANGED stat
  PROVE  /\ table' \in [Slots -> Entry] /\ disk' \in [Slots -> Entry]
         /\ dirty' \in Nat \cup {Clean} /\ OnlyTheBufferIsUnsaved'
BY DEF BufferInv, TypeOK, stat, OnlyTheBufferIsUnsaved, Flushed

(* After the sectors up to an entry were read, or the entry's own, the     *)
(* buffer is clean or holds the entry.                                     *)
LEMMA Positioning ==
  ASSUME BufferInv, NEW i \in Slots, table' = table,
         Touch(SectorsOf(i)) \/ \E j \in Slots : i <= j /\ Touch(SectorsUpTo(j))
  PROVE  dirty' = Clean \/ SectorsOf(i) = {dirty'}
<1>1. CASE Touch(SectorsOf(i))
  BY <1>1, Touching DEF BufferInv
<1>2. CASE \E j \in Slots : i <= j /\ Touch(SectorsUpTo(j))
  <2>1. PICK j \in Slots : i <= j /\ Touch(SectorsUpTo(j))
    BY <1>2
  <2>2. SectorsOf(i) \subseteq SectorsUpTo(j) /\ SectorsOf(i) # {}
    BY <2>1, ScannedSectors
  <2>3. dirty' = Clean \/ SectorsUpTo(j) = {dirty'}
    BY <2>1, Touching DEF BufferInv
  <2> QED BY <2>2, <2>3
<1> QED BY <1>1, <1>2

(* A call of the game changes neither stats.bin nor its buffer.            *)
LEMMA BufferCall == BufferInv /\ Call => BufferInv'
<1> SUFFICES ASSUME BufferInv, Call PROVE BufferInv'
  OBVIOUS
<1> USE CardStoreAssumption, Values
<1>1. TypeOK /\ Calls /\ pc = "idle"
  BY DEF BufferInv, Call
<1>2. /\ UNCHANGED <<table, disk, dirty, files, ondisk, crashes, torn>> /\ UNCHANGED stat
      /\ pc' = "serve"
  BY DEF Call, stat, fat, power
<1>3. /\ req' \in Requests /\ handle' \in [Names -> Slots \cup {None}]
      /\ fileNo' \in Slots \cup {None}
      /\ req'.op # "none"
      /\ req'.op \in {"Create", "Open", "Delete", "Read", "Write", "SetStats"} => req'.name \in Names
      /\ req'.op \in {"FastOpen", "GetStats", "Read", "Write", "SetStats"} => req'.slot \in Slots
      /\ req'.op = "Write" => req'.val \in Data
      /\ req'.op = "SetStats" => req'.val \in Stats
  <2>1. CASE \E op \in {"Create", "Open", "Delete"}, n \in Names :
          /\ req' = [op |-> op, name |-> n, slot |-> None, val |-> Zero]
          /\ handle' = IF op = "Delete" THEN [handle EXCEPT ![n] = None] ELSE handle
          /\ UNCHANGED fileNo
    BY <1>1, <2>1 DEF TypeOK, Requests, Ops
  <2>2. CASE \E op \in {"FastOpen", "GetStats"}, i \in Slots :
          /\ req' = [op |-> op, name |-> IF table[i].used THEN table[i].name ELSE NoName,
                     slot |-> i, val |-> Zero]
          /\ UNCHANGED <<handle, fileNo>>
    <3>1. PICK op \in {"FastOpen", "GetStats"}, i \in Slots :
          /\ req' = [op |-> op, name |-> IF table[i].used THEN table[i].name ELSE NoName,
                     slot |-> i, val |-> Zero]
          /\ UNCHANGED <<handle, fileNo>>
      BY <2>2
    <3>2. table[i].name \in Seq(Letters)
      BY <1>1, EntryParts DEF TypeOK
    <3> QED BY <1>1, <3>1, <3>2 DEF TypeOK, Requests, Ops
  <2>3. CASE \E n \in {m \in Names : handle[m] # None} :
          /\ \/ req' = [op |-> "Read", name |-> n, slot |-> handle[n], val |-> Zero]
             \/ \E d \in Data : req' = [op |-> "Write", name |-> n, slot |-> handle[n], val |-> d]
             \/ \E s \in Stats : req' = [op |-> "SetStats", name |-> n, slot |-> handle[n], val |-> s]
          /\ fileNo' = IF req'.op = "SetStats" THEN fileNo ELSE handle[n]
          /\ UNCHANGED handle
    <3>1. PICK n \in {m \in Names : handle[m] # None} :
          /\ \/ req' = [op |-> "Read", name |-> n, slot |-> handle[n], val |-> Zero]
             \/ \E d \in Data : req' = [op |-> "Write", name |-> n, slot |-> handle[n], val |-> d]
             \/ \E s \in Stats : req' = [op |-> "SetStats", name |-> n, slot |-> handle[n], val |-> s]
          /\ fileNo' = IF req'.op = "SetStats" THEN fileNo ELSE handle[n]
          /\ UNCHANGED handle
      BY <2>3
    <3>2. n \in Names /\ handle[n] \in Slots
      BY <1>1 DEF TypeOK
    <3> QED BY <1>1, <3>1, <3>2 DEF TypeOK, Requests, Ops
  <2> QED BY <2>1, <2>2, <2>3 DEF Call
<1>4. TypeOK'
  BY <1>1, <1>2, <1>3 DEF TypeOK, Places
<1>5. Calls' /\ Positioned'
  BY <1>2, <1>3 DEF Calls, Positioned
<1> QED BY <1>2, <1>4, <1>5, Leaving DEF BufferInv

(* CardCreateFile (Card.c:214-299).                                        *)
LEMMA BufferCreating == BufferInv /\ Creating => BufferInv'
<1> SUFFICES ASSUME BufferInv, Creating PROVE BufferInv'
  OBVIOUS
<1> USE CardStoreAssumption, Values
<1>1. TypeOK /\ Calls /\ Positioned /\ OnlyTheBufferIsUnsaved
  BY DEF BufferInv
<1>2. CASE CreateFind
  <2> DEFINE at == CardFindEntryByName(req.name)
  <2>1. at \in Slots \cup {None} /\ CardFindFreeEntry \in Slots \cup {None}
    BY FindEntry, FindFree
  <2>2. /\ pc = "serve" /\ req.op = "Create" /\ Touch(Scanned(at)) /\ table' = table
        /\ UNCHANGED <<files, ondisk, handle, crashes, torn>>
        /\ \/ pc' = "reply" /\ req' = req /\ fileNo' = fileNo
           \/ /\ pc' \in {"reply", "createOpen"} /\ fileNo' = fileNo
              /\ req' = [req EXCEPT !.slot = CardFindFreeEntry]
              /\ pc' = "createOpen" => req'.slot # None
    BY <1>2 DEF CreateFind, Serving, Reply, GoTo, regs, fat, power
  <2>3. /\ req' \in Requests /\ req'.op = req.op /\ req'.name = req.name
        /\ pc' = "createOpen" => req'.slot \in Slots
    BY <1>1, <2>1, <2>2 DEF TypeOK, Requests
  <2> HIDE DEF at
  <2>4. TypeOK' /\ OnlyTheBufferIsUnsaved'
    BY <1>1, <2>2, <2>3, Looking DEF TypeOK, Places
  <2>5. Calls' /\ Positioned'
    BY <1>1, <2>2, <2>3 DEF Calls, Positioned
  <2> QED BY <2>4, <2>5 DEF BufferInv
<1>3. CASE CreateOpen
  <2>1. req.op = "Create" /\ req.slot \in Slots /\ req.name \in Names
    BY <1>1, <1>3 DEF CreateOpen, Calls
  <2>2. CASE files[req.name] # Absent
    <3>1. /\ UNCHANGED <<files, ondisk, req, handle, crashes, torn>> /\ UNCHANGED stat
          /\ pc' = "reply" /\ fileNo' = 0
      BY <1>3, <2>2 DEF CreateOpen, Reply, stat, power
    <3>2. TypeOK' /\ OnlyTheBufferIsUnsaved'
      BY <1>1, <3>1, Leaving DEF TypeOK, Places
    <3>3. Calls' /\ Positioned'
      BY <1>1, <2>1, <3>1 DEF Calls, Positioned
    <3> QED BY <3>2, <3>3 DEF BufferInv
  <2>3. CASE files[req.name] = Absent
    <3>1. /\ UNCHANGED <<ondisk, req, handle, fileNo, crashes, torn>>
          /\ pc' = "createEntry" /\ files' = [files EXCEPT ![req.name] = "short"]
          /\ Touch(SectorsOf(req.slot)) /\ table' = table
      BY <1>3, <2>3 DEF CreateOpen, GoTo, regs, power
    <3>2. files' \in [Names -> Content]
      BY <1>1, <3>1 DEF TypeOK, Content
    <3>3. TypeOK' /\ OnlyTheBufferIsUnsaved'
      BY <1>1, <3>1, <3>2, Looking DEF TypeOK, Places
    <3>4. Calls'
      BY <1>1, <2>1, <3>1 DEF Calls
    <3>5. Positioned'
      BY <2>1, <3>1, Positioning DEF Positioned
    <3> QED BY <3>3, <3>4, <3>5 DEF BufferInv
  <2> QED BY <2>2, <2>3
<1>4. CASE CreateEntry
  <2> DEFINE e == [name |-> Overlay(req.name, table[req.slot].name), used |-> TRUE, stats |-> Zero]
  <2>1. /\ req.op = "Create" /\ req.slot \in Slots /\ req.name \in Names
        /\ dirty = Clean \/ SectorsOf(req.slot) = {dirty}
    BY <1>1, <1>4 DEF CreateEntry, Calls, Positioned
  <2>2. /\ UNCHANGED <<files, ondisk, req, handle, fileNo, crashes, torn>>
        /\ pc' = "createSync" /\ WriteEntry(req.slot, e)
    BY <1>4 DEF CreateEntry, GoTo, regs, power, fat
  <2>3. e \in Entry
    <3>1. table[req.slot].name \in Seq(Letters) BY <1>1, <2>1, EntryParts DEF TypeOK
    <3>2. Overlay(req.name, table[req.slot].name) \in Seq(Letters) BY <2>1, <3>1, OverlayName
    <3> QED BY <3>2 DEF Entry
  <2> HIDE DEF e
  <2>4. TypeOK' /\ OnlyTheBufferIsUnsaved'
    BY <1>1, <2>1, <2>2, <2>3, Writing DEF TypeOK, Places
  <2>5. Calls' /\ Positioned'
    BY <1>1, <2>1, <2>2 DEF Calls, Positioned
  <2> QED BY <2>4, <2>5 DEF BufferInv
<1>5. CASE CreateSync
  <2>1. /\ UNCHANGED <<files, ondisk, req, handle, fileNo, crashes, torn>>
        /\ pc = "createSync" /\ pc' = "createWindow" /\ SyncStat
    BY <1>5 DEF CreateSync, GoTo, regs, power, fat
  <2>2. table' = table /\ disk' = table /\ dirty' = Clean
    BY <1>1, <2>1, Syncing
  <2>3. TypeOK' /\ OnlyTheBufferIsUnsaved'
    BY <1>1, <2>1, <2>2 DEF TypeOK, Places, OnlyTheBufferIsUnsaved
  <2>4. Calls' /\ Positioned'
    BY <1>1, <2>1 DEF Calls, Positioned
  <2> QED BY <2>3, <2>4 DEF BufferInv
<1>6. CASE CreateWindow
  <2>1. /\ UNCHANGED <<files, req, handle, fileNo, crashes, torn>> /\ UNCHANGED stat
        /\ pc = "createWindow" /\ pc' = "createFill" /\ ondisk' = files
    BY <1>6 DEF CreateWindow, GoTo, regs, power, stat
  <2>2. TypeOK' /\ OnlyTheBufferIsUnsaved'
    BY <1>1, <2>1, Leaving DEF TypeOK, Places
  <2>3. Calls' /\ Positioned'
    BY <1>1, <2>1 DEF Calls, Positioned
  <2> QED BY <2>2, <2>3 DEF BufferInv
<1>7. CASE CreateFill
  <2>1. /\ UNCHANGED <<req, handle, crashes, torn>> /\ UNCHANGED stat
        /\ pc = "createFill" /\ pc' = "reply" /\ fileNo' = req.slot
        /\ files' = [files EXCEPT ![req.name] = Zero] /\ ondisk' = files'
    BY <1>7 DEF CreateFill, Reply, power, stat
  <2>2. files' \in [Names -> Content] /\ req.slot \in Slots
    BY <1>1, <2>1 DEF TypeOK, Content, Calls
  <2>3. TypeOK' /\ OnlyTheBufferIsUnsaved'
    BY <1>1, <2>1, <2>2, Leaving DEF TypeOK, Places
  <2>4. Calls' /\ Positioned'
    BY <1>1, <2>1 DEF Calls, Positioned
  <2> QED BY <2>3, <2>4 DEF BufferInv
<1> QED BY <1>2, <1>3, <1>4, <1>5, <1>6, <1>7 DEF Creating

(* CardDeleteFile (Card.c:191-212).                                        *)
LEMMA BufferDeleting == BufferInv /\ Deleting => BufferInv'
<1> SUFFICES ASSUME BufferInv, Deleting PROVE BufferInv'
  OBVIOUS
<1> USE CardStoreAssumption, Values
<1>1. TypeOK /\ Calls /\ Positioned /\ OnlyTheBufferIsUnsaved
  BY DEF BufferInv
<1>2. CASE DeleteFind
  <2> DEFINE at == CardFindEntryByName(req.name)
  <2>1. at \in Slots \cup {None}
    BY FindEntry
  <2>2. /\ pc = "serve" /\ req.op = "Delete" /\ Touch(Scanned(at)) /\ table' = table
        /\ UNCHANGED <<files, ondisk, handle, fileNo, crashes, torn>>
        /\ req' = [req EXCEPT !.slot = at]
        /\ pc' = IF at = None THEN "reply" ELSE "deleteEntry"
    BY <1>2 DEF DeleteFind, Serving, Reply, GoTo, regs, fat, power
  <2> HIDE DEF at
  <2>3. req' \in Requests /\ req'.op = req.op /\ req'.name = req.name /\ req'.slot = at
    BY <1>1, <2>1, <2>2 DEF TypeOK, Requests
  <2>4. TypeOK' /\ OnlyTheBufferIsUnsaved'
    BY <1>1, <2>2, <2>3, Looking DEF TypeOK, Places
  <2>5. Calls'
    BY <1>1, <2>1, <2>2, <2>3 DEF Calls
  <2>6. Positioned'
    <3>1. CASE at = None
      BY <2>2, <3>1 DEF Positioned
    <3>2. CASE at # None
      <4>1. Touch(SectorsUpTo(at)) /\ at \in Slots /\ at <= at
        BY <2>1, <2>2, <3>2 DEF Scanned
      <4>2. dirty' = Clean \/ SectorsOf(at) = {dirty'}
        BY <2>2, <4>1, Positioning
      <4> QED BY <2>3, <4>1, <4>2 DEF Positioned
    <3> QED BY <3>1, <3>2
  <2> QED BY <2>4, <2>5, <2>6 DEF BufferInv
<1>3. CASE DeleteEntry
  <2>1. /\ req.op = "Delete" /\ req.slot \in Slots /\ req.name \in Names
        /\ dirty = Clean \/ SectorsOf(req.slot) = {dirty}
    BY <1>1, <1>3 DEF DeleteEntry, Calls, Positioned
  <2>2. /\ UNCHANGED <<files, ondisk, req, handle, fileNo, crashes, torn>>
        /\ pc' = "unlink" /\ WriteEntry(req.slot, Free)
    BY <1>3 DEF DeleteEntry, GoTo, regs, power, fat
  <2>3. TypeOK' /\ OnlyTheBufferIsUnsaved'
    BY <1>1, <2>1, <2>2, Writing DEF TypeOK, Places
  <2>4. Calls' /\ Positioned'
    BY <1>1, <2>1, <2>2 DEF Calls, Positioned
  <2> QED BY <2>3, <2>4 DEF BufferInv
<1>4. CASE Unlink
  <2>1. /\ UNCHANGED <<req, handle, fileNo, crashes, torn>> /\ UNCHANGED stat
        /\ pc = "unlink" /\ pc' = "reply"
        /\ files' = [files EXCEPT ![req.name] = Absent] /\ ondisk' = files'
    BY <1>4 DEF Unlink, Reply, power, stat
  <2>2. files' \in [Names -> Content]
    BY <1>1, <2>1 DEF TypeOK, Content
  <2>3. TypeOK' /\ OnlyTheBufferIsUnsaved'
    BY <1>1, <2>1, <2>2, Leaving DEF TypeOK, Places
  <2>4. Calls' /\ Positioned'
    BY <1>1, <2>1 DEF Calls, Positioned
  <2> QED BY <2>3, <2>4 DEF BufferInv
<1> QED BY <1>2, <1>3, <1>4 DEF Deleting

(* Open, FastOpen, GetStats and Read: they read entries and answer.        *)
LEMMA BufferAnswering ==
  ASSUME BufferInv, NEW S, Touch(S), table' = table, pc = "serve", pc' \in {"reply", "off"},
         UNCHANGED <<files, ondisk, req, handle, crashes, torn>>,
         fileNo' \in Slots \cup {None}
  PROVE  BufferInv'
<1>1. TypeOK /\ Calls /\ Positioned /\ OnlyTheBufferIsUnsaved
  BY DEF BufferInv
<1>2. TypeOK' /\ OnlyTheBufferIsUnsaved'
  BY <1>1, Looking DEF TypeOK, Places
<1>3. Calls' /\ Positioned'
  BY <1>1 DEF Calls, Positioned
<1> QED BY <1>2, <1>3 DEF BufferInv

(* The calls that open, read and write a file.                             *)
LEMMA BufferUsing == BufferInv /\ Using => BufferInv'
<1> SUFFICES ASSUME BufferInv, Using PROVE BufferInv'
  OBVIOUS
<1> USE CardStoreAssumption, Values
<1>1. TypeOK /\ Calls /\ Positioned /\ OnlyTheBufferIsUnsaved
  BY DEF BufferInv
<1>2. CASE Open
  <2>1. CardFindEntryByName(req.name) \in Slots \cup {None}
    BY FindEntry
  <2>2. /\ pc = "serve" /\ \E S : Touch(S) /\ table' = table /\ pc' = "reply"
        /\ UNCHANGED <<files, ondisk, req, handle, crashes, torn>>
        /\ fileNo' \in Slots \cup {None}
    BY <1>2, <2>1 DEF Open, Serving, Reply, fat, power
  <2> QED BY <2>2, BufferAnswering
<1>3. CASE FastOpen
  <2>1. /\ pc = "serve" /\ \E S : Touch(S) /\ table' = table /\ pc' \in {"reply", "off"}
        /\ UNCHANGED <<files, ondisk, req, handle, crashes, torn>>
        /\ fileNo' = fileNo
    BY <1>3 DEF FastOpen, Serving, Reply, GoTo, fat, power
  <2> QED BY <1>1, <2>1, BufferAnswering DEF TypeOK
<1>4. CASE GetStats
  <2>1. /\ pc = "serve" /\ \E S : Touch(S) /\ table' = table /\ pc' = "reply"
        /\ UNCHANGED <<files, ondisk, req, handle, crashes, torn>>
        /\ fileNo' = fileNo
    BY <1>4 DEF GetStats, Serving, Reply, fat, power
  <2> QED BY <1>1, <2>1, BufferAnswering DEF TypeOK
<1>5. CASE Read
  <2>1. /\ pc = "serve" /\ \E S : Touch(S) /\ table' = table /\ pc' = "reply"
        /\ UNCHANGED <<files, ondisk, req, handle, crashes, torn>>
        /\ fileNo' = fileNo
    BY <1>5 DEF Read, Serving, fat, power
  <2> QED BY <1>1, <2>1, BufferAnswering DEF TypeOK
<1>6. CASE Write
  <2>1. /\ pc = "serve" /\ \E S : Touch(S) /\ table' = table
        /\ req.op = "Write"
        /\ UNCHANGED <<req, handle, fileNo, crashes, torn>>
        /\ \/ pc' = "off" /\ UNCHANGED <<files, ondisk>>
           \/ /\ pc' = "writeClose" /\ ondisk' = files'
              /\ \E n : files' = [files EXCEPT ![n] = "torn"]
    BY <1>6 DEF Write, Serving, fat, power, regs
  <2>2. files' \in [Names -> Content] /\ ondisk' \in [Names -> Content]
    <3>1. files \in [Names -> Content] /\ ondisk \in [Names -> Content]
      BY <1>1 DEF TypeOK
    <3>2. "torn" \in Content
      BY DEF Content
    <3> QED BY <2>1, <3>1, <3>2
  <2>3. TypeOK' /\ OnlyTheBufferIsUnsaved'
    BY <1>1, <2>1, <2>2, Looking DEF TypeOK, Places
  <2>4. Calls' /\ Positioned'
    BY <1>1, <2>1 DEF Calls, Positioned
  <2> QED BY <2>3, <2>4 DEF BufferInv
<1>7. CASE WriteClose
  <2>1. /\ UNCHANGED <<req, handle, fileNo, crashes, torn>> /\ UNCHANGED stat
        /\ pc = "writeClose" /\ pc' = "reply"
        /\ \E n : files' = [files EXCEPT ![n] = req.val]
        /\ ondisk' = files'
    BY <1>7 DEF WriteClose, Reply, power, stat
  <2>2. req.val \in Data
    BY <1>1, <2>1 DEF Calls
  <2>3. files' \in [Names -> Content]
    BY <1>1, <2>1, <2>2 DEF TypeOK, Content
  <2>4. TypeOK' /\ OnlyTheBufferIsUnsaved'
    BY <1>1, <2>1, <2>3, Leaving DEF TypeOK, Places
  <2>5. Calls' /\ Positioned'
    BY <1>1, <2>1 DEF Calls, Positioned
  <2> QED BY <2>4, <2>5 DEF BufferInv
<1> QED BY <1>2, <1>3, <1>4, <1>5, <1>6, <1>7 DEF Using

(* CARDSetStatus.                                                          *)
LEMMA BufferSetting == BufferInv /\ Setting => BufferInv'
<1> SUFFICES ASSUME BufferInv, Setting PROVE BufferInv'
  OBVIOUS
<1> USE CardStoreAssumption, Values
<1>1. TypeOK /\ Calls /\ Positioned /\ OnlyTheBufferIsUnsaved
  BY DEF BufferInv
<1>2. CASE SetStats
  <2>1. /\ pc = "serve" /\ Touch(SectorsOf(req.slot)) /\ table' = table /\ pc' = "setEntry"
        /\ req.op = "SetStats"
        /\ UNCHANGED <<files, ondisk, req, handle, fileNo, crashes, torn>>
    BY <1>2 DEF SetStats, Serving, GoTo, regs, fat, power
  <2>2. req.slot \in Slots
    BY <1>1, <2>1 DEF Calls
  <2>3. TypeOK' /\ OnlyTheBufferIsUnsaved'
    BY <1>1, <2>1, Looking DEF TypeOK, Places
  <2>4. Calls'
    BY <1>1, <2>1 DEF Calls
  <2>5. Positioned'
    BY <2>1, <2>2, Positioning DEF Positioned
  <2> QED BY <2>3, <2>4, <2>5 DEF BufferInv
<1>3. CASE SetEntry
  <2> DEFINE e == [table[req.slot] EXCEPT !.stats = req.val]
  <2>1. /\ req.op = "SetStats" /\ req.slot \in Slots /\ req.val \in Stats
        /\ dirty = Clean \/ SectorsOf(req.slot) = {dirty}
    BY <1>1, <1>3 DEF SetEntry, Calls, Positioned
  <2>2. /\ UNCHANGED <<files, ondisk, req, handle, fileNo, crashes, torn>>
        /\ pc' = "setSync" /\ WriteEntry(req.slot, e)
    BY <1>3 DEF SetEntry, GoTo, regs, power, fat
  <2>3. e \in Entry
    BY <1>1, <2>1 DEF TypeOK, Entry
  <2> HIDE DEF e
  <2>4. TypeOK' /\ OnlyTheBufferIsUnsaved'
    BY <1>1, <2>1, <2>2, <2>3, Writing DEF TypeOK, Places
  <2>5. Calls' /\ Positioned'
    BY <1>1, <1>3, <2>1, <2>2 DEF Calls, Positioned, SetEntry
  <2> QED BY <2>4, <2>5 DEF BufferInv
<1>4. CASE SetSync
  <2>1. /\ UNCHANGED <<files, req, handle, fileNo, crashes, torn>>
        /\ pc = "setSync" /\ pc' = "reply" /\ SyncStat /\ ondisk' = files
    BY <1>4 DEF SetSync, Reply, power
  <2>2. table' = table /\ disk' = table /\ dirty' = Clean
    BY <1>1, <2>1, Syncing
  <2>3. TypeOK' /\ OnlyTheBufferIsUnsaved'
    BY <1>1, <2>1, <2>2 DEF TypeOK, Places, OnlyTheBufferIsUnsaved
  <2>4. Calls' /\ Positioned'
    BY <1>1, <2>1 DEF Calls, Positioned
  <2> QED BY <2>3, <2>4 DEF BufferInv
<1> QED BY <1>2, <1>3, <1>4 DEF Setting

(* Every step keeps BufferInv.                                             *)
LEMMA BufferNext == BufferInv /\ [Next]_vars => BufferInv'
<1> SUFFICES ASSUME BufferInv, [Next]_vars PROVE BufferInv'
  OBVIOUS
<1> USE CardStoreAssumption, Values
<1>1. TypeOK /\ Calls /\ Positioned /\ OnlyTheBufferIsUnsaved
  BY DEF BufferInv
<1>2. CASE Return
  <2>1. /\ UNCHANGED <<files, ondisk, fileNo, crashes, torn>> /\ UNCHANGED stat
        /\ pc' = "idle" /\ req' = NoCall
    BY <1>2 DEF Return, power, fat, stat
  <2>2. handle' \in [Names -> Slots \cup {None}]
    <3>1. req.op \in {"Create", "Open"} => [handle EXCEPT ![req.name] = fileNo] \in [Names -> Slots \cup {None}]
      BY <1>1 DEF TypeOK
    <3>2. req.op = "FastOpen" => [handle EXCEPT ![req.name] = req.slot] \in [Names -> Slots \cup {None}]
      BY <1>1 DEF TypeOK, Calls
    <3> QED BY <1>1, <1>2, <3>1, <3>2 DEF TypeOK, Return
  <2>3. TypeOK' /\ OnlyTheBufferIsUnsaved'
    BY <1>1, <2>1, <2>2, Leaving DEF TypeOK, Places
  <2>4. Calls' /\ Positioned'
    BY <1>1, <2>1 DEF Calls, Positioned, NoCall
  <2> QED BY <2>3, <2>4 DEF BufferInv
<1>3. CASE Close
  <2>1. /\ UNCHANGED <<files, ondisk, pc, req, fileNo, crashes, torn>> /\ UNCHANGED stat
        /\ handle' \in [Names -> Slots \cup {None}]
    BY <1>1, <1>3 DEF Close, power, fat, stat, TypeOK
  <2>2. TypeOK' /\ OnlyTheBufferIsUnsaved'
    BY <1>1, <2>1, Leaving DEF TypeOK
  <2>3. Calls' /\ Positioned'
    BY <1>1, <2>1 DEF Calls, Positioned, stat
  <2> QED BY <2>2, <2>3 DEF BufferInv
<1>4. CASE MoveWindow
  <2>1. /\ UNCHANGED <<files, pc, req, fileNo, handle, crashes, torn>> /\ UNCHANGED stat
        /\ ondisk' = files
    BY <1>1, <1>4 DEF MoveWindow, power, regs, stat
  <2>2. TypeOK' /\ OnlyTheBufferIsUnsaved'
    BY <1>1, <2>1, Leaving DEF TypeOK
  <2>3. Calls' /\ Positioned'
    BY <1>1, <2>1 DEF Calls, Positioned, stat
  <2> QED BY <2>2, <2>3 DEF BufferInv
<1>5. CASE Crash
  <2>1. /\ table' = disk /\ disk' = disk /\ dirty' = Clean /\ files' = ondisk /\ ondisk' = ondisk
        /\ pc' = "idle" /\ req' = NoCall /\ fileNo' = 0 /\ handle' = [n \in Names |-> None]
        /\ crashes' = crashes + 1 /\ torn' = (torn \/ ~Whole(disk))
    BY <1>5 DEF Crash
  <2>2. torn' \in BOOLEAN
    BY <2>1, Zenon
  <2>3. crashes' \in Nat
    BY <1>1, <2>1 DEF TypeOK
  <2>4. TypeOK'
    BY <1>1, <2>1, <2>2, <2>3 DEF TypeOK, Places
  <2>5. OnlyTheBufferIsUnsaved'
    BY <2>1 DEF OnlyTheBufferIsUnsaved
  <2>6. Calls' /\ Positioned'
    BY <2>1 DEF Calls, Positioned, NoCall
  <2> QED BY <2>4, <2>5, <2>6 DEF BufferInv
<1>6. CASE UNCHANGED vars
  <2>1. /\ UNCHANGED <<files, ondisk, pc, req, fileNo, handle, crashes, torn>> /\ UNCHANGED stat
    BY <1>6 DEF vars, stat
  <2>2. TypeOK' /\ OnlyTheBufferIsUnsaved'
    BY <1>1, <2>1, Leaving DEF TypeOK
  <2>3. Calls' /\ Positioned'
    BY <1>1, <2>1 DEF Calls, Positioned, stat
  <2> QED BY <2>2, <2>3 DEF BufferInv
<1> QED
  BY <1>2, <1>3, <1>4, <1>5, <1>6, BufferCall, BufferCreating, BufferDeleting, BufferUsing,
     BufferSetting DEF Next

(* So the only thing unsaved is ever the buffered sector.                  *)
LEMMA BufferAlways == Spec => []BufferInv
BY BufferInit, BufferNext, PTL DEF Spec

(* Every variable keeps its type.                                          *)
THEOREM StoreTypes == Spec => []TypeOK
<1>1. BufferInv => TypeOK
  BY DEF BufferInv
<1> QED BY <1>1, BufferAlways, PTL
-----------------------------------------------------------------------------
(* TableInv.  CardFindEntryByName compares as many bytes as the name       *)
(* searched for has (Card.c:91): it finds the entry of that name if no     *)
(* name the game uses is the beginning of another one.                     *)
PrefixFree == \A m, n \in Names : IsPrefix(m, n) => m = n

(* Every name starts with itself, and nothing but the empty name starts    *)
(* the empty name.                                                         *)
LEMMA PrefixFacts ==
  ASSUME NEW n \in Seq(Letters)
  PROVE  IsPrefix(n, n) /\ (IsPrefix(n, NoName) => n = NoName)
<1>1. IsPrefix(n, n)
  <2>1. SubSeq(n, 1, Len(n)) = n
    OBVIOUS
  <2> QED BY <2>1 DEF IsPrefix
<1>2. ASSUME IsPrefix(n, NoName) PROVE n = NoName
  <2>1. Len(n) <= 0
    BY <1>2 DEF IsPrefix, NoName
  <2> QED BY <2>1 DEF NoName
<1> QED BY <1>1, <1>2

(* On an untorn card with such names the search finds exactly the entry of *)
(* that name.                                                              *)
LEMMA FindOwnEntry ==
  ASSUME PrefixFree, Rows, NEW n \in Names
  PROVE  \/ CardFindEntryByName(n) \in Slots /\ table[CardFindEntryByName(n)].name = n
         \/ CardFindEntryByName(n) = None /\ \A i \in Slots : table[i].name # n
<1> DEFINE at == CardFindEntryByName(n)
<1>1. n \in Seq(Letters) /\ n # NoName
  BY Values
<1>2. CASE at \in Slots /\ IsPrefix(n, table[at].name)
  <2>1. table[at].name \in Names \cup {NoName}
    BY <1>2 DEF Rows, Named
  <2> QED BY <1>1, <1>2, <2>1, PrefixFacts DEF PrefixFree
<1>3. CASE at = None /\ \A i \in Slots : ~IsPrefix(n, table[i].name)
  BY <1>1, <1>3, PrefixFacts
<1> QED BY <1>2, <1>3, FindEntry

(* Nothing is written to the table: what is on the card becomes what       *)
(* f_read shows, or stays.                                                 *)
LEMMA RowsKept ==
  ASSUME Rows, table' = table, disk' \in {disk, table}
  PROVE  Rows'
<1>1. CASE disk' = disk
  BY <1>1 DEF Rows, Named, Unique, Whole
<1>2. CASE disk' = table
  BY <1>2 DEF Rows, Named, Unique, Whole
<1> QED BY <1>1, <1>2

(* What a call knows of the entries stays true while it goes on.           *)
LEMMA CallRowsKept ==
  ASSUME CallRows, table' = table,
         \/ /\ req' = req
            /\ \/ pc' = pc
               \/ pc' \in {"reply", "off", "writeClose", "setEntry", "setSync"}
               \/ pc = "createOpen" /\ pc' = "createEntry"
               \/ pc = "createSync" /\ pc' = "createWindow"
               \/ pc = "createWindow" /\ pc' = "createFill"
         \/ req'.op \notin {"FastOpen", "GetStats"} /\ pc' \in {"idle", "serve", "reply"}
  PROVE  CallRows'
BY DEF CallRows

(* An entry is written: the table keeps its soundness if the new name is   *)
(* no other entry's, and so does the card with half of the entry on it.    *)
LEMMA RowsWritten ==
  ASSUME TypeOK, Rows, OnlyTheBufferIsUnsaved, NEW i \in Slots, NEW e \in Entry,
         WriteEntry(i, e), dirty = Clean \/ SectorsOf(i) = {dirty},
         e.name \in Names \cup {NoName}, e.used <=> e.name # NoName,
         e.name # NoName => \A j \in Slots : j # i => table[j].name # e.name
  PROVE  Rows'
<1>1. /\ table'[i] = e /\ \A j \in Slots : j # i => table'[j] = table[j]
      /\ \/ disk' = disk
         \/ /\ disk = table
            /\ \A j \in Slots : j # i => disk'[j] = disk[j]
            /\ disk'[i].name \in {e.name, disk[i].name}
  BY Writing
<1>2. Named(table)' /\ Unique(table)'
  BY <1>1 DEF Rows, Named, Unique
<1>3. Named(disk)' /\ Unique(disk)'
  <2>1. CASE disk' = disk
    BY <2>1 DEF Rows, Named, Unique
  <2>2. CASE /\ disk = table
             /\ \A j \in Slots : j # i => disk'[j] = disk[j]
             /\ disk'[i].name \in {e.name, disk[i].name}
    BY <2>2 DEF Rows, Named, Unique
  <2> QED BY <1>1, <2>1, <2>2
<1>4. Whole(table)'
  <2>1. ASSUME NEW j \in Slots PROVE table'[j].used <=> table'[j].name # NoName
    <3>1. CASE j = i
      BY <1>1, <3>1
    <3>2. CASE j # i
      BY <1>1, <3>2 DEF Rows, Whole
    <3> QED BY <3>1, <3>2
  <2> QED BY <2>1 DEF Whole
<1> QED BY <1>2, <1>3, <1>4 DEF Rows

(* A create takes a free entry and a name that no entry has.               *)
LEMMA TableCreating == PrefixFree /\ BufferInv /\ TableInv /\ Creating => TableInv'
<1> SUFFICES ASSUME PrefixFree, BufferInv, TableInv, Creating PROVE TableInv'
  OBVIOUS
<1> USE Values
<1>1. /\ TypeOK /\ Calls /\ Positioned /\ OnlyTheBufferIsUnsaved /\ Rows /\ CallRows
  BY DEF BufferInv, TableInv
<1>2. CASE CreateFind
  <2> DEFINE at == CardFindEntryByName(req.name)
             free == CardFindFreeEntry
  <2>1. /\ pc = "serve" /\ req.op = "Create" /\ Touch(Scanned(at)) /\ table' = table
        /\ \/ pc' = "reply" /\ req' = req
           \/ /\ at = None
              /\ req' = [req EXCEPT !.slot = free]
              /\ pc' = IF req'.slot = None THEN "reply" ELSE "createOpen"
    BY <1>2 DEF CreateFind, Serving, Reply, GoTo, regs
  <2>2. disk' \in {disk, table}
    BY <1>1, <2>1, Touching
  <2>3. req.name \in Names
    BY <1>1, <2>1 DEF Calls
  <2>4. CASE pc' = "reply" /\ req' = req
    BY <1>1, <2>1, <2>2, <2>4, RowsKept, CallRowsKept DEF TableInv
  <2>5. CASE /\ at = None
             /\ req' = [req EXCEPT !.slot = free]
             /\ pc' = IF req'.slot = None THEN "reply" ELSE "createOpen"
    <3>1. req'.op = req.op /\ req'.name = req.name /\ req'.slot = free
      BY <1>1, <2>5 DEF TypeOK, Requests
    <3>2. \A i \in Slots : table[i].name # req.name
      BY <1>1, <2>3, <2>5, FindOwnEntry
    <3>3. free # None => ~table[free].used /\ table[free].name = NoName
      BY <1>1, FindFree DEF Rows, Whole
    <3>4. CallRows'
      BY <1>1, <2>1, <2>5, <3>1, <3>2, <3>3 DEF CallRows
    <3> QED BY <1>1, <2>1, <2>2, <3>4, RowsKept DEF TableInv
  <2> QED BY <2>1, <2>4, <2>5
<1>3. CASE CreateOpen
  <2>1. /\ table' = table /\ req' = req
        /\ \E S : Touch(S) \/ disk' = disk
        /\ pc' = "reply" \/ (pc = "createOpen" /\ pc' = "createEntry")
    BY <1>3 DEF CreateOpen, Reply, GoTo, regs, stat
  <2>2. disk' \in {disk, table}
    BY <1>1, <2>1, Touching
  <2> QED BY <1>1, <2>1, <2>2, RowsKept, CallRowsKept DEF TableInv
<1>4. CASE CreateEntry
  <2> DEFINE e == [name |-> Overlay(req.name, table[req.slot].name), used |-> TRUE, stats |-> Zero]
  <2>1. /\ req.op = "Create" /\ req.slot \in Slots /\ req.name \in Names
        /\ dirty = Clean \/ SectorsOf(req.slot) = {dirty}
        /\ table[req.slot].name = NoName
        /\ \A i \in Slots : table[i].name # req.name
    BY <1>1, <1>4 DEF CreateEntry, Calls, Positioned, CallRows
  <2>2. pc' = "createSync" /\ req' = req /\ WriteEntry(req.slot, e)
    BY <1>4 DEF CreateEntry, GoTo
  <2>3. Overlay(req.name, table[req.slot].name) = req.name
    BY <2>1, OverlayName
  <2>4. e = [name |-> req.name, used |-> TRUE, stats |-> Zero]
    BY <2>3
  <2>5. e \in Entry /\ e.name = req.name /\ e.used
    BY <2>1, <2>4 DEF Entry
  <2> HIDE DEF e
  <2>6. Rows'
    BY <1>1, <2>1, <2>2, <2>5, RowsWritten
  <2>7. table'[req.slot] = e
    <3>1. TypeOK /\ OnlyTheBufferIsUnsaved
      BY <1>1
    <3>2. req.slot \in Slots /\ (dirty = Clean \/ SectorsOf(req.slot) = {dirty})
      BY <2>1
    <3>3. e \in Entry /\ WriteEntry(req.slot, e)
      BY <2>2, <2>5
    <3> QED BY <3>1, <3>2, <3>3, Writing
  <2>8. CallRows'
    BY <2>1, <2>2, <2>4, <2>7 DEF CallRows
  <2> QED BY <2>6, <2>8 DEF TableInv
<1>5. CASE CreateSync
  <2>1. pc = "createSync" /\ pc' = "createWindow" /\ SyncStat /\ req' = req
    BY <1>5 DEF CreateSync, GoTo
  <2>2. table' = table /\ disk' = table
    BY <1>1, <2>1, Syncing
  <2> QED BY <1>1, <2>1, <2>2, RowsKept, CallRowsKept DEF TableInv
<1>6. CASE CreateWindow
  <2>1. pc = "createWindow" /\ pc' = "createFill" /\ table' = table /\ disk' = disk /\ req' = req
    BY <1>6 DEF CreateWindow, GoTo, stat
  <2> QED BY <1>1, <2>1, RowsKept, CallRowsKept DEF TableInv
<1>7. CASE CreateFill
  <2>1. pc' = "reply" /\ table' = table /\ disk' = disk /\ req' = req
    BY <1>7 DEF CreateFill, Reply, stat
  <2> QED BY <1>1, <2>1, RowsKept, CallRowsKept DEF TableInv
<1> QED BY <1>2, <1>3, <1>4, <1>5, <1>6, <1>7 DEF Creating

(* A delete frees the one entry of its name.                               *)
LEMMA TableDeleting == PrefixFree /\ BufferInv /\ TableInv /\ Deleting => TableInv'
<1> SUFFICES ASSUME PrefixFree, BufferInv, TableInv, Deleting PROVE TableInv'
  OBVIOUS
<1> USE Values
<1>1. TypeOK /\ Calls /\ Positioned /\ OnlyTheBufferIsUnsaved /\ Rows /\ CallRows
  BY DEF BufferInv, TableInv
<1>2. CASE DeleteFind
  <2> DEFINE at == CardFindEntryByName(req.name)
  <2>1. /\ pc = "serve" /\ req.op = "Delete" /\ Touch(Scanned(at)) /\ table' = table
        /\ req' = [req EXCEPT !.slot = at]
        /\ pc' = IF at = None THEN "reply" ELSE "deleteEntry"
    BY <1>2 DEF DeleteFind, Serving, Reply, GoTo
  <2>2. disk' \in {disk, table} /\ req.name \in Names
    BY <1>1, <2>1, Touching DEF Calls
  <2>3. at # None => table[at].name = req.name
    BY <1>1, <2>2, FindOwnEntry
  <2>4. req'.op = req.op /\ req'.name = req.name /\ req'.slot = at
    BY <1>1, <2>1 DEF TypeOK, Requests
  <2> HIDE DEF at
  <2>5. CallRows'
    BY <2>1, <2>3, <2>4 DEF CallRows
  <2> QED BY <1>1, <2>1, <2>2, <2>5, RowsKept DEF TableInv
<1>3. CASE DeleteEntry
  <2>1. /\ req.op = "Delete" /\ req.slot \in Slots /\ req.name \in Names
        /\ dirty = Clean \/ SectorsOf(req.slot) = {dirty}
        /\ table[req.slot].name = req.name
    BY <1>1, <1>3 DEF DeleteEntry, Calls, Positioned, CallRows
  <2>2. pc' = "unlink" /\ req' = req /\ WriteEntry(req.slot, Free)
    BY <1>3 DEF DeleteEntry, GoTo
  <2>3. Free.name = NoName /\ ~Free.used
    BY DEF Free
  <2>4. Rows'
    BY <1>1, <2>1, <2>2, <2>3, RowsWritten
  <2>5. table'[req.slot] = Free /\ \A j \in Slots : j # req.slot => table'[j] = table[j]
    BY <1>1, <2>1, <2>2, Writing
  <2>6. ASSUME NEW j \in Slots PROVE table'[j].name # req.name
    <3>1. CASE j = req.slot
      BY <2>1, <2>3, <2>5, <3>1
    <3>2. CASE j # req.slot
      <4>1. table'[j] = table[j] /\ req.name # NoName
        BY <2>1, <2>5, <3>2
      <4>2. Unique(table)
        BY <1>1 DEF Rows
      <4> QED BY <2>1, <3>2, <4>1, <4>2 DEF Unique
    <3> QED BY <3>1, <3>2
  <2>7. CallRows'
    BY <2>1, <2>2, <2>6 DEF CallRows
  <2> QED BY <2>4, <2>7 DEF TableInv
<1>4. CASE Unlink
  <2>1. pc' = "reply" /\ table' = table /\ disk' = disk /\ req' = req
    BY <1>4 DEF Unlink, Reply, stat
  <2> QED BY <1>1, <2>1, RowsKept, CallRowsKept DEF TableInv
<1> QED BY <1>2, <1>3, <1>4 DEF Deleting

(* Opening, reading and writing a file write no entry.                     *)
LEMMA TableUsing == BufferInv /\ TableInv /\ Using => TableInv'
<1> SUFFICES ASSUME BufferInv, TableInv, Using PROVE TableInv'
  OBVIOUS
<1>1. TypeOK /\ OnlyTheBufferIsUnsaved /\ Rows /\ CallRows
  BY DEF BufferInv, TableInv
<1>2. /\ table' = table /\ req' = req /\ pc' \in {"reply", "off", "writeClose"}
      /\ disk' = disk \/ \E S : Touch(S)
  <2>1. CASE Open
    BY <2>1 DEF Open, Reply
  <2>2. CASE FastOpen
    BY <2>2 DEF FastOpen, Reply, GoTo
  <2>3. CASE GetStats
    BY <2>3 DEF GetStats, Reply
  <2>4. CASE Read
    BY <2>4 DEF Read
  <2>5. CASE Write
    BY <2>5 DEF Write
  <2>6. CASE WriteClose
    BY <2>6 DEF WriteClose, Reply, stat
  <2> QED BY <2>1, <2>2, <2>3, <2>4, <2>5, <2>6 DEF Using
<1>3. disk' \in {disk, table}
  BY <1>1, <1>2, Touching
<1> QED BY <1>1, <1>2, <1>3, RowsKept, CallRowsKept DEF TableInv

(* Setting the status of a file leaves its entry's name and length.        *)
LEMMA TableSetting == BufferInv /\ TableInv /\ Setting => TableInv'
<1> SUFFICES ASSUME BufferInv, TableInv, Setting PROVE TableInv'
  OBVIOUS
<1> USE Values
<1>1. TypeOK /\ Calls /\ Positioned /\ OnlyTheBufferIsUnsaved /\ Rows /\ CallRows
  BY DEF BufferInv, TableInv
<1>2. CASE SetStats
  <2>1. pc' = "setEntry" /\ table' = table /\ req' = req /\ Touch(SectorsOf(req.slot))
    BY <1>2 DEF SetStats, GoTo
  <2>2. disk' \in {disk, table}
    BY <1>1, <2>1, Touching
  <2> QED BY <1>1, <2>1, <2>2, RowsKept, CallRowsKept DEF TableInv
<1>3. CASE SetEntry
  <2> DEFINE e == [table[req.slot] EXCEPT !.stats = req.val]
  <2>1. /\ req.op = "SetStats" /\ req.slot \in Slots /\ req.val \in Stats
        /\ dirty = Clean \/ SectorsOf(req.slot) = {dirty}
    BY <1>1, <1>3 DEF SetEntry, Calls, Positioned
  <2>2. pc' = "setSync" /\ req' = req /\ WriteEntry(req.slot, e)
    BY <1>3 DEF SetEntry, GoTo
  <2>3. e \in Entry /\ e.name = table[req.slot].name /\ (e.used <=> table[req.slot].used)
    BY <1>1, <2>1 DEF TypeOK, Entry
  <2> HIDE DEF e
  <2>4. /\ e.name \in Names \cup {NoName}
        /\ e.name # NoName => \A j \in Slots : j # req.slot => table[j].name # e.name
    BY <1>1, <2>1, <2>3 DEF Rows, Named, Unique
  <2>5. e.used <=> e.name # NoName
    BY <1>1, <2>1, <2>3 DEF Rows, Whole
  <2>6. Rows'
    BY <1>1, <2>1, <2>2, <2>3, <2>4, <2>5, RowsWritten
  <2>7. CallRows'
    BY <2>1, <2>2 DEF CallRows
  <2> QED BY <2>6, <2>7 DEF TableInv
<1>4. CASE SetSync
  <2>1. pc' = "reply" /\ SyncStat /\ req' = req
    BY <1>4 DEF SetSync, Reply
  <2>2. table' = table /\ disk' = table
    BY <1>1, <2>1, Syncing
  <2> QED BY <1>1, <2>1, <2>2, RowsKept, CallRowsKept DEF TableInv
<1> QED BY <1>2, <1>3, <1>4 DEF Setting

(* Every step but one that leaves half an entry keeps TableInv.            *)
LEMMA TableNext == PrefixFree /\ BufferInv /\ TableInv /\ [Next]_vars /\ ~torn' => TableInv'
<1> SUFFICES ASSUME PrefixFree, BufferInv, TableInv, [Next]_vars, ~torn' PROVE TableInv'
  OBVIOUS
<1>1. TypeOK /\ Calls /\ OnlyTheBufferIsUnsaved /\ Rows /\ CallRows
  BY DEF BufferInv, TableInv
<1>2. CASE Call
  <2>1. pc' = "serve" /\ table' = table /\ disk' = disk
    BY <1>2 DEF Call, stat
  <2>2. req'.op \in {"FastOpen", "GetStats"} => req'.name = table[req'.slot].name
    <3>1. \/ req'.op \notin {"FastOpen", "GetStats"}
          \/ \E i \in Slots :
               /\ req'.slot = i
               /\ req'.name = IF table[i].used THEN table[i].name ELSE NoName
      BY <1>2 DEF Call
    <3> QED BY <1>1, <3>1 DEF Rows, Whole
  <2>3. CallRows'
    BY <2>1, <2>2 DEF CallRows
  <2> QED BY <1>1, <2>1, <2>3, RowsKept DEF TableInv
<1>3. CASE Return
  <2>1. pc' = "idle" /\ table' = table /\ disk' = disk /\ req'.op = "none"
    BY <1>3 DEF Return, stat, NoCall
  <2> QED BY <1>1, <2>1, RowsKept, CallRowsKept DEF TableInv
<1>4. CASE Close \/ MoveWindow \/ UNCHANGED vars
  <2>1. pc' = pc /\ table' = table /\ disk' = disk /\ req' = req
    BY <1>4 DEF Close, MoveWindow, vars, stat
  <2> QED BY <1>1, <2>1, RowsKept, CallRowsKept DEF TableInv
<1>5. CASE Crash
  <2>1. table' = disk /\ disk' = disk /\ pc' = "idle" /\ req'.op = "none"
    BY <1>5 DEF Crash, NoCall
  <2>2. Whole(disk)
    BY <1>5, Zenon DEF Crash
  <2>3. Rows'
    BY <1>1, <2>1, <2>2 DEF Rows, Named, Unique, Whole
  <2>4. CallRows'
    BY <2>1 DEF CallRows
  <2> QED BY <2>3, <2>4 DEF TableInv
<1> QED BY <1>2, <1>3, <1>4, <1>5, TableCreating, TableDeleting, TableUsing, TableSetting DEF Next
-----------------------------------------------------------------------------
(* DirInv                                                                  *)

(* A step that reads at most, from a place where neither the directory nor *)
(* an entry is half written.                                               *)
LEMMA DirKept ==
  ASSUME DirInv, table' = table, disk' \in {disk, table}, UNCHANGED <<files, ondisk>>,
         pc \in {"idle", "serve", "reply", "createOpen"}, pc' # "setSync"
  PROVE  DirInv'
<1>1. files' = ondisk'
  BY DEF DirInv
<1>2. \A i \in Slots : disk'[i] = table'[i] \/ table'[i] = Free
  BY DEF DirInv
<1>3. ASSUME NEW n \in Names, HasEntry(disk', n), ~HasEntry(table', n) PROVE ondisk'[n] = Absent
  BY <1>3 DEF DirInv
<1> QED BY <1>1, <1>2, <1>3 DEF DirInv, HasEntry

(* An entry is written while the directory stays as it is.                 *)
LEMMA EntryAhead ==
  ASSUME TypeOK, DirInv, OnlyTheBufferIsUnsaved, NEW i \in Slots, NEW e \in Entry,
         WriteEntry(i, e), dirty = Clean \/ SectorsOf(i) = {dirty}, i = req.slot,
         pc \notin {"createSync", "setSync"}
  PROVE  /\ table'[i] = e
         /\ \A j \in Slots : j # i => /\ table'[j] = table[j]
                                      /\ disk'[j] = table'[j] \/ table'[j] = Free
         /\ \/ disk' = disk
            \/ /\ disk = table
               /\ \A j \in Slots : j # i => disk'[j] = disk[j]
               /\ disk'[i].name \in {e.name, disk[i].name}
               /\ disk'[i].used \in {e.used, disk[i].used}
BY Writing DEF DirInv

(* Once its entry is written, the name of a file that is created has one.  *)
LEMMA CreatedEntry ==
  ASSUME BufferInv, TableInv, pc \in {"createSync", "createWindow", "createFill"}
  PROVE  HasEntry(table, req.name)
<1>1. req.slot \in Slots
  BY DEF BufferInv, Calls
<1>2. table[req.slot] = [name |-> req.name, used |-> TRUE, stats |-> Zero]
  BY Zenon DEF TableInv, CallRows
<1>3. table[req.slot].used /\ table[req.slot].name = req.name
  BY <1>2
<1> QED BY <1>1, <1>3, Zenon DEF HasEntry

(* A create: the entry is synced before the file is there.                 *)
LEMMA DirCreating == BufferInv /\ TableInv /\ DirInv /\ Creating => DirInv'
<1> SUFFICES ASSUME BufferInv, TableInv, DirInv, Creating PROVE DirInv'
  OBVIOUS
<1> USE Values
<1>1. TypeOK /\ Calls /\ Positioned /\ OnlyTheBufferIsUnsaved /\ Rows /\ CallRows
  BY DEF BufferInv, TableInv
<1>2. CASE CreateFind
  <2>1. /\ pc = "serve" /\ pc' \in {"reply", "createOpen"} /\ UNCHANGED <<files, ondisk>>
        /\ table' = table /\ \E S : Touch(S)
    BY <1>2 DEF CreateFind, Serving, Reply, GoTo, fat
  <2>2. disk' \in {disk, table}
    BY <1>1, <2>1, Touching
  <2> QED BY <2>1, <2>2, DirKept
<1>3. CASE CreateOpen
  <2>1. CASE files[req.name] # Absent
    <3>1. /\ pc = "createOpen" /\ pc' = "reply" /\ UNCHANGED <<files, ondisk>>
          /\ table' = table /\ disk' = disk
      BY <1>3, <2>1 DEF CreateOpen, Reply, stat
    <3> QED BY <3>1, DirKept
  <2>2. CASE files[req.name] = Absent
    <3>1. /\ pc = "createOpen" /\ pc' = "createEntry" /\ ondisk' = ondisk /\ req' = req
          /\ files' = [files EXCEPT ![req.name] = "short"]
          /\ table' = table /\ Touch(SectorsOf(req.slot))
      BY <1>3, <2>2 DEF CreateOpen, GoTo
    <3>2. disk' \in {disk, table}
      BY <1>1, <3>1, Touching
    <3>3. \A n \in Names \ {req'.name} : files'[n] = ondisk'[n]
      BY <1>1, <3>1 DEF DirInv, TypeOK
    <3>4. \A i \in Slots : disk'[i] = table'[i] \/ table'[i] = Free
      BY <3>1, <3>2 DEF DirInv
    <3>5. ASSUME NEW n \in Names, HasEntry(disk', n), ~HasEntry(table', n) PROVE ondisk'[n] = Absent
      BY <3>1, <3>2, <3>5 DEF DirInv
    <3> QED BY <3>1, <3>3, <3>4, <3>5 DEF DirInv, HasEntry
  <2> QED BY <2>1, <2>2
<1>4. CASE CreateEntry
  <2> DEFINE e == [name |-> Overlay(req.name, table[req.slot].name), used |-> TRUE, stats |-> Zero]
             i == req.slot
  <2>1. /\ i \in Slots /\ req.name \in Names /\ pc = "createEntry"
        /\ dirty = Clean \/ SectorsOf(i) = {dirty}
        /\ table[i].name = NoName
    BY <1>1, <1>4 DEF CreateEntry, Calls, Positioned, CallRows
  <2>2. /\ pc' = "createSync" /\ req' = req /\ UNCHANGED <<files, ondisk>>
        /\ WriteEntry(i, e)
    BY <1>4 DEF CreateEntry, GoTo, fat
  <2>3. Overlay(req.name, table[i].name) = req.name
    BY <2>1, OverlayName
  <2>4. e \in Entry /\ e.name = req.name /\ e.used
    BY <2>1, <2>3 DEF Entry
  <2> HIDE DEF e
  <2>5. /\ table'[i] = e
        /\ \A j \in Slots : j # i => /\ table'[j] = table[j]
                                     /\ disk'[j] = table'[j] \/ table'[j] = Free
        /\ \/ disk' = disk
           \/ /\ disk = table
              /\ \A j \in Slots : j # i => disk'[j] = disk[j]
              /\ disk'[i].name \in {e.name, disk[i].name}
    BY <1>1, <2>1, <2>2, <2>4, EntryAhead
  <2> HIDE DEF i
  <2>6. ASSUME NEW n \in Names, HasEntry(disk', n), ~HasEntry(table', n)
        PROVE  ondisk'[n] = Absent
    <3>1. n # req.name
      <4>1. table'[i] = e /\ i \in Slots /\ e.used /\ e.name = req.name
        BY <2>1, <2>4, <2>5
      <4> QED BY <2>6, <4>1, Zenon DEF HasEntry
    <3>2. ~HasEntry(table, n)
      <4>1. \A j \in Slots : table[j].name = n => table'[j] = table[j]
        BY <2>1, <2>5
      <4> QED BY <2>6, <4>1, Zenon DEF HasEntry
    <3>3. HasEntry(disk, n)
      <4>1. CASE disk' = disk
        BY <2>6, <4>1
      <4>2. CASE /\ disk = table
                 /\ \A j \in Slots : j # i => disk'[j] = disk[j]
                 /\ disk'[i].name \in {e.name, disk[i].name}
        <5>1. \A j \in Slots : disk'[j].name = n => disk'[j] = disk[j]
          BY <2>1, <2>4, <3>1, <4>2
        <5> QED BY <2>6, <5>1, Zenon DEF HasEntry
      <4> QED BY <2>5, <4>1, <4>2
    <3> QED BY <2>1, <2>2, <3>1, <3>2, <3>3 DEF DirInv
  <2>7. files' = ondisk' \/ \A n \in Names \ {req'.name} : files'[n] = ondisk'[n]
    BY <2>1, <2>2 DEF DirInv
  <2>8. i = req'.slot
    BY <2>2 DEF i
  <2> QED BY <2>2, <2>5, <2>6, <2>7, <2>8 DEF DirInv, HasEntry
<1>5. CASE CreateSync
  <2>1. /\ pc = "createSync" /\ pc' = "createWindow" /\ SyncStat /\ req' = req
        /\ UNCHANGED <<files, ondisk>>
    BY <1>5 DEF CreateSync, GoTo, fat
  <2>2. table' = table /\ disk' = table
    BY <1>1, <2>1, Syncing
  <2> QED BY <2>1, <2>2 DEF DirInv, HasEntry
<1>6. CASE CreateWindow
  <2>1. /\ pc = "createWindow" /\ pc' = "createFill" /\ table' = table /\ disk' = disk /\ req' = req
        /\ files' = files /\ ondisk' = files
    BY <1>6 DEF CreateWindow, GoTo, stat
  <2>2. HasEntry(table, req.name)
    BY <2>1, CreatedEntry
  <2>3. ASSUME NEW n \in Names, HasEntry(disk', n), ~HasEntry(table', n) PROVE ondisk'[n] = Absent
    <3>1. n # req.name /\ ondisk[n] = Absent
      BY <2>1, <2>2, <2>3 DEF DirInv
    <3> QED BY <2>1, <3>1 DEF DirInv
  <2> QED BY <2>1, <2>3 DEF DirInv, HasEntry
<1>7. CASE CreateFill
  <2>1. /\ pc = "createFill" /\ pc' = "reply" /\ table' = table /\ disk' = disk /\ req' = req
        /\ files' = [files EXCEPT ![req.name] = Zero] /\ ondisk' = files'
    BY <1>7 DEF CreateFill, Reply, stat
  <2>2. HasEntry(table, req.name)
    BY <2>1, CreatedEntry
  <2>3. ASSUME NEW n \in Names, HasEntry(disk', n), ~HasEntry(table', n) PROVE ondisk'[n] = Absent
    <3>1. n # req.name /\ ondisk[n] = Absent /\ files = ondisk
      BY <2>1, <2>2, <2>3 DEF DirInv
    <3> QED BY <1>1, <2>1, <3>1 DEF TypeOK
  <2> QED BY <2>1, <2>3 DEF DirInv, HasEntry
<1> QED BY <1>2, <1>3, <1>4, <1>5, <1>6, <1>7 DEF Creating

(* A delete: the entry may stay on the card, but its file does not.        *)
LEMMA DirDeleting == BufferInv /\ TableInv /\ DirInv /\ Deleting => DirInv'
<1> SUFFICES ASSUME BufferInv, TableInv, DirInv, Deleting PROVE DirInv'
  OBVIOUS
<1> USE Values
<1>1. TypeOK /\ Calls /\ Positioned /\ OnlyTheBufferIsUnsaved /\ Rows /\ CallRows
  BY DEF BufferInv, TableInv
<1>2. CASE DeleteFind
  <2>1. /\ pc = "serve" /\ pc' \in {"reply", "deleteEntry"} /\ UNCHANGED <<files, ondisk>>
        /\ table' = table /\ \E S : Touch(S)
    BY <1>2 DEF DeleteFind, Serving, Reply, GoTo, fat
  <2>2. disk' \in {disk, table}
    BY <1>1, <2>1, Touching
  <2> QED BY <2>1, <2>2, DirKept
<1>3. CASE DeleteEntry
  <2> DEFINE i == req.slot
  <2>1. /\ i \in Slots /\ req.name \in Names /\ pc = "deleteEntry"
        /\ dirty = Clean \/ SectorsOf(i) = {dirty}
        /\ table[i].name = req.name
    BY <1>1, <1>3 DEF DeleteEntry, Calls, Positioned, CallRows
  <2>2. /\ pc' = "unlink" /\ req' = req /\ UNCHANGED <<files, ondisk>> /\ WriteEntry(i, Free)
    BY <1>3 DEF DeleteEntry, GoTo, fat
  <2>3. Free.name = NoName /\ ~Free.used
    BY DEF Free
  <2>4. /\ table'[i] = Free
        /\ \A j \in Slots : j # i => /\ table'[j] = table[j]
                                     /\ disk'[j] = table'[j] \/ table'[j] = Free
        /\ \/ disk' = disk
           \/ /\ disk = table
              /\ \A j \in Slots : j # i => disk'[j] = disk[j]
              /\ disk'[i].name \in {Free.name, disk[i].name}
    BY <1>1, <2>1, <2>2, EntryAhead
  <2> HIDE DEF i
  <2>5. ASSUME NEW n \in Names, HasEntry(disk', n), ~HasEntry(table', n), n # req.name
        PROVE  ondisk'[n] = Absent
    <3>1. ~HasEntry(table, n)
      <4>1. \A j \in Slots : table[j].name = n => table'[j] = table[j]
        BY <2>1, <2>4, <2>5
      <4> QED BY <2>5, <4>1, Zenon DEF HasEntry
    <3>2. HasEntry(disk, n)
      <4>1. CASE disk' = disk
        BY <2>5, <4>1
      <4>2. CASE /\ disk = table
                 /\ \A j \in Slots : j # i => disk'[j] = disk[j]
                 /\ disk'[i].name \in {Free.name, disk[i].name}
        <5>1. \A j \in Slots : disk'[j].name = n => disk'[j] = disk[j]
          BY <2>1, <2>3, <2>5, <4>2
        <5> QED BY <2>5, <5>1, Zenon DEF HasEntry
      <4> QED BY <2>4, <4>1, <4>2
    <3> QED BY <2>1, <2>2, <3>1, <3>2 DEF DirInv
  <2>6. files' = ondisk'
    BY <2>1, <2>2 DEF DirInv
  <2> QED BY <2>2, <2>4, <2>5, <2>6 DEF DirInv, HasEntry
<1>4. CASE Unlink
  <2>1. /\ pc = "unlink" /\ pc' = "reply" /\ table' = table /\ disk' = disk /\ req' = req
        /\ files' = [files EXCEPT ![req.name] = Absent] /\ ondisk' = files'
    BY <1>4 DEF Unlink, Reply, stat
  <2>2. ASSUME NEW n \in Names, HasEntry(disk', n), ~HasEntry(table', n) PROVE ondisk'[n] = Absent
    <3>1. n = req.name \/ ondisk[n] = Absent
      BY <2>1, <2>2 DEF DirInv
    <3>2. files = ondisk
      BY <2>1 DEF DirInv
    <3> QED BY <1>1, <2>1, <3>1, <3>2 DEF TypeOK
  <2> QED BY <2>1, <2>2 DEF DirInv, HasEntry
<1> QED BY <1>2, <1>3, <1>4 DEF Deleting

(* What is written to a file is a file that has an entry.                  *)
LEMMA DirUsing == BufferInv /\ TableInv /\ DirInv /\ Using => DirInv'
<1> SUFFICES ASSUME BufferInv, TableInv, DirInv, Using PROVE DirInv'
  OBVIOUS
<1> USE Values
<1>1. TypeOK /\ Calls /\ Positioned /\ OnlyTheBufferIsUnsaved /\ Rows /\ CallRows
  BY DEF BufferInv, TableInv
<1>2. CASE Open \/ FastOpen \/ GetStats \/ Read
  <2>1. /\ pc = "serve" /\ pc' \in {"reply", "off"} /\ UNCHANGED <<files, ondisk>>
        /\ table' = table /\ \E S : Touch(S)
    <3>1. CASE Open
      BY <3>1 DEF Open, Serving, Reply, fat
    <3>2. CASE FastOpen
      BY <3>2 DEF FastOpen, Serving, Reply, GoTo, fat
    <3>3. CASE GetStats
      BY <3>3 DEF GetStats, Serving, Reply, fat
    <3>4. CASE Read
      BY <3>4 DEF Read, Serving, fat
    <3> QED BY <1>2, <3>1, <3>2, <3>3, <3>4
  <2>2. disk' \in {disk, table}
    BY <1>1, <2>1, Touching
  <2> QED BY <2>1, <2>2, DirKept
<1>3. CASE Write \/ WriteClose
  <2> DEFINE n0 == table[req.slot].name
  <2>1. /\ req.slot \in Slots /\ pc \in {"serve", "writeClose"}
        /\ pc' \in {"off", "reply", "writeClose"} /\ req' = req
        /\ table' = table /\ (disk' = disk \/ \E S : Touch(S))
        /\ \/ UNCHANGED <<files, ondisk>>
           \/ \E c : files' = [files EXCEPT ![n0] = c] /\ ondisk' = files'
    BY <1>1, <1>3 DEF Write, WriteClose, Serving, Reply, fat, stat, Calls
  <2>2. disk' \in {disk, table}
    BY <1>1, <2>1, Touching
  <2>3. files = ondisk /\ files' = ondisk'
    BY <2>1 DEF DirInv
  <2>4. \A i \in Slots : disk'[i] = table'[i] \/ table'[i] = Free
    BY <2>1, <2>2 DEF DirInv
  <2>5. ASSUME NEW n \in Names, HasEntry(disk', n), ~HasEntry(table', n) PROVE ondisk'[n] = Absent
    <3>1. ondisk[n] = Absent
      BY <2>1, <2>2, <2>5 DEF DirInv
    <3>2. n0 # n
      BY <1>1, <2>1, <2>5 DEF HasEntry, Rows, Whole
    <3> HIDE DEF n0
    <3> QED BY <1>1, <2>1, <2>3, <3>1, <3>2 DEF TypeOK
  <2> QED BY <2>1, <2>3, <2>4, <2>5 DEF DirInv, HasEntry
<1> QED BY <1>2, <1>3 DEF Using

(* The status of a file is synced with its entry's name in place.          *)
LEMMA DirSetting == BufferInv /\ TableInv /\ DirInv /\ Setting => DirInv'
<1> SUFFICES ASSUME BufferInv, TableInv, DirInv, Setting PROVE DirInv'
  OBVIOUS
<1> USE Values
<1>1. TypeOK /\ Calls /\ Positioned /\ OnlyTheBufferIsUnsaved /\ Rows /\ CallRows
  BY DEF BufferInv, TableInv
<1>2. CASE SetStats
  <2>1. /\ pc = "serve" /\ pc' = "setEntry" /\ UNCHANGED <<files, ondisk>>
        /\ table' = table /\ \E S : Touch(S)
    BY <1>2 DEF SetStats, Serving, GoTo, fat
  <2>2. disk' \in {disk, table}
    BY <1>1, <2>1, Touching
  <2> QED BY <2>1, <2>2, DirKept
<1>3. CASE SetEntry
  <2> DEFINE i == req.slot
             e == [table[i] EXCEPT !.stats = req.val]
  <2>1. /\ i \in Slots /\ req.val \in Stats /\ pc = "setEntry"
        /\ dirty = Clean \/ SectorsOf(i) = {dirty}
    BY <1>1, <1>3 DEF SetEntry, Calls, Positioned
  <2>2. pc' = "setSync" /\ req' = req /\ UNCHANGED <<files, ondisk>> /\ WriteEntry(i, e)
    BY <1>3 DEF SetEntry, GoTo, fat
  <2>3. e \in Entry /\ e.name = table[i].name /\ e.used = table[i].used
    BY <1>1, <2>1 DEF TypeOK, Entry
  <2> HIDE DEF e
  <2>4. /\ table'[i] = e
        /\ \A j \in Slots : j # i => /\ table'[j] = table[j]
                                     /\ disk'[j] = table'[j] \/ table'[j] = Free
        /\ \/ disk' = disk
           \/ /\ disk = table
              /\ \A j \in Slots : j # i => disk'[j] = disk[j]
              /\ disk'[i].name \in {e.name, disk[i].name}
              /\ disk'[i].used \in {e.used, disk[i].used}
    BY <1>1, <2>1, <2>2, <2>3, EntryAhead
  <2>5. \A n \in Names : HasEntry(table', n) <=> HasEntry(table, n)
    <3>1. \A j \in Slots : table'[j].name = table[j].name /\ (table'[j].used <=> table[j].used)
      <4>1. ASSUME NEW j \in Slots
            PROVE  table'[j].name = table[j].name /\ (table'[j].used <=> table[j].used)
        BY <2>3, <2>4
      <4> QED BY <4>1
    <3> QED BY <3>1, Zenon DEF HasEntry
  <2>6. \A n \in Names : HasEntry(disk', n) => HasEntry(disk, n)
    <3>1. CASE disk' = disk
      BY <3>1
    <3>2. CASE /\ disk = table
               /\ \A j \in Slots : j # i => disk'[j] = disk[j]
               /\ disk'[i].name \in {e.name, disk[i].name}
               /\ disk'[i].used \in {e.used, disk[i].used}
      <4>1. disk'[i].name = disk[i].name /\ disk'[i].used = disk[i].used
        BY <2>3, <3>2
      <4> QED BY <2>1, <3>2, <4>1, Zenon DEF HasEntry
    <3> QED BY <2>4, <3>1, <3>2
  <2>7. table[i].used => disk'[i].used /\ disk'[i].name = table[i].name
    <3>1. ASSUME table[i].used PROVE disk[i] = table[i]
      <4>1. ~Free.used
        BY DEF Free
      <4>2. disk[i] = table[i] \/ table[i] = Free
        BY <2>1 DEF DirInv
      <4> QED BY <3>1, <4>1, <4>2
    <3>2. CASE disk' = disk
      BY <3>1, <3>2
    <3>3. CASE /\ disk = table
               /\ \A j \in Slots : j # i => disk'[j] = disk[j]
               /\ disk'[i].name \in {e.name, disk[i].name}
               /\ disk'[i].used \in {e.used, disk[i].used}
      BY <2>3, <3>3
    <3> QED BY <2>4, <3>2, <3>3
  <2>8. files' = ondisk'
    BY <2>1, <2>2 DEF DirInv
  <2>9. ASSUME NEW n \in Names, HasEntry(disk', n), ~HasEntry(table', n) PROVE ondisk'[n] = Absent
    BY <2>1, <2>2, <2>5, <2>6, <2>9 DEF DirInv
  <2>10. i = req'.slot
    BY <2>2
  <2> HIDE DEF i
  <2> QED BY <2>2, <2>3, <2>4, <2>7, <2>8, <2>9, <2>10 DEF DirInv, HasEntry
<1>4. CASE SetSync
  <2>1. pc' = "reply" /\ SyncStat /\ req' = req /\ files' = files /\ ondisk' = files
    BY <1>4 DEF SetSync, Reply
  <2>2. table' = table /\ disk' = table
    BY <1>1, <2>1, Syncing
  <2> QED BY <2>1, <2>2 DEF DirInv, HasEntry
<1> QED BY <1>2, <1>3, <1>4 DEF Setting

(* Every step keeps DirInv.                                                *)
LEMMA DirNext == BufferInv /\ TableInv /\ DirInv /\ [Next]_vars => DirInv'
<1> SUFFICES ASSUME BufferInv, TableInv, DirInv, [Next]_vars PROVE DirInv'
  OBVIOUS
<1>1. TypeOK /\ Calls /\ Rows /\ CallRows
  BY DEF BufferInv, TableInv
<1>2. CASE Call \/ Return \/ Close
  <2>1. /\ table' = table /\ disk' = disk /\ UNCHANGED <<files, ondisk>>
        /\ pc \in {"idle", "reply"} /\ pc' \in {"serve", "idle"}
    BY <1>2 DEF Call, Return, Close, stat, fat
  <2> QED BY <2>1, DirKept
<1>3. CASE MoveWindow
  <2>1. pc' = pc /\ table' = table /\ disk' = disk /\ req' = req /\ files' = files /\ ondisk' = files
    BY <1>3 DEF MoveWindow, stat
  <2>2. ASSUME NEW n \in Names, HasEntry(disk', n), ~HasEntry(table', n)
        PROVE ondisk'[n] = Absent \/ (n = req.name /\ pc \in {"createEntry", "unlink"})
    <3>1. pc \in {"createSync", "createWindow"} => HasEntry(table, req.name)
      BY CreatedEntry
    <3>2. ondisk[n] = Absent \/ (n = req.name /\ pc \in {"createEntry", "unlink"})
      BY <2>1, <2>2 DEF DirInv
    <3> QED BY <2>1, <2>2, <3>1, <3>2 DEF DirInv
  <2> QED BY <2>1, <2>2 DEF DirInv, HasEntry
<1>4. CASE Crash
  <2>1. table' = disk /\ disk' = disk /\ files' = ondisk /\ ondisk' = ondisk /\ pc' = "idle"
    BY <1>4 DEF Crash
  <2> QED BY <2>1 DEF DirInv, HasEntry
<1>5. CASE UNCHANGED vars
  BY <1>5 DEF vars, DirInv, HasEntry
<1> QED BY <1>2, <1>3, <1>4, <1>5, DirCreating, DirDeleting, DirUsing, DirSetting DEF Next

(* A ghost that is set stays set.                                          *)
LEMMA TornStays == [Next]_vars /\ torn => torn'
<1> SUFFICES ASSUME [Next]_vars, torn PROVE torn'
  OBVIOUS
<1>1. torn' = torn \/ torn' = (torn \/ ~Whole(disk))
  BY Zenon DEF Next, vars, power, Call, Creating, CreateFind, CreateOpen, CreateEntry, CreateSync,
     CreateWindow, CreateFill, Deleting, DeleteFind, DeleteEntry, Unlink, Using, Open, FastOpen,
     GetStats, Read, Write, WriteClose, Setting, SetStats, SetEntry, SetSync, Return, Close,
     MoveWindow, Crash
<1> QED BY <1>1, Zenon

StoreInv == BufferInv /\ (~torn => TableInv /\ DirInv)

(* TableInv and DirInv hold of an empty card.                              *)
LEMMA StoreInit == Init => StoreInv
<1> SUFFICES ASSUME Init PROVE StoreInv
  OBVIOUS
<1> USE Values
<1>1. \A i \in Slots : table[i] = Free /\ disk[i] = Free
  BY DEF Init
<1>2. Free.name = NoName /\ ~Free.used
  BY DEF Free
<1>3. Rows
  BY <1>1, <1>2 DEF Rows, Named, Unique, Whole
<1>4. pc = "idle" /\ req.op = "none"
  BY DEF Init
<1>5. CallRows
  BY <1>4 DEF CallRows
<1>6. DirInv
  BY <1>1, <1>2, <1>4 DEF Init, DirInv, HasEntry
<1> QED BY <1>3, <1>5, <1>6, BufferInit DEF StoreInv, TableInv

(* Every step keeps BufferInv and, until half an entry is left behind,     *)
(* both.                                                                   *)
LEMMA StoreNext == PrefixFree /\ StoreInv /\ [Next]_vars => StoreInv'
<1> SUFFICES ASSUME PrefixFree, StoreInv, [Next]_vars PROVE StoreInv'
  OBVIOUS
<1>1. BufferInv'
  BY BufferNext DEF StoreInv
<1>2. ASSUME ~torn' PROVE TableInv' /\ DirInv'
  <2>1. ~torn
    BY <1>2, TornStays
  <2> QED BY <1>2, <2>1, TableNext, DirNext DEF StoreInv
<1> QED BY <1>1, <1>2 DEF StoreInv

(* So they always hold.                                                    *)
LEMMA StoreAlways == ASSUME PrefixFree PROVE Spec => []StoreInv
BY StoreInit, StoreNext, PTL DEF Spec

(* Nothing written to stats.bin is forgotten, and no two entries carry the *)
(* same name, in memory or on the card (Card.c:59-98, 191-299).            *)
THEOREM TableIsSound == ASSUME PrefixFree PROVE Spec => []TableSound
<1>1. ASSUME StoreInv PROVE TableSound
  <2>1. OnlyTheBufferIsUnsaved
    BY <1>1 DEF StoreInv, BufferInv
  <2>2. ASSUME ~torn, NEW t \in {table, disk}, NEW i \in Slots, NEW j \in Slots,
               t[i].name = t[j].name, t[i].name # NoName
        PROVE  i = j
    BY <1>1, <2>2 DEF StoreInv, TableInv, Rows, Unique
  <2> QED BY <2>1, <2>2 DEF TableSound
<1> QED BY <1>1, StoreAlways, PTL

(* An entry that is not the same on the card lies in the buffered sector.  *)
LEMMA UnsavedEntry ==
  ASSUME BufferInv, NEW i \in Slots, disk[i] # table[i]
  PROVE  dirty \in SectorsOf(i)
<1> SUFFICES ASSUME dirty \notin SectorsOf(i) PROVE FALSE
  OBVIOUS
<1>1. dirty # Clean /\ Flushed(table, disk, dirty) = table
  BY DEF BufferInv, OnlyTheBufferIsUnsaved
<1>2. SectorOf(i, 0) # dirty /\ SectorOf(i, 1) # dirty /\ SectorOf(i, 2) # dirty
  BY EntrySectors, Values
<1>3. Flushed(table, disk, dirty)[i] =
        [name |-> disk[i].name, used |-> disk[i].used, stats |-> disk[i].stats]
  BY <1>2 DEF Flushed
<1> QED BY <1>1, <1>3, EntryParts DEF BufferInv, TypeOK

(* A loss of power newly damages, apart from the file of the call under    *)
(* way, only files that were deleted since the sector of their entry was   *)
(* last written back: CardDeleteFile does not sync (Card.c:206-212).       *)
THEOREM DamageIsUnsavedDeletes == ASSUME PrefixFree PROVE Spec => []OnlyUnsavedDeletesAreDamaged
<1>1. ASSUME StoreInv PROVE OnlyUnsavedDeletesAreDamaged
  <2> SUFFICES ASSUME ~torn,
                      NEW n \in Damaged(disk, ondisk) \ (Damaged(table, files) \cup {req.name})
               PROVE  /\ ondisk[n] = Absent
                      /\ \E i \in Slots : disk[i].name = n /\ dirty \in SectorsOf(i)
    BY DEF OnlyUnsavedDeletesAreDamaged
  <2>1. BufferInv /\ TypeOK /\ Calls /\ CallRows /\ Rows /\ DirInv
    BY <1>1 DEF StoreInv, TableInv, BufferInv
  <2>2. n \in Names /\ n # req.name /\ ondisk[n] = files[n]
    BY <2>1 DEF Damaged, DirInv
  <2>3. HasEntry(disk, n) # (ondisk[n] # Absent) /\ ~(HasEntry(table, n) # (ondisk[n] # Absent))
    BY <2>2, Zenon DEF Damaged
  <2>4. CASE HasEntry(disk, n) /\ ~HasEntry(table, n)
    <3>1. ondisk[n] = Absent
      BY <2>3, <2>4, Zenon
    <3>2. PICK i \in Slots : disk[i].used /\ disk[i].name = n
      BY <2>4, Zenon DEF HasEntry
    <3>3. disk[i] # table[i]
      BY <2>4, <3>2, Zenon DEF HasEntry
    <3> QED BY <2>1, <3>1, <3>2, <3>3, UnsavedEntry
  <2>5. CASE HasEntry(table, n) /\ ~HasEntry(disk, n)
    <3>1. PICK i \in Slots : table[i].used /\ table[i].name = n
      BY <2>5, Zenon DEF HasEntry
    <3>2. ~(disk[i].used /\ disk[i].name = n)
      BY <2>5, Zenon DEF HasEntry
    <3>3. disk[i] # table[i]
      BY <3>1, <3>2, Zenon
    <3>4. table[i] # Free
      <4>1. ~Free.used
        BY DEF Free
      <4> QED BY <3>1, <4>1, Zenon
    <3>5. i = req.slot /\ pc \in {"createSync", "setSync"}
      BY <2>1, <3>3, <3>4 DEF DirInv
    <3>6. CASE pc = "createSync"
      <4>1. table[req.slot] = [name |-> req.name, used |-> TRUE, stats |-> Zero]
        BY <2>1, <3>6, Zenon DEF CallRows
      <4>2. table[i].name = req.name
        BY <3>5, <4>1
      <4> QED BY <2>2, <3>1, <4>2
    <3>7. CASE pc = "setSync"
      <4>1. table[req.slot].used
        BY <3>1, <3>5, Zenon
      <4>2. disk[req.slot].used /\ disk[req.slot].name = table[req.slot].name
        BY <2>1, <3>7, <4>1, Zenon DEF DirInv
      <4> QED BY <3>1, <3>2, <3>5, <4>2, Zenon
    <3> QED BY <3>5, <3>6, <3>7
  <2>6. \/ HasEntry(disk, n) /\ ~HasEntry(table, n)
        \/ HasEntry(table, n) /\ ~HasEntry(disk, n)
    BY <2>3, Zenon DEF HasEntry
  <2> QED BY <2>4, <2>5, <2>6
<1> QED BY <1>1, StoreAlways, PTL
-----------------------------------------------------------------------------
(* HandleInv.  When the table is full CardCreateFile returns without       *)
(* writing CARD_SRETURN (Card.c:230), and the game takes the answer of an  *)
(* earlier call for it: so the game must not use more names than there are *)
(* entries.                                                                *)
TableHasRoom == IsFiniteSet(Names) /\ Cardinality(Names) <= MaxFiles

(* Then an entry is free when a name has none.                             *)
LEMMA RoomForOne ==
  ASSUME TableHasRoom, Rows, TypeOK, NEW n \in Names, \A i \in Slots : table[i].name # n
  PROVE  \E i \in Slots : ~table[i].used
<1> SUFFICES ASSUME \A i \in Slots : table[i].used PROVE FALSE
  OBVIOUS
<1> DEFINE T == Names \ {n}
           f == [i \in Slots |-> table[i].name]
<1>1. f \in [Slots -> T]
  <2>1. ASSUME NEW i \in Slots PROVE table[i].name \in T
    BY <2>1 DEF Rows, Named, Whole
  <2> QED BY <2>1
<1>2. IsFiniteSet(Slots) /\ Cardinality(Slots) = MaxFiles
  <2>1. 0 \in Int /\ MaxFiles - 1 \in Int /\ MaxFiles \in Nat /\ MaxFiles > 0
    BY CardStoreAssumption
  <2> QED BY <2>1, FS_Interval DEF Slots
<1>3. IsFiniteSet(T) /\ Cardinality(T) = Cardinality(Names) - 1 /\ Cardinality(Names) \in Nat
  BY FS_RemoveElement, FS_CardinalityType DEF TableHasRoom
<1>4. Cardinality(T) < Cardinality(Slots)
  BY <1>2, <1>3, CardStoreAssumption DEF TableHasRoom
<1> HIDE DEF T, f
<1>5. \E i, j \in Slots : i # j /\ f[i] = f[j]
  BY <1>1, <1>2, <1>3, <1>4, FS_PigeonHole
<1> QED
  BY <1>5 DEF f, Rows, Unique, Whole

(* The numbers the game holds are still those of its files when the names  *)
(* and the files they stand for stay.                                      *)
Held == \A n \in Names : handle[n] # None => table[handle[n]].name = n /\ files[n] # Absent

(* Steps that change no name and no file, nor the call.                    *)
LEMMA HandleKept ==
  ASSUME TypeOK, HandleInv, UNCHANGED <<table, files, handle, req>>,
         pc' # "off",
         pc' \in {"createEntry", "createSync", "createWindow", "createFill"} =>
           pc \in {"createEntry", "createSync", "createWindow", "createFill"},
         pc' = "reply" /\ ret' = "success" /\ req.name \in Names =>
           /\ req.op \in {"Create", "Open"} =>
                fileNo' \in Slots /\ table[fileNo'].name = req.name /\ files[req.name] # Absent
           /\ req.op = "FastOpen" => files[req.name] # Absent
  PROVE  HandleInv'
BY DEF HandleInv

(* A create answers with the entry of its name.                            *)
LEMMA HandleCreating ==
  PrefixFree /\ TableHasRoom /\ BufferInv /\ TableInv /\ HandleInv /\ Creating => HandleInv'
<1> SUFFICES ASSUME PrefixFree, TableHasRoom, BufferInv, TableInv, HandleInv, Creating
             PROVE  HandleInv'
  OBVIOUS
<1> USE Values
<1>1. /\ TypeOK /\ Calls /\ Positioned /\ OnlyTheBufferIsUnsaved /\ Rows /\ CallRows
  BY DEF BufferInv, TableInv
<1>2. CASE CreateFind
  <2> DEFINE at == CardFindEntryByName(req.name)
             free == CardFindFreeEntry
  <2>1. req.op = "Create" /\ req.name \in Names /\ pc = "serve"
    BY <1>1, <1>2 DEF CreateFind, Serving, Calls
  <2>2. CASE at # None
    <3>1. /\ UNCHANGED <<table, files, handle, req>> /\ pc' = "reply" /\ ret' = "exists"
      BY <1>2, <2>2 DEF CreateFind, Reply, fat
    <3> QED BY <1>1, <3>1, HandleKept
  <2>3. CASE at = None
    <3>1. \A i \in Slots : table[i].name # req.name
      BY <1>1, <2>1, <2>3, FindOwnEntry
    <3>2. free # None
      BY <1>1, <2>1, <3>1, RoomForOne, FindFree
    <3>3. /\ UNCHANGED <<table, files, handle>>
          /\ req' = [req EXCEPT !.slot = free]
          /\ pc' = IF req'.slot = None THEN "reply" ELSE "createOpen"
      BY <1>2, <2>3 DEF CreateFind, GoTo, fat
    <3>4. req'.op = req.op /\ req'.name = req.name /\ req'.slot = free
      BY <1>1, <3>3 DEF TypeOK, Requests
    <3> HIDE DEF free
    <3>5. pc' = "createOpen"
      BY <3>2, <3>3, <3>4
    <3> QED BY <2>1, <3>3, <3>4, <3>5 DEF HandleInv
  <2> QED BY <2>2, <2>3
<1>3. CASE CreateOpen
  <2>1. req.op = "Create" /\ req.name \in Names /\ req.slot \in Slots /\ pc = "createOpen"
    BY <1>1, <1>3 DEF CreateOpen, Calls
  <2>2. CASE files[req.name] # Absent
    <3>1. UNCHANGED <<table, files, handle, req>> /\ pc' = "reply" /\ ret' = "exists"
      BY <1>3, <2>2 DEF CreateOpen, Reply, stat
    <3> QED BY <1>1, <3>1, HandleKept
  <2>3. CASE files[req.name] = Absent
    <3>1. /\ UNCHANGED <<table, handle, req>> /\ pc' = "createEntry"
          /\ files' = [files EXCEPT ![req.name] = "short"]
      BY <1>3, <2>3 DEF CreateOpen, GoTo
    <3>2. files'[req.name] = "short" /\ \A n \in Names : n # req.name => files'[n] = files[n]
      BY <1>1, <2>1, <3>1 DEF TypeOK
    <3>3. \A n \in Names : handle[n] # None => files'[n] # Absent
      BY <3>2 DEF HandleInv, Absent
    <3> QED BY <2>1, <3>1, <3>2, <3>3 DEF HandleInv
  <2> QED BY <2>2, <2>3
<1>4. CASE CreateEntry
  <2> DEFINE e == [name |-> Overlay(req.name, table[req.slot].name), used |-> TRUE, stats |-> Zero]
  <2>1. /\ req.slot \in Slots /\ req.name \in Names /\ pc = "createEntry" /\ req.op = "Create"
        /\ dirty = Clean \/ SectorsOf(req.slot) = {dirty}
        /\ table[req.slot].name = NoName
    BY <1>1, <1>4 DEF CreateEntry, Calls, Positioned, CallRows
  <2>2. /\ pc' = "createSync" /\ UNCHANGED <<req, files, handle>> /\ WriteEntry(req.slot, e)
    BY <1>4 DEF CreateEntry, GoTo, fat
  <2>3. Overlay(req.name, table[req.slot].name) = req.name
    BY <2>1, OverlayName
  <2>4. e \in Entry
    BY <2>1, <2>3 DEF Entry
  <2> HIDE DEF e
  <2>5. \A j \in Slots : j # req.slot => table'[j] = table[j]
    BY <1>1, <2>1, <2>2, <2>4, Writing
  <2>6. \A n \in Names : handle[n] # None => handle[n] \in Slots /\ handle[n] # req.slot
    BY <1>1, <2>1 DEF HandleInv, TypeOK
  <2> QED BY <2>1, <2>2, <2>5, <2>6 DEF HandleInv
<1>5. CASE CreateSync \/ CreateWindow
  <2>1. /\ UNCHANGED <<table, files, handle, req>>
        /\ pc \in {"createSync", "createWindow"} /\ pc' \in {"createWindow", "createFill"}
    BY <1>5 DEF CreateSync, CreateWindow, SyncStat, GoTo, stat, fat
  <2> QED BY <1>1, <2>1, HandleKept
<1>6. CASE CreateFill
  <2>1. /\ UNCHANGED <<table, handle, req>> /\ pc = "createFill" /\ pc' = "reply"
        /\ fileNo' = req.slot /\ files' = [files EXCEPT ![req.name] = Zero]
    BY <1>6 DEF CreateFill, Reply, stat
  <2>2. req.op = "Create" /\ req.name \in Names /\ req.slot \in Slots
    BY <1>1, <2>1 DEF Calls
  <2>3. files'[req.name] = Zero /\ \A n \in Names : n # req.name => files'[n] = files[n]
    BY <1>1, <2>1, <2>2 DEF TypeOK
  <2>4. \A n \in Names : handle[n] # None => files'[n] # Absent
    BY <2>3 DEF HandleInv, Absent, Zero
  <2>5. table[req.slot].name = req.name
    <3>1. table[req.slot] = [name |-> req.name, used |-> TRUE, stats |-> Zero]
      BY <1>1, <2>1, Zenon DEF CallRows
    <3> QED BY <3>1
  <2>6. files'[req.name] # Absent
    BY <2>3 DEF Zero, Absent
  <2> QED BY <2>1, <2>2, <2>4, <2>5, <2>6 DEF HandleInv
<1> QED BY <1>2, <1>3, <1>4, <1>5, <1>6 DEF Creating

(* A delete leaves the other files' entries alone; its own is not in use.  *)
LEMMA HandleDeleting ==
  PrefixFree /\ BufferInv /\ TableInv /\ HandleInv /\ Deleting => HandleInv'
<1> SUFFICES ASSUME PrefixFree, BufferInv, TableInv, HandleInv, Deleting PROVE HandleInv'
  OBVIOUS
<1> USE Values
<1>1. TypeOK /\ Calls /\ Positioned /\ OnlyTheBufferIsUnsaved /\ Rows /\ CallRows
  BY DEF BufferInv, TableInv
<1>2. CASE DeleteFind
  <2>1. /\ UNCHANGED <<table, files, handle>> /\ req.op = "Delete"
        /\ pc' \in {"reply", "deleteEntry"}
        /\ \E at : req' = [req EXCEPT !.slot = at]
    BY <1>2 DEF DeleteFind, Serving, Reply, GoTo, fat
  <2>2. req'.op = req.op /\ req'.name = req.name
    BY <1>1, <2>1 DEF TypeOK, Requests
  <2> QED BY <2>1, <2>2 DEF HandleInv
<1>3. CASE DeleteEntry
  <2>1. /\ req.op = "Delete" /\ req.slot \in Slots /\ req.name \in Names
        /\ dirty = Clean \/ SectorsOf(req.slot) = {dirty}
        /\ table[req.slot].name = req.name
    BY <1>1, <1>3 DEF DeleteEntry, Calls, Positioned, CallRows
  <2>2. pc' = "unlink" /\ UNCHANGED <<req, files, handle>> /\ WriteEntry(req.slot, Free)
    BY <1>3 DEF DeleteEntry, GoTo, fat
  <2>3. \A j \in Slots : j # req.slot => table'[j] = table[j]
    BY <1>1, <2>1, <2>2, Writing
  <2>4. \A n \in Names : handle[n] # None => handle[n] \in Slots /\ handle[n] # req.slot
    BY <1>1, <2>1 DEF HandleInv, TypeOK
  <2> QED BY <2>1, <2>2, <2>3, <2>4 DEF HandleInv
<1>4. CASE Unlink
  <2>1. /\ UNCHANGED <<table, handle, req>> /\ pc' = "reply" /\ pc = "unlink"
        /\ files' = [files EXCEPT ![req.name] = Absent]
    BY <1>4 DEF Unlink, Reply, stat
  <2>2. req.op = "Delete"
    BY <1>1, <2>1 DEF Calls
  <2>3. \A n \in Names : handle[n] # None => files'[n] = files[n]
    BY <1>1, <2>1, <2>2 DEF TypeOK, HandleInv
  <2> QED BY <2>1, <2>2, <2>3 DEF HandleInv
<1> QED BY <1>2, <1>3, <1>4 DEF Deleting

(* An open answers with the entry of its name, and a write keeps its file. *)
LEMMA HandleUsing ==
  PrefixFree /\ BufferInv /\ TableInv /\ HandleInv /\ Using => HandleInv'
<1> SUFFICES ASSUME PrefixFree, BufferInv, TableInv, HandleInv, Using PROVE HandleInv'
  OBVIOUS
<1> USE Values
<1>1. TypeOK /\ Calls /\ Rows /\ CallRows
  BY DEF BufferInv, TableInv
<1>2. CASE Open
  <2> DEFINE at == CardFindEntryByName(req.name)
  <2>1. req.op = "Open" /\ req.name \in Names
    BY <1>1, <1>2 DEF Open, Serving, Calls
  <2>2. /\ UNCHANGED <<table, files, handle, req>> /\ pc' = "reply"
        /\ ret' = "success" => at # None /\ files[req.name] # Absent /\ fileNo' = at
    BY <1>2 DEF Open, Serving, Reply, fat, Exists
  <2>3. at # None => at \in Slots /\ table[at].name = req.name
    BY <1>1, <2>1, FindOwnEntry
  <2> HIDE DEF at
  <2> QED BY <1>1, <2>1, <2>2, <2>3, HandleKept
<1>3. CASE FastOpen
  <2>1. req.op = "FastOpen" /\ req.slot \in Slots /\ req.name = table[req.slot].name
    BY <1>1, <1>3 DEF FastOpen, Serving, Calls, CallRows
  <2>2. ~(table[req.slot].used /\ table[req.slot].name = NoName)
    BY <1>1, <2>1, Zenon DEF Rows, Whole
  <2>3. /\ UNCHANGED <<table, files, handle, req>> /\ pc' = "reply"
        /\ ret' = "success" => Exists(table[req.slot].name)
    BY <1>3, <2>2 DEF FastOpen, Reply, fat
  <2> QED BY <1>1, <2>1, <2>3, HandleKept DEF Exists
<1>4. CASE GetStats \/ Read
  <2>1. /\ UNCHANGED <<table, files, handle, req>> /\ pc' = "reply"
        /\ req.op \in {"GetStats", "Read"}
    BY <1>4 DEF GetStats, Read, Serving, Reply, fat
  <2> QED BY <1>1, <2>1, HandleKept
<1>5. CASE Write
  <2>1. /\ UNCHANGED <<table, handle, req>> /\ req.op = "Write"
        /\ IF Exists(table[req.slot].name)
             THEN files' = [files EXCEPT ![table[req.slot].name] = "torn"] /\ pc' = "writeClose"
             ELSE pc' = "off"
    BY <1>5 DEF Write, Serving
  <2>2. req.name \in Names /\ handle[req.name] = req.slot /\ req.slot # None
    BY <1>1, <2>1 DEF Calls, HandleInv
  <2>3. table[req.slot].name = req.name /\ Exists(req.name)
    BY <2>2 DEF HandleInv, Exists
  <2>4. files' = [files EXCEPT ![req.name] = "torn"] /\ pc' = "writeClose"
    BY <2>1, <2>3
  <2>5. \A n \in Names : handle[n] # None => files'[n] # Absent
    BY <1>1, <2>4 DEF HandleInv, Absent, TypeOK
  <2> QED BY <2>1, <2>4, <2>5 DEF HandleInv
<1>6. CASE WriteClose
  <2>1. /\ UNCHANGED <<table, handle, req>> /\ pc' = "reply" /\ pc = "writeClose"
        /\ files' = [files EXCEPT ![table[req.slot].name] = req.val]
    BY <1>6 DEF WriteClose, Reply, stat
  <2>2. req.op = "Write" /\ req.val \in Data
    BY <1>1, <2>1 DEF Calls
  <2>3. req.val # Absent
    BY <2>2, CardStoreAssumption
  <2>4. \A n \in Names : handle[n] # None => files'[n] # Absent
    BY <1>1, <2>1, <2>3 DEF HandleInv, TypeOK
  <2> QED BY <2>1, <2>2, <2>4 DEF HandleInv
<1> QED BY <1>2, <1>3, <1>4, <1>5, <1>6 DEF Using

(* Setting the status of a file keeps its name.                            *)
LEMMA HandleSetting == BufferInv /\ TableInv /\ HandleInv /\ Setting => HandleInv'
<1> SUFFICES ASSUME BufferInv, TableInv, HandleInv, Setting PROVE HandleInv'
  OBVIOUS
<1> USE Values
<1>1. TypeOK /\ Calls /\ Positioned /\ OnlyTheBufferIsUnsaved
  BY DEF BufferInv, TableInv
<1>2. CASE SetStats
  <2>1. UNCHANGED <<table, files, handle, req>> /\ pc' = "setEntry"
    BY <1>2 DEF SetStats, GoTo, fat
  <2> QED BY <1>1, <2>1, HandleKept
<1>3. CASE SetEntry
  <2> DEFINE e == [table[req.slot] EXCEPT !.stats = req.val]
  <2>1. /\ req.slot \in Slots /\ req.val \in Stats /\ pc = "setEntry" /\ req.op = "SetStats"
        /\ dirty = Clean \/ SectorsOf(req.slot) = {dirty}
    BY <1>1, <1>3 DEF SetEntry, Calls, Positioned
  <2>2. pc' = "setSync" /\ UNCHANGED <<req, files, handle>> /\ WriteEntry(req.slot, e)
    BY <1>3 DEF SetEntry, GoTo, fat
  <2>3. e \in Entry /\ e.name = table[req.slot].name
    BY <1>1, <2>1 DEF TypeOK, Entry
  <2> HIDE DEF e
  <2>4. table'[req.slot] = e /\ \A j \in Slots : j # req.slot => table'[j] = table[j]
    BY <1>1, <2>1, <2>2, <2>3, Writing
  <2>5. \A j \in Slots : table'[j].name = table[j].name
    BY <2>3, <2>4
  <2>6. \A n \in Names : handle[n] # None => handle[n] \in Slots
    BY <1>1 DEF TypeOK
  <2> QED BY <2>1, <2>2, <2>5, <2>6 DEF HandleInv
<1>4. CASE SetSync
  <2>1. /\ UNCHANGED <<table, files, handle, req>> /\ pc' = "reply" /\ pc = "setSync"
    BY <1>4 DEF SetSync, SyncStat, Reply
  <2>2. req.op = "SetStats"
    BY <1>1, <2>1 DEF Calls
  <2> QED BY <1>1, <2>1, <2>2, HandleKept
<1> QED BY <1>2, <1>3, <1>4 DEF Setting

(* Every step keeps HandleInv.                                             *)
LEMMA HandleNext ==
  PrefixFree /\ TableHasRoom /\ BufferInv /\ TableInv /\ HandleInv /\ [Next]_vars => HandleInv'
<1> SUFFICES ASSUME PrefixFree, TableHasRoom, BufferInv, TableInv, HandleInv, [Next]_vars
             PROVE  HandleInv'
  OBVIOUS
<1> USE Values
<1>1. TypeOK /\ Calls /\ Rows /\ CallRows
  BY DEF BufferInv, TableInv
<1>2. CASE Call
  <2>1. UNCHANGED <<table, files>> /\ pc' = "serve"
    BY <1>2 DEF Call, stat, fat
  <2>2. CASE \E op \in {"Create", "Open", "Delete"}, n \in Names :
          /\ req' = [op |-> op, name |-> n, slot |-> None, val |-> Zero]
          /\ handle' = IF op = "Delete" THEN [handle EXCEPT ![n] = None] ELSE handle
    <3>1. PICK op \in {"Create", "Open", "Delete"}, n \in Names :
          /\ req' = [op |-> op, name |-> n, slot |-> None, val |-> Zero]
          /\ handle' = IF op = "Delete" THEN [handle EXCEPT ![n] = None] ELSE handle
      BY <2>2
    <3>2. \A m \in Names : handle'[m] # None => handle'[m] = handle[m]
      BY <1>1, <3>1 DEF TypeOK
    <3>3. req'.op \in {"Create", "Open", "Delete"} /\ (req'.op = "Delete" => handle'[req'.name] = None)
      BY <1>1, <3>1 DEF TypeOK
    <3> QED BY <2>1, <3>2, <3>3 DEF HandleInv
  <2>3. CASE req'.op \in {"FastOpen", "GetStats"} /\ handle' = handle
    BY <2>1, <2>3 DEF HandleInv
  <2>4. CASE /\ req'.op \in {"Read", "Write", "SetStats"} /\ handle' = handle
             /\ req'.slot = handle[req'.name]
    BY <2>1, <2>4 DEF HandleInv
  <2> QED BY <1>2, <2>2, <2>3, <2>4 DEF Call
<1>3. CASE Return
  <2>1. /\ UNCHANGED <<table, files>> /\ pc = "reply" /\ pc' = "idle" /\ req'.op = "none"
    BY <1>3 DEF Return, stat, fat, NoCall
  <2>2. CASE ret = "success" /\ req.name \in Names /\ req.op \in {"Create", "Open"}
    <3>1. handle' = [handle EXCEPT ![req.name] = fileNo]
      BY <1>3, <2>2 DEF Return
    <3>2. table[fileNo].name = req.name /\ files[req.name] # Absent
      BY <2>1, <2>2 DEF HandleInv
    <3>3. Held'
      BY <1>1, <2>1, <2>2, <3>1, <3>2 DEF Held, HandleInv, TypeOK
    <3> QED BY <2>1, <3>3 DEF Held, HandleInv
  <2>3. CASE ret = "success" /\ req.name \in Names /\ req.op = "FastOpen"
    <3>1. handle' = [handle EXCEPT ![req.name] = req.slot]
      BY <1>3, <2>3 DEF Return
    <3>2. table[req.slot].name = req.name /\ files[req.name] # Absent
      BY <1>1, <2>1, <2>3 DEF HandleInv, CallRows
    <3>3. Held'
      BY <1>1, <2>1, <2>3, <3>1, <3>2 DEF Held, HandleInv, TypeOK
    <3> QED BY <2>1, <3>3 DEF Held, HandleInv
  <2>4. CASE handle' = handle
    BY <2>1, <2>4 DEF HandleInv
  <2> QED BY <1>3, <2>2, <2>3, <2>4 DEF Return
<1>4. CASE Close
  <2>1. /\ UNCHANGED <<table, files, pc, req>> /\ pc = "idle"
        /\ \E n \in Names : handle' = [handle EXCEPT ![n] = None]
    BY <1>4 DEF Close, stat, fat
  <2>2. req.op = "none"
    BY <1>1, <2>1 DEF Calls
  <2>3. \A m \in Names : handle'[m] # None => handle'[m] = handle[m]
    BY <1>1, <2>1 DEF TypeOK
  <2> QED BY <2>1, <2>2, <2>3 DEF HandleInv
<1>5. CASE MoveWindow \/ UNCHANGED vars
  <2>1. UNCHANGED <<table, files, handle, req, pc, ret, fileNo>>
    BY <1>5 DEF MoveWindow, vars, stat, regs
  <2> QED BY <2>1 DEF HandleInv
<1>6. CASE Crash
  <2>1. pc' = "idle" /\ req'.op = "none" /\ \A n \in Names : handle'[n] = None
    BY <1>6 DEF Crash, NoCall
  <2> QED BY <2>1 DEF HandleInv
<1> QED BY <1>2, <1>3, <1>4, <1>5, <1>6, HandleCreating, HandleDeleting, HandleUsing,
           HandleSetting DEF Next

IInv == BufferInv /\ (~torn => TableInv /\ DirInv /\ HandleInv)

(* A game that starts holds no file number.                                *)
LEMMA HandleInit == Init => HandleInv
<1> SUFFICES ASSUME Init PROVE HandleInv
  OBVIOUS
<1>1. pc = "idle" /\ req.op = "none" /\ \A n \in Names : handle[n] = None
  BY DEF Init, NoCall
<1> QED BY <1>1 DEF HandleInv

(* The inductive invariant of the whole card emulation.                    *)
LEMMA InvNext == PrefixFree /\ TableHasRoom /\ IInv /\ [Next]_vars => IInv'
<1> SUFFICES ASSUME PrefixFree, TableHasRoom, IInv, [Next]_vars PROVE IInv'
  OBVIOUS
<1>1. BufferInv'
  BY BufferNext DEF IInv
<1>2. ASSUME ~torn' PROVE TableInv' /\ DirInv' /\ HandleInv'
  <2>1. ~torn
    BY <1>2, TornStays
  <2> QED BY <1>2, <2>1, TableNext, DirNext, HandleNext DEF IInv
<1> QED BY <1>1, <1>2 DEF IInv

(* So it always holds.                                                     *)
LEMMA InvAlways == ASSUME PrefixFree, TableHasRoom PROVE Spec => []IInv
<1>1. Init => IInv
  BY StoreInit, HandleInit DEF StoreInv, IInv
<1> QED BY <1>1, InvNext, PTL DEF Spec

(* A game that uses a file only after it opened or created it reaches the  *)
(* entry of that file, and the file is there (Card.c:301-367).             *)
THEOREM HandlesAreOwn == ASSUME PrefixFree, TableHasRoom PROVE Spec => []HandleIsOwn
<1>1. ASSUME IInv PROVE HandleIsOwn
  <2> SUFFICES ASSUME ~torn
               PROVE  /\ \A n \in Names : handle[n] # None =>
                           table[handle[n]].used /\ table[handle[n]].name = n /\ Exists(n)
                      /\ pc # "off"
    BY DEF HandleIsOwn
  <2>1. TypeOK /\ Rows /\ HandleInv
    BY <1>1 DEF IInv, BufferInv, TableInv
  <2>2. ASSUME NEW n \in Names, handle[n] # None
        PROVE  table[handle[n]].used /\ table[handle[n]].name = n /\ Exists(n)
    <3>1. handle[n] \in Slots /\ table[handle[n]].name = n /\ files[n] # Absent
      BY <2>1, <2>2 DEF HandleInv, TypeOK
    <3>2. n # NoName
      BY Values
    <3> QED BY <2>1, <3>1, <3>2 DEF Exists, Rows, Whole
  <2> QED BY <2>1, <2>2 DEF HandleInv
<1> QED BY <1>1, InvAlways, PTL
-----------------------------------------------------------------------------
(* The refinement of SaveSpec: what the game sees, as functions of the     *)
(* table, the files, the place in the handler and the registers.           *)

(* What CARD_SRETURN and the data read may be.                             *)
Answers == /\ ret \in {"none", "success", "nofile", "exists"}
           /\ got \in Content \cup {"none", "garbage"}

(* Every step keeps CARD_SRETURN and the data read within these.           *)
LEMMA AnswersNext == TypeOK /\ Answers /\ [Next]_vars => Answers'
<1> SUFFICES ASSUME TypeOK, Answers, [Next]_vars PROVE Answers'
  OBVIOUS
<1>1. CASE UNCHANGED <<ret, got>>
  BY <1>1 DEF Answers
<1>2. CASE ret' \in {"none", "success", "nofile", "exists"} /\ got' \in {got, "none", "garbage"}
  BY <1>2 DEF Answers
<1>3. CASE Read
  <2>1. ret' = "success" /\ (got' = "garbage" \/ \E n \in Names : got' = files[n])
    BY <1>3 DEF Read, Exists
  <2> QED BY <2>1 DEF Answers, TypeOK
<1>4. CASE Creating
  BY <1>1, <1>2, <1>4 DEF Creating, CreateFind, CreateOpen, CreateEntry, CreateSync, CreateWindow,
     CreateFill, Reply, GoTo, regs
<1>5. CASE Deleting
  BY <1>1, <1>2, <1>5 DEF Deleting, DeleteFind, DeleteEntry, Unlink, Reply, GoTo, regs
<1>6. CASE Using /\ ~Read
  <2>1. CASE Open
    BY <1>2, <2>1 DEF Open, Reply
  <2>2. CASE FastOpen
    BY <1>1, <1>2, <2>2 DEF FastOpen, Reply, GoTo, regs
  <2>3. CASE GetStats
    BY <1>2, <2>3 DEF GetStats, Reply
  <2>4. CASE Write
    BY <1>1, <2>4 DEF Write, regs
  <2>5. CASE WriteClose
    BY <1>2, <2>5 DEF WriteClose, Reply
  <2> QED BY <1>6, <2>1, <2>2, <2>3, <2>4, <2>5 DEF Using
<1>7. CASE Setting
  BY <1>1, <1>2, <1>7 DEF Setting, SetStats, SetEntry, SetSync, Reply, GoTo, regs
<1>8. CASE Call \/ Return \/ Close \/ MoveWindow \/ Crash \/ UNCHANGED vars
  <2>1. \/ UNCHANGED <<ret, got>>
        \/ ret' \in {ret, "none", "success"} /\ got' \in {got, "none"}
    BY <1>8 DEF Call, Return, Close, MoveWindow, Crash, vars, regs
  <2> QED BY <1>1, <2>1 DEF Answers
<1> QED BY <1>3, <1>4, <1>5, <1>6, <1>7, <1>8 DEF Next, Using

DamagedBar == Damaged(table, files) \ UnderWay

SaveAt(t, f, n) ==
  IF HasEntry(t, n) /\ f[n] # Absent
    THEN [data |-> f[n], stats |-> t[CHOOSE j \in Slots : t[j].used /\ t[j].name = n].stats]
    ELSE NoSave

(* The damaged names and the saves, before and after a step.               *)
LEMMA DamagedBarAt ==
  /\ DamagedBar = Damaged(table, files) \ UnderWay
  /\ DamagedBar' = Damaged(table', files') \ UnderWay'
  /\ DamagedBar \subseteq Names /\ DamagedBar' \subseteq Names
<1>1. DamagedBar = Damaged(table, files) \ UnderWay
  BY DEF DamagedBar
<1>2. DamagedBar' = Damaged(table', files') \ UnderWay'
  BY Zenon DEF DamagedBar, Damaged, HasEntry
<1> QED BY <1>1, <1>2 DEF Damaged

(* A name has the save of its entry and file unless a call is making it.   *)
LEMMA SavesBarAt ==
  /\ SavesBar = [n \in Names |-> IF n \in UnderWay THEN NoSave ELSE SaveAt(table, files, n)]
  /\ SavesBar' = [n \in Names |-> IF n \in UnderWay' THEN NoSave ELSE SaveAt(table', files', n)]
<1>1. ASSUME NEW n \in Names
      PROVE  SavesBar[n] = IF n \in UnderWay THEN NoSave ELSE SaveAt(table, files, n)
  BY Zenon DEF SavesBar, SaveAt
<1>2. ASSUME NEW n \in Names
      PROVE  SavesBar'[n] = IF n \in UnderWay' THEN NoSave ELSE SaveAt(table', files', n)
  BY Zenon DEF SavesBar, SaveAt, HasEntry
<1>3. SavesBar = [n \in Names |-> SavesBar[n]] /\ SavesBar' = [n \in Names |-> SavesBar'[n]]
  BY DEF SavesBar
<1> QED BY <1>1, <1>2, <1>3

(* The save of a name is that of the one entry of this name.               *)
LEMMA SaveOfEntry ==
  ASSUME NEW t, Unique(t), NEW f, NEW n \in Names, NEW i \in Slots, t[i].used, t[i].name = n
  PROVE  /\ HasEntry(t, n)
         /\ f[n] # Absent => SaveAt(t, f, n) = [data |-> f[n], stats |-> t[i].stats]
<1>1. HasEntry(t, n)
  BY Zenon DEF HasEntry
<1> DEFINE c == CHOOSE j \in Slots : t[j].used /\ t[j].name = n
<1>2. c \in Slots /\ t[c].name = n
  BY Zenon
<1>3. c = i
  BY <1>2, Values DEF Unique
<1> HIDE DEF c
<1>4. ASSUME f[n] # Absent PROVE SaveAt(t, f, n) = [data |-> f[n], stats |-> t[c].stats]
  BY <1>1, <1>4, Zenon DEF SaveAt, c
<1> QED BY <1>1, <1>3, <1>4

(* The same after a step.                                                  *)
LEMMA SaveNext ==
  ASSUME Unique(table'), NEW n \in Names, NEW i \in Slots, table'[i].used, table'[i].name = n,
         files'[n] # Absent
  PROVE  /\ HasEntry(table', n)
         /\ SaveAt(table', files', n) = [data |-> files'[n], stats |-> table'[i].stats]
BY SaveOfEntry

(* There is no save without both.                                          *)
LEMMA NoSaveThere ==
  ASSUME NEW t, NEW f, NEW n, ~HasEntry(t, n) \/ f[n] = Absent
  PROVE  SaveAt(t, f, n) = NoSave
BY Zenon DEF SaveAt

(* A name is damaged when it has only one of the two.                      *)
LEMMA DamagedIff ==
  ASSUME NEW t, NEW f, NEW n
  PROVE  n \in Damaged(t, f) <=>
           /\ n \in Names
           /\ \/ HasEntry(t, n) /\ f[n] = Absent
              \/ ~HasEntry(t, n) /\ f[n] # Absent
BY Zenon DEF Damaged, HasEntry

(* A save is never NoSave.                                                 *)
LEMMA SaveIsSome ==
  ASSUME NEW d, NEW s, d # Absent
  PROVE  [data |-> d, stats |-> s] # NoSave
BY DEF NoSave

(* A step that leaves the entry and the file of a name as they are.        *)
Same(m) ==
  /\ files'[m] = files[m]
  /\ \A j \in Slots :
       \/ table[j].name # m /\ table'[j].name # m
       \/ /\ table'[j].name = table[j].name
          /\ table'[j].used <=> table[j].used
          /\ table'[j].stats = table[j].stats

(* Such a name has an entry after the step if it had one before.           *)
LEMMA SameHas ==
  ASSUME NEW m, Same(m)
  PROVE  HasEntry(table', m) <=> HasEntry(table, m)
BY Zenon DEF Same, HasEntry

(* It keeps its save, and its damage.                                      *)
LEMMA SameSave ==
  ASSUME Unique(table), Unique(table'), NEW m \in Names, Same(m)
  PROVE  /\ SaveAt(table', files', m) = SaveAt(table, files, m)
         /\ m \in Damaged(table', files') <=> m \in Damaged(table, files)
<1>1. m \in Damaged(table', files') <=> m \in Damaged(table, files)
  BY SameHas, DamagedIff DEF Same
<1>2. CASE ~HasEntry(table, m) \/ files[m] = Absent
  <2>1. ~HasEntry(table', m) \/ files'[m] = Absent
    BY <1>2, SameHas DEF Same
  <2>2. SaveAt(table', files', m) = NoSave /\ SaveAt(table, files, m) = NoSave
    BY <1>2, <2>1, NoSaveThere
  <2> QED BY <1>1, <2>2
<1>3. CASE HasEntry(table, m) /\ files[m] # Absent
  <2>1. PICK i \in Slots : table[i].used /\ table[i].name = m
    BY <1>3, Zenon DEF HasEntry
  <2>2. table'[i].used /\ table'[i].name = m /\ table'[i].stats = table[i].stats
    BY <2>1, Zenon DEF Same
  <2>3. files'[m] = files[m]
    BY DEF Same
  <2>4. SaveAt(table, files, m) = [data |-> files[m], stats |-> table[i].stats]
    BY <1>3, <2>1, SaveOfEntry
  <2>5. SaveAt(table', files', m) = [data |-> files'[m], stats |-> table'[i].stats]
    BY <1>3, <2>2, <2>3, SaveOfEntry
  <2> QED BY <1>1, <2>2, <2>3, <2>4, <2>5
<1> QED BY <1>1, <1>2, <1>3

(* So the game sees no change of it.                                       *)
LEMMA OthersKept ==
  ASSUME Rows, Rows', NEW m \in Names, Same(m), m \in UnderWay' <=> m \in UnderWay
  PROVE  SavesBar'[m] = SavesBar[m] /\ (m \in DamagedBar' <=> m \in DamagedBar)
<1>1. /\ SaveAt(table', files', m) = SaveAt(table, files, m)
      /\ m \in Damaged(table', files') <=> m \in Damaged(table, files)
  BY SameSave DEF Rows
<1>2. SavesBar'[m] = SavesBar[m]
  BY <1>1, SavesBarAt
<1>3. m \in DamagedBar' <=> m \in DamagedBar
  BY <1>1, DamagedBarAt
<1> QED BY <1>2, <1>3

(* Nothing changes when nothing changes of any name.                       *)
LEMMA AllKept ==
  ASSUME \A m \in Names : SavesBar'[m] = SavesBar[m] /\ (m \in DamagedBar' <=> m \in DamagedBar)
  PROVE  SavesBar' = SavesBar /\ DamagedBar' = DamagedBar
BY SavesBarAt, DamagedBarAt

(* Steps that leave table and files alone and neither begin nor end the    *)
(* time in which a file is created or deleted.                             *)
LEMMA StutterKept ==
  ASSUME Rows, Rows', UNCHANGED <<table, files>>, UnderWay' = UnderWay
  PROVE  SavesBar' = SavesBar /\ DamagedBar' = DamagedBar
<1>1. ASSUME NEW m \in Names PROVE Same(m)
  BY Zenon DEF Same
<1> QED BY <1>1, OthersKept, AllKept

(* The call as the game sees it.                                           *)
CallAt(p, r, a, g) ==
  IF p = "idle" THEN [op |-> "none", name |-> NoName, res |-> "none"]
  ELSE [op |-> r.op, name |-> r.name,
        res |-> CASE p = "reply" -> IF r.op = "Read" THEN g ELSE a
                  [] p \in {"unlink", "writeClose", "setSync"} -> "doing"
                  [] OTHER -> "pending"]

(* The call before and after a step.                                       *)
LEMMA CallBarAt == CallBar = CallAt(pc, req, ret, got) /\ CallBar' = CallAt(pc', req', ret', got')
BY Zenon DEF CallBar, CallAt

(* What the game sees of the call at each place of the handler.            *)
LEMMA CallAtPlace ==
  ASSUME NEW p, NEW r, NEW a, NEW g
  PROVE  /\ p = "idle" => CallAt(p, r, a, g) = [op |-> "none", name |-> NoName, res |-> "none"]
         /\ p \in {"serve", "createOpen", "createEntry", "createSync", "createWindow", "createFill",
                   "deleteEntry", "setEntry"} =>
              CallAt(p, r, a, g) = [op |-> r.op, name |-> r.name, res |-> "pending"]
         /\ p \in {"unlink", "writeClose", "setSync"} =>
              CallAt(p, r, a, g) = [op |-> r.op, name |-> r.name, res |-> "doing"]
         /\ p = "reply" /\ r.op = "Read" =>
              CallAt(p, r, a, g) = [op |-> r.op, name |-> r.name, res |-> g]
         /\ p = "reply" /\ r.op # "Read" =>
              CallAt(p, r, a, g) = [op |-> r.op, name |-> r.name, res |-> a]
<1>1. CASE p = "idle"
  BY <1>1 DEF CallAt
<1>2. CASE p \in {"serve", "createOpen", "createEntry", "createSync", "createWindow", "createFill",
                   "deleteEntry", "setEntry"}
  BY <1>2 DEF CallAt
<1>3. CASE p \in {"unlink", "writeClose", "setSync"}
  BY <1>3 DEF CallAt
<1>4. CASE p = "reply" /\ r.op = "Read"
  BY <1>4 DEF CallAt
<1>5. CASE p = "reply" /\ r.op # "Read"
  BY <1>5 DEF CallAt
<1> QED BY <1>1, <1>2, <1>3, <1>4, <1>5

(* What a refining step starts and ends with.                              *)
Sound == IInv /\ Answers /\ ~torn

(* A name has a save when it has an entry and a file, outside a call that  *)
(* creates or deletes it; one of the two alone is damage.                  *)
LEMMA SaveStates ==
  ASSUME NEW m \in Names, m \notin UnderWay
  PROVE  /\ HasEntry(table, m) /\ files[m] # Absent <=> SavesBar[m] # NoSave
         /\ m \in DamagedBar <=> \/ HasEntry(table, m) /\ files[m] = Absent
                                 \/ ~HasEntry(table, m) /\ files[m] # Absent
<1>1. SavesBar[m] = SaveAt(table, files, m)
  BY SavesBarAt
<1>2. m \in DamagedBar <=> \/ HasEntry(table, m) /\ files[m] = Absent
                           \/ ~HasEntry(table, m) /\ files[m] # Absent
  BY DamagedIff DEF DamagedBar
<1>3. CASE HasEntry(table, m) /\ files[m] # Absent
  <2>1. SaveAt(table, files, m) # NoSave
    BY <1>3, SaveIsSome DEF SaveAt
  <2> QED BY <1>1, <1>2, <1>3, <2>1
<1>4. CASE ~HasEntry(table, m) \/ files[m] = Absent
  <2>1. SaveAt(table, files, m) = NoSave
    BY <1>4, NoSaveThere
  <2> QED BY <1>1, <1>2, <1>4, <2>1
<1> QED BY <1>3, <1>4

(* The search, in terms of the saves.                                      *)
LEMMA FoundEntry ==
  ASSUME PrefixFree, Rows, NEW n \in Names
  PROVE  CardFindEntryByName(n) # None <=> HasEntry(table, n)
<1> DEFINE at == CardFindEntryByName(n)
<1>1. CASE at \in Slots /\ table[at].name = n
  <2>1. table[at].used
    BY <1>1, Values, Zenon DEF Rows, Whole
  <2>2. HasEntry(table, n)
    BY <1>1, <2>1, Zenon DEF HasEntry
  <2> QED BY <1>1, <2>2, Values
<1>2. CASE at = None /\ \A i \in Slots : table[i].name # n
  <2>1. ~HasEntry(table, n)
    BY <1>2, Zenon DEF HasEntry
  <2> QED BY <1>2, <2>1
<1> QED BY <1>1, <1>2, FindOwnEntry
-----------------------------------------------------------------------------
(* Each step is a step of SaveSpec or changes nothing the game sees.       *)

Bars == <<SavesBar, DamagedBar, CallBar>>

(* The vocabulary of SaveSpec for a call of op for n.                      *)
LEMMA Vocabulary ==
  ASSUME NEW op, NEW n, NEW r, CallBar = [op |-> op, name |-> n, res |-> r]
  PROVE  /\ Saves!n = n /\ CallBar.op = op /\ CallBar.res = r
         /\ Saves!Exists <=> n # NoName /\ SavesBar[n] # NoSave
         /\ \A s : CallBar' = [op |-> op, name |-> n, res |-> s] => Saves!Done(s)
BY DEF Saves!n, Saves!Exists, Saves!Done

(* CardCreateFile creates the save when the file is filled.                *)
LEMMA CreateStep ==
  PrefixFree /\ TableHasRoom /\ Sound /\ Sound' /\ Creating => Saves!Next \/ UNCHANGED Bars
<1> SUFFICES ASSUME PrefixFree, TableHasRoom, Sound, Sound', Creating
             PROVE  Saves!Next \/ UNCHANGED Bars
  OBVIOUS
<1> USE Values
<1>1. TypeOK /\ Calls /\ Rows /\ CallRows /\ Rows'
  BY DEF Sound, IInv, BufferInv, TableInv
<1>2. CASE CreateFind
  <2>1. req.op = "Create" /\ req.name \in Names /\ pc = "serve"
    BY <1>1, <1>2 DEF CreateFind, Serving, Calls
  <2>2. UNCHANGED <<table, files>> /\ pc' \in {"reply", "createOpen"}
    BY <1>1, <1>2 DEF CreateFind, fat, Reply, GoTo
  <2>3. UnderWay = {} /\ UnderWay' = {}
    BY <2>1, <2>2 DEF UnderWay
  <2>4. SavesBar' = SavesBar /\ DamagedBar' = DamagedBar
    BY <1>1, <2>2, <2>3, StutterKept
  <2>5. CallBar = [op |-> "Create", name |-> req.name, res |-> "pending"]
    BY <2>1, CallBarAt, CallAtPlace
  <2>6. CASE CardFindEntryByName(req.name) # None
    <3>1. pc' = "reply" /\ ret' = "exists" /\ req' = req
      BY <1>2, <2>6 DEF CreateFind, Reply
    <3>2. CallBar' = [op |-> "Create", name |-> req.name, res |-> "exists"]
      BY <2>1, <3>1, CallBarAt, CallAtPlace
    <3>3. HasEntry(table, req.name)
      BY <1>1, <2>1, <2>6, FoundEntry
    <3>4. SavesBar[req.name] # NoSave \/ req.name \in DamagedBar
      BY <2>1, <2>3, <3>3, SaveStates
    <3>5. Saves!Exists \/ Saves!Spoiled
      BY <2>1, <2>5, <3>4, Vocabulary DEF Saves!Spoiled, DamagedBar
    <3>6. Saves!Create
      BY <2>4, <2>5, <3>2, <3>5, Vocabulary DEF Saves!Create, Saves!Asked, DamagedBar
    <3> QED BY <3>6 DEF Saves!Next
  <2>7. CASE CardFindEntryByName(req.name) = None
    <3>1. CardFindFreeEntry # None
      BY <1>1, <2>1, <2>7, FindOwnEntry, RoomForOne, FindFree
    <3>2. req' = [req EXCEPT !.slot = CardFindFreeEntry] /\ (req'.slot # None => pc' = "createOpen")
      BY <1>2, <2>7 DEF CreateFind, GoTo
    <3>3. req'.op = "Create" /\ req'.name = req.name /\ pc' = "createOpen"
      BY <1>1, <2>1, <3>1, <3>2 DEF TypeOK, Requests
    <3>4. CallBar' = CallBar
      BY <2>5, <3>3, CallBarAt, CallAtPlace
    <3> QED BY <2>4, <3>4 DEF Bars
  <2> QED BY <2>6, <2>7
<1>3. CASE CreateOpen
  <2>1. req.op = "Create" /\ req.name \in Names /\ pc = "createOpen" /\ UnderWay = {}
    BY <1>1, <1>3 DEF CreateOpen, Calls, UnderWay
  <2>2. CallBar = [op |-> "Create", name |-> req.name, res |-> "pending"]
    BY <2>1, CallBarAt, CallAtPlace
  <2>3. ~HasEntry(table, req.name)
    BY <1>1, <2>1, Zenon DEF CallRows, HasEntry
  <2>4. CASE files[req.name] # Absent
    <3>1. UNCHANGED <<table, files, req>> /\ pc' = "reply" /\ ret' = "exists"
      BY <1>3, <2>4 DEF CreateOpen, Reply, stat
    <3>2. UnderWay' = {}
      BY <3>1 DEF UnderWay
    <3>3. SavesBar' = SavesBar /\ DamagedBar' = DamagedBar
      BY <1>1, <2>1, <3>1, <3>2, StutterKept
    <3>4. CallBar' = [op |-> "Create", name |-> req.name, res |-> "exists"]
      BY <2>1, <3>1, CallBarAt, CallAtPlace
    <3>5. req.name \in DamagedBar
      BY <2>1, <2>3, <2>4, SaveStates
    <3>6. Saves!Spoiled
      BY <2>2, <3>5, Vocabulary DEF Saves!Spoiled, DamagedBar
    <3>7. Saves!Create
      BY <2>2, <3>3, <3>4, <3>6, Vocabulary DEF Saves!Create, Saves!Asked, DamagedBar
    <3> QED BY <3>7 DEF Saves!Next
  <2>5. CASE files[req.name] = Absent
    <3>1. /\ table' = table /\ req' = req /\ pc' = "createEntry"
          /\ files' = [files EXCEPT ![req.name] = "short"]
      BY <1>3, <2>5 DEF CreateOpen, GoTo
    <3>2. UnderWay' = {req.name}
      BY <3>1 DEF UnderWay
    <3>3. CallBar' = CallBar
      BY <2>1, <2>2, <3>1, CallBarAt, CallAtPlace
    <3>4. ASSUME NEW m \in Names, m # req.name PROVE Same(m)
      <4>1. files'[m] = files[m]
        BY <1>1, <3>1, <3>4 DEF TypeOK
      <4> QED BY <3>1, <4>1, Zenon DEF Same
    <3>5. SavesBar[req.name] = NoSave /\ req.name \notin DamagedBar
      BY <2>1, <2>3, <2>5, SaveStates
    <3>6. SavesBar'[req.name] = NoSave /\ req.name \notin DamagedBar'
      BY <2>1, <3>2, SavesBarAt DEF DamagedBar
    <3>7. ASSUME NEW m \in Names
          PROVE  SavesBar'[m] = SavesBar[m] /\ (m \in DamagedBar' <=> m \in DamagedBar)
      BY <1>1, <2>1, <3>2, <3>4, <3>5, <3>6, OthersKept
    <3> QED BY <3>3, <3>7, AllKept DEF Bars
  <2> QED BY <2>4, <2>5
<1>4. CASE CreateEntry
  <2> DEFINE e == [name |-> Overlay(req.name, table[req.slot].name), used |-> TRUE, stats |-> Zero]
  <2>1. /\ req.slot \in Slots /\ req.name \in Names /\ pc = "createEntry" /\ req.op = "Create"
        /\ dirty = Clean \/ SectorsOf(req.slot) = {dirty}
        /\ table[req.slot].name = NoName
    BY <1>1, <1>4 DEF CreateEntry, Calls, Sound, IInv, BufferInv, Positioned, CallRows
  <2>2. /\ pc' = "createSync" /\ UNCHANGED <<req, files>> /\ WriteEntry(req.slot, e)
    BY <1>4 DEF CreateEntry, GoTo, fat
  <2>3. Overlay(req.name, table[req.slot].name) = req.name
    BY <2>1, OverlayName
  <2>4. e \in Entry /\ e.name = req.name
    BY <2>1, <2>3 DEF Entry
  <2> HIDE DEF e
  <2>5. table'[req.slot] = e /\ \A j \in Slots : j # req.slot => table'[j] = table[j]
    BY <1>1, <2>1, <2>2, <2>4, Writing DEF Sound, IInv, BufferInv
  <2>6. UnderWay = {req.name} /\ UnderWay' = {req.name}
    BY <2>1, <2>2 DEF UnderWay
  <2>7. CallBar' = CallBar
    BY <2>1, <2>2, CallBarAt, CallAtPlace
  <2>8. ASSUME NEW m \in Names, m # req.name PROVE Same(m)
    <3>1. ASSUME NEW j \in Slots
          PROVE  \/ table[j].name # m /\ table'[j].name # m
                 \/ table'[j] = table[j]
      BY <2>1, <2>4, <2>5, <2>8
    <3> QED BY <2>2, <3>1, Zenon DEF Same
  <2>9. /\ SavesBar[req.name] = NoSave /\ req.name \notin DamagedBar
        /\ SavesBar'[req.name] = NoSave /\ req.name \notin DamagedBar'
    BY <2>1, <2>6, SavesBarAt DEF DamagedBar
  <2>10. ASSUME NEW m \in Names
         PROVE  SavesBar'[m] = SavesBar[m] /\ (m \in DamagedBar' <=> m \in DamagedBar)
    BY <1>1, <2>6, <2>8, <2>9, OthersKept
  <2> QED BY <2>7, <2>10, AllKept DEF Bars
<1>5. CASE CreateSync \/ CreateWindow
  <2>1. /\ UNCHANGED <<table, files, req>>
        /\ pc \in {"createSync", "createWindow"} /\ pc' \in {"createWindow", "createFill"}
    BY <1>5 DEF CreateSync, CreateWindow, SyncStat, GoTo, stat, fat
  <2>2. UnderWay' = UnderWay
    BY <2>1 DEF UnderWay
  <2>3. CallBar' = CallBar
    BY <2>1, CallBarAt, CallAtPlace
  <2> QED BY <1>1, <2>1, <2>2, <2>3, StutterKept DEF Bars
<1>6. CASE CreateFill
  <2>1. /\ UNCHANGED <<table, req>> /\ pc = "createFill" /\ pc' = "reply" /\ ret' = "success"
        /\ files' = [files EXCEPT ![req.name] = Zero]
    BY <1>6 DEF CreateFill, Reply, stat
  <2>2. req.op = "Create" /\ req.name \in Names /\ req.slot \in Slots
    BY <1>1, <2>1 DEF Calls
  <2>3. UnderWay = {req.name} /\ UnderWay' = {}
    BY <2>1 DEF UnderWay
  <2>4. /\ CallBar = [op |-> "Create", name |-> req.name, res |-> "pending"]
        /\ CallBar' = [op |-> "Create", name |-> req.name, res |-> "success"]
    BY <2>1, <2>2, CallBarAt, CallAtPlace
  <2>5. files'[req.name] = Zero /\ \A m \in Names : m # req.name => files'[m] = files[m]
    BY <1>1, <2>1, <2>2 DEF TypeOK
  <2>6. ASSUME NEW m \in Names, m # req.name PROVE Same(m)
    BY <2>1, <2>5, <2>6, Zenon DEF Same
  <2>7. ASSUME NEW m \in Names, m # req.name
        PROVE  SavesBar'[m] = SavesBar[m] /\ (m \in DamagedBar' <=> m \in DamagedBar)
    BY <1>1, <2>3, <2>6, <2>7, OthersKept
  <2>8. table[req.slot].name = req.name /\ table[req.slot].used /\ table[req.slot].stats = Zero
    <3>1. table[req.slot] = [name |-> req.name, used |-> TRUE, stats |-> Zero]
      BY <1>1, <2>1, Zenon DEF CallRows
    <3> QED BY <3>1
  <2>9. /\ HasEntry(table', req.name) /\ files'[req.name] # Absent
        /\ SaveAt(table', files', req.name) = Saves!Save(Zero, Zero)
    <3>1. Unique(table') /\ Zero # Absent
      BY <1>1, <2>1 DEF Rows, Zero, Absent
    <3>2. table'[req.slot].name = req.name /\ table'[req.slot].used /\ table'[req.slot].stats = Zero
      BY <2>1, <2>8, Zenon
    <3>3. files'[req.name] # Absent
      BY <2>5, <3>1
    <3>4. /\ HasEntry(table', req.name)
          /\ SaveAt(table', files', req.name)
               = [data |-> files'[req.name], stats |-> table'[req.slot].stats]
      BY <2>2, <3>1, <3>2, <3>3, SaveNext
    <3> QED BY <2>5, <3>2, <3>3, <3>4 DEF Saves!Save
  <2>10. SavesBar'[req.name] = Saves!Save(Zero, Zero)
    BY <2>2, <2>3, <2>9, SavesBarAt
  <2>11. SavesBar' = [SavesBar EXCEPT ![req.name] = Saves!Save(Zero, Zero)]
    BY <2>2, <2>7, <2>10, SavesBarAt
  <2>12. req.name \notin DamagedBar /\ req.name \notin DamagedBar'
    <3>1. req.name \notin Damaged(table', files')
      BY <2>9, DamagedIff
    <3>2. req.name \notin DamagedBar'
      BY <3>1, DamagedBarAt
    <3> QED BY <2>3, <3>2, DamagedBarAt
  <2>13. DamagedBar' = DamagedBar
    BY <2>7, <2>12, DamagedBarAt
  <2>14. ~Saves!Exists /\ ~Saves!Spoiled
    <3>1. SavesBar[req.name] = NoSave
      BY <2>2, <2>3, SavesBarAt
    <3> QED BY <2>4, <2>12, <3>1, Vocabulary DEF Saves!Spoiled, DamagedBar
  <2>15. Saves!Create
    BY <2>4, <2>11, <2>13, <2>14, Vocabulary DEF Saves!Create, Saves!Asked, DamagedBar
  <2> QED BY <2>15 DEF Saves!Next
<1> QED BY <1>2, <1>3, <1>4, <1>5, <1>6 DEF Creating

(* A step that changes the save of one name.                               *)
LEMMA OneSave ==
  ASSUME Rows, Rows', NEW n \in Names, NEW v, SavesBar'[n] = v,
         \A m \in Names : m # n => Same(m) /\ (m \in UnderWay' <=> m \in UnderWay)
  PROVE  /\ SavesBar' = [SavesBar EXCEPT ![n] = v]
         /\ (n \in DamagedBar' <=> n \in DamagedBar) => DamagedBar' = DamagedBar
         /\ n \notin DamagedBar' => DamagedBar' = DamagedBar \ {n}
<1>1. \A m \in Names : m # n => SavesBar'[m] = SavesBar[m] /\ (m \in DamagedBar' <=> m \in DamagedBar)
  BY OthersKept
<1>2. SavesBar' = [SavesBar EXCEPT ![n] = v]
  BY <1>1, SavesBarAt
<1>3. (n \in DamagedBar' <=> n \in DamagedBar) => DamagedBar' = DamagedBar
  BY <1>1, DamagedBarAt
<1>4. n \notin DamagedBar' => DamagedBar' = DamagedBar \ {n}
  BY <1>1, DamagedBarAt
<1> QED BY <1>2, <1>3, <1>4

(* CardDeleteFile deletes the save when the entry is zeroed.               *)
LEMMA DeleteStep ==
  PrefixFree /\ Sound /\ Sound' /\ Deleting => Saves!Next \/ UNCHANGED Bars
<1> SUFFICES ASSUME PrefixFree, Sound, Sound', Deleting
             PROVE  Saves!Next \/ UNCHANGED Bars
  OBVIOUS
<1> USE Values
<1>1. TypeOK /\ Calls /\ Rows /\ CallRows /\ Rows' /\ CallRows'
  BY DEF Sound, IInv, BufferInv, TableInv
<1>2. CASE DeleteFind
  <2>1. req.op = "Delete" /\ req.name \in Names /\ pc = "serve"
    BY <1>1, <1>2 DEF DeleteFind, Serving, Calls
  <2>2. /\ UNCHANGED <<table, files>> /\ pc' \in {"reply", "deleteEntry"}
        /\ \E at : req' = [req EXCEPT !.slot = at]
    BY <1>1, <1>2 DEF DeleteFind, fat, Reply, GoTo
  <2>3. UnderWay = {} /\ UnderWay' = {} /\ req'.op = "Delete" /\ req'.name = req.name
    BY <1>1, <2>1, <2>2 DEF UnderWay, TypeOK, Requests
  <2>4. SavesBar' = SavesBar /\ DamagedBar' = DamagedBar
    BY <1>1, <2>2, <2>3, StutterKept
  <2>5. CallBar = [op |-> "Delete", name |-> req.name, res |-> "pending"]
    BY <2>1, CallBarAt, CallAtPlace
  <2>6. CASE CardFindEntryByName(req.name) = None
    <3>1. pc' = "reply" /\ ret' = "nofile"
      BY <1>2, <2>6 DEF DeleteFind, Reply
    <3>2. CallBar' = [op |-> "Delete", name |-> req.name, res |-> "nofile"]
      BY <2>1, <2>3, <3>1, CallBarAt, CallAtPlace
    <3>3. ~HasEntry(table, req.name)
      BY <1>1, <2>1, <2>6, FoundEntry
    <3>4. SavesBar[req.name] = NoSave
      BY <2>1, <2>3, <3>3, SaveStates
    <3>5. ~Saves!Exists
      BY <2>5, <3>4, Vocabulary
    <3>6. Saves!Delete
      BY <2>4, <2>5, <3>2, <3>5, Vocabulary DEF Saves!Delete, Saves!Asked, DamagedBar
    <3> QED BY <3>6 DEF Saves!Next
  <2>7. CASE CardFindEntryByName(req.name) # None
    <3>1. pc' = "deleteEntry"
      BY <1>2, <2>7 DEF DeleteFind, GoTo
    <3>2. CallBar' = CallBar
      BY <2>3, <2>5, <3>1, CallBarAt, CallAtPlace
    <3> QED BY <2>4, <3>2 DEF Bars
  <2> QED BY <2>6, <2>7
<1>3. CASE DeleteEntry
  <2>1. /\ req.op = "Delete" /\ req.slot \in Slots /\ req.name \in Names /\ pc = "deleteEntry"
        /\ dirty = Clean \/ SectorsOf(req.slot) = {dirty}
        /\ table[req.slot].name = req.name
    BY <1>1, <1>3 DEF DeleteEntry, Calls, Sound, IInv, BufferInv, Positioned, CallRows
  <2>2. pc' = "unlink" /\ UNCHANGED <<req, files>> /\ WriteEntry(req.slot, Free)
    BY <1>3 DEF DeleteEntry, GoTo, fat
  <2>3. table'[req.slot] = Free /\ \A j \in Slots : j # req.slot => table'[j] = table[j]
    BY <1>1, <2>1, <2>2, Writing DEF Sound, IInv, BufferInv
  <2>4. UnderWay = {} /\ UnderWay' = {req.name}
    BY <2>1, <2>2 DEF UnderWay
  <2>5. /\ CallBar = [op |-> "Delete", name |-> req.name, res |-> "pending"]
        /\ CallBar' = [op |-> "Delete", name |-> req.name, res |-> "doing"]
    BY <2>1, <2>2, CallBarAt, CallAtPlace
  <2>6. ASSUME NEW m \in Names, m # req.name PROVE Same(m)
    <3>1. Free.name = NoName
      BY DEF Free
    <3>2. ASSUME NEW j \in Slots
          PROVE  \/ table[j].name # m /\ table'[j].name # m
                 \/ table'[j] = table[j]
      BY <2>1, <2>3, <2>6, <3>1
    <3> QED BY <2>2, <3>2, Zenon DEF Same
  <2>7. SavesBar'[req.name] = NoSave /\ req.name \notin DamagedBar'
    BY <2>1, <2>4, SavesBarAt, DamagedBarAt
  <2>8. /\ SavesBar' = [SavesBar EXCEPT ![req.name] = NoSave]
        /\ DamagedBar' = DamagedBar \ {req.name}
    BY <1>1, <2>1, <2>4, <2>6, <2>7, OneSave
  <2>9. HasEntry(table, req.name)
    <3>1. table[req.slot].used
      BY <1>1, <2>1, Zenon DEF Rows, Whole
    <3> QED BY <2>1, <3>1, Zenon DEF HasEntry
  <2>10. CASE files[req.name] # Absent
    <3>1. SavesBar[req.name] # NoSave /\ req.name \notin DamagedBar
      BY <2>1, <2>4, <2>9, <2>10, SaveStates
    <3>2. Saves!Exists
      BY <2>1, <2>5, <3>1, Vocabulary
    <3>3. DamagedBar' = DamagedBar
      BY <2>8, <3>1
    <3>4. Saves!Delete
      BY <2>5, <2>8, <3>2, <3>3, Vocabulary DEF Saves!Delete, Saves!Asked, DamagedBar
    <3> QED BY <3>4 DEF Saves!Next
  <2>11. CASE files[req.name] = Absent
    <3>1. SavesBar[req.name] = NoSave /\ req.name \in DamagedBar
      BY <2>1, <2>4, <2>9, <2>11, SaveStates
    <3>2. Saves!Spoiled
      BY <2>5, <3>1, Vocabulary DEF Saves!Spoiled, DamagedBar
    <3>3. SavesBar' = SavesBar
      BY <2>1, <2>8, <3>1, SavesBarAt
    <3>4. Saves!Delete
      BY <2>5, <2>8, <3>2, <3>3, Vocabulary DEF Saves!Delete, Saves!Asked, DamagedBar
    <3> QED BY <3>4 DEF Saves!Next
  <2> QED BY <2>10, <2>11
<1>4. CASE Unlink
  <2>1. /\ UNCHANGED <<table, req>> /\ pc = "unlink" /\ pc' = "reply" /\ ret' = "success"
        /\ files' = [files EXCEPT ![req.name] = Absent]
    BY <1>4 DEF Unlink, Reply, stat
  <2>2. req.op = "Delete" /\ req.name \in Names
    BY <1>1, <2>1 DEF Calls
  <2>3. UnderWay = {req.name} /\ UnderWay' = {}
    BY <2>1 DEF UnderWay
  <2>4. /\ CallBar = [op |-> "Delete", name |-> req.name, res |-> "doing"]
        /\ CallBar' = [op |-> "Delete", name |-> req.name, res |-> "success"]
    BY <2>1, <2>2, CallBarAt, CallAtPlace
  <2>5. files'[req.name] = Absent /\ \A m \in Names : m # req.name => files'[m] = files[m]
    BY <1>1, <2>1, <2>2 DEF TypeOK
  <2>6. ASSUME NEW m \in Names, m # req.name PROVE Same(m)
    BY <2>1, <2>5, <2>6, Zenon DEF Same
  <2>7. ~HasEntry(table', req.name)
    BY <1>1, <2>1, Zenon DEF CallRows, HasEntry
  <2>8. SavesBar'[req.name] = NoSave /\ req.name \notin DamagedBar'
    BY <2>2, <2>3, <2>5, <2>7, SavesBarAt, NoSaveThere, DamagedIff, DamagedBarAt
  <2>9. SavesBar[req.name] = NoSave /\ req.name \notin DamagedBar
    BY <2>2, <2>3, SavesBarAt, DamagedBarAt
  <2>10. SavesBar' = SavesBar /\ DamagedBar' = DamagedBar
    <3>1. ASSUME NEW m \in Names
          PROVE  SavesBar'[m] = SavesBar[m] /\ (m \in DamagedBar' <=> m \in DamagedBar)
      BY <1>1, <2>3, <2>6, <2>8, <2>9, OthersKept
    <3> QED BY <3>1, AllKept
  <2>11. Saves!Finished
    BY <2>4, <2>10, Vocabulary DEF Saves!Finished, Saves!Doing, DamagedBar
  <2> QED BY <2>11 DEF Saves!Next
<1> QED BY <1>2, <1>3, <1>4 DEF Deleting

(* The calls that only read and answer with ret' or, Read, with got'.      *)
LEMMA Answering ==
  ASSUME Sound, Sound', UNCHANGED <<table, files, req>>, pc = "serve", pc' = "reply",
         req.op # "Read"
  PROVE  /\ SavesBar' = SavesBar /\ DamagedBar' = DamagedBar /\ UnderWay = {}
         /\ CallBar = [op |-> req.op, name |-> req.name, res |-> "pending"]
         /\ CallBar' = [op |-> req.op, name |-> req.name, res |-> ret']
<1>1. Rows /\ Rows'
  BY DEF Sound, IInv, TableInv
<1>2. UnderWay = {} /\ UnderWay' = {}
  BY DEF UnderWay
<1>3. SavesBar' = SavesBar /\ DamagedBar' = DamagedBar
  BY <1>1, <1>2, StutterKept
<1> QED BY <1>2, <1>3, CallBarAt, CallAtPlace

(* The file a file number of the game stands for.                          *)
LEMMA OwnFile ==
  ASSUME Sound, req.op \in {"Read", "Write", "SetStats"}
  PROVE  /\ req.name \in Names /\ req.slot \in Slots
         /\ table[req.slot].name = req.name /\ table[req.slot].used
         /\ Exists(req.name) /\ files[req.name] # Absent
<1>1. TypeOK /\ Calls /\ Rows /\ HandleInv
  BY DEF Sound, IInv, BufferInv, TableInv
<1>2. req.name \in Names /\ req.slot \in Slots /\ handle[req.name] = req.slot
  BY <1>1 DEF Calls, HandleInv
<1>3. table[req.slot].name = req.name /\ files[req.name] # Absent
  BY <1>1, <1>2, Values DEF HandleInv
<1>4. table[req.slot].used
  BY <1>1, <1>2, <1>3, Values, Zenon DEF Rows, Whole
<1> QED BY <1>2, <1>3, <1>4 DEF Exists

(* The calls that ask for a save answer whether it is there.               *)
LEMMA LookStep ==
  PrefixFree /\ Sound /\ Sound' /\ (Open \/ FastOpen \/ GetStats) => Saves!Next \/ UNCHANGED Bars
<1> SUFFICES ASSUME PrefixFree, Sound, Sound', Open \/ FastOpen \/ GetStats
             PROVE  Saves!Next
  OBVIOUS
<1> USE Values
<1>1. TypeOK /\ Calls /\ Rows /\ CallRows /\ Rows'
  BY DEF Sound, IInv, BufferInv, TableInv
<1>2. pc' # "off"
  BY DEF Sound, IInv, HandleInv
<1>3. /\ UNCHANGED <<table, files, req>> /\ pc = "serve" /\ pc' = "reply"
      /\ req.op \in {"Open", "FastOpen", "GetStats"} /\ req.op # "Read"
  BY <1>2 DEF Open, FastOpen, GetStats, Serving, Reply, GoTo, fat
<1>4. /\ SavesBar' = SavesBar /\ DamagedBar' = DamagedBar /\ UnderWay = {}
      /\ CallBar = [op |-> req.op, name |-> req.name, res |-> "pending"]
      /\ CallBar' = [op |-> req.op, name |-> req.name, res |-> ret']
  BY <1>3, Answering
<1>5. \/ Saves!Exists /\ ret' = "success"
      \/ ~Saves!Exists /\ ret' = "nofile"
      \/ Saves!Spoiled /\ req.op = "GetStats" /\ ret' = "success"
  <2>1. CASE Open
    <3>1. req.op = "Open" /\ req.name \in Names
      BY <1>1, <2>1 DEF Open, Serving, Calls
    <3>2. ret' = IF CardFindEntryByName(req.name) # None /\ files[req.name] # Absent
                   THEN "success" ELSE "nofile"
      BY <2>1, <3>1 DEF Open, Reply, Exists
    <3>3. CardFindEntryByName(req.name) # None /\ files[req.name] # Absent
            <=> SavesBar[req.name] # NoSave
      BY <1>1, <1>4, <3>1, FoundEntry, SaveStates
    <3>4. Saves!Exists <=> SavesBar[req.name] # NoSave
      BY <1>4, <3>1, Vocabulary
    <3> QED BY <3>2, <3>3, <3>4
  <2>2. CASE (FastOpen \/ GetStats) /\ table[req.slot].used
    <3>1. req.slot \in Slots /\ req.name = table[req.slot].name
      BY <1>1, <2>2 DEF FastOpen, GetStats, Serving, Calls, CallRows
    <3>2. req.name \in Names
      <4>1. table[req.slot].name # NoName
        BY <1>1, <2>2, <3>1, Zenon DEF Rows, Whole
      <4> QED BY <1>1, <3>1, <4>1 DEF Rows, Named
    <3>3. HasEntry(table, req.name)
      BY <2>2, <3>1, Zenon DEF HasEntry
    <3>4. Saves!Exists <=> SavesBar[req.name] # NoSave
      BY <1>4, <3>2, Vocabulary
    <3>5. CASE files[req.name] # Absent
      <4>1. ret' = "success"
        BY <1>2, <2>2, <3>1, <3>2, <3>5 DEF FastOpen, GetStats, Reply, Exists, GoTo
      <4>2. SavesBar[req.name] # NoSave
        BY <1>4, <3>2, <3>3, <3>5, SaveStates
      <4> QED BY <3>4, <4>1, <4>2
    <3>6. CASE files[req.name] = Absent
      <4>1. SavesBar[req.name] = NoSave /\ req.name \in DamagedBar
        BY <1>4, <3>2, <3>3, <3>6, SaveStates
      <4>2. Saves!Spoiled
        BY <1>4, <4>1, Vocabulary DEF Saves!Spoiled, DamagedBar
      <4>3. CASE FastOpen
        <5>1. ret' = "nofile"
          BY <1>2, <3>1, <3>6, <4>3 DEF FastOpen, Reply, Exists, GoTo
        <5> QED BY <3>4, <4>1, <5>1
      <4>4. CASE GetStats
        <5>1. ret' = "success" /\ req.op = "GetStats"
          BY <2>2, <4>4 DEF GetStats, Reply, Serving
        <5> QED BY <4>2, <5>1
      <4> QED BY <2>2, <4>3, <4>4
    <3> QED BY <3>5, <3>6
  <2>3. CASE (FastOpen \/ GetStats) /\ ~table[req.slot].used
    <3>1. req.slot \in Slots /\ req.name = table[req.slot].name
      BY <1>1, <2>3 DEF FastOpen, GetStats, Serving, Calls, CallRows
    <3>2. req.name = NoName
      BY <1>1, <2>3, <3>1, Zenon DEF Rows, Whole
    <3>3. ret' = "nofile"
      BY <2>3 DEF FastOpen, GetStats, Reply
    <3>4. ~Saves!Exists
      BY <1>4, <3>2, Vocabulary
    <3> QED BY <3>3, <3>4
  <2> QED BY <2>1, <2>2, <2>3
<1>6. Saves!Look
  BY <1>3, <1>4, <1>5, Vocabulary DEF Saves!Look, DamagedBar
<1> QED BY <1>6 DEF Saves!Next

(* Reads and writes reach the save of their name.                          *)
LEMMA AccessStep ==
  Sound /\ Sound' /\ (Read \/ Write \/ WriteClose) => Saves!Next \/ UNCHANGED Bars
<1> SUFFICES ASSUME Sound, Sound', Read \/ Write \/ WriteClose
             PROVE  Saves!Next
  OBVIOUS
<1> USE Values
<1>1. TypeOK /\ Calls /\ Rows /\ Rows'
  BY DEF Sound, IInv, BufferInv, TableInv
<1>2. req.op \in {"Read", "Write"}
  BY <1>1 DEF Read, Write, WriteClose, Serving, Calls
<1>3. /\ req.name \in Names /\ req.slot \in Slots
      /\ table[req.slot].name = req.name /\ table[req.slot].used
      /\ Exists(req.name) /\ files[req.name] # Absent
  BY <1>2, OwnFile
<1>4. UnderWay = {} /\ UnderWay' = {}
  BY DEF Read, Write, WriteClose, Serving, UnderWay, Reply
<1>5. HasEntry(table, req.name)
  BY <1>3, Zenon DEF HasEntry
<1>6. SavesBar[req.name] # NoSave /\ req.name \notin DamagedBar
  BY <1>3, <1>4, <1>5, SaveStates
<1>7. SavesBar[req.name] = [data |-> files[req.name], stats |-> table[req.slot].stats]
  <2>1. SaveAt(table, files, req.name) = [data |-> files[req.name], stats |-> table[req.slot].stats]
    <3>1. /\ Unique(table) /\ files[req.name] # Absent /\ req.name \in Names
          /\ req.slot \in Slots /\ table[req.slot].used /\ table[req.slot].name = req.name
      BY <1>1, <1>3 DEF Rows
    <3> QED BY <3>1, SaveOfEntry
  <2> QED BY <1>3, <1>4, <2>1, SavesBarAt
<1>8. CASE Read
  <2>1. /\ UNCHANGED <<table, files, req>> /\ pc = "serve" /\ pc' = "reply"
        /\ req.op = "Read" /\ got' = files[req.name]
    BY <1>3, <1>8 DEF Read, Serving, fat
  <2>2. /\ CallBar = [op |-> "Read", name |-> req.name, res |-> "pending"]
        /\ CallBar' = [op |-> "Read", name |-> req.name, res |-> files[req.name]]
    BY <2>1, CallBarAt, CallAtPlace
  <2>3. SavesBar' = SavesBar /\ DamagedBar' = DamagedBar
    BY <1>1, <1>4, <2>1, StutterKept
  <2>4. Saves!Exists
    BY <1>3, <1>6, <2>2, Vocabulary
  <2>5. SavesBar[req.name].data = files[req.name]
    BY <1>7
  <2>6. Saves!Read
    BY <2>2, <2>3, <2>4, <2>5, Vocabulary DEF Saves!Read, Saves!Asked, DamagedBar
  <2> QED BY <2>6 DEF Saves!Next
<1>9. ASSUME NEW c, c # Absent, files' = [files EXCEPT ![req.name] = c], table' = table
      PROVE  /\ SavesBar' = [SavesBar EXCEPT ![req.name].data = c]
             /\ DamagedBar' = DamagedBar
  <2>1. files'[req.name] = c /\ \A m \in Names : m # req.name => files'[m] = files[m]
    BY <1>1, <1>3, <1>9 DEF TypeOK
  <2>2. ASSUME NEW m \in Names, m # req.name PROVE Same(m)
    BY <1>9, <2>1, <2>2, Zenon DEF Same
  <2>3. SaveAt(table', files', req.name) = [data |-> c, stats |-> table[req.slot].stats]
    <3>1. Unique(table') /\ table'[req.slot].used /\ table'[req.slot].name = req.name
          /\ table'[req.slot].stats = table[req.slot].stats
      BY <1>1, <1>3, <1>9, Zenon DEF Rows
    <3>2. files'[req.name] # Absent
      BY <1>9, <2>1
    <3>3. SaveAt(table', files', req.name)
            = [data |-> files'[req.name], stats |-> table'[req.slot].stats]
      BY <1>3, <3>1, <3>2, SaveNext
    <3> QED BY <2>1, <3>1, <3>3
  <2>4. SavesBar'[req.name] = [data |-> c, stats |-> table[req.slot].stats]
    BY <1>3, <1>4, <2>3, SavesBarAt
  <2>5. [data |-> c, stats |-> table[req.slot].stats] = [SavesBar[req.name] EXCEPT !.data = c]
    BY <1>7
  <2>6. req.name \notin DamagedBar'
    <3>1. HasEntry(table', req.name)
      BY <1>5, <1>9, Zenon DEF HasEntry
    <3> QED BY <1>9, <2>1, <3>1, DamagedIff, DamagedBarAt
  <2>7. /\ SavesBar' = [SavesBar EXCEPT ![req.name] = [data |-> c, stats |-> table[req.slot].stats]]
        /\ DamagedBar' = DamagedBar
    BY <1>1, <1>3, <1>4, <1>6, <2>2, <2>4, <2>6, OneSave
  <2> QED BY <2>5, <2>7
<1>10. CASE Write
  <2>1. /\ table' = table /\ req' = req /\ pc = "serve" /\ pc' = "writeClose" /\ req.op = "Write"
        /\ files' = [files EXCEPT ![req.name] = "torn"]
    BY <1>3, <1>10 DEF Write, Serving
  <2>2. /\ CallBar = [op |-> "Write", name |-> req.name, res |-> "pending"]
        /\ CallBar' = [op |-> "Write", name |-> req.name, res |-> "doing"]
    BY <2>1, CallBarAt, CallAtPlace
  <2>3. Saves!Exists
    BY <1>3, <1>6, <2>2, Vocabulary
  <2>4. /\ SavesBar' = [SavesBar EXCEPT ![req.name].data = "torn"]
        /\ DamagedBar' = DamagedBar
    BY <1>9, <2>1 DEF Absent
  <2>5. Saves!Write
    BY <2>2, <2>3, <2>4, Vocabulary DEF Saves!Write, Saves!Asked, DamagedBar
  <2> QED BY <2>5 DEF Saves!Next
<1>11. CASE WriteClose
  <2>1. /\ table' = table /\ req' = req /\ pc = "writeClose" /\ pc' = "reply" /\ ret' = "success"
        /\ files' = [files EXCEPT ![req.name] = req.val]
    BY <1>3, <1>11 DEF WriteClose, Reply, stat
  <2>2. req.op = "Write" /\ req.val \in Data /\ req.val # Absent
    BY <1>1, <2>1, CardStoreAssumption DEF Calls
  <2>3. /\ CallBar = [op |-> "Write", name |-> req.name, res |-> "doing"]
        /\ CallBar' = [op |-> "Write", name |-> req.name, res |-> "success"]
    BY <2>1, <2>2, CallBarAt, CallAtPlace
  <2>4. Saves!Exists
    BY <1>3, <1>6, <2>3, Vocabulary
  <2>5. /\ SavesBar' = [SavesBar EXCEPT ![req.name].data = req.val]
        /\ DamagedBar' = DamagedBar
    BY <1>9, <2>1, <2>2
  <2>6. Saves!Written
    BY <2>2, <2>3, <2>4, <2>5, Vocabulary DEF Saves!Written, Saves!Doing, DamagedBar
  <2> QED BY <2>6 DEF Saves!Next
<1> QED BY <1>8, <1>10, <1>11

(* CARDSetStatus changes the status when the entry is written.             *)
LEMMA SettingStep == Sound /\ Sound' /\ Setting => Saves!Next \/ UNCHANGED Bars
<1> SUFFICES ASSUME Sound, Sound', Setting
             PROVE  Saves!Next \/ UNCHANGED Bars
  OBVIOUS
<1> USE Values
<1>1. TypeOK /\ Calls /\ Rows /\ Rows' /\ OnlyTheBufferIsUnsaved /\ Positioned
  BY DEF Sound, IInv, BufferInv, TableInv
<1>2. req.op = "SetStats"
  BY <1>1 DEF Setting, SetStats, SetEntry, SetSync, Serving, Calls
<1>3. /\ req.name \in Names /\ req.slot \in Slots
      /\ table[req.slot].name = req.name /\ table[req.slot].used
      /\ files[req.name] # Absent
  BY <1>2, OwnFile
<1>4. UnderWay = {} /\ UnderWay' = {}
  BY DEF Setting, SetStats, SetEntry, SetSync, Serving, UnderWay, Reply, GoTo
<1>5. CASE SetStats
  <2>1. UNCHANGED <<table, files, req>> /\ pc = "serve" /\ pc' = "setEntry"
    BY <1>5 DEF SetStats, Serving, GoTo, fat
  <2>2. CallBar' = CallBar
    BY <2>1, CallBarAt, CallAtPlace
  <2> QED BY <1>1, <1>4, <2>1, <2>2, StutterKept DEF Bars
<1>6. CASE SetEntry
  <2> DEFINE e == [table[req.slot] EXCEPT !.stats = req.val]
  <2>1. /\ req.val \in Stats /\ pc = "setEntry"
        /\ dirty = Clean \/ SectorsOf(req.slot) = {dirty}
    BY <1>1, <1>2, <1>6 DEF SetEntry, Calls, Positioned
  <2>2. pc' = "setSync" /\ UNCHANGED <<req, files>> /\ WriteEntry(req.slot, e)
    BY <1>6 DEF SetEntry, GoTo, fat
  <2>3. e \in Entry /\ e.name = req.name /\ e.stats = req.val /\ (e.used <=> table[req.slot].used)
    BY <1>1, <1>3, <2>1 DEF TypeOK, Entry
  <2> HIDE DEF e
  <2>4. table'[req.slot] = e /\ \A j \in Slots : j # req.slot => table'[j] = table[j]
    BY <1>1, <1>3, <2>1, <2>2, <2>3, Writing
  <2>5. ASSUME NEW m \in Names, m # req.name PROVE Same(m)
    <3>1. ASSUME NEW j \in Slots
          PROVE  \/ table[j].name # m /\ table'[j].name # m
                 \/ table'[j] = table[j]
      BY <1>3, <2>3, <2>4, <2>5
    <3> QED BY <2>2, <3>1, Zenon DEF Same
  <2>6. /\ table'[req.slot].used /\ table'[req.slot].name = req.name
        /\ table'[req.slot].stats = req.val /\ files'[req.name] = files[req.name]
    BY <1>3, <2>2, <2>3, <2>4, Zenon
  <2>7. /\ HasEntry(table', req.name)
        /\ SaveAt(table', files', req.name)
             = [data |-> files'[req.name], stats |-> table'[req.slot].stats]
    <3>1. Unique(table') /\ files'[req.name] # Absent
      BY <1>1, <1>3, <2>6 DEF Rows
    <3> QED BY <1>3, <2>6, <3>1, SaveNext
  <2>8. SavesBar'[req.name] = [data |-> files[req.name], stats |-> req.val]
    BY <1>3, <1>4, <2>6, <2>7, SavesBarAt
  <2>9. SavesBar[req.name] = [data |-> files[req.name], stats |-> table[req.slot].stats]
    <3>1. SaveAt(table, files, req.name) = [data |-> files[req.name], stats |-> table[req.slot].stats]
      <4>1. /\ Unique(table) /\ files[req.name] # Absent /\ req.name \in Names
            /\ req.slot \in Slots /\ table[req.slot].used /\ table[req.slot].name = req.name
        BY <1>1, <1>3 DEF Rows
      <4> QED BY <4>1, SaveOfEntry
    <3> QED BY <1>3, <1>4, <3>1, SavesBarAt
  <2>10. [data |-> files[req.name], stats |-> req.val] = [SavesBar[req.name] EXCEPT !.stats = req.val]
    BY <2>9
  <2>11. req.name \notin DamagedBar /\ req.name \notin DamagedBar'
    <3>1. HasEntry(table, req.name)
      BY <1>3, Zenon DEF HasEntry
    <3> QED BY <1>3, <2>6, <2>7, <3>1, DamagedIff, DamagedBarAt
  <2>12. /\ SavesBar' = [SavesBar EXCEPT ![req.name].stats = req.val]
         /\ DamagedBar' = DamagedBar
    <3>1. /\ SavesBar' = [SavesBar EXCEPT ![req.name] = [data |-> files[req.name], stats |-> req.val]]
          /\ DamagedBar' = DamagedBar
      BY <1>1, <1>3, <1>4, <2>5, <2>8, <2>11, OneSave
    <3> QED BY <2>10, <3>1
  <2>13. /\ CallBar = [op |-> "SetStats", name |-> req.name, res |-> "pending"]
         /\ CallBar' = [op |-> "SetStats", name |-> req.name, res |-> "doing"]
    BY <1>2, <2>1, <2>2, CallBarAt, CallAtPlace
  <2>14. Saves!Exists
    <3>1. SavesBar[req.name] # NoSave
      BY <1>3, <2>9, SaveIsSome
    <3> QED BY <1>3, <2>13, <3>1, Vocabulary
  <2>15. Saves!SetStats
    BY <2>1, <2>12, <2>13, <2>14, Vocabulary DEF Saves!SetStats, Saves!Asked, DamagedBar
  <2> QED BY <2>15 DEF Saves!Next
<1>7. CASE SetSync
  <2>1. /\ UNCHANGED <<table, files, req>> /\ pc = "setSync" /\ pc' = "reply" /\ ret' = "success"
    BY <1>7 DEF SetSync, SyncStat, Reply
  <2>2. /\ CallBar = [op |-> "SetStats", name |-> req.name, res |-> "doing"]
        /\ CallBar' = [op |-> "SetStats", name |-> req.name, res |-> "success"]
    BY <1>2, <2>1, CallBarAt, CallAtPlace
  <2>3. SavesBar' = SavesBar /\ DamagedBar' = DamagedBar
    BY <1>1, <1>4, <2>1, StutterKept
  <2>4. Saves!Finished
    BY <2>2, <2>3, Vocabulary DEF Saves!Finished, Saves!Doing, DamagedBar
  <2> QED BY <2>4 DEF Saves!Next
<1> QED BY <1>5, <1>6, <1>7 DEF Setting

(* A call of the game.                                                     *)
LEMMA CallStep == Sound /\ Sound' /\ Call => Saves!Next
<1> SUFFICES ASSUME Sound, Sound', Call PROVE Saves!Next
  OBVIOUS
<1> USE Values
<1>1. TypeOK /\ TypeOK' /\ Calls' /\ Rows /\ Rows' /\ CallRows'
  BY DEF Sound, IInv, BufferInv, TableInv
<1>2. /\ UNCHANGED <<table, files>> /\ pc = "idle" /\ pc' = "serve"
  BY DEF Call, stat, fat
<1>3. UnderWay = {} /\ UnderWay' = {}
  BY <1>2 DEF UnderWay
<1>4. SavesBar' = SavesBar /\ DamagedBar' = DamagedBar
  BY <1>1, <1>2, <1>3, StutterKept
<1>5. req'.op \in Ops /\ req'.op # "none"
  BY <1>1, <1>2 DEF Calls, TypeOK, Requests
<1>6. req'.name \in Names \cup {NoName}
  <2>1. CASE req'.op \in {"FastOpen", "GetStats"}
    <3>1. req'.name = table'[req'.slot].name /\ req'.slot \in Slots
      BY <1>1, <2>1 DEF CallRows, Calls
    <3> QED BY <1>1, <3>1 DEF Rows, Named
  <2>2. CASE req'.op \in {"Create", "Open", "Delete", "Read", "Write", "SetStats"}
    BY <1>1, <2>2 DEF Calls
  <2> QED BY <1>5, <2>1, <2>2 DEF Ops
<1>7. /\ CallBar = [op |-> "none", name |-> NoName, res |-> "none"]
      /\ CallBar' = [op |-> req'.op, name |-> req'.name, res |-> "pending"]
  BY <1>2, CallBarAt, CallAtPlace
<1>8. req'.op \in {"Create", "Open", "Delete", "FastOpen", "Read", "Write", "GetStats", "SetStats"}
  BY <1>5 DEF Ops
<1>9. Saves!Ask
  BY <1>4, <1>6, <1>7, <1>8 DEF Saves!Ask, Saves!Idle, DamagedBar
<1> QED BY <1>9 DEF Saves!Next

(* The answer to the game.                                                 *)
LEMMA ReturnStep == Sound /\ Sound' /\ Return => Saves!Next
<1> SUFFICES ASSUME Sound, Sound', Return PROVE Saves!Next
  OBVIOUS
<1>1. Rows /\ Rows' /\ Calls /\ Answers
  BY DEF Sound, IInv, BufferInv, TableInv
<1>2. /\ UNCHANGED <<table, files>> /\ pc = "reply" /\ pc' = "idle"
  BY DEF Return, stat, fat
<1>3. UnderWay = {} /\ UnderWay' = {}
  BY <1>2 DEF UnderWay
<1>4. SavesBar' = SavesBar /\ DamagedBar' = DamagedBar
  BY <1>1, <1>2, <1>3, StutterKept
<1>5. req.op # "none"
  BY <1>1, <1>2 DEF Calls
<1>6. CallBar' = [op |-> "none", name |-> NoName, res |-> "none"]
  BY <1>2, CallBarAt, CallAtPlace
<1>7. \E r : /\ CallBar = [op |-> req.op, name |-> req.name, res |-> r]
             /\ r \notin {"pending", "doing"}
  <2>1. ret \notin {"pending", "doing"} /\ got \notin {"pending", "doing"}
    BY <1>1, CardStoreAssumption DEF Answers, Content, Zero, Absent
  <2>2. CASE req.op = "Read"
    BY <1>2, <2>1, <2>2, CallBarAt, CallAtPlace
  <2>3. CASE req.op # "Read"
    BY <1>2, <2>1, <2>3, CallBarAt, CallAtPlace
  <2> QED BY <2>2, <2>3
<1>8. Saves!Answer
  BY <1>4, <1>5, <1>6, <1>7 DEF Saves!Answer, Saves!Idle, DamagedBar
<1> QED BY <1>8 DEF Saves!Next

(* A loss of power that leaves no half entry behind.                       *)
LEMMA CrashStep == Sound /\ Sound' /\ Crash => Saves!Next
<1> SUFFICES ASSUME Sound, Sound', Crash PROVE Saves!Next
  OBVIOUS
<1> USE Values
<1>1. TypeOK /\ Calls /\ Rows /\ Rows' /\ CallRows /\ DirInv /\ HandleInv
  BY DEF Sound, IInv, BufferInv, TableInv
<1>2. table' = disk /\ files' = ondisk /\ pc' = "idle"
  BY DEF Crash
<1>3. UnderWay' = {}
  BY <1>2 DEF UnderWay
<1>4. CallBar' = [op |-> "none", name |-> NoName, res |-> "none"]
  BY <1>2, CallBarAt, CallAtPlace
<1>5. DamagedBar' \subseteq {m \in Names : SavesBar'[m] = NoSave}
  <2>1. ASSUME NEW m \in DamagedBar' PROVE m \in Names /\ SavesBar'[m] = NoSave
    <3>1. m \in Names /\ (~HasEntry(table', m) \/ files'[m] = Absent)
      BY <1>3, <2>1, DamagedBarAt, DamagedIff
    <3>2. SaveAt(table', files', m) = NoSave
      BY <3>1, NoSaveThere
    <3> QED BY <1>3, <3>1, <3>2, SavesBarAt
  <2> QED BY <2>1
<1> DEFINE Busy == pc \notin {"idle", "reply"}
<1>6. Busy => \E r \in {"pending", "doing"} : CallBar = [op |-> req.op, name |-> req.name, res |-> r]
  <2>1. CASE pc \in {"serve", "createOpen", "createEntry", "createSync", "createWindow", "createFill",
                     "deleteEntry", "setEntry"}
    BY <2>1, CallBarAt, CallAtPlace
  <2>2. CASE pc \in {"unlink", "writeClose", "setSync"}
    BY <2>2, CallBarAt, CallAtPlace
  <2> QED BY <1>1, <2>1, <2>2 DEF TypeOK, Places, HandleInv
<1>7. ASSUME NEW m \in Names, ~(Busy /\ m = req.name) PROVE SavesBar'[m] = SavesBar[m]
  <2>1. m \notin UnderWay
    BY <1>7 DEF UnderWay
  <2>2. SavesBar[m] = SaveAt(table, files, m) /\ SavesBar'[m] = SaveAt(disk, ondisk, m)
    BY <1>2, <1>3, <2>1, SavesBarAt
  <2>3. files[m] = ondisk[m]
    BY <1>1, <1>7 DEF DirInv
  <2>4. CASE files[m] = Absent
    BY <2>2, <2>3, <2>4, NoSaveThere
  <2>5. CASE files[m] # Absent /\ ~HasEntry(table, m)
    <3>1. ~HasEntry(disk, m)
      BY <1>1, <1>7, <2>3, <2>5 DEF DirInv
    <3> QED BY <2>2, <2>5, <3>1, NoSaveThere
  <2>6. CASE files[m] # Absent /\ HasEntry(table, m)
    <3>1. PICK i \in Slots : table[i].used /\ table[i].name = m
      BY <2>6, Zenon DEF HasEntry
    <3>2. table[i] # Free
      <4>1. ~Free.used
        BY DEF Free
      <4> QED BY <3>1, <4>1, Zenon
    <3>3. disk[i] = table[i] \/ (i = req.slot /\ pc \in {"createSync", "setSync"})
      BY <1>1, <3>2 DEF DirInv
    <3>4. ~(i = req.slot /\ pc \in {"createSync", "setSync"})
      <4>1. CASE pc = "createSync"
        <5>1. table[req.slot] = [name |-> req.name, used |-> TRUE, stats |-> Zero]
          BY <1>1, <4>1, Zenon DEF CallRows
        <5>2. table[req.slot].name = req.name
          BY <5>1
        <5> QED BY <1>7, <3>1, <4>1, <5>2
      <4>2. CASE pc = "setSync"
        <5>1. req.op = "SetStats"
          BY <1>1, <4>2 DEF Calls
        <5>2. table[req.slot].name = req.name
          BY <5>1, OwnFile
        <5> QED BY <1>7, <3>1, <4>2, <5>2
      <4> QED BY <4>1, <4>2
    <3>5. disk[i] = table[i]
      BY <3>3, <3>4
    <3>6. SaveAt(table, files, m) = [data |-> files[m], stats |-> table[i].stats]
      <4>1. /\ Unique(table) /\ files[m] # Absent /\ m \in Names /\ i \in Slots
            /\ table[i].used /\ table[i].name = m
        BY <1>1, <2>6, <3>1 DEF Rows
      <4> QED BY <4>1, SaveOfEntry
    <3>7. disk[i].used /\ disk[i].name = m
      BY <3>1, <3>5, Zenon
    <3>8. SaveAt(disk, ondisk, m) = [data |-> ondisk[m], stats |-> disk[i].stats]
      <4>1. /\ Unique(disk) /\ ondisk[m] # Absent /\ m \in Names /\ i \in Slots
            /\ disk[i].used /\ disk[i].name = m
        BY <1>1, <2>3, <2>6, <3>1, <3>7 DEF Rows
      <4> QED BY <4>1, SaveOfEntry
    <3> QED BY <2>2, <2>3, <3>5, <3>6, <3>8
  <2> QED BY <2>4, <2>5, <2>6
<1>8. DOMAIN SavesBar' = Names
  BY SavesBarAt
<1>9. ASSUME NEW m \in Names
      PROVE  SavesBar'[m] = SavesBar[m] \/ (m = Saves!n /\ CallBar.res \in {"pending", "doing"})
  <2>1. CASE Busy /\ m = req.name
    <3>1. PICK r \in {"pending", "doing"} : CallBar = [op |-> req.op, name |-> req.name, res |-> r]
      BY <1>6, <2>1
    <3> QED BY <2>1, <3>1, Vocabulary
  <2> QED BY <1>7, <2>1
<1>10. Saves!Crash
  BY <1>4, <1>5, <1>8, <1>9 DEF Saves!Crash, Saves!Idle, DamagedBar
<1> QED BY <1>10 DEF Saves!Next

(* Every step that leaves no half entry behind.                            *)
LEMMA StoreStep ==
  PrefixFree /\ TableHasRoom /\ Sound /\ Sound' /\ [Next]_vars => Saves!Next \/ UNCHANGED Bars
<1> SUFFICES ASSUME PrefixFree, TableHasRoom, Sound, Sound', [Next]_vars
             PROVE  Saves!Next \/ UNCHANGED Bars
  OBVIOUS
<1>1. Rows /\ Rows'
  BY DEF Sound, IInv, TableInv
<1>2. CASE Close
  <2>1. UNCHANGED <<table, files, pc, req>> /\ pc = "idle"
    BY <1>2 DEF Close, stat, fat
  <2>2. UnderWay' = UnderWay
    BY <2>1 DEF UnderWay
  <2>3. CallBar' = CallBar
    BY <2>1, CallBarAt, CallAtPlace
  <2> QED BY <1>1, <2>1, <2>2, <2>3, StutterKept DEF Bars
<1>3. CASE MoveWindow \/ UNCHANGED vars
  <2>1. UNCHANGED <<table, files, pc, req, ret, got>>
    BY <1>3 DEF MoveWindow, vars, stat, regs
  <2>2. UnderWay' = UnderWay
    BY <2>1 DEF UnderWay
  <2>3. CallBar' = CallBar
    BY <2>1, CallBarAt
  <2> QED BY <1>1, <2>1, <2>2, <2>3, StutterKept DEF Bars
<1> QED BY <1>2, <1>3, CallStep, CreateStep, DeleteStep, LookStep, AccessStep, SettingStep,
           ReturnStep, CrashStep DEF Next, Using

(* The card emulation starts as the map of saves does.                     *)
LEMMA StoreStart == Init => Saves!Init
<1> SUFFICES ASSUME Init PROVE Saves!Init
  OBVIOUS
<1> USE Values
<1>1. pc = "idle" /\ UnderWay = {}
  BY DEF Init, UnderWay
<1>2. CallBar = [op |-> "none", name |-> NoName, res |-> "none"]
  BY <1>1, CallBarAt, CallAtPlace
<1>3. ASSUME NEW n \in Names PROVE ~HasEntry(table, n) /\ files[n] = Absent
  <2>1. \A i \in Slots : table[i] = Free
    BY DEF Init
  <2>2. ~Free.used
    BY DEF Free
  <2>3. files[n] = Absent
    BY DEF Init
  <2> QED BY <2>1, <2>2, <2>3, Zenon DEF HasEntry
<1>4. SavesBar = [m \in Names |-> NoSave]
  <2>1. ASSUME NEW m \in Names PROVE SaveAt(table, files, m) = NoSave
    BY <1>3, NoSaveThere
  <2> QED BY <1>1, <2>1, SavesBarAt
<1>5. Damaged(table, files) \ UnderWay = {}
  BY <1>3, DamagedIff DEF Damaged
<1> QED BY <1>2, <1>4, <1>5 DEF Saves!Init, Saves!Idle

(* So they always are within these.                                        *)
LEMMA AnswersAlways == Spec => []Answers
<1>1. Init => Answers
  BY DEF Init, Answers
<1>2. BufferInv => TypeOK
  BY DEF BufferInv
<1> QED BY <1>1, <1>2, AnswersNext, BufferAlways, PTL DEF Spec

(* The card emulation answers every call as the map of saves would, and a  *)
(* loss of power changes no save but that of an unanswered call, until one *)
(* leaves half an entry behind.                                            *)
THEOREM CardKeepsSaves == ASSUME PrefixFree, TableHasRoom PROVE Spec => ImplementsSaveSpec
<1>1. ASSUME IInv, IInv', Answers, Answers', [Next]_vars
      PROVE  [torn' \/ Saves!Next]_<<SavesBar, Damaged(table, files) \ UnderWay, CallBar>>
  <2>1. CASE torn'
    BY <2>1
  <2>2. CASE ~torn'
    <3>1. Sound /\ Sound'
      BY <1>1, <2>2, TornStays DEF Sound
    <3>2. Saves!Next \/ UNCHANGED Bars
      BY <1>1, <3>1, StoreStep
    <3> QED BY <3>2 DEF Bars, DamagedBar
  <2> QED BY <2>1, <2>2
<1> QED BY <1>1, StoreStart, InvAlways, AnswersAlways, PTL DEF Spec, ImplementsSaveSpec
=============================================================================
