------------------------------ MODULE EhciDisc ------------------------------
(***************************************************************************)
(* The EHCI build from its start to the running game: main (ehci/main.c),  *)
(* the choice of the game and the reads of the disc (ehci/dip.c), and the  *)
(* patches a game gets when it has been read (DoPatches, ehci/Patches.c).  *)
(*                                                                         *)
(* A read is one step here: the mailbox it comes through is DIMailbox, the *)
(* file system below it FatRead.  The menu on the PPC loads the sections   *)
(* of a game and its file table in whatever order the disc's loader asks   *)
(* for them; the program recognises the file table by its address.         *)
(***************************************************************************)
EXTENDS Integers, FiniteSets, FiniteSetsExt

CONSTANTS
  Images,   \* the games on the USB drive, see IsImage
  NoImage,  \* a slot of diconfig.bin that names none
  DiscId,   \* the id of the disc in the drive
  NoDiscId, \* what memory holds before an id is read
  DolBase,  \* 0x3100
  Loader,   \* 0x01300000, where a game reads the menu to
  High,     \* 0x01700000
  Bi2Length,\* 0x2000
  MaxStarts \* bound: games started

(* What DoPatches looks for: the DVD library's read function, __fwrite,    *)
(* AIResetStreamSampleCount and a comparison of the video mode.            *)
PatchKinds == {"DVDLowRead", "fwrite", "AI", "VI"}

(* text: the sections of code, [at, length], unused ones at 0; fns: the    *)
(* functions in them, [at, kind]; other: what else is read, with no code;  *)
(* table: the file table, above High; pal: the last letter of the id is P  *)
(* (the program takes the other letters of PAL games for NTSC).            *)
IsImage(g) ==
  /\ \A s \in g.text \cup g.other \cup {g.table} : s.at \in Nat /\ s.length \in Nat \ {0}
  /\ \A f \in g.fns : \E k \in PatchKinds, s \in {t \in g.text : t.at # 0} :
       \E i \in 0 .. s.length - 1 : f = [at |-> s.at + i, kind |-> k]
  /\ \E s \in g.text : s.at >= DolBase
  /\ \A s \in g.text : s.at = 0 \/ (DolBase <= s.at /\ s.at + s.length <= Loader)
  /\ \A s \in g.other : s.at <= High \/ s.length = Bi2Length
  /\ g.table.at > High /\ g.table.length # Bi2Length
  /\ g.id \notin {DiscId, NoDiscId} /\ g.pal \in BOOLEAN

ASSUME EhciDiscAssumption ==
  /\ DolBase \in Nat \ {0} /\ Loader \in Nat /\ High \in Nat
  /\ Loader > DolBase /\ High > Loader + 2
  /\ MaxStarts \in Nat
  /\ NoImage \notin Images /\ \A g \in Images : IsImage(g)
  /\ \A g, h \in Images : g.id = h.id => g.pal = h.pal

VARIABLES
  main,     \* where main is
  image,    \* the image that is open, or NoImage
  DOLSize,
  Patch,    \* the game has been patched
  id,       \* the 32 bytes at address 0
  video,    \* the word at 0xCC, or -1: not written
  stubs,    \* the menu has the stubs of the mailbox
  raw,      \* functions in memory that are not patched, [at, kind]
  program,  \* on the PPC: "off", "menu", "game", or "stuck" in a read
  toload,   \* what the menu still has to read of the game
  late,     \* history: some of it came after the file table
  starts    \* games started, of MaxStarts

disc == <<main, image, DOLSize, Patch, id, video, stubs, raw, program, toload, late, starts>>
game == <<image, DOLSize>>
ppc  == <<raw, program, toload, late, starts>>
-----------------------------------------------------------------------------
(* DoPatches, over size bytes from ptr.  It stops as soon as every kind    *)
(* has been found once.                                                    *)

Within(fns, ptr, size) == {x \in fns : ptr <= x.at /\ x.at < ptr + size}
FirstOf(fns, kind) == Min({x.at : x \in {y \in fns : y.kind = kind}})

(* Variant for a run: as soon as one has.                                  *)
DoPatches_One(fns, ptr, size) ==
  LET seen == Within(fns, ptr, size)
  IN  IF seen = {} THEN fns ELSE {x \in fns : x \notin seen \/ x.at > Min({y.at : y \in seen})}

DoPatches(fns, ptr, size) ==
  LET seen == Within(fns, ptr, size)
      stop == IF \A k \in PatchKinds : \E x \in seen : x.kind = k
              THEN Max({FirstOf(seen, k) : k \in PatchKinds}) ELSE ptr + size
  IN  {x \in fns : x \notin seen \/ x.at > stop}

(* DVDSelectGame: how far the code of the game reaches.                    *)
TextEnd(g) == Max({s.at + s.length : s \in {t \in g.text : t.at # 0}})
-----------------------------------------------------------------------------
DiscInit ==
  /\ main = "config" /\ image = NoImage /\ DOLSize = 0 /\ Patch = FALSE
  /\ id = NoDiscId /\ video = -1 /\ stubs = FALSE
  /\ raw = {} /\ program = "off" /\ toload = {} /\ late = FALSE /\ starts = 0

(* The drive has been mounted.  Without /sneek/diconfig.bin, or without    *)
(* the image it names, the console is switched off.                        *)
DVDReadConfig ==
  /\ main = "config"
  /\ \/ main' = "halt" /\ UNCHANGED image
     \/ main' = "select" /\ image' \in Images \cup {NoImage}
  /\ UNCHANGED <<DOLSize, Patch, id, video, stubs, ppc>>

DVDSelectGame ==
  /\ main = "select"
  /\ IF image = NoImage THEN main' = "halt" /\ UNCHANGED DOLSize
     ELSE main' = "discid" /\ DOLSize' = TextEnd(image) - DolBase
  /\ UNCHANGED <<image, Patch, id, video, stubs, ppc>>

(* A drive with a disc; without one the id stays and the error is logged.  *)
ReadDiscID ==
  /\ main = "discid" /\ main' = "init"
  /\ id' \in {id, DiscId}
  /\ UNCHANGED <<game, Patch, video, stubs, ppc>>

(* Variant for a run: the id is left to the drive.                         *)
DIInit_NoId ==
  /\ main = "init" /\ main' = "patch"
  /\ UNCHANGED <<game, Patch, id, video, stubs, ppc>>

DIInit ==
  /\ main = "init" /\ main' = "patch"
  /\ id' = image.id
  /\ UNCHANGED <<game, Patch, video, stubs, ppc>>

(* PatchGCIPL, and the PPC is told to start.                               *)
PatchGCIPL ==
  /\ main = "patch" /\ main' = "run"
  /\ stubs' = TRUE
  /\ program' = "menu" /\ toload' = image.text \cup image.other \cup {image.table}
  /\ UNCHANGED <<game, Patch, id, video, raw, late, starts>>
-----------------------------------------------------------------------------
(* The reads.                                                              *)

CodeIn(s) == Within(image.fns, s.at, s.length)

(* The region is taken from the id in memory.                              *)
IsPal(x) == \E g \in Images : g.id = x /\ g.pal

(* Case 0xA8 of DIUpdateRegisters, with what the read brings to memory.    *)
DIRead(buffer, length, code) ==
  LET after == {x \in raw : x.at \notin buffer .. buffer + length - 1} \cup code
  IN  IF buffer > High /\ length # Bi2Length /\ ~Patch
      THEN /\ raw' = DoPatches(after, DolBase, DOLSize)
           /\ video' = IF IsPal(id) THEN 5 ELSE 0
           /\ Patch' = TRUE
      ELSE /\ raw' = IF buffer = Loader /\ Patch THEN DoPatches(after, buffer, length) ELSE after
           /\ UNCHANGED <<video, Patch>>

(* The menu reads a part of the game.                                      *)
LoadPart(s) ==
  /\ main = "run" /\ program = "menu"
  /\ s \in toload /\ toload' = toload \ {s}
  /\ DIRead(s.at, s.length, IF s \in image.text THEN CodeIn(s) ELSE {})
  /\ late' = (late \/ (s \in image.text /\ image.table \notin toload))
  /\ UNCHANGED <<main, game, id, stubs, program, starts>>

(* A failed seek or read leaves no status: the stub waits for ever.        *)
LoadFails ==
  /\ main = "run" /\ program \in {"menu", "game"} /\ (program = "menu" => toload # {})
  /\ program' = "stuck"
  /\ UNCHANGED <<main, game, Patch, id, video, stubs, raw, toload, late, starts>>

RunGame ==
  /\ main = "run" /\ program = "menu" /\ toload = {} /\ starts < MaxStarts
  /\ program' = "game" /\ starts' = starts + 1
  /\ UNCHANGED <<main, game, Patch, id, video, stubs, raw, toload, late>>

(* A game that restarts reads the disc's loader, which then takes the part *)
(* of the menu; the functions in it are one each.                          *)
MenuCode == {[at |-> Loader + 1, kind |-> "DVDLowRead"], [at |-> Loader + 2, kind |-> "VI"]}

RestartGame ==
  /\ main = "run" /\ program = "game"
  /\ DIRead(Loader, High - Loader, MenuCode)
  /\ program' = "menu" /\ toload' = image.text \cup image.other \cup {image.table}
  /\ late' = FALSE
  /\ UNCHANGED <<main, game, id, stubs, starts>>

DiscNext ==
  \/ DVDReadConfig \/ DVDSelectGame \/ ReadDiscID \/ DIInit \/ PatchGCIPL
  \/ \E s \in toload : LoadPart(s)
  \/ LoadFails \/ RunGame \/ RestartGame

DiscSpec == DiscInit /\ [][DiscNext]_disc
-----------------------------------------------------------------------------
(* Of each kind of function, the first in the game's own code is patched   *)
(* when the game starts, if the file table was the last part to be read,   *)
(* and the loader's functions are when a game that restarts has read it.   *)
(* Only the first start counts: Patch is never reset, and a game that is   *)
(* read again is not patched again (ehci/dip.c:399-460,                    *)
(* ehci/Patches.c:664-815).                                                *)
GameIsPatched ==
  /\ program = "game" /\ starts = 1 /\ ~late =>
       \A k \in {x.kind : x \in image.fns} :
          [at |-> FirstOf(image.fns, k), kind |-> k] \notin raw
  /\ program = "menu" /\ starts > 0 => MenuCode \cap raw = {}

(* A game finds its own id in memory, whatever disc is in the drive, and   *)
(* the word for its region's video mode (ehci/main.c:177-182,              *)
(* ehci/dip.c:404-417); and no menu runs without the stubs.                *)
RegionFits ==
  /\ program # "off" => stubs /\ id = image.id
  /\ program = "game" => video = IF image.pal THEN 5 ELSE 0
=============================================================================
