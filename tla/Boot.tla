-------------------------------- MODULE Boot --------------------------------
(***************************************************************************)
(* A console that is switched on and off: how DIOS MIOS Lite decides what  *)
(* to start (main in DML/main.c, DVDSelectGame in DVD.c) and what it       *)
(* changes on the way in the console's settings memory (SRAM, Config.c),   *)
(* on the SD card and in the menu program (IPL) that waits on the PPC.     *)
(*                                                                         *)
(* boot.bin, the SRAM chip and the disc outlive a boot.  The power may be  *)
(* cut at any step, also between two words of the SRAM.  Left to modules   *)
(* of their own: CardInit and the polls of the main loop (CardStore,       *)
(* CardMailbox, DIMailbox) and the files (FatFiles).                       *)
(***************************************************************************)
EXTENDS Integers

CONSTANTS
  Games,    \* the games that have a /games/<name>/game.iso on the SD card
  Region,   \* Region[g]: the word at 0x458 of the disc, see DVD.c:156
  Mios,     \* the games that the menu patches itself (MIOSCheckPatches)
  Missing,  \* a path that leads to no file
  NoGame,   \* no path at all
  Disc,     \* the id of the disc in the drive
  NoId,     \* what memory holds before an id is read
  Configs   \* what loaders leave at 0x1700, see IsConfig

ForceFlags == {"PAL50", "PAL60", "NTSC", "PROG"}

(* The part of DML_CFG that matters here.  video is VideoMode & 0xFFFF0000. *)
IsConfig(c) ==
  /\ c.video \in {"AUTO", "FORCE", "NONE"}
  /\ c.forced \subseteq ForceFlags
  /\ c.path \in Games \cup {Missing, NoGame}
  /\ c.nodisc \in BOOLEAN

(* Without a valid block at 0x1700 the defines of global.h count.          *)
Defaults == [video |-> "AUTO", forced |-> {}, path |-> NoGame, nodisc |-> FALSE]

ASSUME BootAssumption ==
  /\ Region \in [Games -> Nat] /\ Mios \subseteq Games
  /\ Missing \notin Games /\ NoGame \notin Games /\ Missing # NoGame
  /\ Disc \notin Games /\ NoId \notin Games /\ Disc # NoId
  /\ \A c \in Configs : IsConfig(c)

VARIABLES
  chip,      \* the SRAM chip: [mode, pal60, prog, sum]
  torn,      \* history: the power was cut while the chip was written
  bootbin,   \* the game that /games/boot.bin names, or NoGame: no such file
  protected, \* the SD card is write-protected
  pc,        \* where main is
  drive,     \* how the DVD drive answers
  cfg,       \* DMLCfg
  homebrew,  \* a homebrew program was found in memory
  BootGCDisc,
  chosen,    \* the path in str
  game,      \* what GameFile has open, or NoGame
  id,        \* the 32 bytes at address 0
  sram,      \* SRAM, the copy that is worked on
  old,       \* history: the video mode the chip had when this boot read it
  ipl,       \* the menu program: [stubs, mode, mios], see Fresh
  runs       \* what was started, or Off

vars == <<chip, torn, bootbin, protected, pc, drive, cfg, homebrew, BootGCDisc,
          chosen, game, id, sram, old, ipl, runs>>
files == <<bootbin, protected>>
video == <<chip, torn, sram, old>>

Off == <<"off", NoGame>>

(* The menu as it is loaded: no stub in it, its own choice of video mode,  *)
(* and a table of games that it patches.                                   *)
Fresh == [stubs |-> FALSE, mode |-> FALSE, mios |-> TRUE]

(* The fields of SRAM that are used.  Flags: bits 0 and 1 are mode, bit 7  *)
(* prog.  BootMode: bit 6 is pal60.                                        *)
Settings == [mode : 0 .. 3, pal60 : BOOLEAN, prog : BOOLEAN]
-----------------------------------------------------------------------------
(* SRAM_Checksum, but for the fields that never change.                    *)
SRAM_Checksum(s) ==
  s.mode + (IF s.pal60 THEN 64 ELSE 0) + (IF s.prog THEN 128 ELSE 0)

Written(s) ==
  [mode |-> s.mode, pal60 |-> s.pal60, prog |-> s.prog, sum |-> SRAM_Checksum(s)]

Stored(c) == [mode |-> c.mode, pal60 |-> c.pal60, prog |-> c.prog]

(* The masks 0x7C and 0xBF clear the progressive flag with the mode.       *)
SRAM_SetVideoMode(s, m) ==
  CASE m = "PAL60" -> [mode |-> 1, pal60 |-> TRUE, prog |-> FALSE]
    [] m = "NTSC"  -> [mode |-> 0, pal60 |-> FALSE, prog |-> FALSE]
    [] m = "PROG"  -> [s EXCEPT !.prog = TRUE]
    [] OTHER       -> s

When(c, s, m) == IF c THEN SRAM_SetVideoMode(s, m) ELSE s

(* DML_VID_FORCE: the flags in this order; GCVideoModeNone changes nothing. *)
Forced(s, flags) ==
  When("PROG" \in flags,
    When("NTSC" \in flags,
      When("PAL60" \in flags,
        When("PAL50" \in flags, s, "None"), "PAL60"), "NTSC"), "PROG")

(* Variant for a run: the progressive flag first; NTSC clears it.          *)
ForNTSC_ProgFirst(s) ==
  CASE s.mode = 0        -> When(~s.prog, s, "PROG")
    [] s.mode \in {1, 2} -> SRAM_SetVideoMode(SRAM_SetVideoMode(s, "PROG"), "NTSC")
    [] OTHER             -> s

(* A game from Japan or the USA, or of a region without a name.            *)
ForNTSC(s) ==
  CASE s.mode = 0        -> When(~s.prog, s, "PROG")
    [] s.mode \in {1, 2} -> SRAM_SetVideoMode(SRAM_SetVideoMode(s, "NTSC"), "PROG")
    [] OTHER             -> s

(* A European game.                                                        *)
ForPAL(s) ==
  CASE s.mode = 0        -> SRAM_SetVideoMode(SRAM_SetVideoMode(s, "PAL60"), "PROG")
    [] s.mode \in {1, 2} -> When(~s.pal60 /\ ~s.prog, s, "PAL60")
    [] OTHER             -> s

European(g) == Region[g] = 2

(* The menu is told to ignore the mode it was built for, by two            *)
(* instructions, when AUTO crosses over.                                   *)
CrossesOver(s, g) == IF European(g) THEN s.mode = 0 ELSE s.mode \in {1, 2}

VideoFor(c, s, g) ==
  CASE c.video = "FORCE" -> Forced(s, c.forced)
    [] c.video = "NONE"  -> s
    [] OTHER             -> IF European(g) THEN ForPAL(s) ELSE ForNTSC(s)
-----------------------------------------------------------------------------
(* main, up to DVDSelectGame.                                              *)

Init ==
  /\ chip \in {Written(s) : s \in Settings} /\ torn = FALSE
  /\ bootbin \in Games \cup {NoGame} /\ protected \in BOOLEAN
  /\ pc = "off" /\ drive = "ready" /\ cfg = Defaults
  /\ homebrew = FALSE /\ BootGCDisc = FALSE
  /\ chosen = NoGame /\ game = NoGame /\ id = NoId
  /\ sram = Stored(chip) /\ old = chip.mode
  /\ ipl = Fresh /\ runs = Off

Goto(to) == pc' = to

PowerOn ==
  /\ pc = "off" /\ Goto("homebrew")
  /\ drive' \in {"ready", "empty", "asleep", "unreadable"}
  /\ UNCHANGED <<video, files, cfg, homebrew, BootGCDisc, chosen, game, id, ipl, runs>>

(* "gchomebrew dol" at 0x007FFFE0: LoadDOL puts its sections in place, and *)
(* its entry point.                                                        *)
Homebrew ==
  /\ pc = "homebrew" /\ Goto("sram")
  /\ homebrew' \in BOOLEAN
  /\ BootGCDisc' = homebrew'
  /\ UNCHANGED <<video, files, drive, cfg, chosen, game, id, ipl, runs>>

(* HeapInit, sdhc_init and f_mount, which only notes the work area, change *)
(* nothing here.  The checksum of what is read is not looked at.           *)
SRAM_Init ==
  /\ pc = "sram" /\ Goto("config")
  /\ sram' = Stored(chip) /\ old' = chip.mode
  /\ UNCHANGED <<chip, torn, files, drive, cfg, homebrew, BootGCDisc, chosen, game, id, ipl, runs>>

ConfigInit ==
  /\ pc = "config"
  /\ cfg' \in Configs \cup {Defaults}
  /\ Goto(IF cfg'.nodisc THEN "select" ELSE "disc")
  /\ UNCHANGED <<video, files, drive, homebrew, BootGCDisc, chosen, game, id, ipl, runs>>

(* LowReadDiscID and DVDLowGetError: error 1 is no disc, 2 and 5 ask for a *)
(* reset, others are passed over.                                          *)
LowReadDiscID ==
  /\ pc = "disc"
  /\ id' = IF drive = "ready" THEN Disc ELSE id
  /\ Goto(CASE drive = "empty" -> "halt" [] drive = "asleep" -> "wake" [] OTHER -> "select")
  /\ UNCHANGED <<video, files, drive, cfg, homebrew, BootGCDisc, chosen, game, ipl, runs>>

(* Variant for a run: the id is asked for again as the first time.         *)
DVDLowReset_Again ==
  /\ pc = "wake" /\ Goto("disc")
  /\ drive' \in {"ready", "asleep"}
  /\ UNCHANGED <<video, files, cfg, homebrew, BootGCDisc, chosen, game, id, ipl, runs>>

(* The reset, the id once more and DVDEnableAudioStreaming.  If that fails *)
(* too the error is only printed.                                          *)
DVDLowReset ==
  /\ pc = "wake" /\ Goto("select")
  /\ drive' \in {"ready", "asleep"}
  /\ id' = IF drive' = "ready" THEN Disc ELSE id
  /\ UNCHANGED <<video, files, cfg, homebrew, BootGCDisc, chosen, game, ipl, runs>>
-----------------------------------------------------------------------------
(* DVDSelectGame.                                                          *)

SelectSkipped ==
  /\ pc = "select" /\ BootGCDisc
  /\ Goto("diinit")
  /\ UNCHANGED <<video, files, drive, cfg, homebrew, BootGCDisc, chosen, game, id, ipl, runs>>

SelectConfigured ==
  /\ pc = "select" /\ ~BootGCDisc /\ cfg.path # NoGame
  /\ chosen' = cfg.path
  /\ Goto("open")
  /\ UNCHANGED <<video, files, drive, cfg, homebrew, BootGCDisc, game, id, ipl, runs>>

(* return -1                                                               *)
NoBootBin ==
  /\ pc = "select" /\ ~BootGCDisc /\ cfg.path = NoGame /\ bootbin = NoGame
  /\ BootGCDisc' = TRUE
  /\ Goto("diinit")
  /\ UNCHANGED <<video, files, drive, cfg, homebrew, chosen, game, id, ipl, runs>>

(* The file is read into a block of the heap that is not terminated behind *)
(* it: what the memory there held may be taken for a part of the path.     *)
ReadBootBin ==
  /\ pc = "select" /\ ~BootGCDisc /\ cfg.path = NoGame /\ bootbin # NoGame
  /\ chosen' \in {bootbin, Missing}
  /\ Goto("unlink")
  /\ UNCHANGED <<video, files, drive, cfg, homebrew, BootGCDisc, game, id, ipl, runs>>

(* Variant for a run: boot.bin is left on the card.                        *)
UnlinkBootBin_Keep ==
  /\ pc = "unlink" /\ Goto("open")
  /\ UNCHANGED <<video, files, drive, cfg, homebrew, BootGCDisc, chosen, game, id, ipl, runs>>

(* The result of f_unlink is not looked at.                                *)
UnlinkBootBin ==
  /\ pc = "unlink" /\ Goto("open")
  /\ bootbin' = IF protected THEN bootbin ELSE NoGame
  /\ UNCHANGED <<video, protected, drive, cfg, homebrew, BootGCDisc, chosen, game, id, ipl, runs>>

(* The first 32 bytes of the game replace the id of the disc.              *)
OpenGame ==
  /\ pc = "open" /\ chosen \in Games
  /\ game' = chosen /\ id' = chosen
  /\ Goto("video")
  /\ UNCHANGED <<video, files, drive, cfg, homebrew, BootGCDisc, chosen, ipl, runs>>

(* return -2                                                               *)
OpenFails ==
  /\ pc = "open" /\ chosen \notin Games
  /\ BootGCDisc' = TRUE
  /\ Goto("diinit")
  /\ UNCHANGED <<video, files, drive, cfg, homebrew, chosen, game, id, ipl, runs>>

SetVideo ==
  /\ pc = "video" /\ Goto("flush")
  /\ sram' = VideoFor(cfg, sram, game)
  /\ ipl' = [ipl EXCEPT !.mode = cfg.video = "AUTO" /\ CrossesOver(sram, game)]
  /\ UNCHANGED <<chip, torn, old, files, drive, cfg, homebrew, BootGCDisc, chosen, game, id, runs>>

(* SRAM_Flush.  The chip takes a word of four bytes at a time: the first   *)
(* holds the checksums, the fifth BootMode and Flags.                      *)
WriteSum ==
  /\ pc = "flush" /\ Goto("flags")
  /\ chip' = [chip EXCEPT !.sum = SRAM_Checksum(sram)]
  /\ torn' = TRUE
  /\ UNCHANGED <<sram, old, files, drive, cfg, homebrew, BootGCDisc, chosen, game, id, ipl, runs>>

(* Variant for a run: the progressive flag is not written.                 *)
WriteFlags_NoProg ==
  /\ pc = "flags" /\ Goto("diinit")
  /\ chip' = [chip EXCEPT !.mode = sram.mode, !.pal60 = sram.pal60]
  /\ torn' = FALSE
  /\ UNCHANGED <<sram, old, files, drive, cfg, homebrew, BootGCDisc, chosen, game, id, ipl, runs>>

WriteFlags ==
  /\ pc = "flags" /\ Goto("diinit")
  /\ chip' = [chip EXCEPT !.mode = sram.mode, !.pal60 = sram.pal60, !.prog = sram.prog]
  /\ torn' = FALSE
  /\ UNCHANGED <<sram, old, files, drive, cfg, homebrew, BootGCDisc, chosen, game, id, ipl, runs>>
-----------------------------------------------------------------------------
(* The rest of main.                                                       *)

(* Variant for a run: the menu is patched for the disc as well.            *)
DIInit_Patch ==
  /\ pc = "diinit" /\ Goto("patch")
  /\ id' = IF game # NoGame THEN game ELSE id
  /\ UNCHANGED <<video, files, drive, cfg, homebrew, BootGCDisc, chosen, game, ipl, runs>>

(* With no game open f_read fails and leaves the id alone.                 *)
DIInit ==
  /\ pc = "diinit"
  /\ id' = IF game # NoGame THEN game ELSE id
  /\ Goto(IF BootGCDisc THEN "start" ELSE "patch")
  /\ UNCHANGED <<video, files, drive, cfg, homebrew, BootGCDisc, chosen, game, ipl, runs>>

(* MIOSCheckPatches renames the entries of the menu's table when the id is *)
(* one of them; DoPatchesIPL puts in the stubs of the mailbox.             *)
PatchIPL ==
  /\ pc = "patch" /\ Goto("start")
  /\ ipl' = [ipl EXCEPT !.stubs = TRUE, !.mios = id \notin Mios]
  /\ UNCHANGED <<video, files, drive, cfg, homebrew, BootGCDisc, chosen, game, id, runs>>

Program ==
  CASE homebrew              -> <<"homebrew", NoGame>>
    [] BootGCDisc /\ ~homebrew -> <<"disc", NoGame>>
    [] OTHER -> <<IF cfg.path # NoGame THEN "configured" ELSE "asked", game>>

(* write32( 0x30F8, 0 )                                                    *)
Start ==
  /\ pc = "start" /\ Goto("run")
  /\ runs' = Program
  /\ UNCHANGED <<video, files, drive, cfg, homebrew, BootGCDisc, chosen, game, id, ipl>>
-----------------------------------------------------------------------------
(* The console.                                                            *)

(* A program changes the settings, by the library of the console.          *)
ChangeSettings ==
  /\ pc = "run"
  /\ \E s \in Settings :
       /\ s.mode = 3 => chip.mode = 3
       /\ chip' = Written(s)
  /\ torn' = FALSE
  /\ pc' = "change" /\ UNCHANGED <<sram, old>>
  /\ UNCHANGED <<files, drive, cfg, homebrew, BootGCDisc, chosen, game, id, ipl, runs>>

(* SysReset, the power button or a power cut: memory is lost.              *)
PowerOff ==
  /\ pc # "off" /\ Goto("off")
  /\ drive' = "ready" /\ cfg' = Defaults
  /\ homebrew' = FALSE /\ BootGCDisc' = FALSE
  /\ chosen' = NoGame /\ game' = NoGame /\ id' = NoId
  /\ sram' = Stored(chip) /\ old' = chip.mode
  /\ ipl' = Fresh /\ runs' = Off
  /\ UNCHANGED <<chip, torn, files>>

(* A loader that ran on the Wii asks for a game.                           *)
Ask(g) ==
  /\ pc = "off" /\ ~protected
  /\ bootbin' = g
  /\ UNCHANGED <<video, protected, pc, drive, cfg, homebrew, BootGCDisc, chosen, game, id, ipl, runs>>

SelectGame ==
  SelectSkipped \/ SelectConfigured \/ NoBootBin \/ ReadBootBin \/ UnlinkBootBin
    \/ OpenGame \/ OpenFails \/ SetVideo \/ WriteSum \/ WriteFlags

Main ==
  Homebrew \/ SRAM_Init \/ ConfigInit \/ LowReadDiscID \/ DVDLowReset
    \/ SelectGame \/ DIInit \/ PatchIPL \/ Start

Next == PowerOn \/ Main \/ ChangeSettings \/ PowerOff \/ \E g \in Games : Ask(g)

(* main goes on: every loop in it waits for the drive, which answers.      *)
Spec == Init /\ [][Next]_vars /\ WF_vars(Main)
-----------------------------------------------------------------------------
Places ==
  {"off", "homebrew", "sram", "config", "disc", "wake", "select", "unlink", "open",
   "video", "flush", "flags", "diinit", "patch", "start", "run", "change", "halt"}

Programs ==
  {Off, <<"homebrew", NoGame>>, <<"disc", NoGame>>}
    \cup {<<by, g>> : by \in {"configured", "asked"}, g \in Games}

TypeOK ==
  /\ chip \in [mode : 0 .. 3, pal60 : BOOLEAN, prog : BOOLEAN, sum : Nat]
  /\ torn \in BOOLEAN /\ protected \in BOOLEAN
  /\ bootbin \in Games \cup {NoGame}
  /\ pc \in Places
  /\ drive \in {"ready", "empty", "asleep", "unreadable"}
  /\ IsConfig(cfg)
  /\ homebrew \in BOOLEAN /\ BootGCDisc \in BOOLEAN
  /\ chosen \in Games \cup {Missing, NoGame} /\ game \in Games \cup {NoGame}
  /\ id \in Games \cup {Disc, NoId}
  /\ sram \in Settings /\ old \in 0 .. 3
  /\ ipl \in [stubs : BOOLEAN, mode : BOOLEAN, mios : BOOLEAN]
  /\ runs \in Programs

FromCard == runs[1] \in {"configured", "asked"}

(* The chip's checksum is that of its contents, whatever was booted and    *)
(* set before (the console would take its settings for lost): but for a    *)
(* power cut between the words of SRAM_Write, and until the next boot.     *)
SumFits == torn \/ chip.sum = SRAM_Checksum(chip)

(* Under AUTO no game starts in a mode of another region, whatever mode    *)
(* earlier games left in the SRAM: progressive NTSC for those from Japan   *)
(* and the USA, one of the PAL modes with 60 Hz or progressive for those   *)
(* from Europe (DVD.c:153-213).  The menu's own check of the mode is       *)
(* patched out just when the mode was changed across the regions.  A chip  *)
(* with the mode that does not exist is left as it is.                     *)
VideoFits ==
  pc = "run" /\ FromCard /\ cfg.video = "AUTO" /\ old # 3 =>
    /\ ipl.mode <=> (old = 0) # (chip.mode = 0)
    /\ IF European(game)
         THEN chip.mode \in {1, 2} /\ (chip.pal60 \/ chip.prog)
         ELSE chip.mode = 0 /\ chip.prog

(* A game from the card starts with its own id in memory, the mailbox's    *)
(* stubs in the menu and none of the menu's own patches for it.  The disc  *)
(* and homebrew start with an untouched menu and never with the id of a    *)
(* game (main.c:248-265).                                                  *)
MenuFits ==
  runs # Off =>
    IF FromCard
      THEN /\ id = runs[2] /\ game = runs[2]
           /\ ipl.stubs /\ (game \in Mios => ~ipl.mios)
      ELSE ipl = Fresh /\ id \in {Disc, NoId} /\ game = NoGame

(* Every boot ends in a running program, or with the power off.            *)
EveryBootEnds == pc = "homebrew" ~> pc \in {"run", "halt", "off"}

(* A request in boot.bin is pending until its game runs, also while the    *)
(* file is already gone.                                                   *)
Request == IF pc \in {"open", "video", "flush", "flags", "diinit", "patch", "start"}
              /\ cfg.path = NoGame /\ chosen \in Games
             THEN chosen ELSE bootbin

Requests == INSTANCE BootSpec WITH
  request <- Request,
  Others <- {<<"homebrew", NoGame>>, <<"disc", NoGame>>} \cup {<<"configured", g>> : g \in Games}

ImplementsBootSpec == Requests!Spec
=============================================================================
