----------------------------- MODULE BootProofs -----------------------------
(***************************************************************************)
(* Proofs about the boot, for all games, regions and configurations and    *)
(* any sequence of boots and power cuts.                                   *)
(*                                                                         *)
(* The invariant says what is known at each place of main: until OpenGame  *)
(* nothing but the disc's id is in memory (Early), from then on the game   *)
(* that is open, the id and the menu belong together (Open), and the       *)
(* working copy of the SRAM carries what VideoFits asks for from SetVideo  *)
(* to the chip.                                                            *)
(*                                                                         *)
(* And about the branches that are patched into what is booted, for the    *)
(* widths of the processor and all addresses.                              *)
(*                                                                         *)
(* And about how an executable is recognised while it is read, for any     *)
(* number of executables of any layout that is Regular.  CountInv and      *)
(* SectionsInv compare what was counted with what was read, RangeInv says  *)
(* that the range to patch is the one it was read to, and PartsMissing that*)
(* the count is over when nothing is missing.                              *)
(*                                                                         *)
(* And about what the searches of the patcher find, for any tables and any *)
(* program of any length: those for single instructions, for functions and *)
(* for the functions of a loader.  HitsInv and Walk say what such a search *)
(* has done when it is at a place, of a program that is Searchable or      *)
(* Inert.                                                                  *)
(***************************************************************************)
EXTENDS Boot, Branch, DolPatch, PatchScan, FiniteSetTheorems, SequenceTheorems, WellFoundedInduction, TLAPS

Untouched == game = NoGame /\ ipl = Fresh /\ id \in {Disc, NoId}

Open == game \in Games /\ id = game /\ ~BootGCDisc

(* Where the chip's checksum is ahead of its contents.                     *)
SumInv ==
  /\ torn \/ chip.sum = SRAM_Checksum(chip)
  /\ pc = "flags" => torn /\ chip.sum = SRAM_Checksum(sram)

Early == pc \in {"off", "homebrew", "sram", "config", "disc", "wake", "select", "unlink", "open", "halt"}

Running == pc \in {"run", "change"}

MenuInv ==
  /\ homebrew => BootGCDisc
  /\ pc \in {"off", "homebrew", "unlink", "open", "patch"} => ~BootGCDisc
  /\ Early => Untouched
  /\ pc \in {"video", "flush", "flags"} => Open
  /\ ~Early => IF BootGCDisc THEN Untouched ELSE Open
  /\ pc = "start" \/ Running =>
       (~BootGCDisc => ipl.stubs /\ (game \in Mios => ~ipl.mios))
  /\ runs = IF Running THEN Program ELSE Off

(* What VideoFits asks for, of a copy s of the settings.                   *)
Fits(s) ==
  cfg.video = "AUTO" /\ old # 3 =>
    /\ ipl.mode <=> (old = 0) # (s.mode = 0)
    /\ IF European(game)
         THEN s.mode \in {1, 2} /\ (s.pal60 \/ s.prog)
         ELSE s.mode = 0 /\ s.prog

VideoInv ==
  /\ pc \in {"config", "disc", "wake", "select", "unlink", "open", "video"} => sram.mode = old
  /\ pc \in {"flush", "flags"} => Fits(sram)
  /\ pc \in {"diinit", "patch", "start", "run"} /\ ~BootGCDisc => Fits(chip)

Inv == TypeOK /\ SumInv /\ MenuInv /\ VideoInv
-----------------------------------------------------------------------------
(* A checksum depends on the settings only.                                *)
LEMMA SumOfWritten ==
  ASSUME NEW s \in Settings
  PROVE  /\ Written(s) \in [mode : 0 .. 3, pal60 : BOOLEAN, prog : BOOLEAN, sum : Nat]
         /\ Written(s).sum = SRAM_Checksum(Written(s))
         /\ Stored(Written(s)) = s
<1>1. SRAM_Checksum(s) \in Nat BY DEF SRAM_Checksum, Settings
<1>2. Written(s).sum = SRAM_Checksum(s) /\ SRAM_Checksum(Written(s)) = SRAM_Checksum(s)
  BY DEF Written, SRAM_Checksum
<1> QED BY <1>1, <1>2 DEF Written, Stored, Settings

(* SRAM_SetVideoMode leaves settings, and DVDSelectGame with it.           *)
LEMMA SetVideoModeType ==
  ASSUME NEW s \in Settings, NEW m \in {"None", "PAL60", "NTSC", "PROG"}
  PROVE  SRAM_SetVideoMode(s, m) \in Settings
<1>1. CASE m = "PAL60" BY <1>1 DEF SRAM_SetVideoMode, Settings
<1>2. CASE m = "NTSC" BY <1>2 DEF SRAM_SetVideoMode, Settings
<1>3. CASE m = "PROG"
  <2>1. SRAM_SetVideoMode(s, m) = [s EXCEPT !.prog = TRUE]
    BY <1>3 DEF SRAM_SetVideoMode
  <2> QED BY <2>1 DEF Settings
<1>4. CASE m = "None" BY <1>4 DEF SRAM_SetVideoMode
<1> QED BY <1>1, <1>2, <1>3, <1>4

LEMMA VideoForType ==
  ASSUME NEW c, IsConfig(c), NEW s \in Settings, NEW g
  PROVE  VideoFor(c, s, g) \in Settings
<1>1. \A t \in Settings, m \in {"None", "PAL60", "NTSC", "PROG"} :
        SRAM_SetVideoMode(t, m) \in Settings
  BY SetVideoModeType
<1>3. Forced(s, c.forced) \in Settings
  <2> DEFINE s1 == When("PAL50" \in c.forced, s, "None")
             s2 == When("PAL60" \in c.forced, s1, "PAL60")
             s3 == When("NTSC" \in c.forced, s2, "NTSC")
  <2>1. s1 \in Settings BY <1>1 DEF When
  <2> HIDE DEF s1
  <2>2. s2 \in Settings BY <1>1, <2>1 DEF When
  <2> HIDE DEF s2
  <2>3. s3 \in Settings BY <1>1, <2>2 DEF When
  <2> HIDE DEF s3
  <2>4. When("PROG" \in c.forced, s3, "PROG") \in Settings BY <1>1, <2>3 DEF When
  <2> QED BY <2>4 DEF Forced, s1, s2, s3
<1>4. ForNTSC(s) \in Settings BY <1>1 DEF ForNTSC, When
<1>5. ForPAL(s) \in Settings BY <1>1 DEF ForPAL, When
<1> QED BY <1>3, <1>4, <1>5 DEF VideoFor

(* The modes AUTO chooses.                                                 *)
LEMMA AutoFits ==
  ASSUME NEW s \in Settings, s.mode # 3
  PROVE  /\ ForNTSC(s).mode = 0 /\ ForNTSC(s).prog
         /\ ForPAL(s).mode \in {1, 2} /\ (ForPAL(s).pal60 \/ ForPAL(s).prog)
BY DEF ForNTSC, ForPAL, When, SRAM_SetVideoMode, Settings
-----------------------------------------------------------------------------
LEMMA InitInv == Init => Inv
<1> SUFFICES ASSUME Init PROVE Inv OBVIOUS
<1> USE BootAssumption DEF Init
<1> PICK s \in Settings : chip = Written(s) OBVIOUS
<1>1. /\ chip \in [mode : 0 .. 3, pal60 : BOOLEAN, prog : BOOLEAN, sum : Nat]
      /\ chip.sum = SRAM_Checksum(chip) /\ sram \in Settings /\ old \in 0 .. 3
  BY SumOfWritten DEF Settings
<1>2. IsConfig(cfg) BY DEF IsConfig, Defaults
<1>3. TypeOK
  <2>1. runs \in Programs BY DEF Programs
  <2>2. ipl \in [stubs : BOOLEAN, mode : BOOLEAN, mios : BOOLEAN] BY DEF Fresh
  <2>3. pc \in Places /\ torn \in BOOLEAN BY DEF Places
  <2> QED BY <1>1, <1>2, <2>1, <2>2, <2>3 DEF TypeOK
<1>4. SumInv BY <1>1 DEF SumInv
<1>5. MenuInv BY DEF MenuInv, Early, Untouched, Running
<1>6. VideoInv BY DEF VideoInv
<1> QED BY <1>3, <1>4, <1>5, <1>6 DEF Inv

(* Every step of main keeps the invariant.                                 *)
LEMMA BeforeSelect ==
  ASSUME Inv, PowerOn \/ Homebrew \/ SRAM_Init \/ ConfigInit \/ LowReadDiscID \/ DVDLowReset
  PROVE  Inv'
<1> USE BootAssumption DEF Inv, Goto, video, files
<1>1. CASE PowerOn
  <2> USE <1>1 DEF PowerOn
  <2>1. TypeOK' BY DEF TypeOK, Places
  <2>2. SumInv' BY DEF SumInv
  <2>3. MenuInv' BY DEF MenuInv, Early, Untouched, Open, Running
  <2>4. VideoInv' BY DEF VideoInv
  <2> QED BY <2>1, <2>2, <2>3, <2>4
<1>2. CASE Homebrew
  <2> USE <1>2 DEF Homebrew
  <2>1. TypeOK' BY DEF TypeOK, Places
  <2>2. SumInv' BY DEF SumInv
  <2>3. MenuInv' BY DEF MenuInv, Early, Untouched, Open, Running
  <2>4. VideoInv' BY DEF VideoInv
  <2> QED BY <2>1, <2>2, <2>3, <2>4
<1>3. CASE SRAM_Init
  <2> USE <1>3 DEF SRAM_Init
  <2>1. TypeOK'
    <3>1. sram' \in Settings /\ old' \in 0 .. 3 BY DEF TypeOK, Stored, Settings
    <3> QED BY <3>1 DEF TypeOK, Places
  <2>2. SumInv' BY DEF SumInv
  <2>3. MenuInv' BY DEF MenuInv, Early, Untouched, Open, Running
  <2>4. VideoInv' BY DEF VideoInv, Stored
  <2> QED BY <2>1, <2>2, <2>3, <2>4
<1>4. CASE ConfigInit
  <2> USE <1>4 DEF ConfigInit
  <2>1. IsConfig(cfg')
    <3>1. IsConfig(Defaults) BY DEF IsConfig, Defaults
    <3> QED BY <3>1
  <2>2. pc' \in {"select", "disc"} OBVIOUS
  <2>3. TypeOK' BY <2>1, <2>2 DEF TypeOK, Places
  <2>4. SumInv' BY <2>2 DEF SumInv
  <2>5. MenuInv' BY <2>2 DEF MenuInv, Early, Untouched, Open, Running
  <2>6. VideoInv' BY <2>2 DEF VideoInv
  <2> QED BY <2>3, <2>4, <2>5, <2>6
<1>5. CASE LowReadDiscID
  <2> USE <1>5 DEF LowReadDiscID
  <2>1. pc' \in {"halt", "wake", "select"} OBVIOUS
  <2>2. id' \in {Disc, id} OBVIOUS
  <2>3. TypeOK' BY <2>1, <2>2 DEF TypeOK, Places
  <2>4. SumInv' BY <2>1 DEF SumInv
  <2>5. MenuInv' BY <2>1, <2>2 DEF MenuInv, Early, Untouched, Open, Running
  <2>6. VideoInv' BY <2>1 DEF VideoInv
  <2> QED BY <2>3, <2>4, <2>5, <2>6
<1>6. CASE DVDLowReset
  <2> USE <1>6 DEF DVDLowReset
  <2>1. id' \in {Disc, id} OBVIOUS
  <2>2. TypeOK' BY <2>1 DEF TypeOK, Places
  <2>3. SumInv' BY DEF SumInv
  <2>4. MenuInv' BY <2>1 DEF MenuInv, Early, Untouched, Open, Running
  <2>5. VideoInv' BY DEF VideoInv
  <2> QED BY <2>2, <2>3, <2>4, <2>5
<1> QED BY <1>1, <1>2, <1>3, <1>4, <1>5, <1>6

(* So does every step of DVDSelectGame.                                    *)
LEMMA WhileSelecting ==
  ASSUME Inv, SelectGame
  PROVE  Inv'
<1> USE BootAssumption DEF Inv, Goto, video, files
<1>1. CASE SelectSkipped \/ NoBootBin \/ OpenFails
  <2> USE <1>1 DEF SelectSkipped, NoBootBin, OpenFails
  <2>1. TypeOK' BY DEF TypeOK, Places
  <2>2. SumInv' BY DEF SumInv
  <2>3. MenuInv' BY DEF MenuInv, Early, Untouched, Open, Running
  <2>4. VideoInv' BY DEF VideoInv
  <2> QED BY <2>1, <2>2, <2>3, <2>4
<1>2. CASE SelectConfigured \/ ReadBootBin \/ UnlinkBootBin
  <2> USE <1>2 DEF SelectConfigured, ReadBootBin, UnlinkBootBin
  <2>1. TypeOK'
    <3>1. chosen' \in Games \cup {Missing, NoGame} /\ bootbin' \in Games \cup {NoGame}
      BY DEF TypeOK, IsConfig
    <3> QED BY <3>1 DEF TypeOK, Places
  <2>2. SumInv' BY DEF SumInv
  <2>3. MenuInv' BY DEF MenuInv, Early, Untouched, Open, Running
  <2>4. VideoInv' BY DEF VideoInv
  <2> QED BY <2>1, <2>2, <2>3, <2>4
<1>3. CASE OpenGame
  <2> USE <1>3 DEF OpenGame
  <2>1. TypeOK' BY DEF TypeOK, Places
  <2>2. SumInv' BY DEF SumInv
  <2>3. MenuInv' BY DEF MenuInv, Early, Untouched, Open, Running
  <2>4. VideoInv' BY DEF VideoInv
  <2> QED BY <2>1, <2>2, <2>3, <2>4
<1>4. CASE SetVideo
  <2> USE <1>4 DEF SetVideo
  <2>1. sram' \in Settings BY VideoForType DEF TypeOK
  <2>2. ipl' \in [stubs : BOOLEAN, mode : BOOLEAN, mios : BOOLEAN] /\ ipl'.mode \in BOOLEAN
    <3> DEFINE m == cfg.video = "AUTO" /\ CrossesOver(sram, game)
    <3>1. ipl' = [ipl EXCEPT !.mode = m] OBVIOUS
    <3>2. m \in BOOLEAN OBVIOUS
    <3> HIDE DEF m
    <3> QED BY <3>1, <3>2 DEF TypeOK
  <2>3. TypeOK' BY <2>1, <2>2 DEF TypeOK, Places
  <2>4. SumInv' BY DEF SumInv
  <2>5. MenuInv' BY DEF MenuInv, Early, Untouched, Open, Running
  <2>6. Fits(sram)'
    <3> SUFFICES ASSUME cfg.video = "AUTO", old # 3
                 PROVE  /\ ipl'.mode <=> (old = 0) # (sram'.mode = 0)
                        /\ IF European(game)
                             THEN sram'.mode \in {1, 2} /\ (sram'.pal60 \/ sram'.prog)
                             ELSE sram'.mode = 0 /\ sram'.prog
      BY DEF Fits
    <3>1. sram \in Settings /\ sram.mode = old BY DEF TypeOK, VideoInv
    <3>2. sram' = IF European(game) THEN ForPAL(sram) ELSE ForNTSC(sram)
      BY DEF VideoFor
    <3>3. ipl'.mode <=> CrossesOver(sram, game) BY DEF TypeOK
    <3>4. old \in {0, 1, 2} BY DEF TypeOK
    <3>5. CASE European(game)
      <4>1. sram'.mode \in {1, 2} /\ (sram'.pal60 \/ sram'.prog)
        BY <3>1, <3>2, <3>5, AutoFits
      <4> QED BY <3>1, <3>3, <3>4, <3>5, <4>1 DEF CrossesOver
    <3>6. CASE ~European(game)
      <4>1. sram'.mode = 0 /\ sram'.prog
        BY <3>1, <3>2, <3>6, AutoFits
      <4> QED BY <3>1, <3>3, <3>4, <3>6, <4>1 DEF CrossesOver
    <3> QED BY <3>5, <3>6
  <2>7. VideoInv' BY <2>6 DEF VideoInv
  <2> QED BY <2>3, <2>4, <2>5, <2>7
<1>5. CASE WriteSum
  <2> USE <1>5 DEF WriteSum
  <2>1. SRAM_Checksum(sram) \in Nat BY DEF TypeOK, SRAM_Checksum, Settings
  <2>2. chip'.sum = SRAM_Checksum(sram) BY DEF TypeOK
  <2>3. TypeOK' BY <2>1 DEF TypeOK, Places
  <2>4. SumInv' BY <2>2 DEF SumInv
  <2>5. MenuInv' BY DEF MenuInv, Early, Untouched, Open, Running
  <2>6. VideoInv' BY DEF VideoInv, Fits
  <2> QED BY <2>3, <2>4, <2>5, <2>6
<1>6. CASE WriteFlags
  <2> USE <1>6 DEF WriteFlags
  <2>1. /\ chip'.mode = sram.mode /\ chip'.pal60 = sram.pal60
        /\ chip'.prog = sram.prog /\ chip'.sum = chip.sum
    BY DEF TypeOK
  <2>2. TypeOK'
    <3>1. chip' \in [mode : 0 .. 3, pal60 : BOOLEAN, prog : BOOLEAN, sum : Nat]
      BY DEF TypeOK, Settings
    <3>2. pc' \in Places /\ torn' \in BOOLEAN BY DEF Places
    <3>3. UNCHANGED <<sram, old, bootbin, protected, drive, cfg, homebrew, BootGCDisc,
                      chosen, game, id, ipl, runs>>
      OBVIOUS
    <3> HIDE DEF WriteFlags
    <3> QED BY <3>1, <3>2, <3>3 DEF TypeOK
  <2>3. SumInv' BY <2>1 DEF SumInv, SRAM_Checksum
  <2>4. MenuInv' BY DEF MenuInv, Early, Untouched, Open, Running
  <2>5. VideoInv' BY <2>1 DEF VideoInv, Fits
  <2> QED BY <2>2, <2>3, <2>4, <2>5
<1> QED BY <1>1, <1>2, <1>3, <1>4, <1>5, <1>6 DEF SelectGame

(* And the rest of main.                                                   *)
LEMMA AfterSelect ==
  ASSUME Inv, DIInit \/ PatchIPL \/ Start
  PROVE  Inv'
<1> USE BootAssumption DEF Inv, Goto, video, files
<1>1. CASE DIInit
  <2> USE <1>1 DEF DIInit
  <2>1. id' = id BY DEF MenuInv, Early, Untouched, Open
  <2>2. pc' \in {"start", "patch"} /\ (pc' = "patch" <=> ~BootGCDisc) BY DEF TypeOK
  <2>3. TypeOK' BY <2>1, <2>2 DEF TypeOK, Places
  <2>4. SumInv' BY <2>2 DEF SumInv
  <2>5. MenuInv' BY <2>1, <2>2 DEF MenuInv, Early, Untouched, Open, Running
  <2>6. VideoInv' BY <2>2 DEF VideoInv, Fits
  <2> QED BY <2>3, <2>4, <2>5, <2>6
<1>2. CASE PatchIPL
  <2> USE <1>2 DEF PatchIPL
  <2>1. ipl'.stubs /\ (ipl'.mios <=> id \notin Mios) /\ ipl'.mode = ipl.mode BY DEF TypeOK
  <2>2. TypeOK'
    <3> DEFINE m == id \notin Mios
    <3>1. ipl' = [ipl EXCEPT !.stubs = TRUE, !.mios = m] /\ m \in BOOLEAN OBVIOUS
    <3> HIDE DEF m
    <3>2. ipl' \in [stubs : BOOLEAN, mode : BOOLEAN, mios : BOOLEAN] BY <3>1 DEF TypeOK
    <3> QED BY <3>2 DEF TypeOK, Places
  <2>3. SumInv' BY DEF SumInv
  <2>4. MenuInv' BY <2>1 DEF MenuInv, Early, Untouched, Open, Running
  <2>5. VideoInv' BY <2>1 DEF VideoInv, Fits
  <2> QED BY <2>2, <2>3, <2>4, <2>5
<1>3. CASE Start
  <2> USE <1>3 DEF Start
  <2>1. Program \in Programs
    BY DEF Program, Programs, TypeOK, MenuInv, Early, Open
  <2>2. TypeOK' BY <2>1 DEF TypeOK, Places
  <2>3. SumInv' BY DEF SumInv
  <2>4. MenuInv' BY DEF MenuInv, Early, Untouched, Open, Running, Program
  <2>5. VideoInv' BY DEF VideoInv, Fits
  <2> QED BY <2>2, <2>3, <2>4, <2>5
<1> QED BY <1>1, <1>2, <1>3

(* And what the console does around it.                                    *)
LEMMA OutsideMain ==
  ASSUME Inv, ChangeSettings \/ PowerOff \/ \E g \in Games : Ask(g)
  PROVE  Inv'
<1> USE BootAssumption DEF Inv, Goto, video, files
<1>1. CASE ChangeSettings
  <2> USE <1>1 DEF ChangeSettings
  <2>1. /\ chip' \in [mode : 0 .. 3, pal60 : BOOLEAN, prog : BOOLEAN, sum : Nat]
        /\ chip'.sum = SRAM_Checksum(chip')
    BY SumOfWritten
  <2>2. TypeOK'
    <3>1. pc' \in Places /\ torn' \in BOOLEAN BY DEF Places
    <3>2. UNCHANGED <<sram, old, bootbin, protected, drive, cfg, homebrew, BootGCDisc,
                      chosen, game, id, ipl, runs>>
      OBVIOUS
    <3> HIDE DEF ChangeSettings
    <3> QED BY <2>1, <3>1, <3>2 DEF TypeOK
  <2>3. SumInv' BY <2>1 DEF SumInv
  <2>4. MenuInv' BY DEF MenuInv, Early, Untouched, Open, Running, Program
  <2>5. VideoInv' BY DEF VideoInv
  <2> QED BY <2>2, <2>3, <2>4, <2>5
<1>2. CASE PowerOff
  <2> USE <1>2 DEF PowerOff
  <2>1. sram' \in Settings /\ old' \in 0 .. 3 BY DEF TypeOK, Stored, Settings
  <2>2. IsConfig(cfg') BY DEF IsConfig, Defaults
  <2>3. runs' \in Programs BY DEF Programs
  <2>4. ipl' \in [stubs : BOOLEAN, mode : BOOLEAN, mios : BOOLEAN] BY DEF Fresh
  <2>5. TypeOK' BY <2>1, <2>2, <2>3, <2>4 DEF TypeOK, Places
  <2>6. SumInv' BY DEF SumInv
  <2>7. MenuInv' BY DEF MenuInv, Early, Untouched, Running
  <2>8. VideoInv' BY DEF VideoInv
  <2> QED BY <2>5, <2>6, <2>7, <2>8
<1>3. ASSUME NEW g \in Games, Ask(g) PROVE Inv'
  <2> USE <1>3 DEF Ask
  <2>1. TypeOK' BY DEF TypeOK
  <2>2. SumInv' BY DEF SumInv
  <2>3. MenuInv' BY DEF MenuInv, Early, Untouched, Open, Running, Program
  <2>4. VideoInv' BY DEF VideoInv, Fits
  <2> QED BY <2>1, <2>2, <2>3, <2>4
<1> QED BY <1>1, <1>2, <1>3

LEMMA InvHolds == Spec => []Inv
<1>1. Inv /\ [Next]_vars => Inv'
  <2> SUFFICES ASSUME Inv, [Next]_vars PROVE Inv' OBVIOUS
  <2>1. CASE Next
    BY <2>1, BeforeSelect, WhileSelecting, AfterSelect, OutsideMain DEF Next, Main
  <2>2. CASE UNCHANGED vars
    BY <2>2 DEF vars, Inv, TypeOK, SumInv, MenuInv, VideoInv, Early, Untouched, Open,
                Running, Fits, Program
  <2> QED BY <2>1, <2>2
<1> QED BY <1>1, InitInv, PTL DEF Spec
-----------------------------------------------------------------------------
(* Every variable keeps its type, whatever was found on the card, in the   *)
(* drive and in the configuration.                                         *)
THEOREM BootTyped == Spec => []TypeOK
<1>1. Inv => TypeOK BY DEF Inv
<1> QED BY <1>1, InvHolds, PTL

(* The SRAM keeps a checksum that fits, but for a power cut while it is    *)
(* written.                                                                *)
THEOREM ChecksumFits == Spec => []SumFits
<1>1. Inv => SumFits BY DEF Inv, SumInv, SumFits
<1> QED BY <1>1, InvHolds, PTL

(* Under AUTO every game starts in a mode of its region.                   *)
THEOREM ModeFitsRegion == Spec => []VideoFits
<1>1. Inv => VideoFits
  <2> SUFFICES ASSUME Inv, pc = "run", FromCard PROVE Fits(chip)
    BY DEF VideoFits, Fits
  <2>1. ~BootGCDisc
    BY DEF Inv, MenuInv, Running, FromCard, Program
  <2> QED BY <2>1 DEF Inv, VideoInv
<1> QED BY <1>1, InvHolds, PTL

(* A game from the card starts in a menu prepared for it; the disc and     *)
(* homebrew start in one that was left alone.                              *)
THEOREM MenuFitsProgram == Spec => []MenuFits
<1>1. Inv => MenuFits
  <2> SUFFICES ASSUME Inv, runs # Off PROVE MenuFits
    BY DEF MenuFits
  <2>1. Running /\ runs = Program BY DEF Inv, MenuInv
  <2>2. CASE BootGCDisc
    <3>1. ~FromCard BY <2>1, <2>2 DEF FromCard, Program, Inv, TypeOK
    <3>2. Untouched BY <2>1, <2>2 DEF Inv, MenuInv, Running, Early
    <3> QED BY <3>1, <3>2 DEF MenuFits, Untouched
  <2>3. CASE ~BootGCDisc
    <3>1. FromCard /\ runs[2] = game
      BY <2>1, <2>3 DEF FromCard, Program, Inv, MenuInv
    <3>2. Open /\ ipl.stubs /\ (game \in Mios => ~ipl.mios)
      BY <2>1, <2>3 DEF Inv, MenuInv, Running, Early
    <3> QED BY <3>1, <3>2 DEF MenuFits, Open
  <2> QED BY <2>2, <2>3
<1> QED BY <1>1, InvHolds, PTL
-----------------------------------------------------------------------------
(* Boot implements BootSpec.  What is known of the request on the way:     *)
(* until boot.bin is read no path is chosen, and from the unlink on the    *)
(* file is gone unless the card is protected.                              *)
Serving == pc \in {"open", "video", "flush", "flags", "diinit", "patch", "start"}

RequestInv ==
  /\ pc \in {"off", "homebrew", "sram", "config", "disc", "wake", "select", "halt"} => chosen = NoGame
  /\ pc = "unlink" => cfg.path = NoGame /\ chosen \in {bootbin, Missing} /\ bootbin # NoGame
  /\ Serving /\ cfg.path = NoGame /\ chosen \in Games =>
       bootbin = IF protected THEN chosen ELSE NoGame
  /\ pc = "open" => ~BootGCDisc
  /\ Serving /\ pc # "open" => IF BootGCDisc THEN chosen \notin Games ELSE game = chosen

LEMMA RequestInvHolds == Spec => [](Inv /\ RequestInv)
<1> USE BootAssumption DEF Goto, video, files
<1>1. Init => RequestInv BY DEF Init, RequestInv, Serving
<1>2. Inv /\ Inv' /\ RequestInv /\ [Next]_vars => RequestInv'
  <2> SUFFICES ASSUME Inv, Inv', RequestInv, [Next]_vars PROVE RequestInv'
    OBVIOUS
  <2>1. CASE UNCHANGED vars BY <2>1 DEF vars, RequestInv, Serving
  <2>2. CASE PowerOn BY <2>2 DEF PowerOn, RequestInv, Serving
  <2>3. CASE Homebrew BY <2>3 DEF Homebrew, RequestInv, Serving
  <2>4. CASE SRAM_Init BY <2>4 DEF SRAM_Init, RequestInv, Serving
  <2>5. CASE ConfigInit
    <3>1. pc = "config" /\ pc' \in {"select", "disc"} /\ chosen' = chosen BY <2>5 DEF ConfigInit
    <3> QED BY <3>1 DEF RequestInv, Serving
  <2>6. CASE LowReadDiscID
    <3>1. pc = "disc" /\ pc' \in {"halt", "wake", "select"} /\ chosen' = chosen
      BY <2>6 DEF LowReadDiscID
    <3> QED BY <3>1 DEF RequestInv, Serving
  <2>7. CASE DVDLowReset BY <2>7 DEF DVDLowReset, RequestInv, Serving
  <2>8. CASE SelectSkipped BY <2>8 DEF SelectSkipped, RequestInv, Serving
  <2>9. CASE SelectConfigured BY <2>9 DEF SelectConfigured, RequestInv, Serving
  <2>10. CASE NoBootBin BY <2>10 DEF NoBootBin, RequestInv, Serving
  <2>11. CASE ReadBootBin BY <2>11 DEF ReadBootBin, RequestInv, Serving
  <2>12. CASE UnlinkBootBin
    <3>1. pc' = "open" /\ ~BootGCDisc' BY <2>12 DEF UnlinkBootBin, Inv, MenuInv
    <3>2. chosen' \in Games => chosen = bootbin
      BY <2>12 DEF UnlinkBootBin, RequestInv
    <3> QED BY <2>12, <3>1, <3>2 DEF UnlinkBootBin, RequestInv, Serving
  <2>13. CASE OpenGame BY <2>13 DEF OpenGame, RequestInv, Serving
  <2>14. CASE OpenFails BY <2>14 DEF OpenFails, RequestInv, Serving
  <2>15. CASE SetVideo BY <2>15 DEF SetVideo, RequestInv, Serving
  <2>16. CASE WriteSum BY <2>16 DEF WriteSum, RequestInv, Serving
  <2>17. CASE WriteFlags BY <2>17 DEF WriteFlags, RequestInv, Serving
  <2>18. CASE DIInit
    <3>1. pc' \in {"start", "patch"} BY <2>18 DEF DIInit
    <3> QED BY <2>18, <3>1 DEF DIInit, RequestInv, Serving
  <2>19. CASE PatchIPL BY <2>19 DEF PatchIPL, RequestInv, Serving
  <2>20. CASE Start BY <2>20 DEF Start, RequestInv, Serving
  <2>21. CASE ChangeSettings BY <2>21 DEF ChangeSettings, RequestInv, Serving
  <2>22. CASE PowerOff BY <2>22 DEF PowerOff, RequestInv, Serving
  <2>23. ASSUME NEW g \in Games, Ask(g) PROVE RequestInv'
    BY <2>23 DEF Ask, RequestInv, Serving
  <2> QED BY <2>1, <2>2, <2>3, <2>4, <2>5, <2>6, <2>7, <2>8, <2>9, <2>10, <2>11, <2>12,
             <2>13, <2>14, <2>15, <2>16, <2>17, <2>18, <2>19, <2>20, <2>21, <2>22, <2>23
          DEF Next, Main, SelectGame
<1> QED BY <1>1, <1>2, InvHolds, PTL DEF Spec

(* What a program that is started or stopped means above.                  *)
LEMMA StepServes ==
  ASSUME Inv, RequestInv, Start \/ PowerOff
  PROVE  [Requests!Next]_(Requests!vars)
<1> USE BootAssumption DEF Goto, video, files
<1>1. CASE Start
  <2>1. runs = Off /\ runs' = Program /\ bootbin' = bootbin /\ protected' = protected
    BY <1>1 DEF Start, Inv, MenuInv, Running
  <2>2. Request' = bootbin BY <1>1 DEF Start, Request
  <2>3. CASE BootGCDisc
    <3>1. Request = bootbin BY <1>1, <2>3 DEF Start, Request, RequestInv, Serving
    <3>2. runs' \in {<<"homebrew", NoGame>>, <<"disc", NoGame>>}
      BY <2>1, <2>3 DEF Program, Inv, TypeOK
    <3> QED BY <2>1, <2>2, <3>1, <3>2 DEF Requests!Next, Requests!StartOther
  <2>4. CASE ~BootGCDisc
    <3>1. game \in Games /\ ~homebrew /\ game = chosen
      BY <1>1, <2>4 DEF Start, Inv, MenuInv, Early, Open, RequestInv, Serving
    <3>2. CASE cfg.path # NoGame
      <4>1. Request = bootbin BY <3>2 DEF Request
      <4>2. runs' = <<"configured", game>> BY <2>1, <2>4, <3>1, <3>2 DEF Program
      <4>3. runs' \in {<<"configured", g>> : g \in Games} BY <3>1, <4>2
      <4> QED BY <2>1, <2>2, <4>1, <4>3 DEF Requests!Next, Requests!StartOther
    <3>3. CASE cfg.path = NoGame
      <4>1. Request = chosen BY <1>1, <3>1, <3>3 DEF Start, Request
      <4>2. runs' = Requests!Asked(Request)
        BY <2>1, <2>4, <3>1, <3>3, <4>1 DEF Program, Requests!Asked
      <4>3. Request' = IF protected THEN Request ELSE NoGame
        BY <1>1, <2>2, <3>1, <3>3, <4>1 DEF Start, RequestInv, Serving
      <4>4. Request # NoGame BY <3>1, <4>1
      <4> QED BY <2>1, <4>2, <4>3, <4>4 DEF Requests!Next, Requests!Serve
    <3> QED BY <3>2, <3>3
  <2> QED BY <2>3, <2>4
<1>2. CASE PowerOff
  <2>1. runs' = Off /\ Request' = bootbin /\ bootbin' = bootbin /\ protected' = protected
    BY <1>2 DEF PowerOff, Request
  <2>2. CASE Request = bootbin
    BY <2>1, <2>2 DEF Requests!Next, Requests!Stop
  <2>3. CASE Request # bootbin
    <3>1. Serving /\ cfg.path = NoGame /\ chosen \in Games /\ Request = chosen
      BY <2>3 DEF Request, Serving
    <3>2. ~protected /\ bootbin = NoGame BY <2>3, <3>1 DEF RequestInv
    <3>3. runs = Off BY <3>1 DEF Serving, Inv, MenuInv, Running
    <3> QED BY <2>1, <3>2, <3>3 DEF Requests!Next, Requests!Lose
  <2> QED BY <2>2, <2>3
<1> QED BY <1>1, <1>2

(* Up to the start only the unlink can change the request: it is lost if   *)
(* the path was not read as it was written.                                *)
LEMMA StepKeeps ==
  ASSUME Inv, RequestInv, PowerOn \/ Main \/ ChangeSettings, ~Start
  PROVE  [Requests!Next]_(Requests!vars)
<1> USE BootAssumption DEF Goto, video, files
<1>1. CASE UnlinkBootBin
  <2>1. runs' = runs /\ protected' = protected /\ runs = Off
    BY <1>1 DEF UnlinkBootBin, Inv, MenuInv, Running
  <2>2. Request = bootbin BY <1>1 DEF UnlinkBootBin, Request
  <2>3. CASE chosen \in Games
    <3>1. Request' = bootbin
      BY <1>1, <2>3 DEF UnlinkBootBin, Request, RequestInv
    <3> QED BY <2>1, <2>2, <3>1 DEF Requests!vars
  <2>4. CASE chosen \notin Games
    <3>1. Request' = IF protected THEN bootbin ELSE NoGame
      BY <1>1, <2>4 DEF UnlinkBootBin, Request
    <3>2. CASE protected BY <2>1, <2>2, <3>1, <3>2 DEF Requests!vars
    <3>3. CASE ~protected
      BY <2>1, <3>1, <3>3 DEF Requests!Next, Requests!Lose
    <3> QED BY <3>2, <3>3
  <2> QED BY <2>3, <2>4
<1>2. CASE ~UnlinkBootBin
  <2>1. bootbin' = bootbin /\ protected' = protected /\ runs' = runs
    BY <1>2 DEF PowerOn, Main, ChangeSettings, Homebrew, SRAM_Init, ConfigInit, LowReadDiscID,
                DVDLowReset, SelectGame, SelectSkipped, SelectConfigured, NoBootBin, ReadBootBin,
                OpenGame, OpenFails, SetVideo, WriteSum, WriteFlags, DIInit, PatchIPL
  <2>2. Request' = Request
    <3>1. CASE PowerOn \/ Homebrew \/ SRAM_Init \/ LowReadDiscID \/ DVDLowReset \/ ChangeSettings
      BY <3>1 DEF PowerOn, Homebrew, SRAM_Init, LowReadDiscID, DVDLowReset, ChangeSettings, Request
    <3>2. CASE ConfigInit
      <4>1. pc = "config" /\ pc' \in {"select", "disc"} /\ bootbin' = bootbin
        BY <3>2 DEF ConfigInit
      <4> QED BY <4>1 DEF Request
    <3>3. CASE SelectSkipped \/ SelectConfigured \/ NoBootBin \/ ReadBootBin
      BY <3>3 DEF SelectSkipped, SelectConfigured, NoBootBin, ReadBootBin, Request, RequestInv
    <3>4. CASE OpenGame \/ OpenFails
      BY <3>4 DEF OpenGame, OpenFails, Request
    <3>5. CASE SetVideo \/ WriteSum \/ WriteFlags
      BY <3>5 DEF SetVideo, WriteSum, WriteFlags, Request
    <3>6. CASE DIInit \/ PatchIPL
      <4>1. pc \in {"diinit", "patch"} /\ pc' \in {"patch", "start"} /\ bootbin' = bootbin
            /\ cfg' = cfg /\ chosen' = chosen
        BY <3>6 DEF DIInit, PatchIPL
      <4> QED BY <4>1 DEF Request
    <3> QED BY <1>2, <3>1, <3>2, <3>3, <3>4, <3>5, <3>6 DEF Main, SelectGame
  <2> QED BY <2>1, <2>2 DEF Requests!vars
<1> QED BY <1>1, <1>2

(* A game asked for by boot.bin is started once, and the one asked for     *)
(* last: every step of Boot is one of BootSpec, or changes nothing there.  *)
THEOREM BootServesRequests == Spec => ImplementsBootSpec
<1>1. Init => Requests!Init
  BY DEF Init, Requests!Init, Request
<1>2. Inv /\ RequestInv /\ [Next]_vars => [Requests!Next]_(Requests!vars)
  <2> SUFFICES ASSUME Inv, RequestInv, [Next]_vars PROVE [Requests!Next]_(Requests!vars)
    OBVIOUS
  <2>1. CASE UNCHANGED vars BY <2>1 DEF vars, Requests!vars, Request
  <2>2. ASSUME NEW g \in Games, Ask(g) PROVE [Requests!Next]_(Requests!vars)
    <3>1. runs = Off /\ ~protected /\ Request' = g /\ runs' = runs /\ protected' = protected
      BY <2>2 DEF Ask, Request, Inv, MenuInv, Running
    <3> QED BY <3>1 DEF Requests!Next, Requests!Ask
  <2> QED BY <2>1, <2>2, StepServes, StepKeeps DEF Next, Main
<1> QED BY <1>1, <1>2, RequestInvHolds, PTL DEF Spec, ImplementsBootSpec, Requests!Spec

-----------------------------------------------------------------------------

(* The PowerPC: 32-bit words, fields of 26 bits, opcode 18.                *)
PowerPC == Field = 67108864 /\ Word = 64 * Field /\ B = 18 * Field

(* An address is a word, and a multiple of 4.                              *)
LEMMA AddressIsWord ==
  ASSUME NEW a \in Addresses
  PROVE  a \in Nat /\ a < Word /\ a % 4 = 0
BY BranchAssumption DEF Addresses

(* The low bits of a displacement of whole instructions are zero, and the  *)
(* field holds it modulo its size.                                         *)
LEMMA MaskedField ==
  ASSUME PowerPC, NEW x \in Nat, x % 4 = 0
  PROVE  /\ Masked(x) = x % Field
         /\ Masked(x) \in Nat /\ Masked(x) + 4 <= Field
         /\ Masked(x) % 4 = 0
BY SMT DEF PowerPC, Masked

(* A distance modulo 2^32 is a word of whole instructions.                 *)
LEMMA Distance ==
  ASSUME PowerPC, NEW d \in Addresses, NEW s \in Addresses
  PROVE  /\ (d - s) % Word \in Nat /\ (d - s) % Word < Word
         /\ ((d - s) % Word) % 4 = 0
         /\ ((d - s) % Word) = IF d >= s THEN d - s ELSE d - s + Word
<1>1. d \in Nat /\ d < Word /\ d % 4 = 0 /\ s \in Nat /\ s < Word /\ s % 4 = 0
  BY AddressIsWord
<1> QED BY <1>1, SMT DEF PowerPC

(* PatchB and PatchBL write a branch, with the distance in its field.      *)
LEMMA BranchWritten ==
  ASSUME PowerPC, NEW d \in Addresses, NEW s \in Addresses,
         NEW w \in {PatchB(d, s), PatchBL(d, s)}
  PROVE  /\ IsBranch(w)
         /\ Masked(w) = ((d - s) % Word) % Field
         /\ w % 4 = IF w = PatchBL(d, s) THEN 1 ELSE 0
<1> DEFINE x == (d - s) % Word
<1>1. x \in Nat /\ x % 4 = 0 BY Distance
<1> HIDE DEF x
<1>2. /\ Masked(x) = x % Field /\ Masked(x) % 4 = 0
      /\ Masked(x) \in Nat /\ Masked(x) + 4 <= Field
  BY <1>1, MaskedField
<1>3. w = Masked(x) + B \/ w = Masked(x) + B + 1
  BY DEF PatchB, PatchBL, x
<1>4. IsBranch(w) /\ Masked(w) = Masked(x)
  <2> DEFINE m == Masked(x)
  <2>1. m \in Nat /\ m + 4 <= Field /\ m % 4 = 0 /\ (w = m + B \/ w = m + B + 1)
    BY <1>2, <1>3
  <2> HIDE DEF m
  <2>2. w % Field = w - B /\ w - (w % 4) = m + B
    BY <2>1, SMT DEF PowerPC
  <2>3. IsBranch(w) /\ Masked(w) = m
    BY <2>1, <2>2, BranchAssumption DEF IsBranch, Masked
  <2> QED BY <2>3 DEF m
<1>5. w % 4 = IF w = PatchBL(d, s) THEN 1 ELSE 0
  BY <1>2, <1>3, SMT DEF PowerPC, PatchB, PatchBL, x
<1> QED BY <1>2, <1>4, <1>5 DEF x
-----------------------------------------------------------------------------
(* What WriteB and WriteBL leave.                                          *)
BranchInv ==
  /\ from \in Addresses /\ to \in Addresses
  /\ word \in {0, PatchB(to, from), PatchBL(to, from)}

(* It holds throughout.                                                    *)
LEMMA BranchInvHolds == BranchSpec => []BranchInv
<1>1. BranchInit => BranchInv BY DEF BranchInit, BranchInv
<1>2. BranchInv /\ [BranchNext]_branch => BranchInv' BY DEF BranchInv, BranchNext, WriteB, WriteBL, branch
<1> QED BY <1>1, <1>2, PTL DEF BranchSpec

(* Every branch the patcher writes is one, and goes where it was meant to  *)
(* go if that is within reach.                                             *)
THEOREM BranchesArrive == PowerPC => (BranchSpec => []Arrives)
<1> SUFFICES ASSUME PowerPC PROVE BranchSpec => []Arrives
  OBVIOUS
<1>1. BranchInv => Arrives
  <2> SUFFICES ASSUME BranchInv, word # 0 PROVE IsBranch(word) /\ (Near => Target(word, from) = to)
    BY DEF Arrives
  <2> DEFINE x == (to - from) % Word
  <2>1. from \in Addresses /\ to \in Addresses /\ word \in {PatchB(to, from), PatchBL(to, from)}
    BY DEF BranchInv
  <2>2. IsBranch(word) /\ Masked(word) = x % Field
    BY <2>1, BranchWritten
  <2>3. x = IF to >= from THEN to - from ELSE to - from + Word
    BY <2>1, Distance
  <2> HIDE DEF x
  <2>4. ASSUME Near PROVE Target(word, from) = to
    <3>1. from \in Nat /\ from < Word /\ to \in Nat /\ to < Word BY <2>1, AddressIsWord
    <3>2. x % Field = IF to >= from THEN to - from ELSE to - from + Field
      BY <2>3, <2>4, <3>1, SMT DEF PowerPC, Near
    <3>3. (from + (to - from)) % Word = to BY <3>1, SMT DEF PowerPC
    <3> QED BY <2>2, <2>4, <3>1, <3>2, <3>3, SMT DEF Target, PowerPC, Near
  <2> QED BY <2>2, <2>4
<1> QED BY <1>1, BranchInvHolds, PTL

(* The search of DoCardPatches finds exactly the calls of a function.      *)
THEOREM CallsAreFound == PowerPC => (BranchSpec => []FindsCalls)
<1> SUFFICES ASSUME PowerPC PROVE BranchSpec => []FindsCalls
  OBVIOUS
<1>1. BranchInv => FindsCalls
  <2> SUFFICES ASSUME BranchInv, to < Field, from < Field, NEW f \in Addresses, f < Field
               PROVE  Calls(word, from, f) <=> word = PatchBL(to, from) /\ f = to
    BY DEF FindsCalls
  <2> DEFINE x == (to - from) % Word
             y == (Masked(word) + from) % Word
  <2>1. from \in Addresses /\ to \in Addresses BY DEF BranchInv
  <2>2. /\ from \in Nat /\ from < Field /\ from % 4 = 0
        /\ to \in Nat /\ to < Field /\ to % 4 = 0
    BY <2>1, AddressIsWord
  <2>3. CASE word = 0
    <3>1. ~IsCall(word) BY <2>3, SMT DEF IsCall, PowerPC
    <3>2. PatchBL(to, from) % 4 = 1 BY <2>1, BranchWritten
    <3>3. word # PatchBL(to, from) BY <2>3, <3>2
    <3> QED BY <3>1, <3>3 DEF Calls
  <2>4. CASE word \in {PatchB(to, from), PatchBL(to, from)}
    <3>1. /\ IsBranch(word) /\ Masked(word) = x % Field
          /\ word % 4 = IF word = PatchBL(to, from) THEN 1 ELSE 0
      BY <2>1, <2>4, BranchWritten
    <3>2. IsCall(word) <=> word = PatchBL(to, from)
      BY <3>1 DEF IsCall
    <3>3. x = IF to >= from THEN to - from ELSE to - from + Word
      BY <2>1, Distance
    <3> HIDE DEF x
    <3>4. x % Field = IF to >= from THEN to - from ELSE to - from + Field
      BY <2>2, <3>3, SMT DEF PowerPC
    <3>5. y = IF to >= from THEN to ELSE to + Field
      <4>1. Masked(word) + from = IF to >= from THEN to ELSE to + Field
        BY <2>2, <3>1, <3>4, SMT DEF PowerPC
      <4> QED BY <2>2, <4>1, SMT DEF PowerPC
    <3> HIDE DEF y
    <3>6. y \in Nat /\ y % 4 = 0 /\ y % Field = to
      BY <2>2, <3>5, SMT DEF PowerPC
    <3>7. Masked(y) = to
      BY <3>6, MaskedField
    <3> QED BY <3>2, <3>7 DEF Calls, y
  <2> QED BY <2>3, <2>4 DEF BranchInv
<1> QED BY <1>1, BranchInvHolds, PTL
-----------------------------------------------------------------------------
(* What is known of the executable that is loaded.  Its reads so far, the  *)
(* range they were read to, and what they and other reads have counted.    *)
Part(s)   == Span(s.at, s.at + RoundUp(s.len))
PartsRead == {loading.first} \cup (loading.rest \ left)
GotBytes  == BytesRead(loading, loading.rest \ left)

LoadTypes ==
  /\ PatchState \in {0, 1, 2} /\ DOLSize \in Int /\ DOLReadSize \in Int
  /\ DOLMinOff \in Int /\ DOLMaxOff \in Int /\ ELFNumberOfSections \in Int
  /\ disturbed \in BOOLEAN /\ loads \in Nat
  /\ loading # NoExec => loading \in Execs /\ left \subseteq loading.rest
  /\ loading = NoExec => left = {} /\ PatchState = 0

CountInv ==
  PatchState # 0 =>
    /\ DOLSize = Size(loading) /\ DOLReadSize < DOLSize
    /\ DOLReadSize >= GotBytes
    /\ ~disturbed => DOLReadSize = GotBytes

SectionsInv ==
  PatchState = 2 =>
    /\ ByHeader(loading) =>
         /\ 0 < ELFNumberOfSections /\ ELFNumberOfSections <= Cardinality(left)
         /\ ~disturbed => ELFNumberOfSections = Cardinality(left)
    /\ ~ByHeader(loading) => ELFNumberOfSections < 0

RangeInv ==
  /\ PatchState = 1 => /\ loading.kind = "dol"
                       /\ DOLMinOff = TextRange(loading)[1] /\ DOLMaxOff = TextRange(loading)[2]
  /\ PatchState = 2 => /\ loading.kind = "elf"
                       /\ \A s \in PartsRead : DOLMinOff <= s.at /\ s.at + RoundUp(s.len) <= DOLMaxOff

(* Nothing is forgotten: the count goes on as long as parts are missing.   *)
AwaitInv == loading # NoExec /\ ~disturbed /\ left # {} => PatchState # 0

HookInv == Loaded /\ ~disturbed => loading.hooks \cap raw = {}

InRead(c) == \E s \in PartsRead : c.at \in Part(s)
CardInv ==
  /\ loads = 0 => loading = NoExec /\ Found = {} /\ rawCards = {}
  /\ loads = 1 /\ PatchState # 0 /\ ~disturbed =>
       /\ Found = {} /\ rawCards \subseteq loading.cards
       /\ \A c \in loading.cards : InRead(c) => c \in rawCards
  /\ Loaded /\ ~disturbed /\ NMM /\ loads = 1 => loading.cards \cap rawCards = {}

LoadInv == LoadTypes /\ CountInv /\ SectionsInv /\ RangeInv /\ AwaitInv /\ HookInv /\ CardInv
-----------------------------------------------------------------------------
(* A length rounded up to whole blocks.                                    *)
LEMMA Quotient ==
  ASSUME NEW a \in Nat, NEW b \in Nat, b > 0
  PROVE  \E q \in Nat : q = a \div b /\ q * b <= a /\ a < q * b + b
<1>1. a \div b \in Nat
  OBVIOUS
<1>2. (a \div b) * b <= a
  OBVIOUS
<1>3. a < (a \div b) * b + b
  OBVIOUS
<1> QED BY <1>1, <1>2, <1>3

LEMMA RoundUpIs ==
  ASSUME NEW n \in Nat
  PROVE  RoundUp(n) \in Nat /\ n <= RoundUp(n) /\ RoundUp(n) <= n + Block
<1>1. Block \in Nat /\ Block > 0 /\ n + Block - 1 \in Nat
  BY DolAssumption
<1>2. PICK q \in Nat : q = (n + Block - 1) \div Block /\ q * Block <= n + Block - 1
                       /\ n + Block - 1 < q * Block + Block
  BY <1>1, Quotient
<1>3. RoundUp(n) = q * Block /\ q * Block \in Nat
  BY <1>1, <1>2 DEF RoundUp
<1> QED BY <1>1, <1>2, <1>3

LEMMA HeaderIsWhole == HDR \in Nat /\ RoundUp(HDR) = HDR
<1>1. Block \in Nat /\ Block > 0 /\ 9 * Block - 1 \in Nat
  BY DolAssumption
<1>2. PICK q \in Nat : q = (9 * Block - 1) \div Block /\ q * Block <= 9 * Block - 1
                       /\ 9 * Block - 1 < q * Block + Block
  BY <1>1, Quotient
<1>3. HDR + Block - 1 = 9 * Block - 1
  BY <1>1 DEF HDR
<1>4. RoundUp(HDR) = q * Block /\ HDR \in Nat
  BY <1>1, <1>2, <1>3 DEF RoundUp, HDR
<1>5. q = 8
  <2>1. CASE q <= 7
    <3>1. q * Block <= 7 * Block
      BY <1>1, <1>2, <2>1
    <3> QED BY <1>1, <1>2, <3>1
  <2>2. CASE q >= 9
    <3>1. q * Block >= 9 * Block
      BY <1>1, <1>2, <2>2
    <3> QED BY <1>1, <1>2, <3>1
  <2> QED BY <1>2, <2>1, <2>2
<1> QED BY <1>1, <1>4, <1>5 DEF HDR

(* The bytes of parts of an executable.                                    *)
PaddedBytes(S) == UNION {{s} \X Span(0, RoundUp(s.len)) : s \in S}

LEMMA PartsAre ==
  ASSUME NEW e \in Execs, NEW s \in e.rest \cup {e.first}
  PROVE  /\ s.at \in Nat /\ s.len \in Nat /\ s.len > 0 /\ s.at + s.len <= Top
         /\ RoundUp(s.len) \in Nat /\ s.len <= RoundUp(s.len) /\ RoundUp(s.len) <= Top + Block
         /\ Top \in Nat /\ Block \in Nat /\ IsFiniteSet(e.rest)
<1>1. IsExec(e) /\ Top \in Nat /\ Block \in Nat
  BY DolAssumption
<1>2. s.at \in Nat /\ s.len \in Nat /\ s.len > 0 /\ s.at + s.len <= Top
  BY <1>1 DEF IsExec
<1>3. RoundUp(s.len) \in Nat /\ s.len <= RoundUp(s.len) /\ RoundUp(s.len) <= s.len + Block
  BY <1>2, RoundUpIs
<1> QED BY <1>1, <1>2, <1>3 DEF IsExec

LEMMA BytesAreFinite ==
  ASSUME NEW e \in Execs, NEW S \in SUBSET e.rest
  PROVE  /\ IsFiniteSet(PaddedBytes(S)) /\ IsFiniteSet(Bytes(S))
         /\ Cardinality(Bytes(S)) <= Cardinality(PaddedBytes(S))
         /\ Cardinality(PaddedBytes(S)) \in Nat /\ Cardinality(Bytes(S)) \in Nat
<1>1. IsFiniteSet(S) /\ Top \in Nat /\ Block \in Nat
  <2>1. IsFiniteSet(e.rest)
    BY DolAssumption DEF IsExec
  <2> QED BY <2>1, FS_Subset, DolAssumption
<1>2. IsFiniteSet(0 .. Top + Block)
  BY <1>1, FS_Interval
<1>3. IsFiniteSet(S \X (0 .. Top + Block))
  BY <1>1, <1>2, FS_Product
<1>4. ASSUME NEW s \in S
      PROVE  Span(0, s.len) \subseteq Span(0, RoundUp(s.len)) /\ Span(0, RoundUp(s.len)) \subseteq 0 .. Top + Block
  <2>1. s \in e.rest \cup {e.first}
    OBVIOUS
  <2> QED BY <2>1, PartsAre DEF Span
<1>5. PaddedBytes(S) \subseteq S \X (0 .. Top + Block)
  BY <1>4 DEF PaddedBytes
<1>6. Bytes(S) \subseteq PaddedBytes(S)
  BY <1>4 DEF PaddedBytes, Bytes
<1>7. IsFiniteSet(PaddedBytes(S))
  BY <1>3, <1>5, FS_Subset
<1>8. IsFiniteSet(Bytes(S)) /\ Cardinality(Bytes(S)) <= Cardinality(PaddedBytes(S))
  BY <1>6, <1>7, FS_Subset
<1> QED BY <1>7, <1>8, FS_CardinalityType

(* One part more.                                                          *)
LEMMA PaddedGrows ==
  ASSUME NEW e \in Execs, NEW S \in SUBSET e.rest, NEW s \in e.rest, s \notin S
  PROVE  Padded(S \cup {s}) = Padded(S) + RoundUp(s.len)
<1> DEFINE n  == RoundUp(s.len)
           X  == {s} \X Span(0, n)
<1>1. n \in Nat
  BY PartsAre
<1> HIDE DEF n
<1>2. IsFiniteSet(Span(0, n)) /\ Cardinality(Span(0, n)) = n
  <2>1. IsFiniteSet(0 .. n - 1) /\ Cardinality(0 .. n - 1) = IF 0 > n - 1 THEN 0 ELSE n - 1 - 0 + 1
    <3>1. 0 \in Int /\ n - 1 \in Int
      BY <1>1
    <3> QED BY <3>1, FS_Interval
  <2> QED BY <1>1, <2>1 DEF Span
<1>3. IsFiniteSet({s}) /\ Cardinality({s}) = 1
  BY FS_Singleton
<1>4. IsFiniteSet(X) /\ Cardinality(X) = n
  <2>1. IsFiniteSet(X) /\ Cardinality(X) = Cardinality({s}) * Cardinality(Span(0, n))
    BY <1>2, <1>3, FS_Product
  <2> QED BY <1>1, <1>2, <1>3, <2>1
<1>5. PaddedBytes(S \cup {s}) = PaddedBytes(S) \cup X
  BY DEF PaddedBytes, n
<1>6. PaddedBytes(S) \cap X = {}
  BY DEF PaddedBytes
<1>7. IsFiniteSet(PaddedBytes(S)) /\ Cardinality(PaddedBytes(S)) \in Nat
  BY BytesAreFinite
<1> HIDE DEF X
<1>8. PICK p \in Nat : p = Cardinality(PaddedBytes(S))
  BY <1>7
<1>9. Cardinality(PaddedBytes(S) \cup X) = p + n - 0
  <2>1. Cardinality(PaddedBytes(S) \cup X) = Cardinality(PaddedBytes(S)) + Cardinality(X) - Cardinality(PaddedBytes(S) \cap X)
    BY <1>4, <1>7, FS_Union
  <2>2. Cardinality(PaddedBytes(S) \cap X) = 0
    BY <1>6, FS_EmptySet
  <2> QED BY <1>4, <1>8, <2>1, <2>2
<1>10. Cardinality(PaddedBytes(S \cup {s})) = Cardinality(PaddedBytes(S)) + n
  <2>1. p + n - 0 = p + n
    BY <1>1
  <2> QED BY <1>5, <1>8, <1>9, <2>1, Zenon
<1> QED BY <1>10 DEF Padded, PaddedBytes, n

LEMMA PaddedOfNone == Padded({}) = 0
<1>1. UNION {{s} \X Span(0, RoundUp(s.len)) : s \in {}} = {}
  OBVIOUS
<1> QED BY <1>1, FS_EmptySet DEF Padded
-----------------------------------------------------------------------------
(* Least and greatest.                                                     *)
Less == {ss \in Nat \X Nat : ss[1] < ss[2]}

LEMMA LeastNat ==
  ASSUME NEW T, T \subseteq Nat, T # {}
  PROVE  \E x \in T : \A y \in T : x <= y
<1>1. IsWellFoundedOn(Less, Nat)
  BY NatLessThanWellFounded DEF OpToRel, Less
<1>2. PICK x \in T : \A y \in T : ~ (<<y, x>> \in Less)
  BY <1>1, WFMin
<1>3. ASSUME NEW y \in T PROVE x <= y
  <2>1. ~ (<<y, x>> \in Less) /\ x \in Nat /\ y \in Nat
    BY <1>2
  <2> QED BY <2>1 DEF Less
<1> QED BY <1>3

LEMMA MinOfNat ==
  ASSUME NEW S, S \subseteq Nat, S # {}
  PROVE  Min(S) \in Nat /\ Min(S) \in S /\ \A y \in S : Min(S) <= y
  BY LeastNat DEF Min

LEMMA MaxOfNat ==
  ASSUME NEW S, S \subseteq Nat, S # {}, NEW b \in Nat, \A y \in S : y <= b
  PROVE  Max(S) \in Nat /\ Max(S) \in S /\ \A y \in S : Max(S) >= y
<1> DEFINE T == {z \in Nat : \E y \in S : z = b - y}
<1>1. T \subseteq Nat /\ T # {}
  <2>1. PICK y \in S : TRUE
    OBVIOUS
  <2>2. y \in Nat /\ y <= b /\ b - y \in Nat
    OBVIOUS
  <2> QED BY <2>2
<1>2. PICK z \in T : \A x \in T : z <= x
  <2> HIDE DEF T
  <2> QED BY <1>1, LeastNat
<1>3. PICK m \in S : z = b - m
  OBVIOUS
<1>4. ASSUME NEW y \in S PROVE m >= y
  <2>1. y \in Nat /\ m \in Nat /\ y <= b /\ m <= b
    OBVIOUS
  <2>2. b - y \in T
    BY <2>1
  <2>3. z <= b - y
    BY <1>2, <2>2
  <2> QED BY <1>3, <2>1, <2>3
<1> QED BY <1>4 DEF Max

LEMMA MinMaxOfTwo ==
  ASSUME NEW a \in Int, NEW b \in Int
  PROVE  /\ Min({a, b}) \in Int /\ Min({a, b}) <= a /\ Min({a, b}) <= b
         /\ Max({a, b}) \in Int /\ Max({a, b}) >= a /\ Max({a, b}) >= b
<1>1. \E x \in {a, b} : \A y \in {a, b} : x <= y
  OBVIOUS
<1>2. \E x \in {a, b} : \A y \in {a, b} : x >= y
  OBVIOUS
<1> QED BY <1>1, <1>2 DEF Min, Max

(* The range of a DOL is that of its text sections.                        *)
LEMMA TextIs ==
  ASSUME NEW e \in Execs, e.kind = "dol"
  PROVE  /\ TextRange(e)[1] \in Int /\ TextRange(e)[2] \in Int
         /\ \A s \in e.rest : s.text => TextRange(e)[1] <= s.at /\ s.at + s.len <= TextRange(e)[2]
<1> DEFINE texts == {s \in e.rest : s.text}
           ats   == {s.at : s \in texts}
           ends  == {s.at + s.len : s \in texts}
<1>1. \A s \in texts : s.at \in Nat /\ s.len \in Nat /\ s.at + s.len <= Top
  BY PartsAre
<1>2. texts # {}
  BY DolAssumption DEF IsExec
<1>3. ats \subseteq Nat /\ ats # {} /\ ends \subseteq Nat /\ ends # {} /\ \A y \in ends : y <= Top
  BY <1>1, <1>2
<1>4. TextRange(e) = <<(Base + Min(ats)) - Base, (Base + Max(ends)) - Base>>
  BY DEF TextRange
<1>5. Top \in Nat /\ Base \in Int
  BY DolAssumption DEF Base
<1>6. ASSUME NEW s \in texts PROVE s.at \in ats /\ s.at + s.len \in ends
  OBVIOUS
<1> HIDE DEF ats, ends
<1>7. Min(ats) \in Nat /\ \A y \in ats : Min(ats) <= y
  BY <1>3, MinOfNat
<1>8. Max(ends) \in Nat /\ \A y \in ends : Max(ends) >= y
  BY <1>3, <1>5, MaxOfNat
<1>9. TextRange(e)[1] = Min(ats) /\ TextRange(e)[2] = Max(ends)
  BY <1>4, <1>5, <1>7, <1>8
<1>10. ASSUME NEW s \in e.rest, s.text
       PROVE  TextRange(e)[1] <= s.at /\ s.at + s.len <= TextRange(e)[2]
  <2>1. s \in texts
    BY <1>10
  <2> QED BY <1>6, <1>7, <1>8, <1>9, <2>1
<1> QED BY <1>7, <1>8, <1>9, <1>10

(* A function lies in one of the parts, and in the range once that is the  *)
(* one of all parts.                                                       *)
Functions(e) == e.hooks \cup {c.at : c \in e.cards}
InSpan(e, lo, hi) ==
  IF e.kind = "dol" THEN lo = TextRange(e)[1] /\ hi = TextRange(e)[2]
  ELSE \A s \in e.rest \cup {e.first} : lo <= s.at /\ s.at + RoundUp(s.len) <= hi

LEMMA FunctionsInPart ==
  ASSUME NEW e \in Execs, NEW h \in Functions(e)
  PROVE  h \in Int /\ \E s \in e.rest \cup {e.first} : h \in Part(s)
<1>1. PICK s \in Code(e) : h \in Span(s.at, s.at + s.len)
  BY DolAssumption DEF IsExec, Functions
<1>2. s \in e.rest \cup {e.first}
  BY DEF Code
<1>3. /\ s.at \in Nat /\ s.len \in Nat /\ RoundUp(s.len) \in Nat /\ s.len <= RoundUp(s.len)
  BY <1>2, PartsAre
<1> QED BY <1>1, <1>2, <1>3 DEF Span, Part

LEMMA FunctionsInSpan ==
  ASSUME NEW e \in Execs, NEW h \in Functions(e), NEW lo \in Int, NEW hi \in Int, InSpan(e, lo, hi)
  PROVE  h \in Span(lo, hi)
<1>1. CASE e.kind = "dol"
  <2>1. PICK s \in Code(e) : h \in Span(s.at, s.at + s.len)
    BY DolAssumption DEF IsExec, Functions
  <2>2. s \in e.rest /\ s.text
    BY <1>1, <2>1 DEF Code
  <2>3. lo <= s.at /\ s.at + s.len <= hi
    BY <1>1, <2>2, TextIs DEF InSpan
  <2>4. s.at \in Nat /\ s.len \in Nat
    BY <2>2, PartsAre
  <2> QED BY <2>1, <2>3, <2>4 DEF Span
<1>2. CASE e.kind # "dol"
  <2>1. PICK s \in e.rest \cup {e.first} : h \in Part(s)
    BY FunctionsInPart
  <2>2. lo <= s.at /\ s.at + RoundUp(s.len) <= hi
    BY <1>2 DEF InSpan
  <2>3. s.at \in Nat /\ RoundUp(s.len) \in Nat
    BY PartsAre
  <2> QED BY <2>1, <2>2, <2>3 DEF Span, Part
<1> QED BY <1>1, <1>2

(* DoPatches over that range.                                              *)
LEMMA PatchesAll ==
  ASSUME NEW e \in Execs, FreeBlocksFirst(e), NEW at, NEW len, NEW lo \in Int, NEW hi \in Int,
         InSpan(e, lo, hi), DoPatches(at, len, e, Span(lo, hi))
  PROVE  /\ e.hooks \cap raw' = {}
         /\ NMM /\ Found = {} /\ CardsAfter(at, len, e) = e.cards => e.cards \cap rawCards' = {}
<1>1. e.hooks \cap raw' = {}
  <2>1. \A h \in e.hooks : h \in Span(lo, hi)
    BY FunctionsInSpan DEF Functions
  <2> QED BY <2>1 DEF DoPatches
<1>2. ASSUME NMM, Found = {}, CardsAfter(at, len, e) = e.cards
      PROVE  e.cards \cap rawCards' = {}
  <2>1. \A c \in e.cards : c.at \in Span(lo, hi)
    BY FunctionsInSpan DEF Functions
  <2>2. CardHits(e.cards, Span(lo, hi)) = e.cards
    BY <1>2, <2>1 DEF CardHits, FreeBlocksFirst
  <2>3. rawCards' = e.cards \ CardHits(e.cards, Span(lo, hi))
    BY <1>2 DEF DoPatches
  <2> QED BY <2>2, <2>3
<1> QED BY <1>1, <1>2
-----------------------------------------------------------------------------
(* The executable that is loaded, and what has been read of it.            *)
LEMMA NoExecIsNone ==
  /\ NoExec \notin Execs /\ NoExec.cards = {} /\ NoExec.hooks = {}
  /\ \A e \in Execs : e.kind \in {"dol", "elf", "loader"}
<1>1. \A e \in Execs : e.kind \in {"dol", "elf", "loader"}
  BY DolAssumption DEF IsExec
<1>2. NoExec.kind = "none"
  BY DEF NoExec
<1> QED BY <1>1, <1>2 DEF NoExec

LEMMA SizesTyped ==
  ASSUME NEW e \in Execs
  PROVE  /\ RoundUp(e.first.len) \in Nat
         /\ \A R \in SUBSET e.rest : Padded(R) \in Nat /\ BytesRead(e, R) \in Nat
         /\ e.kind # "loader" => Size(e) \in Nat
<1>1. RoundUp(e.first.len) \in Nat
  BY PartsAre
<1>2. ASSUME NEW R \in SUBSET e.rest PROVE Padded(R) \in Nat
  BY BytesAreFinite DEF Padded, PaddedBytes
<1>3. \A R \in SUBSET e.rest : BytesRead(e, R) \in Nat
  BY <1>1, <1>2 DEF BytesRead
<1>4. ASSUME e.kind = "dol" PROVE Size(e) \in Nat
  <2>1. Cardinality(Bytes(e.rest)) \in Nat
    BY BytesAreFinite
  <2> QED BY <1>4, <2>1, HeaderIsWhole DEF Size
<1>5. ASSUME e.kind = "elf" PROVE Size(e) \in Nat
  BY <1>5, DolAssumption DEF Size, IsExec
<1> QED BY <1>1, <1>2, <1>3, <1>4, <1>5, NoExecIsNone

LEMMA MoreRead ==
  ASSUME NEW e \in Execs, NEW l \in SUBSET e.rest, NEW s \in l
  PROVE  /\ BytesRead(e, e.rest \ (l \ {s})) = BytesRead(e, e.rest \ l) + RoundUp(s.len)
         /\ IsFiniteSet(l) /\ Cardinality(l) \in Nat
         /\ Cardinality(l \ {s}) = Cardinality(l) - 1
<1>1. e.rest \ (l \ {s}) = (e.rest \ l) \cup {s}
  OBVIOUS
<1>2. Padded((e.rest \ l) \cup {s}) = Padded(e.rest \ l) + RoundUp(s.len)
  <2>1. e.rest \ l \in SUBSET e.rest /\ s \in e.rest /\ s \notin e.rest \ l
    OBVIOUS
  <2> QED BY <2>1, PaddedGrows
<1>3. PICK p \in Nat, f \in Nat, n \in Nat :
        p = Padded(e.rest \ l) /\ f = RoundUp(e.first.len) /\ n = RoundUp(s.len)
  <2>1. e.rest \ l \in SUBSET e.rest /\ s \in e.rest
    OBVIOUS
  <2> QED BY <2>1, SizesTyped, PartsAre
<1>4. BytesRead(e, e.rest \ (l \ {s})) = f + (p + n) /\ BytesRead(e, e.rest \ l) = f + p
  BY <1>1, <1>2, <1>3 DEF BytesRead
<1>5. IsFiniteSet(l)
  <2>1. IsFiniteSet(e.rest)
    BY PartsAre
  <2> QED BY <2>1, FS_Subset
<1>6. Cardinality(l) \in Nat /\ Cardinality(l \ {s}) = Cardinality(l) - 1
  BY <1>5, FS_RemoveElement, FS_CardinalityType
<1>7. BytesRead(e, e.rest \ (l \ {s})) = BytesRead(e, e.rest \ l) + n
  <2> HIDE DEF BytesRead
  <2> QED BY <1>4
<1> QED BY <1>3, <1>5, <1>6, <1>7

(* The whole of it reaches the size.                                       *)
LEMMA WholeSize ==
  ASSUME NEW e \in Execs, CountsOut(e), e.kind # "loader", e.rest # {}, ~ByHeader(e)
  PROVE  BytesRead(e, e.rest) >= Size(e)
<1>1. CASE e.kind = "dol"
  <2>1. PICK p \in Nat, b \in Nat : p = Cardinality(PaddedBytes(e.rest)) /\ b = Cardinality(Bytes(e.rest)) /\ b <= p
    BY BytesAreFinite
  <2>2. RoundUp(e.first.len) = HDR /\ HDR \in Nat
    BY <1>1, DolAssumption, HeaderIsWhole DEF IsExec
  <2>3. BytesRead(e, e.rest) = HDR + p
    BY <2>1, <2>2 DEF BytesRead, Padded, PaddedBytes
  <2>4. Size(e) = b + HDR
    BY <1>1, <2>1 DEF Size
  <2> QED BY <2>1, <2>2, <2>3, <2>4
<1>2. CASE e.kind = "elf"
  BY <1>2 DEF CountsOut, Size
<1> QED BY <1>1, <1>2, NoExecIsNone

(* While the count goes on, parts are missing.                             *)
LEMMA PartsMissing ==
  ASSUME LoadInv, PatchState # 0, CountsOut(loading)
  PROVE  loading \in Execs /\ loading.kind # "loader" /\ left # {} /\ left \subseteq loading.rest
<1>1. loading \in Execs /\ left \subseteq loading.rest /\ loading.kind # "loader"
  BY DEF LoadInv, LoadTypes, RangeInv
<1>2. ASSUME left = {} PROVE FALSE
  <2>1. loading.rest \ left = loading.rest
    BY <1>2
  <2>2. DOLReadSize < DOLSize /\ DOLSize = Size(loading) /\ DOLReadSize >= BytesRead(loading, loading.rest)
    BY <2>1 DEF LoadInv, CountInv, GotBytes
  <2>3. DOLReadSize \in Int /\ Size(loading) \in Int /\ BytesRead(loading, loading.rest) \in Int
    BY <1>1, SizesTyped DEF LoadInv, LoadTypes
  <2>4. ~(BytesRead(loading, loading.rest) >= Size(loading))
    BY <2>2, <2>3
  <2>5. CASE ByHeader(loading)
    <3>1. PatchState = 2
      BY <2>5 DEF LoadInv, LoadTypes, RangeInv, ByHeader
    <3>2. Cardinality(left) = 0
      BY <1>2, FS_EmptySet
    <3> QED BY <2>5, <3>1, <3>2 DEF LoadInv, LoadTypes, SectionsInv
  <2>6. CASE ~ByHeader(loading)
    <3>1. loading.rest = {}
      BY <1>1, <2>4, <2>6, WholeSize
    <3>2. loading.kind = "elf"
      BY <1>1, <3>1, NoExecIsNone, DolAssumption DEF IsExec
    <3>3. RoundUp(loading.first.len) = Size(loading)
      BY <3>1, <3>2 DEF CountsOut, Size
    <3>4. BytesRead(loading, loading.rest) = RoundUp(loading.first.len)
      BY <1>1, <3>1, PaddedOfNone, SizesTyped DEF BytesRead
    <3> QED BY <2>3, <2>4, <3>3, <3>4
  <2> QED BY <2>5, <2>6
<1> QED BY <1>1, <1>2

(* A section is counted: the count ends with the last one and, when        *)
(* nothing else was read, not before.                                      *)
LEMMA SectionCounts ==
  ASSUME LoadInv, PatchState # 0, CountsOut(loading), NEW s \in left,
         Count(s.at, RoundUp(s.len)), left' = left \ {s}, UNCHANGED <<loading, disturbed>>
  PROVE  /\ DOLReadSize' \in Int /\ ELFNumberOfSections' \in Int /\ DOLSize' = DOLSize /\ DOLSize = Size(loading)
         /\ DOLReadSize' >= GotBytes' /\ (~disturbed => DOLReadSize' = GotBytes')
         /\ PatchState = 2 /\ ByHeader(loading) =>
              /\ 0 <= ELFNumberOfSections' /\ ELFNumberOfSections' <= Cardinality(left')
              /\ ~disturbed => ELFNumberOfSections' = Cardinality(left')
         /\ PatchState = 2 /\ ~ByHeader(loading) => ELFNumberOfSections' < 0
         /\ left' = {} => AllRead
         /\ ~disturbed /\ left' # {} => ~AllRead
<1>1. loading \in Execs /\ loading.kind # "loader" /\ left \subseteq loading.rest
  BY PartsMissing
<1>2. PICK n \in Nat : n = RoundUp(s.len)
  <2>1. s \in loading.rest
    BY <1>1
  <2> QED BY <1>1, <2>1, PartsAre
<1>3. PICK g \in Nat, z \in Nat : g = GotBytes /\ z = Size(loading)
  <2>1. loading.rest \ left \in SUBSET loading.rest
    OBVIOUS
  <2> QED BY <1>1, <2>1, SizesTyped DEF GotBytes
<1>4. /\ BytesRead(loading, loading.rest \ (left \ {s})) = BytesRead(loading, loading.rest \ left) + RoundUp(s.len)
      /\ IsFiniteSet(left) /\ Cardinality(left) \in Nat
      /\ Cardinality(left \ {s}) = Cardinality(left) - 1
  BY <1>1, MoreRead
<1>5. GotBytes' = g + n
  BY <1>2, <1>3, <1>4 DEF GotBytes
<1>6. /\ DOLReadSize' = DOLReadSize + n /\ DOLSize' = DOLSize
      /\ PatchState = 2 => ELFNumberOfSections' = ELFNumberOfSections - 1
      /\ PatchState # 2 => ELFNumberOfSections' = ELFNumberOfSections
  BY <1>2 DEF Count
<1>7. /\ PatchState \in {1, 2} /\ DOLReadSize \in Int /\ ELFNumberOfSections \in Int
      /\ DOLSize = z /\ DOLReadSize >= g /\ (~disturbed => DOLReadSize = g)
  BY <1>3 DEF LoadInv, LoadTypes, CountInv
<1>8. PICK c \in Nat : c = Cardinality(left) /\ Cardinality(left') = c - 1
  BY <1>4
<1>9. /\ PatchState = 2 /\ ByHeader(loading) =>
           /\ 0 < ELFNumberOfSections /\ ELFNumberOfSections <= c
           /\ ~disturbed => ELFNumberOfSections = c
      /\ PatchState = 2 /\ ~ByHeader(loading) => ELFNumberOfSections < 0
  BY <1>8 DEF LoadInv, SectionsInv
<1>10. /\ DOLReadSize' >= GotBytes' /\ (~disturbed => DOLReadSize' = GotBytes')
  BY <1>5, <1>6, <1>7
<1>11. /\ PatchState = 2 /\ ByHeader(loading) =>
            /\ 0 <= ELFNumberOfSections' /\ ELFNumberOfSections' <= c - 1
            /\ ~disturbed => ELFNumberOfSections' = c - 1
       /\ PatchState = 2 /\ ~ByHeader(loading) => ELFNumberOfSections' < 0
  BY <1>6, <1>7, <1>9
<1>12. ByHeader(loading) => PatchState = 2
  BY <1>7 DEF LoadInv, RangeInv, ByHeader
<1>13. ASSUME left' = {} PROVE AllRead
  <2>1. CASE ByHeader(loading)
    <3>1. c - 1 = 0
      BY <1>8, <1>13, FS_EmptySet
    <3> QED BY <1>6, <1>7, <1>11, <1>12, <2>1, <3>1 DEF AllRead
  <2>2. CASE ~ByHeader(loading)
    <3>1. loading.rest \ (left \ {s}) = loading.rest /\ loading.rest # {}
      BY <1>1, <1>13
    <3>2. BytesRead(loading, loading.rest) >= Size(loading)
      BY <1>1, <2>2, <3>1, WholeSize
    <3>3. GotBytes' = BytesRead(loading, loading.rest)
      BY <3>1 DEF GotBytes
    <3>4. DOLReadSize' >= DOLSize
      BY <1>3, <1>5, <1>6, <1>7, <1>10, <3>2, <3>3
    <3> QED BY <3>4 DEF AllRead
  <2> QED BY <2>1, <2>2
<1>14. ASSUME ~disturbed, left' # {} PROVE ~AllRead
  <2>1. loading.rest \ (left \ {s}) # loading.rest
    BY <1>1, <1>14
  <2>2. BytesRead(loading, loading.rest \ (left \ {s})) < Size(loading)
    BY <1>1, <2>1 DEF CountsOut
  <2>3. DOLReadSize' < DOLSize
    <3>1. DOLReadSize' = g + n /\ g + n < z
      BY <1>3, <1>5, <1>10, <1>14, <2>2 DEF GotBytes
    <3> QED BY <1>7, <3>1
  <2>4. PatchState = 2 => ELFNumberOfSections' # 0
    <3>1. c - 1 # 0
      <4>1. IsFiniteSet(left \ {s}) /\ left \ {s} # {}
        BY <1>4, <1>14, FS_RemoveElement
      <4> QED BY <1>8, <4>1, FS_EmptySet
    <3> QED BY <1>11, <1>14, <3>1
  <2> QED BY <1>6, <1>7, <2>3, <2>4 DEF AllRead
<1> QED BY <1>3, <1>6, <1>7, <1>8, <1>10, <1>11, <1>13, <1>14
-----------------------------------------------------------------------------
(* The steps.                                                              *)

LEMMA RangeGrows ==
  ASSUME LoadInv, PatchState # 0, CountsOut(loading), NEW at \in Int, NEW len \in Nat, Count(at, len)
  PROVE  /\ DOLMinOff' \in Int /\ DOLMaxOff' \in Int
         /\ PatchState = 1 => /\ loading.kind = "dol"
                              /\ DOLMinOff' = TextRange(loading)[1] /\ DOLMaxOff' = TextRange(loading)[2]
         /\ PatchState = 2 =>
              /\ loading.kind = "elf" /\ DOLMinOff' <= at /\ at + len <= DOLMaxOff'
              /\ \A s \in PartsRead : DOLMinOff' <= s.at /\ s.at + RoundUp(s.len) <= DOLMaxOff'
<1>1. DOLMinOff \in Int /\ DOLMaxOff \in Int /\ PatchState \in {1, 2} /\ loading \in Execs
  BY PartsMissing DEF LoadInv, LoadTypes
<1>2. CASE PatchState = 1
  BY <1>1, <1>2 DEF Count, Widen, LoadInv, RangeInv
<1>3. CASE PatchState = 2
  <2>1. DOLMinOff' = Min({DOLMinOff, at}) /\ DOLMaxOff' = Max({DOLMaxOff, at + len})
    BY <1>3 DEF Count, Widen
  <2>2. DOLMinOff' \in Int /\ DOLMinOff' <= DOLMinOff /\ DOLMinOff' <= at
    BY <1>1, <2>1, MinMaxOfTwo
  <2>3. at + len \in Int
    OBVIOUS
  <2>4. DOLMaxOff' \in Int /\ DOLMaxOff' >= DOLMaxOff /\ DOLMaxOff' >= at + len
    BY <1>1, <2>1, <2>3, MinMaxOfTwo
  <2>5. ASSUME NEW s \in PartsRead PROVE DOLMinOff' <= s.at /\ s.at + RoundUp(s.len) <= DOLMaxOff'
    <3>1. DOLMinOff <= s.at /\ s.at + RoundUp(s.len) <= DOLMaxOff
      BY <1>3 DEF LoadInv, RangeInv
    <3>2. s.at \in Nat /\ RoundUp(s.len) \in Nat
      <4>1. s \in loading.rest \cup {loading.first}
        BY DEF PartsRead
      <4> QED BY <1>1, <4>1, PartsAre
    <3> QED BY <1>1, <2>2, <2>4, <3>1, <3>2
  <2> QED BY <1>3, <2>2, <2>3, <2>4, <2>5 DEF LoadInv, RangeInv
<1> QED BY <1>1, <1>2, <1>3

LEMMA LoadingStarts == DolInit => LoadInv
<1> SUFFICES ASSUME DolInit PROVE LoadInv
  OBVIOUS
<1>1. LoadTypes /\ CountInv /\ SectionsInv /\ RangeInv /\ AwaitInv
  <2>1. disturbed \in BOOLEAN
    BY Zenon DEF DolInit
  <2>2. LoadTypes
    BY <2>1 DEF DolInit, LoadTypes
  <2> QED BY <2>2 DEF DolInit, CountInv, SectionsInv, RangeInv, AwaitInv
<1>2. HookInv /\ CardInv
  BY DEF DolInit, HookInv, CardInv, Loaded
<1> QED BY <1>1, <1>2 DEF LoadInv

(* The cards' functions in memory while the first executable is read.      *)
LEMMA CardsRead ==
  ASSUME LoadInv, PatchState # 0, CountsOut(loading), loads = 1, ~disturbed, NEW s \in left
  PROVE  /\ CardsAfter(s.at, RoundUp(s.len), loading) \subseteq loading.cards
         /\ \A c \in loading.cards : InRead(c) \/ c.at \in Part(s) =>
              c \in CardsAfter(s.at, RoundUp(s.len), loading)
         /\ left = {s} => CardsAfter(s.at, RoundUp(s.len), loading) = loading.cards
<1>1. rawCards \subseteq loading.cards /\ \A c \in loading.cards : InRead(c) => c \in rawCards
  BY DEF LoadInv, CardInv
<1>2. \A c \in loading.cards : InRead(c) \/ c.at \in Part(s) =>
        c \in CardsAfter(s.at, RoundUp(s.len), loading)
  BY <1>1 DEF CardsAfter, Part
<1>3. CardsAfter(s.at, RoundUp(s.len), loading) \subseteq loading.cards
  BY <1>1 DEF CardsAfter
<1>4. ASSUME left = {s}, NEW c \in loading.cards PROVE InRead(c) \/ c.at \in Part(s)
  <2>1. loading \in Execs
    BY PartsMissing
  <2>2. PICK p \in loading.rest \cup {loading.first} : c.at \in Part(p)
    <3>1. c.at \in Functions(loading)
      BY DEF Functions
    <3> QED BY <2>1, <3>1, FunctionsInPart
  <2> QED BY <1>4, <2>2 DEF InRead, PartsRead
<1> QED BY <1>2, <1>3, <1>4

LEMMA SectionKeeps ==
  ASSUME LoadInv, NEW s \in left, Regular(loading), LoadSection(s)
  PROVE  LoadInv'
<1>1. /\ left' = left \ {s} /\ loading' = loading /\ disturbed' = disturbed /\ loads' = loads
      /\ DIRead(s.at, RoundUp(s.len), loading, FALSE)
  BY DEF LoadSection
<1>2. loading \in Execs /\ left \subseteq loading.rest /\ loading # NoExec /\ loads # 0
  BY DEF LoadInv, LoadTypes, CardInv
<1>3. s \in loading.rest /\ s.at \in Nat /\ RoundUp(s.len) \in Nat
  BY <1>2, PartsAre
<1>4. CountsOut(loading) /\ FreeBlocksFirst(loading)
  BY DEF Regular
<1>5. /\ disturbed' \in BOOLEAN /\ loads' \in Nat
      /\ loading' # NoExec /\ loading' \in Execs /\ left' \subseteq loading'.rest
  BY <1>1, <1>2 DEF LoadInv, LoadTypes
<1>6. PartsRead' = PartsRead \cup {s}
  BY <1>1, <1>2 DEF PartsRead
<1>7. CASE Ignored(s.at, RoundUp(s.len), loading)
  <2>1. PatchState = 0 /\ UNCHANGED dol
    BY <1>7 DEF Ignored
  <2>2. disturbed
    BY <1>2, <2>1 DEF LoadInv, AwaitInv
  <2>3. LoadTypes'
    BY <1>5, <2>1 DEF LoadInv, LoadTypes, dol
  <2>4. PatchState' = 0
    BY <2>1 DEF dol
  <2> QED BY <1>1, <1>2, <2>2, <2>3, <2>4
          DEF LoadInv, CountInv, SectionsInv, RangeInv, AwaitInv, HookInv, CardInv, Loaded
<1>8. ASSUME PatchState # 0, Count(s.at, RoundUp(s.len))
      PROVE  /\ PatchState \in {1, 2} /\ (ByHeader(loading)' <=> ByHeader(loading)) /\ Size(loading)' = Size(loading)
             /\ DOLReadSize' \in Int /\ ELFNumberOfSections' \in Int /\ DOLSize' = Size(loading) /\ DOLSize' = DOLSize
             /\ DOLSize' \in Int /\ DOLReadSize' >= GotBytes' /\ (~disturbed => DOLReadSize' = GotBytes')
             /\ PatchState = 2 /\ ByHeader(loading) =>
                  /\ 0 <= ELFNumberOfSections' /\ ELFNumberOfSections' <= Cardinality(left')
                  /\ ~disturbed => ELFNumberOfSections' = Cardinality(left')
             /\ PatchState = 2 /\ ~ByHeader(loading) => ELFNumberOfSections' < 0
             /\ left' = {} => AllRead
             /\ ~disturbed /\ left' # {} => ~AllRead
             /\ DOLMinOff' \in Int /\ DOLMaxOff' \in Int
             /\ PatchState = 1 => /\ loading.kind = "dol"
                                  /\ DOLMinOff' = TextRange(loading)[1] /\ DOLMaxOff' = TextRange(loading)[2]
             /\ PatchState = 2 =>
                  /\ loading.kind = "elf"
                  /\ \A p \in PartsRead \cup {s} : DOLMinOff' <= p.at /\ p.at + RoundUp(p.len) <= DOLMaxOff'
  <2>1. PatchState \in {1, 2} /\ DOLSize \in Int
    BY <1>8 DEF LoadInv, LoadTypes
  <2>2. (ByHeader(loading)' <=> ByHeader(loading)) /\ Size(loading)' = Size(loading)
    BY <1>1 DEF ByHeader, Size
  <2>3. /\ DOLReadSize' \in Int /\ ELFNumberOfSections' \in Int /\ DOLSize' = DOLSize /\ DOLSize = Size(loading)
        /\ DOLReadSize' >= GotBytes' /\ (~disturbed => DOLReadSize' = GotBytes')
        /\ PatchState = 2 /\ ByHeader(loading) =>
             /\ 0 <= ELFNumberOfSections' /\ ELFNumberOfSections' <= Cardinality(left')
             /\ ~disturbed => ELFNumberOfSections' = Cardinality(left')
        /\ PatchState = 2 /\ ~ByHeader(loading) => ELFNumberOfSections' < 0
        /\ left' = {} => AllRead
        /\ ~disturbed /\ left' # {} => ~AllRead
    BY <1>1, <1>4, <1>8, SectionCounts
  <2>4. /\ DOLMinOff' \in Int /\ DOLMaxOff' \in Int
        /\ PatchState = 1 => /\ loading.kind = "dol"
                             /\ DOLMinOff' = TextRange(loading)[1] /\ DOLMaxOff' = TextRange(loading)[2]
        /\ PatchState = 2 =>
             /\ loading.kind = "elf" /\ DOLMinOff' <= s.at /\ s.at + RoundUp(s.len) <= DOLMaxOff'
             /\ \A p \in PartsRead : DOLMinOff' <= p.at /\ p.at + RoundUp(p.len) <= DOLMaxOff'
    BY <1>3, <1>4, <1>8, RangeGrows
  <2> QED BY <2>1, <2>2, <2>3, <2>4
<1>9. CASE CountMore(s.at, RoundUp(s.len), loading)
  <2>1. PatchState # 0 /\ Count(s.at, RoundUp(s.len)) /\ ~AllRead /\ PatchState' = PatchState
        /\ NoPatch(s.at, RoundUp(s.len), loading)
    BY <1>9 DEF CountMore, Count
  <2>2. left' # {}
    BY <1>8, <2>1
  <2>3. LoadTypes'
    BY <1>5, <1>8, <2>1 DEF LoadTypes
  <2>4. CountInv'
    <3>1. DOLReadSize' < DOLSize'
      BY <1>8, <2>1 DEF AllRead
    <3> QED BY <1>1, <1>8, <2>1, <3>1 DEF CountInv
  <2>5. SectionsInv'
    <3>1. PatchState = 2 => ELFNumberOfSections' # 0
      BY <2>1 DEF AllRead
    <3> QED BY <1>1, <1>8, <2>1, <3>1 DEF SectionsInv
  <2>6. RangeInv'
    BY <1>1, <1>6, <1>8, <2>1 DEF RangeInv
  <2>7. AwaitInv' /\ HookInv'
    BY <2>1, <2>2 DEF AwaitInv, HookInv, Loaded
  <2>8. CardInv'
    <3>1. ASSUME loads = 1, ~disturbed
          PROVE  /\ Found' = {} /\ rawCards' \subseteq loading.cards
                 /\ \A c \in loading.cards : InRead(c)' => c \in rawCards'
      <4>1. Found' = {} /\ rawCards' = CardsAfter(s.at, RoundUp(s.len), loading)
        BY <2>1, <3>1 DEF NoPatch, LoadInv, CardInv
      <4>2. \A c \in loading.cards : InRead(c)' => InRead(c) \/ c.at \in Part(s)
        BY <1>6 DEF InRead, Part
      <4> QED BY <1>4, <2>1, <3>1, <4>1, <4>2, CardsRead
    <3> QED BY <1>1, <1>2, <2>2, <3>1 DEF CardInv, Loaded
  <2> QED BY <2>3, <2>4, <2>5, <2>6, <2>7, <2>8 DEF LoadInv
<1>10. CASE CountLast(s.at, RoundUp(s.len), loading)
  <2>1. PatchState # 0 /\ Count(s.at, RoundUp(s.len)) /\ AllRead /\ PatchState' = 0
        /\ DoPatches(s.at, RoundUp(s.len), loading, Span(DOLMinOff', DOLMaxOff'))
    BY <1>10 DEF CountLast, Count
  <2>2. LoadTypes'
    BY <1>5, <1>8, <2>1 DEF LoadTypes
  <2>3. CountInv' /\ SectionsInv' /\ RangeInv'
    BY <2>1 DEF CountInv, SectionsInv, RangeInv
  <2>4. ~disturbed => left = {s}
    BY <1>1, <1>8, <2>1
  <2>5. AwaitInv'
    BY <1>1, <2>4 DEF AwaitInv
  <2>6. ASSUME ~disturbed
        PROVE  /\ loading.hooks \cap raw' = {}
               /\ NMM /\ loads = 1 => loading.cards \cap rawCards' = {}
    <3>1. PartsRead \cup {s} = loading.rest \cup {loading.first}
      BY <1>2, <2>4, <2>6 DEF PartsRead
    <3>2. InSpan(loading, DOLMinOff', DOLMaxOff')
      BY <1>8, <2>1, <3>1 DEF InSpan
    <3>3. /\ loading.hooks \cap raw' = {}
          /\ NMM /\ Found = {} /\ CardsAfter(s.at, RoundUp(s.len), loading) = loading.cards =>
               loading.cards \cap rawCards' = {}
      <4>1. PICK lo \in Int, hi \in Int : lo = DOLMinOff' /\ hi = DOLMaxOff'
        BY <1>8, <2>1
      <4> QED BY <1>2, <1>4, <2>1, <3>2, <4>1, PatchesAll
    <3>4. loads = 1 => Found = {} /\ CardsAfter(s.at, RoundUp(s.len), loading) = loading.cards
      BY <1>4, <2>1, <2>4, <2>6, CardsRead DEF LoadInv, CardInv
    <3> QED BY <3>3, <3>4
  <2>7. HookInv' /\ CardInv'
    BY <1>1, <1>2, <2>1, <2>6 DEF HookInv, CardInv, Loaded
  <2> QED BY <2>2, <2>3, <2>5, <2>7 DEF LoadInv
<1> QED BY <1>1, <1>7, <1>9, <1>10 DEF DIRead

LEMMA LoadKeeps ==
  ASSUME LoadInv, NEW e \in Execs, Regular(e), Load(e)
  PROVE  LoadInv'
<1> DEFINE at == e.first.at
           len == RoundUp(e.first.len)
<1>1. /\ loading = NoExec /\ loading' = e /\ left' = e.rest /\ ~disturbed' /\ disturbed' = FALSE
      /\ loads' = loads + 1 /\ DIRead(at, len, e, TRUE)
  BY DEF Load
<1>2. PatchState = 0 /\ loads \in Nat
  BY <1>1 DEF LoadInv, LoadTypes
<1>3. at \in Nat /\ len \in Nat /\ IsFiniteSet(e.rest)
  BY PartsAre
<1>4. e # NoExec /\ CountsOut(e) /\ FreeBlocksFirst(e)
  BY NoExecIsNone DEF Regular
<1>5. loads' # 0 /\ (loads' = 1 => Found = {} /\ rawCards = {})
  BY <1>1, <1>2 DEF LoadInv, CardInv
<1>6. PartsRead' = {e.first}
  BY <1>1 DEF PartsRead
<1>7. BytesRead(e, {}) = len
  BY <1>3, PaddedOfNone DEF BytesRead
<1>8. GotBytes' = len
  <2>1. e.rest \ e.rest = {}
    OBVIOUS
  <2> QED BY <1>1, <1>7, <2>1 DEF GotBytes
<1>9. disturbed' \in BOOLEAN
  BY <1>1, Zenon
<1>10. ASSUME e.rest # {}, e.kind # "loader" PROVE len < Size(e)
  <2>1. {} \in SUBSET e.rest /\ {} # e.rest
    BY <1>10
  <2> QED BY <1>4, <1>7, <1>10, <2>1 DEF CountsOut
<1>11. e.kind # "loader" => Size(e) \in Nat
  BY SizesTyped
<1>12. (ByHeader(loading)' <=> ByHeader(e)) /\ Size(loading)' = Size(e)
  BY <1>1 DEF ByHeader, Size
<1>13. CardsAfter(at, len, e) \subseteq rawCards \cup e.cards
       /\ \A c \in e.cards : InRead(c)' => c \in CardsAfter(at, len, e)
  BY <1>6 DEF CardsAfter, InRead, Part
<1>14. CASE DolHeader(at, len, e)
  <2>1. /\ e.kind = "dol" /\ len = HDR /\ DOLSize' = Size(e) /\ DOLReadSize' = HDR /\ PatchState' = 1
        /\ DOLMinOff' = TextRange(e)[1] /\ DOLMaxOff' = TextRange(e)[2]
        /\ ELFNumberOfSections' = ELFNumberOfSections /\ NoPatch(at, len, e)
    BY <1>14 DEF DolHeader, Size
  <2>2. e.rest # {}
    BY <2>1, DolAssumption DEF IsExec
  <2>3. LoadTypes'
    <3>1. DOLMinOff' \in Int /\ DOLMaxOff' \in Int
      BY <2>1, TextIs
    <3>2. DOLSize' \in Int /\ DOLReadSize' \in Int /\ ELFNumberOfSections' \in Int /\ loads' \in Nat
      BY <1>1, <1>2, <1>3, <1>11, <2>1 DEF LoadInv, LoadTypes
    <3> QED BY <1>1, <1>4, <1>9, <2>1, <3>1, <3>2 DEF LoadTypes
  <2>4. CountInv'
    BY <1>1, <1>3, <1>8, <1>10, <1>12, <2>1, <2>2 DEF CountInv
  <2>5. SectionsInv' /\ RangeInv' /\ AwaitInv'
    BY <1>1, <2>1 DEF SectionsInv, RangeInv, AwaitInv
  <2>6. HookInv' /\ CardInv'
    <3>1. loads' = 1 => /\ Found' = {} /\ rawCards' \subseteq e.cards
                        /\ \A c \in e.cards : InRead(c)' => c \in rawCards'
      BY <1>5, <1>13, <2>1 DEF NoPatch
    <3> QED BY <1>1, <1>5, <2>2, <3>1 DEF HookInv, CardInv, Loaded
  <2> QED BY <2>3, <2>4, <2>5, <2>6 DEF LoadInv
<1>15. CASE ElfPart(at, len, e)
  <2>1. /\ e.kind = "elf" /\ DOLSize' = Size(e) /\ DOLReadSize' = len /\ len # Size(e) /\ PatchState' = 2
        /\ DOLMinOff' = at /\ DOLMaxOff' = at + len
        /\ ELFNumberOfSections' = (IF len <= ELFHDR THEN e.phnum - 2 ELSE -1) /\ NoPatch(at, len, e)
    BY <1>15 DEF ElfPart, Size
  <2>2. e.rest # {}
    BY <1>4, <2>1 DEF CountsOut, Size
  <2>3. e.phnum \in Nat
    BY <2>1, DolAssumption DEF IsExec
  <2>4. LoadTypes'
    <3>1. ELFNumberOfSections' \in Int
      BY <2>1, <2>3
    <3>2. DOLSize' \in Int /\ DOLReadSize' \in Int /\ DOLMinOff' \in Int /\ DOLMaxOff' \in Int /\ loads' \in Nat
      BY <1>1, <1>2, <1>3, <1>11, <2>1
    <3> QED BY <1>1, <1>4, <1>9, <2>1, <3>1, <3>2 DEF LoadTypes
  <2>5. CountInv'
    BY <1>1, <1>3, <1>8, <1>10, <1>12, <2>1, <2>2 DEF CountInv
  <2>6. SectionsInv'
    <3>1. Cardinality(e.rest) \in Nat /\ Cardinality(e.rest) # 0
      BY <1>3, <2>2, FS_CardinalityType, FS_EmptySet
    <3>2. CASE ByHeader(e)
      <4>1. ELFNumberOfSections' = Cardinality(e.rest)
        BY <1>4, <2>1, <2>2, <3>2 DEF CountsOut, ByHeader
      <4> QED BY <1>1, <1>12, <3>1, <3>2, <4>1 DEF SectionsInv
    <3>3. CASE ~ByHeader(e)
      <4>1. ELFNumberOfSections' = -1
        BY <2>1, <3>3 DEF ByHeader
      <4> QED BY <1>12, <3>3, <4>1 DEF SectionsInv
    <3> QED BY <3>2, <3>3
  <2>7. RangeInv' /\ AwaitInv'
    BY <1>1, <1>3, <1>6, <2>1 DEF RangeInv, AwaitInv
  <2>8. HookInv' /\ CardInv'
    <3>1. loads' = 1 => /\ Found' = {} /\ rawCards' \subseteq e.cards
                        /\ \A c \in e.cards : InRead(c)' => c \in rawCards'
      BY <1>5, <1>13, <2>1 DEF NoPatch
    <3> QED BY <1>1, <1>5, <2>2, <3>1 DEF HookInv, CardInv, Loaded
  <2> QED BY <2>4, <2>5, <2>6, <2>7, <2>8 DEF LoadInv
<1>16. CASE ElfWhole(at, len, e)
  <2>1. /\ e.kind = "elf" /\ DOLSize' = Size(e) /\ DOLReadSize' = len /\ len = Size(e)
        /\ DoPatches(at, len, e, Span(at, at + len))
        /\ UNCHANGED <<PatchState, DOLMinOff, DOLMaxOff, ELFNumberOfSections>>
    BY <1>16 DEF ElfWhole, Size
  <2>2. e.rest = {}
    BY <1>3, <1>10, <1>11, <2>1
  <2>3. LoadTypes'
    BY <1>1, <1>2, <1>3, <1>4, <1>9, <2>1 DEF LoadInv, LoadTypes
  <2>4. CountInv' /\ SectionsInv' /\ RangeInv' /\ AwaitInv'
    BY <1>1, <1>2, <2>1, <2>2 DEF CountInv, SectionsInv, RangeInv, AwaitInv
  <2>5. InSpan(e, at, at + len)
    BY <1>3, <2>1, <2>2 DEF InSpan
  <2>6. loads' = 1 => CardsAfter(at, len, e) = e.cards
    <3>1. ASSUME NEW c \in e.cards PROVE InRead(c)'
      <4>1. c.at \in Functions(e)
        BY DEF Functions
      <4>2. c.at \in Part(e.first)
        BY <2>2, <4>1, FunctionsInPart
      <4> QED BY <1>6, <4>2 DEF InRead, Part
    <3> QED BY <1>5, <1>13, <3>1
  <2>7. /\ e.hooks \cap raw' = {}
        /\ NMM /\ Found = {} /\ CardsAfter(at, len, e) = e.cards => e.cards \cap rawCards' = {}
    <3>1. at \in Int /\ at + len \in Int
      BY <1>3
    <3> HIDE DEF at, len
    <3> QED BY <1>4, <2>1, <2>5, <3>1, PatchesAll
  <2>8. HookInv' /\ CardInv'
    BY <1>1, <1>2, <1>5, <2>1, <2>6, <2>7 DEF HookInv, CardInv, Loaded
  <2> QED BY <2>3, <2>4, <2>8 DEF LoadInv
<1>17. CASE e.kind = "loader" /\ Ignored(at, len, e)
  <2>1. e.rest = {} /\ e.cards = {} /\ at = LOADER
    BY <1>4, <1>17, DolAssumption DEF CountsOut, FreeBlocksFirst, IsExec
  <2>2. UNCHANGED <<PatchState, DOLSize, DOLReadSize, DOLMinOff, DOLMaxOff, ELFNumberOfSections>>
        /\ raw' = raw \ Span(at, at + len)
    BY <1>17, <2>1 DEF Ignored, dol, NoPatch, RawAfter
  <2>3. LoadTypes'
    BY <1>1, <1>2, <1>4, <1>9, <2>2 DEF LoadInv, LoadTypes
  <2>4. CountInv' /\ SectionsInv' /\ RangeInv' /\ AwaitInv'
    BY <1>1, <1>2, <2>1, <2>2 DEF CountInv, SectionsInv, RangeInv, AwaitInv
  <2>5. e.hooks \cap raw' = {}
    <3>1. \A h \in e.hooks : h \in Part(e.first)
      BY <2>1, FunctionsInPart DEF Functions
    <3> QED BY <2>2, <3>1 DEF Part
  <2>6. HookInv' /\ CardInv'
    BY <1>1, <1>2, <1>5, <2>1, <2>2, <2>5 DEF HookInv, CardInv, Loaded
  <2> QED BY <2>3, <2>4, <2>6 DEF LoadInv
<1> QED BY <1>1, <1>2, <1>14, <1>15, <1>16, <1>17 DEF DIRead, CountMore, CountLast, Count

LEMMA FileKeeps ==
  ASSUME LoadInv, NEW f \in Files, loading # NoExec => Regular(loading), ReadFile(f)
  PROVE  LoadInv'
<1>1. /\ disturbed' = (loading # NoExec) /\ UNCHANGED <<loading, left, loads>>
      /\ DIRead(f.at, RoundUp(f.len), NoExec, FALSE)
  BY DEF ReadFile
<1>2. f.at \in Int /\ RoundUp(f.len) \in Nat
  BY DolAssumption, RoundUpIs
<1>3. disturbed' \in BOOLEAN
  BY <1>1, Zenon
<1>4. /\ loads' \in Nat /\ (loading' # NoExec => loading' \in Execs /\ left' \subseteq loading'.rest)
      /\ (loading' = NoExec => left' = {})
  BY <1>1 DEF LoadInv, LoadTypes
<1>5. CASE Ignored(f.at, RoundUp(f.len), NoExec)
  <2>1. PatchState = 0 /\ UNCHANGED <<PatchState, DOLSize, DOLReadSize, DOLMinOff, DOLMaxOff, ELFNumberOfSections>>
        /\ NoPatch(f.at, RoundUp(f.len), NoExec)
    BY <1>5 DEF Ignored, dol
  <2>2. LoadTypes'
    BY <1>3, <1>4, <2>1 DEF LoadInv, LoadTypes
  <2>3. CountInv' /\ SectionsInv' /\ RangeInv'
    BY <2>1 DEF CountInv, SectionsInv, RangeInv
  <2>4. loading # NoExec => disturbed'
    BY <1>1
  <2>5. AwaitInv' /\ HookInv'
    BY <1>1, <2>4 DEF AwaitInv, HookInv, Loaded
  <2>6. CardInv'
    <3>1. Found' = Found /\ rawCards' \subseteq rawCards
      BY <2>1, NoExecIsNone DEF NoPatch, CardsAfter
    <3>2. loads = 0 => loading = NoExec /\ Found = {} /\ rawCards = {}
      BY DEF LoadInv, CardInv
    <3> QED BY <1>1, <2>1, <2>4, <3>1, <3>2 DEF CardInv, Loaded
  <2> QED BY <2>2, <2>3, <2>5, <2>6 DEF LoadInv
<1>6. ASSUME PatchState # 0, Count(f.at, RoundUp(f.len))
      PROVE  /\ loading # NoExec /\ disturbed' /\ CountsOut(loading) /\ loads # 0
             /\ DOLSize' = DOLSize /\ DOLReadSize' = DOLReadSize + RoundUp(f.len)
             /\ DOLSize' \in Int /\ DOLReadSize' \in Int /\ ELFNumberOfSections' \in Int
             /\ DOLMinOff' \in Int /\ DOLMaxOff' \in Int
  <2>1. loading # NoExec /\ loads # 0
    BY <1>6 DEF LoadInv, LoadTypes, CardInv
  <2>2. disturbed' /\ CountsOut(loading)
    BY <1>1, <2>1 DEF Regular
  <2>3. DOLSize' = DOLSize /\ DOLReadSize' = DOLReadSize + RoundUp(f.len)
        /\ ELFNumberOfSections' \in Int /\ DOLSize' \in Int /\ DOLReadSize' \in Int
    BY <1>2, <1>6 DEF Count, LoadInv, LoadTypes
  <2>4. DOLMinOff' \in Int /\ DOLMaxOff' \in Int
    BY <1>2, <1>6, <2>2, RangeGrows
  <2> QED BY <2>1, <2>2, <2>3, <2>4
<1>7. CASE CountMore(f.at, RoundUp(f.len), NoExec)
  <2>1. PatchState # 0 /\ Count(f.at, RoundUp(f.len)) /\ ~AllRead /\ PatchState' = PatchState
    BY <1>7 DEF CountMore, Count
  <2>2. LoadTypes'
    BY <1>1, <1>3, <1>4, <1>6, <2>1 DEF LoadInv, LoadTypes
  <2>3. CountInv'
    <3>1. GotBytes' = GotBytes /\ Size(loading)' = Size(loading)
      BY <1>1 DEF GotBytes, Size
    <3>2. DOLReadSize' < DOLSize'
      BY <1>6, <2>1 DEF AllRead
    <3>3. GotBytes \in Nat
      <4>1. loading \in Execs /\ loading.rest \ left \in SUBSET loading.rest
        BY <1>6, <2>1 DEF LoadInv, LoadTypes
      <4> QED BY <4>1, SizesTyped DEF GotBytes
    <3>4. DOLReadSize >= GotBytes /\ DOLSize = Size(loading) /\ DOLReadSize \in Int
      BY <2>1 DEF LoadInv, CountInv, LoadTypes
    <3>5. DOLReadSize' >= GotBytes
      BY <1>2, <1>6, <2>1, <3>3, <3>4
    <3> QED BY <1>6, <2>1, <3>1, <3>2, <3>4, <3>5 DEF CountInv
  <2>4. SectionsInv'
    <3>1. PatchState = 2 => ELFNumberOfSections' = ELFNumberOfSections - 1 /\ ELFNumberOfSections' # 0
      BY <2>1 DEF AllRead, Count
    <3>2. ELFNumberOfSections \in Int
      BY DEF LoadInv, LoadTypes
    <3>3. (ByHeader(loading)' <=> ByHeader(loading)) /\ Cardinality(left') = Cardinality(left)
      BY <1>1 DEF ByHeader
    <3>4. Cardinality(left) \in Nat
      <4>1. loading \in Execs /\ left \in SUBSET loading.rest
        BY <1>6, <2>1 DEF LoadInv, LoadTypes
      <4>2. IsFiniteSet(left)
        BY <4>1, PartsAre, FS_Subset
      <4> QED BY <4>2, FS_CardinalityType
    <3>5. PICK n \in Nat, x \in Int : n = Cardinality(left) /\ x = ELFNumberOfSections
      BY <3>2, <3>4
    <3>6. PatchState = 2 => /\ ByHeader(loading) => 0 < x /\ x <= n
                            /\ ~ByHeader(loading) => x < 0
      BY <3>5 DEF LoadInv, SectionsInv
    <3>7. PatchState = 2 => /\ ByHeader(loading) => 0 < x - 1 /\ x - 1 <= n
                            /\ ~ByHeader(loading) => x - 1 < 0
      BY <3>1, <3>5, <3>6
    <3> QED BY <1>6, <2>1, <3>1, <3>3, <3>5, <3>7 DEF SectionsInv
  <2>5. RangeInv'
    <3>1. PartsRead' = PartsRead
      BY <1>1 DEF PartsRead
    <3>2. /\ PatchState = 1 => /\ loading.kind = "dol"
                               /\ DOLMinOff' = TextRange(loading)[1] /\ DOLMaxOff' = TextRange(loading)[2]
          /\ PatchState = 2 =>
               /\ loading.kind = "elf"
               /\ \A s \in PartsRead : DOLMinOff' <= s.at /\ s.at + RoundUp(s.len) <= DOLMaxOff'
      BY <1>2, <1>6, <2>1, RangeGrows
    <3> QED BY <1>1, <2>1, <3>1, <3>2 DEF RangeInv
  <2>6. AwaitInv' /\ HookInv' /\ CardInv'
    BY <1>1, <1>6, <2>1 DEF AwaitInv, HookInv, CardInv
  <2> QED BY <2>2, <2>3, <2>4, <2>5, <2>6 DEF LoadInv
<1>8. CASE CountLast(f.at, RoundUp(f.len), NoExec)
  <2>1. PatchState # 0 /\ Count(f.at, RoundUp(f.len)) /\ PatchState' = 0
    BY <1>8 DEF CountLast, Count
  <2>2. LoadTypes'
    BY <1>3, <1>4, <1>6, <2>1 DEF LoadTypes
  <2>3. CountInv' /\ SectionsInv' /\ RangeInv'
    BY <2>1 DEF CountInv, SectionsInv, RangeInv
  <2>4. AwaitInv' /\ HookInv' /\ CardInv'
    BY <1>1, <1>6, <2>1 DEF AwaitInv, HookInv, CardInv
  <2> QED BY <2>2, <2>3, <2>4 DEF LoadInv
<1> QED BY <1>1, <1>5, <1>7, <1>8 DEF DIRead

LEMMA RunKeeps ==
  ASSUME LoadInv, CountsOut(loading), Run
  PROVE  LoadInv'
<1>1. /\ loading # NoExec /\ left = {} /\ loading' = NoExec
      /\ UNCHANGED <<PatchState, DOLSize, DOLReadSize, DOLMinOff, DOLMaxOff, ELFNumberOfSections>>
      /\ UNCHANGED <<Found, raw, rawCards, left, disturbed, loads>>
  BY DEF Run, dol
<1>2. PatchState = 0
  BY <1>1, PartsMissing
<1>3. LoadTypes'
  BY <1>1, <1>2 DEF LoadInv, LoadTypes
<1>4. loads # 0
  BY <1>1 DEF LoadInv, CardInv
<1> QED BY <1>1, <1>2, <1>3, <1>4
        DEF LoadInv, CountInv, SectionsInv, RangeInv, AwaitInv, HookInv, CardInv, Loaded

LEMMA LoadingStutters == LoadInv /\ UNCHANGED dolvars => LoadInv'
<1> SUFFICES ASSUME LoadInv, UNCHANGED dolvars PROVE LoadInv'
  OBVIOUS
<1>1. /\ UNCHANGED <<PatchState, DOLSize, DOLReadSize, DOLMinOff, DOLMaxOff, ELFNumberOfSections>>
      /\ UNCHANGED <<Found, raw, rawCards, loading, left, disturbed, loads>>
  BY DEF dolvars, dol
<1>2. LoadTypes' /\ CountInv' /\ SectionsInv' /\ RangeInv'
  BY <1>1 DEF LoadInv, LoadTypes, CountInv, SectionsInv, RangeInv, GotBytes, PartsRead, Size, ByHeader
<1>3. AwaitInv' /\ HookInv' /\ CardInv'
  BY <1>1 DEF LoadInv, AwaitInv, HookInv, CardInv, Loaded, InRead, PartsRead
<1> QED BY <1>2, <1>3 DEF LoadInv

LEMMA LoadStep ==
  ASSUME \A e \in Execs : Regular(e), LoadInv, [DolNext]_dolvars
  PROVE  LoadInv'
<1>1. loading # NoExec => loading \in Execs
  BY DEF LoadInv, LoadTypes
<1>2. loading = NoExec => left = {}
  BY DEF LoadInv, LoadTypes
<1>3. ASSUME NEW e \in Execs, Load(e) PROVE LoadInv'
  BY <1>3, LoadKeeps
<1>4. ASSUME NEW s \in left, LoadSection(s) PROVE LoadInv'
  <2>1. Regular(loading)
    BY <1>1, <1>2
  <2> QED BY <1>4, <2>1, SectionKeeps
<1>5. ASSUME NEW f \in Files, ReadFile(f) PROVE LoadInv'
  BY <1>1, <1>5, FileKeeps
<1>6. ASSUME Run PROVE LoadInv'
  <2>1. CountsOut(loading)
    BY <1>1, <1>6 DEF Run, Regular
  <2> QED BY <1>6, <2>1, RunKeeps
<1>7. ASSUME UNCHANGED dolvars PROVE LoadInv'
  BY <1>7, LoadingStutters
<1> QED BY <1>3, <1>4, <1>5, <1>6, <1>7 DEF DolNext

(* Programs of any layout that are Regular, read in any order of their     *)
(* parts, run with their DVD functions patched, and the first of them with *)
(* its memory-card functions too, unless other files were read in between; *)
(* and the count has ended even then (dip.c:141-254, Patches.c:380-420).   *)
THEOREM ProgramsArePatched ==
  ASSUME \A e \in Execs : Regular(e)
  PROVE  DolSpec => []RunsPatched
<1>1. LoadInv => RunsPatched
  <2>1. SUFFICES ASSUME LoadInv, Loaded PROVE RunsPatched
    BY DEF RunsPatched
  <2>2. CountsOut(loading)
    BY <2>1 DEF LoadInv, LoadTypes, Loaded, Regular
  <2>3. PatchState = 0
    BY <2>1, <2>2, PartsMissing DEF Loaded
  <2> QED BY <2>1, <2>3 DEF LoadInv, HookInv, CardInv, RunsPatched
<1>2. LoadInv /\ [DolNext]_dolvars => LoadInv'
  BY LoadStep
<1> QED BY <1>1, <1>2, LoadingStarts, PTL DEF DolSpec
-----------------------------------------------------------------------------
(* Programs are sequences, and searching one does not change its length.   *)
IsProgram(m) == m \in Seq({m[a] : a \in DOMAIN m}) /\ Len(m) > 0

LEMMA ProgramIs ==
  ASSUME NEW m, IsProgram(m)
  PROVE  Len(m) \in Nat \ {0} /\ DOMAIN m = 1 .. Len(m) /\ m = [b \in DOMAIN m |-> m[b]]
<1> DEFINE S == {m[a] : a \in DOMAIN m}
<1>1. m \in Seq(S) /\ Len(m) > 0
  BY DEF IsProgram
<1> HIDE DEF S
<1>2. Len(m) \in Nat /\ DOMAIN m = 1 .. Len(m) /\ m \in [1 .. Len(m) -> S]
  BY <1>1, LenProperties
<1> QED BY <1>1, <1>2

LEMMA SameLength ==
  ASSUME NEW m, IsProgram(m), NEW f, f = [b \in DOMAIN m |-> f[b]]
  PROVE  IsProgram(f) /\ Len(f) = Len(m) /\ DOMAIN f = DOMAIN m
<1>1. Len(m) \in Nat \ {0} /\ DOMAIN m = 1 .. Len(m)
  BY ProgramIs
<1>2. DOMAIN f = 1 .. Len(m)
  BY <1>1
<1> DEFINE S == {f[a] : a \in DOMAIN f}
<1>3. f \in [1 .. Len(m) -> S]
  BY <1>1, <1>2
<1>4. f \in Seq(S)
  <2> HIDE DEF S
  <2> QED BY <1>1, <1>3, SeqDef
<1>5. Len(f) \in Nat /\ DOMAIN f = 1 .. Len(f)
  <2> HIDE DEF S
  <2> QED BY <1>4, LenProperties
<1>6. Len(f) = Len(m)
  <2>1. \A x \in Int : x \in 1 .. Len(f) <=> x \in 1 .. Len(m)
    BY <1>2, <1>5
  <2>2. Len(m) <= Len(f)
    BY <1>1, <1>5, <2>1
  <2>3. Len(f) <= Len(m)
    BY <1>1, <1>5, <2>1
  <2> QED BY <1>1, <1>5, <2>2, <2>3
<1> QED BY <1>1, <1>2, <1>4, <1>6 DEF IsProgram

ScanTypes ==
  /\ IsProgram(code) /\ IsProgram(text) /\ Len(code) = Len(text)
  /\ place \in Nat \ {0}
  /\ phase \in {"cards", "hits", "functions", "loader", "done"}
  /\ phase = "cards" => hits = {}

LEMMA ScanTypesInit == ScanInit => ScanTypes
  BY ScanAssumption DEF ScanInit, ScanTypes, IsProgram

LEMMA ScanTypesNext == ScanTypes /\ [ScanNext]_scan => ScanTypes'
<1> SUFFICES ASSUME ScanTypes, ScanNext PROVE ScanTypes'
  BY DEF ScanTypes, scan, IsProgram
<1>1. Len(code) \in Nat \ {0} /\ DOMAIN code = 1 .. Len(code) /\ IsProgram(code) /\ IsProgram(text)
      /\ Len(code) = Len(text) /\ place \in Nat \ {0}
  BY ProgramIs DEF ScanTypes
<1>2. ASSUME code' = code, IsProgram(code)
      PROVE  code' = [b \in DOMAIN code |-> code'[b]]
  BY <1>2, ProgramIs
<1>3. ASSUME code' = [b \in DOMAIN code |-> code'[b]], place' \in Nat \ {0}
             , phase' = phase, text' = text, hits' = hits \/ phase # "cards"
      PROVE  ScanTypes'
  BY <1>1, <1>3, SameLength DEF ScanTypes
<1>4. CASE DoCardPatches
  <2>1. ASSUME NEW j \in DOMAIN CPatterns, CardFound(j) PROVE ScanTypes'
    <3> DEFINE m == WithResultCode(code, j)
               n == IF CPatterns[j].kind \in {"Async", "Read"} THEN Redirected(m, place) ELSE m
    <3>1. DOMAIN m = DOMAIN code
      <4>1. CASE CPatterns[j].kind = "FreeBlocks" /\ Is(code, place - Above, "cmpwi")
        BY <4>1 DEF WithResultCode, Patch
      <4>2. CASE ~(CPatterns[j].kind = "FreeBlocks" /\ Is(code, place - Above, "cmpwi"))
        BY <4>2, Zenon DEF WithResultCode
      <4> QED BY <4>1, <4>2
    <3> HIDE DEF m
    <3>2. DOMAIN n = DOMAIN m
      BY DEF Redirected, Patch
    <3>3. code' = Patch(n, place, CPatterns[j].patch) /\ place' = place + 1 /\ UNCHANGED <<text, phase, hits>>
      BY <2>1 DEF CardFound, m
    <3> HIDE DEF n
    <3>4. code' = [b \in DOMAIN code |-> code'[b]]
      BY <3>1, <3>2, <3>3 DEF Patch
    <3> QED BY <1>1, <1>3, <3>3, <3>4
  <2>2. CASE NoCard
    BY <1>1, <1>2, <1>3, <2>2 DEF NoCard
  <2>3. CASE CardsEnd
    BY <1>1, <2>3 DEF CardsEnd, Begin, ScanTypes
  <2> QED BY <1>4, <2>1, <2>2, <2>3 DEF DoCardPatches
<1>5. CASE DoHits
  <2>1. ASSUME NEW k, NEW m, Hit(k, m), phase = "hits", m = [b \in DOMAIN code |-> m[b]]
        PROVE  ScanTypes'
    <3>1. code' = m /\ place' \in {Len(code) + 1, place + 1} /\ UNCHANGED <<text, phase>>
      BY <2>1 DEF Hit
    <3>2. place' \in Nat \ {0}
      BY <1>1, <3>1
    <3> QED BY <1>3, <2>1, <3>1, <3>2
  <2>2. DOMAIN LowRead(code, place).m = DOMAIN code
        /\ LowRead(code, place).m = [b \in DOMAIN code |-> LowRead(code, place).m[b]]
    <3> DEFINE high == Stop(code, Max({c \in 1 .. place : Is(code, c, "mflr")}), "lisCC")
               half == [code EXCEPT ![high] = Ins("lisC0")]
               low == Stop(half, high, "addi60")
               whole == [half EXCEPT ![low] = Ins("addi2F"), ![place] = Ins("lis")]
    <3>1. code = [b \in DOMAIN code |-> code[b]]
      BY <1>1, ProgramIs
    <3>2. \/ LowRead(code, place) = [m |-> code, hit |-> FALSE]
          \/ LowRead(code, place) = [m |-> half, hit |-> FALSE]
          \/ LowRead(code, place) = [m |-> whole, hit |-> TRUE]
      BY DEF LowRead
    <3>3. \/ LowRead(code, place).m = code
          \/ LowRead(code, place).m = half
          \/ LowRead(code, place).m = whole
      <4> HIDE DEF high, half, low, whole
      <4> QED BY <3>2
    <3> HIDE DEF high, low
    <3> QED BY <3>1, <3>3
  <2>3. CASE SingleHit
    <3>1. PICK k \in Single : Hit(k, [code EXCEPT ![place] = Ins("op")]) /\ phase = "hits"
      BY <2>3 DEF SingleHit, More
    <3> QED BY <2>1, <3>1
  <2>4. CASE SleepHit
    <3>1. Hit("OSSleepThread", [code EXCEPT ![Stop(code, place, "blr")] = Ins("b")]) /\ phase = "hits"
      BY <2>4 DEF SleepHit, More, Hooked
    <3> QED BY <2>1, <3>1
  <2>5. CASE LowReadHit
    BY <2>1, <2>2, <2>5 DEF LowReadHit, More
  <2>6. CASE LowReadFalse
    <3>1. code' = LowRead(code, place).m /\ place' = place + 1 /\ UNCHANGED <<text, phase, hits>>
      BY <2>6 DEF LowReadFalse
    <3> QED BY <1>1, <1>3, <2>2, <3>1
  <2>7. CASE NoHit
    BY <1>1, <1>2, <1>3, <2>7 DEF NoHit
  <2>8. CASE HitsEnd
    BY <1>1, <2>8 DEF HitsEnd, Begin, ScanTypes
  <2> QED BY <1>5, <2>3, <2>4, <2>5, <2>6, <2>7, <2>8 DEF DoHits
<1>6. CASE DoFunctions \/ DoPatchesLoader
  <2>1. UNCHANGED <<text, phase, hits>> /\ place' \in {place + 1, place + 2}
    BY <1>6 DEF DoFunctions, DoPatchesLoader, FunctionFound, PadFound, NoFunction, LoaderFound,
       NotInLoader, Onward
  <2>2. code' = [b \in DOMAIN code |-> code'[b]]
    <3>1. \/ code' = code
          \/ \E p : code' = Patch(code, place + 1, p)
          \/ code' = [code EXCEPT ![Stop(code, place + 1, "blr")] = Ins("b")]
      BY <1>6 DEF DoFunctions, DoPatchesLoader, FunctionFound, PadFound, NoFunction, LoaderFound,
         NotInLoader, Hooked
    <3> QED BY <1>1, <1>2, <3>1 DEF Patch
  <2>3. place' \in Nat \ {0}
    BY <1>1, <2>1
  <2> QED BY <1>3, <2>1, <2>2, <2>3
<1>7. CASE ScanEnd
  BY <1>1, <1>7 DEF ScanEnd, ScanTypes
<1> QED BY <1>4, <1>5, <1>6, <1>7 DEF ScanNext
-----------------------------------------------------------------------------
(* Single instructions.  FunctionOf(m, a) is what lies around a without a  *)
(* blr in between.                                                         *)
FunctionOf(m, a) == {b \in DOMAIN m : \A c \in (a .. b) \cup (b .. a) : ~Is(m, c, "blr")}

(* What the search for single instructions takes for granted of a program: *)
(* a function that sends a command to the drive, or the one that sleeps,   *)
(* ends with a blr; the first has one mflr up to the command; and they are *)
(* not the same function.                                                  *)
Searchable(m) ==
  \A a \in DOMAIN m :
    /\ m[a].k \in {"lisA8", "OSSleepThread"} => \E e \in a .. Len(m) : Is(m, e, "blr")
    /\ m[a].k = "lisA8" =>
         \E s \in FunctionOf(m, a) :
           s <= a /\ \A b \in FunctionOf(m, a) : b <= a => (Is(m, b, "mflr") <=> b = s)
    /\ m[a].k = "OSSleepThread" => \A b \in FunctionOf(m, a) : b > a => m[b].k # "lisA8"

(* What HitsRight takes for DVDLowRead.                                    *)
LoadsDrive(m, a) ==
  \E s, c, d \in FunctionOf(m, a) :
    /\ s < a /\ s < c /\ c < d
    /\ Is(m, s, "mflr") /\ Is(m, c, "lisCC") /\ Is(m, d, "addi60")

(* b is where an OSSleepThread that was passed ends.                       *)
Slept(b) ==
  \E s \in 1 .. b :
    s < place /\ Is(text, s, "OSSleepThread") /\ \A c \in s .. b - 1 : ~Is(text, c, "blr")

(* Why word b may have changed: a hit, or half the drive's address where   *)
(* the other half is missing.                                              *)
HitChange(b) ==
  \/ text[b].k \in Single /\ code[b] = Ins("op")
  \/ text[b].k = "blr" /\ code[b] = Ins("b") /\ "OSSleepThread" \in hits /\ Slept(b)
  \/ /\ text[b].k = "lisCC" /\ code[b] = Ins("lisC0")
     /\ "DVDLowRead" \notin hits => \A d \in FunctionOf(text, b) : d > b => ~Is(text, d, "addi60")
  \/ "DVDLowRead" \in hits /\ text[b].k = "addi60" /\ code[b] = Ins("addi2F")
  \/ "DVDLowRead" \in hits /\ text[b].k = "lisA8" /\ code[b] = Ins("lis")

(* Of a kind the first was patched, or none was passed.                    *)
SingleInv(k) ==
  IF k \in hits
  THEN \E b \in DOMAIN text :
         /\ Is(text, b, k) /\ code[b] # text[b]
         /\ \A c \in DOMAIN text : Is(text, c, k) => b <= c /\ (c # b => code[c] = text[c])
  ELSE \A b \in DOMAIN text : Is(text, b, k) => b >= place /\ code[b] = text[b]

LowReadInv ==
  IF "DVDLowRead" \in hits
  THEN \E a \in DOMAIN text :
         /\ Is(text, a, "lisA8") /\ LoadsDrive(text, a) /\ code[a] # text[a]
         /\ \A c \in DOMAIN text :
              Is(text, c, "lisA8") => (LoadsDrive(text, c) => a <= c) /\ (c # a => code[c] = text[c])
         /\ \A d \in DOMAIN text : Is(text, d, "addi60") /\ code[d] # text[d] => d \in FunctionOf(text, a)
  ELSE \A a \in DOMAIN text : Is(text, a, "lisA8") /\ a < place => ~LoadsDrive(text, a)

HitsInv ==
  /\ hits \subseteq Wanted /\ (hits = Wanted => place > Len(text))
  /\ \A b \in DOMAIN text : code[b] # text[b] => HitChange(b)
  /\ \A k \in Single : SingleInv(k)
  /\ LowReadInv

LEMMA StopIs ==
  ASSUME NEW m, Len(m) \in Nat, DOMAIN m = 1 .. Len(m), NEW b \in Nat \ {0}, NEW k,
         NEW e \in b .. Len(m), m[e].k \in {"blr", k}
  PROVE  /\ Stop(m, b, k) \in b .. e /\ m[Stop(m, b, k)].k \in {"blr", k}
         /\ \A c \in b .. Stop(m, b, k) - 1 : m[c].k \notin {"blr", k}
<1> DEFINE S == {c \in b .. Len(m) : m[c].k \in {"blr", k}}
<1>1. S \subseteq Nat /\ e \in S
  OBVIOUS
<1>2. \A c \in b .. Len(m) : m[c].k \in {"blr", k} => c \in S
  OBVIOUS
<1>3. \A c \in S : c \in b .. Len(m) /\ m[c].k \in {"blr", k}
  OBVIOUS
<1>4. Stop(m, b, k) = Min(S)
  BY DEF Stop
<1> HIDE DEF S
<1>5. Min(S) \in S /\ \A c \in S : Min(S) <= c
  BY <1>1, MinOfNat
<1>6. Min(S) \in b .. e
  <2>1. Min(S) \in b .. Len(m) /\ Min(S) <= e
    BY <1>1, <1>3, <1>5
  <2> QED BY <2>1
<1>7. ASSUME NEW c \in b .. Min(S) - 1 PROVE m[c].k \notin {"blr", k}
  BY <1>2, <1>5, <1>6
<1> QED BY <1>3, <1>4, <1>5, <1>6, <1>7

LEMMA LastIs ==
  ASSUME NEW m, NEW a \in Nat, NEW s \in 1 .. a, NEW k, Is(m, s, k),
         \A c \in s + 1 .. a : ~Is(m, c, k)
  PROVE  Max({c \in 1 .. a : Is(m, c, k)}) = s
<1> DEFINE S == {c \in 1 .. a : Is(m, c, k)}
<1>1. S \subseteq Nat /\ s \in S /\ \A y \in S : y <= a
  OBVIOUS
<1>2. \A c \in S : c <= s
  OBVIOUS
<1> HIDE DEF S
<1>3. Max(S) \in S /\ \A c \in S : Max(S) >= c
  BY <1>1, MaxOfNat
<1>4. Max(S) = s
  <2>1. Max(S) \in Nat /\ s \in Nat /\ Max(S) <= s /\ Max(S) >= s
    BY <1>1, <1>2, <1>3
  <2> QED BY <2>1
<1> QED BY <1>4 DEF S

(* What the words of the program were.                                     *)
LEMMA WordsWere ==
  ASSUME HitsInv, NEW b \in DOMAIN text
  PROVE  /\ code[b].k \notin {"op", "b", "lisC0", "addi2F", "lis"} => code[b] = text[b]
         /\ text[b].k \notin Single \cup {"blr", "lisCC", "addi60", "lisA8"} => code[b] = text[b]
         /\ "DVDLowRead" \notin hits /\ text[b].k \in {"addi60", "lisA8"} => code[b] = text[b]
         /\ "OSSleepThread" \notin hits /\ text[b].k = "blr" => code[b] = text[b]
<1>1. CASE code[b] = text[b]
  BY <1>1
<1>2. CASE code[b] # text[b]
  <2>1. HitChange(b)
    BY <1>2 DEF HitsInv
  <2> QED BY <1>2, <2>1 DEF HitChange, Ins, Single
<1> QED BY <1>1, <1>2

(* LowRead recognises the function by what is left of it.                  *)
LEMMA LowReadIs ==
  ASSUME ScanTypes, HitsInv, Searchable(text), place \in 1 .. Len(text),
         "DVDLowRead" \notin hits, Is(text, place, "lisA8")
  PROVE  LET lr == LowRead(code, place)
         IN \/ /\ ~LoadsDrive(text, place) /\ ~lr.hit
               /\ \/ lr.m = code
                  \/ \E h \in DOMAIN text :
                       /\ code[h].k = "lisCC" /\ lr.m = [code EXCEPT ![h] = Ins("lisC0")]
                       /\ \A d \in FunctionOf(text, h) : d > h => ~Is(text, d, "addi60")
            \/ /\ LoadsDrive(text, place) /\ lr.hit
               /\ \E h \in DOMAIN text, l \in FunctionOf(text, place) :
                    /\ code[h].k = "lisCC" /\ code[l].k = "addi60"
                    /\ lr.m = [code EXCEPT ![h] = Ins("lisC0"), ![l] = Ins("addi2F"), ![place] = Ins("lis")]
<1> DEFINE lr == LowRead(code, place)
           N == Len(text)
           blrs == {c \in place .. N : Is(text, c, "blr")}
           F == FunctionOf(text, place)
<1>1. /\ N \in Nat \ {0} /\ DOMAIN text = 1 .. N /\ DOMAIN code = 1 .. N /\ Len(code) = N
      /\ place \in 1 .. N
  BY ProgramIs DEF ScanTypes
<1> HIDE DEF N
<1>2. \A m, c, k : c \in DOMAIN m => (Is(m, c, k) <=> m[c].k = k)
  BY DEF Is, At
<1>3. PICK e \in blrs : \A c \in blrs : e <= c
  <2>1. text[place].k = "lisA8"
    BY <1>1, <1>2
  <2>2. blrs # {}
    BY <1>1, <2>1 DEF Searchable, N
  <2>3. blrs \subseteq Nat
    BY <1>1
  <2> HIDE DEF blrs
  <2> QED BY <2>2, <2>3, LeastNat
<1>4. /\ e \in Nat /\ e > place /\ e <= N /\ text[e].k = "blr"
      /\ \A c \in place .. e - 1 : ~Is(text, c, "blr")
  <2>1. e \in place .. N /\ Is(text, e, "blr") /\ text[place].k = "lisA8"
    BY <1>1, <1>2
  <2>2. text[e].k = "blr" /\ e # place
    BY <1>1, <1>2, <2>1
  <2>3. ASSUME NEW c \in place .. e - 1 PROVE ~Is(text, c, "blr")
    <3>1. c \in place .. N /\ c < e
      BY <1>1, <2>1
    <3>2. c \notin blrs
      <4> HIDE DEF blrs
      <4> QED BY <1>3, <1>1, <2>1, <3>1
    <3> QED BY <3>1, <3>2
  <2> QED BY <1>1, <2>1, <2>2, <2>3
<1> HIDE DEF blrs
<1>5. PICK s \in F : s <= place /\ \A b \in F : b <= place => (Is(text, b, "mflr") <=> b = s)
  BY <1>1, <1>2 DEF Searchable
<1>6. /\ s \in 1 .. place /\ text[s].k = "mflr"
      /\ \A c \in s .. e - 1 : c \in 1 .. N /\ ~Is(text, c, "blr")
  <2>1. s \in 1 .. N /\ \A c \in s .. place : ~Is(text, c, "blr")
    BY <1>1, <1>5 DEF FunctionOf
  <2>2. Is(text, s, "mflr")
    BY <1>5
  <2> QED BY <1>1, <1>2, <1>4, <1>5, <2>1, <2>2
<1>7. \A x, y \in s .. e - 1 : y \in FunctionOf(text, x)
  BY <1>1, <1>4, <1>6 DEF FunctionOf
<1>8. \A x \in s .. e - 1 : \A y \in FunctionOf(text, x) : y < e /\ y \in 1 .. N
  <2> SUFFICES ASSUME NEW x \in s .. e - 1, NEW y \in FunctionOf(text, x), ~(y < e)
               PROVE  FALSE
    BY <1>1 DEF FunctionOf
  <2>1. y \in 1 .. N /\ e \in x .. y
    BY <1>1, <1>4, <1>6 DEF FunctionOf
  <2>2. ~Is(text, e, "blr")
    BY <2>1 DEF FunctionOf
  <2> QED BY <1>1, <1>2, <1>4, <2>2
<1>9. Max({c \in 1 .. place : Is(code, c, "mflr")}) = s
  <2>1. code[s] = text[s]
    BY <1>1, <1>6, WordsWere DEF Single
  <2>2. ASSUME NEW c \in s + 1 .. place PROVE ~Is(code, c, "mflr")
    <3>1. c \in s .. e - 1 /\ c \in 1 .. N /\ place \in s .. e - 1 /\ c <= place /\ c # s
      BY <1>1, <1>4, <1>6
    <3>2. ~Is(text, c, "mflr")
      BY <1>5, <1>7, <3>1
    <3>3. text[c].k # "mflr"
      BY <1>1, <1>2, <3>1, <3>2
    <3>4. code[c].k # "mflr"
      BY <1>1, <3>1, <3>3, WordsWere
    <3> QED BY <1>1, <1>2, <3>1, <3>4
  <2>3. Is(code, s, "mflr")
    BY <1>1, <1>2, <1>6, <2>1
  <2> QED BY <1>1, <1>6, <2>2, <2>3, LastIs
<1>10. code[e].k = "blr"
  <2> SUFFICES ASSUME code[e] # text[e] PROVE FALSE
    BY <1>4
  <2>1. HitChange(e)
    BY <1>1, <1>4 DEF HitsInv
  <2>2. Slept(e)
    BY <1>4, <2>1 DEF HitChange, Single
  <2>3. PICK z \in 1 .. e : /\ z < place /\ Is(text, z, "OSSleepThread")
                            /\ \A c \in z .. e - 1 : ~Is(text, c, "blr")
    BY <2>2 DEF Slept
  <2>4. place \in FunctionOf(text, z) /\ z \in 1 .. N
    BY <1>1, <1>4, <2>3 DEF FunctionOf
  <2>5. text[z].k = "OSSleepThread" /\ text[place].k = "lisA8"
    BY <1>1, <1>2, <2>3, <2>4
  <2> QED BY <1>1, <2>3, <2>4, <2>5 DEF Searchable
<1>11. \A c \in s .. e - 1 : code[c].k # "blr"
  <2> SUFFICES ASSUME NEW c \in s .. e - 1, code[c].k = "blr" PROVE FALSE
    OBVIOUS
  <2>1. c \in 1 .. N /\ ~Is(text, c, "blr")
    BY <1>6
  <2>2. code[c] = text[c]
    BY <1>1, <2>1, WordsWere
  <2> QED BY <1>1, <1>2, <2>1, <2>2
<1>12. \A c \in s .. e - 1 : text[c].k = "addi60" <=> code[c].k = "addi60"
  BY <1>1, <1>6, WordsWere
<1>13. ASSUME NEW c \in F, NEW d \in F, c < d, s < c, Is(text, c, "lisCC"), Is(text, d, "addi60")
       PROVE  code[c].k = "lisCC" /\ c \in s .. e - 1 /\ d \in s .. e - 1
  <2>1. c \in 1 .. N /\ d \in 1 .. N /\ c \in s .. e - 1 /\ d \in s .. e - 1
    BY <1>1, <1>4, <1>6, <1>8, <1>13
  <2>2. text[c].k = "lisCC" /\ d \in FunctionOf(text, c)
    BY <1>1, <1>2, <1>7, <1>13, <2>1
  <2>3. CASE code[c] # text[c]
    <3>1. HitChange(c)
      BY <1>1, <2>1, <2>3 DEF HitsInv
    <3> QED BY <1>13, <2>2, <3>1 DEF HitChange, Single
  <2> QED BY <2>1, <2>2, <2>3
<1>14. ASSUME LoadsDrive(text, place)
       PROVE  \E c, d \in s .. e - 1 :
                s < c /\ c < d /\ code[c].k = "lisCC" /\ code[d].k = "addi60"
  <2>1. PICK x, c, d \in F : /\ x < place /\ x < c /\ c < d /\ Is(text, x, "mflr")
                             /\ Is(text, c, "lisCC") /\ Is(text, d, "addi60")
    BY <1>14 DEF LoadsDrive
  <2>2. x = s
    BY <1>1, <1>5, <2>1 DEF FunctionOf
  <2>3. code[c].k = "lisCC" /\ c \in s .. e - 1 /\ d \in s .. e - 1
    BY <1>13, <2>1, <2>2
  <2>4. text[d].k = "addi60"
    BY <1>1, <1>2, <1>6, <2>1, <2>3
  <2> QED BY <1>12, <2>1, <2>2, <2>3, <2>4
<1> DEFINE high == Stop(code, s, "lisCC")
           half == [code EXCEPT ![high] = Ins("lisC0")]
           low  == Stop(half, high, "addi60")
           third == [half EXCEPT ![low] = Ins("addi2F"), ![place] = Ins("lis")]
<1>15. lr = IF Is(code, high, "blr") THEN [m |-> code, hit |-> FALSE]
            ELSE IF Is(half, low, "blr") THEN [m |-> half, hit |-> FALSE]
            ELSE [m |-> third, hit |-> TRUE]
  BY <1>9 DEF LowRead
<1>16. /\ high \in s .. e /\ code[high].k \in {"blr", "lisCC"}
       /\ \A c \in s .. high - 1 : code[c].k \notin {"blr", "lisCC"}
  <2>1. e \in s .. Len(code) /\ s \in Nat \ {0}
    BY <1>1, <1>4, <1>6
  <2> QED BY <1>1, <1>10, <2>1, StopIs
<1> HIDE DEF high, lr
<1>17. CASE high = e
  <2>1. lr = [m |-> code, hit |-> FALSE]
    <3>1. Is(code, high, "blr")
      BY <1>1, <1>2, <1>4, <1>10, <1>17
    <3> QED BY <1>15, <3>1
  <2>2. ~LoadsDrive(text, place)
    BY <1>14, <1>16, <1>17
  <2> QED BY <2>1, <2>2 DEF lr
<1>18. CASE high # e
  <2>1. high \in s .. e - 1 /\ high \in 1 .. N /\ code[high].k = "lisCC"
    BY <1>1, <1>4, <1>6, <1>11, <1>16, <1>18
  <2>2. DOMAIN half = 1 .. N /\ Len(half) = N /\ half[e] = code[e] /\ half[high] = Ins("lisC0")
    <3>1. half = [b \in DOMAIN code |-> half[b]]
      OBVIOUS
    <3>2. DOMAIN half = 1 .. N /\ half[e] = code[e] /\ half[high] = Ins("lisC0")
      BY <1>1, <1>4, <2>1, <1>18
    <3>3. IsProgram(code)
      BY DEF ScanTypes
    <3> HIDE DEF half
    <3> QED BY <1>1, <3>1, <3>2, <3>3, SameLength
  <2>3. \A c \in 1 .. N : c # high => half[c] = code[c]
    BY <1>1
  <2>4. ~Is(code, high, "blr")
    BY <1>1, <1>2, <2>1
  <2>5. lr = IF Is(half, low, "blr") THEN [m |-> half, hit |-> FALSE] ELSE [m |-> third, hit |-> TRUE]
    BY <1>15, <2>4
  <2> HIDE DEF half
  <2>6. /\ low \in high .. e /\ half[low].k \in {"blr", "addi60"}
        /\ \A c \in high .. low - 1 : half[c].k \notin {"blr", "addi60"}
    <3>1. e \in high .. Len(half) /\ high \in Nat \ {0} /\ half[e].k \in {"blr", "addi60"}
      BY <1>1, <1>4, <1>10, <2>1, <2>2
    <3> QED BY <2>2, <3>1, StopIs
  <2> HIDE DEF low
  <2>7. CASE low = e
    <3>1. lr = [m |-> half, hit |-> FALSE]
      <4>1. Is(half, low, "blr")
        BY <1>2, <1>1, <1>4, <1>10, <2>2, <2>7
      <4> QED BY <2>5, <4>1
    <3>2. \A d \in s .. e - 1 : d > high => code[d].k # "addi60"
      BY <1>4, <1>6, <2>1, <2>3, <2>6, <2>7
    <3>3. ~LoadsDrive(text, place)
      <4> SUFFICES ASSUME NEW c \in s .. e - 1, NEW d \in s .. e - 1, s < c, c < d,
                          code[c].k = "lisCC", code[d].k = "addi60"
                   PROVE  FALSE
        BY <1>14
      <4>1. c >= high
        BY <1>1, <1>4, <1>6, <1>16, <2>1
      <4> QED BY <1>4, <1>6, <2>1, <3>2, <4>1
    <3>4. \A d \in FunctionOf(text, high) : d > high => ~Is(text, d, "addi60")
      <4> SUFFICES ASSUME NEW d \in FunctionOf(text, high), d > high, Is(text, d, "addi60")
                   PROVE  FALSE
        OBVIOUS
      <4>1. d \in s .. e - 1 /\ d \in 1 .. N
        BY <1>1, <1>4, <1>6, <1>8, <2>1
      <4> QED BY <1>1, <1>2, <1>12, <3>2, <4>1
    <3>5. ~lr.hit /\ lr.m = half
      <4> HIDE DEF half, lr
      <4> QED BY <3>1, Zenon
    <3>6. lr.m = [code EXCEPT ![high] = Ins("lisC0")]
      BY <3>5 DEF half
    <3> QED BY <1>1, <2>1, <3>3, <3>4, <3>5, <3>6 DEF lr
  <2>8. CASE low # e
    <3>1. low \in s .. e - 1 /\ low \in 1 .. N
      BY <1>1, <1>4, <1>6, <2>1, <2>6, <2>8
    <3>2. low # high /\ half[low] = code[low] /\ code[low].k = "addi60"
      <4>1. low # high
        BY <2>2, <2>6 DEF Ins
      <4>2. half[low] = code[low]
        BY <2>3, <3>1, <4>1
      <4> QED BY <1>11, <2>6, <3>1, <4>1, <4>2
    <3>3. lr = [m |-> third, hit |-> TRUE]
      <4>1. ~Is(half, low, "blr")
        BY <1>2, <2>2, <3>1, <3>2
      <4> HIDE DEF third
      <4> QED BY <2>5, <4>1
    <3>4. place \in s .. e - 1 /\ text[place].k = "lisA8"
      BY <1>1, <1>2, <1>4, <1>6
    <3>5. text[high].k = "lisCC" /\ text[low].k = "addi60" /\ low \in F /\ high \in F /\ s \in F
      BY <1>1, <1>7, <1>12, <2>1, <3>1, <3>2, <3>4, <1>6, WordsWere
    <3>6. LoadsDrive(text, place)
      <4>1. s < place /\ s < high /\ high < low
        BY <1>1, <1>4, <1>6, <2>1, <2>6, <3>1, <3>2, <3>4, <3>5
      <4>2. Is(text, s, "mflr") /\ Is(text, high, "lisCC") /\ Is(text, low, "addi60")
        BY <1>1, <1>2, <1>6, <2>1, <3>1, <3>5
      <4> QED BY <3>5, <4>1, <4>2 DEF LoadsDrive
    <3>7. lr.hit /\ lr.m = [code EXCEPT ![high] = Ins("lisC0"), ![low] = Ins("addi2F"), ![place] = Ins("lis")]
      <4>1. lr.hit /\ lr.m = third
        <5> HIDE DEF third, half, lr
        <5> QED BY <3>3, Zenon
      <4> QED BY <4>1 DEF half
    <3> QED BY <1>1, <2>1, <3>2, <3>5, <3>6, <3>7 DEF lr
  <2> QED BY <2>7, <2>8
<1> QED BY <1>17, <1>18

(* What a step keeps.                                                      *)
LEMMA ChangeKept ==
  ASSUME NEW b, HitChange(b), code'[b] = code[b], hits \subseteq hits', text' = text,
         place \in Nat, place' \in Nat, place < place', b \in Nat
  PROVE  HitChange(b)'
<1>1. Slept(b) => Slept(b)'
  BY DEF Slept
<1> QED BY <1>1 DEF HitChange, Single

LEMMA SingleKept ==
  ASSUME NEW k, SingleInv(k), text' = text, DOMAIN text \subseteq Nat,
         \A c \in DOMAIN text : Is(text, c, k) => code'[c] = code[c],
         k \in hits' <=> k \in hits, place \in Nat,
         k \notin hits => place' = place + 1 /\ ~Is(text, place, k)
  PROVE  SingleInv(k)'
<1>1. CASE k \in hits
  BY <1>1 DEF SingleInv
<1>2. CASE k \notin hits
  <2>1. ASSUME NEW b \in DOMAIN text, Is(text, b, k) PROVE b >= place' /\ code'[b] = text[b]
    BY <1>2, <2>1 DEF SingleInv
  <2> QED BY <1>2, <2>1 DEF SingleInv
<1> QED BY <1>1, <1>2

LEMMA LowReadKept ==
  ASSUME LowReadInv, text' = text, DOMAIN text \subseteq Nat,
         \A c \in DOMAIN text : Is(text, c, "lisA8") \/ Is(text, c, "addi60") => code'[c] = code[c],
         "DVDLowRead" \in hits' <=> "DVDLowRead" \in hits, place \in Nat,
         "DVDLowRead" \notin hits => place' = place + 1 /\ (Is(text, place, "lisA8") => ~LoadsDrive(text, place))
  PROVE  LowReadInv'
<1>1. CASE "DVDLowRead" \in hits
  BY <1>1 DEF LowReadInv
<1>2. CASE "DVDLowRead" \notin hits
  <2>1. ASSUME NEW a \in DOMAIN text, Is(text, a, "lisA8"), a < place' PROVE ~LoadsDrive(text, a)
    BY <1>2, <2>1 DEF LowReadInv
  <2> QED BY <1>2, <2>1 DEF LowReadInv
<1> QED BY <1>1, <1>2

LEMMA HitsBegin ==
  ASSUME ScanTypes, place = 1, hits = {}, code = text
  PROVE  HitsInv
<1>1. DOMAIN text = 1 .. Len(text)
  BY ProgramIs DEF ScanTypes
<1>2. hits # Wanted /\ hits \subseteq Wanted
  BY DEF Wanted
<1>3. \A k \in Single : SingleInv(k)
  BY <1>1 DEF SingleInv
<1>4. LowReadInv
  BY <1>1 DEF LowReadInv
<1> QED BY <1>2, <1>3, <1>4 DEF HitsInv

LEMMA HitsKeep ==
  ASSUME ScanTypes, HitsInv, Searchable(text), phase = "hits", phase' = "hits", DoHits
  PROVE  HitsInv'
<1> DEFINE N == Len(text)
<1>1. /\ N \in Nat \ {0} /\ DOMAIN text = 1 .. N /\ DOMAIN code = 1 .. N /\ Len(code) = N
      /\ place \in Nat \ {0} /\ IsProgram(code)
  BY ProgramIs DEF ScanTypes
<1>2. place <= N /\ text' = text /\ cheats' = cheats /\ place \in 1 .. N
  BY <1>1 DEF DoHits, SingleHit, SleepHit, LowReadHit, LowReadFalse, NoHit, HitsEnd, Begin, Hit, More
<1> HIDE DEF N
<1>3. \A m, c, k : c \in DOMAIN m => (Is(m, c, k) <=> m[c].k = k)
  BY DEF Is, At
<1>4. hits # Wanted /\ hits \subseteq Wanted /\ Wanted' = Wanted
  BY <1>1, <1>2 DEF HitsInv, Wanted, N
<1>5. ASSUME NEW h \in Wanted, h \notin hits, hits' = hits \cup {h},
             place' = IF hits' = Wanted THEN Len(code) + 1 ELSE place + 1
      PROVE  /\ hits' \subseteq Wanted' /\ (hits' = Wanted' => place' > Len(text'))
             /\ place' \in Nat /\ place < place'
             /\ \A k \in Single \cup {"DVDLowRead"} : k \notin hits' => place' = place + 1
  BY <1>1, <1>2, <1>4, <1>5 DEF Wanted, N
<1>6. CASE SingleHit
  <2>1. PICK k \in Single \cap Hits(place) :
          Is(code, place, k) /\ Hit(k, [code EXCEPT ![place] = Ins("op")])
    BY <1>6 DEF SingleHit
  <2>2. /\ k \in Single /\ k \in Wanted /\ k \notin hits /\ code[place].k = k
        /\ code' = [code EXCEPT ![place] = Ins("op")] /\ hits' = hits \cup {k}
        /\ place' = IF hits' = Wanted THEN Len(code) + 1 ELSE place + 1
    BY <1>1, <1>2, <1>3, <2>1 DEF Hits, Hit
  <2>3. text[place] = code[place] /\ text[place].k = k
    BY <1>1, <1>2, <2>2, WordsWere DEF Single
  <2>4. \A c \in DOMAIN text : c # place => code'[c] = code[c]
    BY <1>1, <2>2
  <2>5. code'[place] = Ins("op") /\ code'[place] # text[place]
    BY <1>1, <1>2, <2>2, <2>3 DEF Ins, Single
  <2>6. ASSUME NEW b \in DOMAIN text, code'[b] # text[b] PROVE HitChange(b)'
    <3>1. CASE b = place
      BY <1>2, <2>2, <2>3, <2>5, <3>1 DEF HitChange, Single
    <3>2. CASE b # place
      BY <1>1, <1>2, <1>5, <2>2, <2>4, <2>6, <3>2, ChangeKept DEF HitsInv
    <3> QED BY <3>1, <3>2
  <2>7. ASSUME NEW i \in Single PROVE SingleInv(i)'
    <3>1. CASE i = k
      <4>1. \A c \in DOMAIN text : Is(text, c, k) => c >= place /\ code[c] = text[c]
        BY <2>2 DEF HitsInv, SingleInv
      <4>2. \A c \in DOMAIN text : Is(text, c, k) => place <= c /\ (c # place => code'[c] = text[c])
        BY <1>1, <1>2, <2>4, <4>1
      <4>3. place \in DOMAIN text /\ Is(text, place, k) /\ i \in hits'
        BY <1>1, <1>2, <1>3, <2>2, <2>3, <3>1
      <4> QED BY <1>2, <2>5, <3>1, <4>2, <4>3 DEF SingleInv
    <3>2. CASE i # k
      <4>1. ~Is(text, place, i) /\ \A c \in DOMAIN text : Is(text, c, i) => code'[c] = code[c]
        BY <1>1, <1>2, <1>3, <2>3, <2>4, <3>2
      <4> QED BY <1>1, <1>2, <1>5, <2>2, <3>2, <4>1, SingleKept DEF HitsInv
    <3> QED BY <3>1, <3>2
  <2>8. LowReadInv'
    <3>1. ~Is(text, place, "lisA8") /\ ~Is(text, place, "addi60")
      BY <1>1, <1>2, <1>3, <2>2, <2>3 DEF Single
    <3>2. "DVDLowRead" \in hits' <=> "DVDLowRead" \in hits
      BY <2>2 DEF Single
    <3> QED BY <1>1, <1>2, <1>5, <2>2, <2>4, <3>1, <3>2, LowReadKept DEF HitsInv
  <2> QED BY <1>2, <1>5, <2>2, <2>6, <2>7, <2>8 DEF HitsInv
<1>7. CASE SleepHit
  <2> DEFINE x == Stop(code, place, "blr")
  <2>1. /\ "OSSleepThread" \in Wanted /\ "OSSleepThread" \notin hits /\ code[place].k = "OSSleepThread"
        /\ code' = [code EXCEPT ![x] = Ins("b")] /\ hits' = hits \cup {"OSSleepThread"}
        /\ place' = IF hits' = Wanted THEN Len(code) + 1 ELSE place + 1
    BY <1>1, <1>2, <1>3, <1>7 DEF SleepHit, Hits, Hit, Hooked
  <2>2. text[place] = code[place] /\ text[place].k = "OSSleepThread"
    BY <1>1, <1>2, <2>1, WordsWere
  <2>3. \A c \in DOMAIN text : code[c].k = "blr" <=> text[c].k = "blr"
    BY <2>1, WordsWere
  <2>4. PICK e \in place .. N : text[e].k = "blr"
    BY <1>1, <1>2, <1>3, <2>2 DEF Searchable, N
  <2>5. /\ x \in place .. e /\ code[x].k = "blr" /\ \A c \in place .. x - 1 : code[c].k # "blr"
    <3>1. e \in place .. Len(code) /\ code[e].k \in {"blr", "blr"}
      BY <1>1, <1>2, <2>3, <2>4
    <3> QED BY <1>1, <3>1, StopIs
  <2> HIDE DEF x
  <2>6. x \in DOMAIN text /\ text[x].k = "blr" /\ \A c \in place .. x - 1 : ~Is(text, c, "blr")
    BY <1>1, <1>2, <1>3, <2>3, <2>5
  <2>7. \A c \in DOMAIN text : c # x => code'[c] = code[c]
    BY <1>1, <2>1
  <2>8. ASSUME NEW b \in DOMAIN text, code'[b] # text[b] PROVE HitChange(b)'
    <3>1. CASE b = x
      <4>1. Slept(b)'
        <5>1. place \in 1 .. b /\ place < place' /\ Is(text, place, "OSSleepThread")
          BY <1>1, <1>2, <1>3, <1>5, <2>1, <2>2, <2>5, <3>1
        <5> QED BY <1>2, <2>6, <3>1, <5>1 DEF Slept
      <4>2. code'[b] = Ins("b")
        BY <1>1, <2>1, <2>6, <3>1
      <4> QED BY <1>2, <2>1, <2>6, <3>1, <4>1, <4>2 DEF HitChange
    <3>2. CASE b # x
      BY <1>1, <1>2, <1>5, <2>1, <2>7, <2>8, <3>2, ChangeKept DEF HitsInv
    <3> QED BY <3>1, <3>2
  <2>9. ASSUME NEW i \in Single PROVE SingleInv(i)'
    <3>1. ~Is(text, place, i) /\ i # "OSSleepThread" /\ i # "blr"
      BY <1>1, <1>2, <1>3, <2>2 DEF Single
    <3>2. \A c \in DOMAIN text : Is(text, c, i) => code'[c] = code[c]
      BY <1>3, <2>6, <2>7, <3>1
    <3> QED BY <1>1, <1>2, <1>5, <2>1, <3>1, <3>2, SingleKept DEF HitsInv
  <2>10. LowReadInv'
    <3>1. ~Is(text, place, "lisA8") /\ ~Is(text, x, "lisA8") /\ ~Is(text, x, "addi60")
      BY <1>1, <1>2, <1>3, <2>2, <2>6
    <3> QED BY <1>1, <1>2, <1>5, <2>1, <2>7, <3>1, LowReadKept DEF HitsInv
  <2> QED BY <1>2, <1>5, <2>1, <2>8, <2>9, <2>10 DEF HitsInv
<1>8. CASE LowReadHit
  <2>1. /\ "DVDLowRead" \in Wanted /\ "DVDLowRead" \notin hits /\ code[place].k = "lisA8"
        /\ LowRead(code, place).hit /\ code' = LowRead(code, place).m
        /\ hits' = hits \cup {"DVDLowRead"}
        /\ place' = IF hits' = Wanted THEN Len(code) + 1 ELSE place + 1
    BY <1>1, <1>2, <1>3, <1>8 DEF LowReadHit, Hits, Hit
  <2>2. text[place] = code[place] /\ text[place].k = "lisA8" /\ Is(text, place, "lisA8")
    BY <1>1, <1>2, <1>3, <2>1, WordsWere
  <2>3. /\ LoadsDrive(text, place)
        /\ \E h \in DOMAIN text, l \in FunctionOf(text, place) :
             /\ code[h].k = "lisCC" /\ code[l].k = "addi60"
             /\ code' = [code EXCEPT ![h] = Ins("lisC0"), ![l] = Ins("addi2F"), ![place] = Ins("lis")]
    BY <1>2, <2>1, <2>2, LowReadIs DEF N
  <2>4. PICK h \in DOMAIN text, l \in FunctionOf(text, place) :
             /\ code[h].k = "lisCC" /\ code[l].k = "addi60"
             /\ code' = [code EXCEPT ![h] = Ins("lisC0"), ![l] = Ins("addi2F"), ![place] = Ins("lis")]
    BY <2>3
  <2>5. l \in DOMAIN text /\ text[h].k = "lisCC" /\ text[l].k = "addi60"
    BY <2>4, WordsWere DEF FunctionOf
  <2>6. /\ code'[h] = Ins("lisC0") /\ code'[l] = Ins("addi2F") /\ code'[place] = Ins("lis")
        /\ \A c \in DOMAIN text : c \notin {h, l, place} => code'[c] = code[c]
    BY <1>1, <1>2, <2>2, <2>4, <2>5
  <2>7. ASSUME NEW b \in DOMAIN text, code'[b] # text[b] PROVE HitChange(b)'
    <3>1. CASE b \in {h, l, place}
      BY <1>2, <2>1, <2>2, <2>5, <2>6, <3>1 DEF HitChange
    <3>2. CASE b \notin {h, l, place}
      BY <1>1, <1>2, <1>5, <2>1, <2>6, <2>7, <3>2, ChangeKept DEF HitsInv
    <3> QED BY <3>1, <3>2
  <2>8. ASSUME NEW i \in Single PROVE SingleInv(i)'
    <3>1. /\ ~Is(text, place, i) /\ i # "DVDLowRead"
          /\ \A c \in DOMAIN text : Is(text, c, i) => c \notin {h, l, place}
      BY <1>1, <1>2, <1>3, <2>2, <2>5 DEF Single
    <3> QED BY <1>1, <1>2, <1>5, <2>1, <2>6, <3>1, SingleKept DEF HitsInv
  <2>9. LowReadInv'
    <3>1. code'[place] # text[place]
      BY <2>2, <2>6 DEF Ins
    <3>2. ASSUME NEW c \in DOMAIN text, Is(text, c, "lisA8")
          PROVE  (LoadsDrive(text, c) => place <= c) /\ (c # place => code'[c] = text[c])
      <4>1. text[c].k = "lisA8"
        BY <1>3, <3>2
      <4>2. code[c] = text[c] /\ c \notin {h, l}
        BY <2>1, <2>5, <4>1, WordsWere
      <4>3. c < place => ~LoadsDrive(text, c)
        BY <2>1, <3>2 DEF HitsInv, LowReadInv
      <4> QED BY <1>1, <1>2, <2>6, <4>2, <4>3
    <3>3. ASSUME NEW d \in DOMAIN text, Is(text, d, "addi60"), code'[d] # text[d]
          PROVE  d \in FunctionOf(text, place)
      <4>1. text[d].k = "addi60"
        BY <1>3, <3>3
      <4>2. d \notin {h, place} /\ code[d] = text[d]
        BY <2>1, <2>2, <2>5, <4>1, WordsWere
      <4> QED BY <2>4, <2>6, <3>3, <4>2
    <3> QED BY <1>1, <1>2, <2>1, <2>2, <2>3, <3>1, <3>2, <3>3 DEF LowReadInv
  <2> QED BY <1>2, <1>5, <2>1, <2>7, <2>8, <2>9 DEF HitsInv
<1>9. CASE LowReadFalse
  <2>1. /\ "DVDLowRead" \notin hits /\ code[place].k = "lisA8" /\ ~LowRead(code, place).hit
        /\ code' = LowRead(code, place).m /\ hits' = hits /\ place' = place + 1
    BY <1>1, <1>2, <1>3, <1>9 DEF LowReadFalse, Hits
  <2>2. text[place] = code[place] /\ text[place].k = "lisA8" /\ Is(text, place, "lisA8")
    BY <1>1, <1>2, <1>3, <2>1, WordsWere
  <2>3. /\ ~LoadsDrive(text, place)
        /\ \/ code' = code
           \/ \E h \in DOMAIN text :
                /\ code[h].k = "lisCC" /\ code' = [code EXCEPT ![h] = Ins("lisC0")]
                /\ \A d \in FunctionOf(text, h) : d > h => ~Is(text, d, "addi60")
    BY <1>2, <2>1, <2>2, LowReadIs DEF N
  <2>4. ASSUME NEW c \in DOMAIN text
        PROVE  \/ code'[c] = code[c]
               \/ /\ text[c].k = "lisCC" /\ code'[c] = Ins("lisC0")
                  /\ \A d \in FunctionOf(text, c) : d > c => ~Is(text, d, "addi60")
    <3>1. CASE code' = code
      BY <3>1
    <3>2. ASSUME NEW h \in DOMAIN text, code[h].k = "lisCC", code' = [code EXCEPT ![h] = Ins("lisC0")],
                 \A d \in FunctionOf(text, h) : d > h => ~Is(text, d, "addi60")
          PROVE  \/ code'[c] = code[c]
                 \/ /\ text[c].k = "lisCC" /\ code'[c] = Ins("lisC0")
                    /\ \A d \in FunctionOf(text, c) : d > c => ~Is(text, d, "addi60")
      <4>1. text[h].k = "lisCC"
        BY <3>2, WordsWere
      <4> QED BY <1>1, <3>2, <4>1
    <3> QED BY <2>3, <3>1, <3>2
  <2>5. ASSUME NEW b \in DOMAIN text, code'[b] # text[b] PROVE HitChange(b)'
    <3>1. CASE code'[b] = code[b]
      BY <1>1, <1>2, <2>1, <2>5, <3>1, ChangeKept DEF HitsInv
    <3>2. CASE code'[b] # code[b]
      BY <1>2, <2>4, <3>2 DEF HitChange
    <3> QED BY <3>1, <3>2
  <2>6. ASSUME NEW i \in Single PROVE SingleInv(i)'
    <3>1. ~Is(text, place, i) /\ i # "lisCC"
      BY <1>1, <1>2, <1>3, <2>2 DEF Single
    <3>2. \A c \in DOMAIN text : Is(text, c, i) => code'[c] = code[c]
      BY <1>3, <2>4, <3>1
    <3> QED BY <1>1, <1>2, <2>1, <3>1, <3>2, SingleKept DEF HitsInv
  <2>7. LowReadInv'
    <3>1. \A c \in DOMAIN text : Is(text, c, "lisA8") \/ Is(text, c, "addi60") => code'[c] = code[c]
      BY <1>3, <2>4
    <3> QED BY <1>1, <1>2, <2>1, <2>3, <3>1, LowReadKept DEF HitsInv
  <2> QED BY <1>2, <1>4, <2>1, <2>5, <2>6, <2>7 DEF HitsInv
<1>10. CASE NoHit
  <2>1. /\ code' = code /\ hits' = hits /\ place' = place + 1 /\ code[place].k \notin Wanted \ hits
        /\ ~("DVDLowRead" \in Wanted \ hits /\ code[place].k = "lisA8")
    BY <1>1, <1>2, <1>3, <1>10 DEF NoHit, Hits
  <2>2. ASSUME NEW b \in DOMAIN text, code'[b] # text[b] PROVE HitChange(b)'
    BY <1>1, <1>2, <2>1, <2>2, ChangeKept DEF HitsInv
  <2>3. ASSUME NEW i \in Single PROVE SingleInv(i)'
    <3>1. i \notin hits => ~Is(text, place, i)
      <4> SUFFICES ASSUME i \notin hits, Is(text, place, i) PROVE FALSE
        OBVIOUS
      <4>1. code[place] = text[place]
        BY <1>1, <1>2 DEF HitsInv, SingleInv
      <4>2. code[place].k = i /\ i \in Wanted
        BY <1>1, <1>2, <1>3, <4>1 DEF Wanted
      <4> QED BY <2>1, <4>2
    <3> QED BY <1>1, <1>2, <2>1, <3>1, SingleKept DEF HitsInv
  <2>4. LowReadInv'
    <3>1. "DVDLowRead" \notin hits => ~Is(text, place, "lisA8")
      <4> SUFFICES ASSUME "DVDLowRead" \notin hits, Is(text, place, "lisA8") PROVE FALSE
        OBVIOUS
      <4>1. code[place].k = "lisA8" /\ "DVDLowRead" \in Wanted
        BY <1>1, <1>2, <1>3, WordsWere DEF Wanted
      <4> QED BY <2>1, <4>1
    <3> QED BY <1>1, <1>2, <2>1, <3>1, LowReadKept DEF HitsInv
  <2> QED BY <1>2, <1>4, <2>1, <2>2, <2>3, <2>4 DEF HitsInv
<1>11. CASE HitsEnd
  BY <1>11 DEF HitsEnd, Begin
<1> QED BY <1>6, <1>7, <1>8, <1>9, <1>10, <1>11 DEF DoHits

LEMMA HitsEndRight ==
  ASSUME ScanTypes, HitsInv, place > Len(code)
  PROVE  HitsRight
<1> DEFINE All(k) == {a \in DOMAIN text : Is(text, a, k)}
           Commands == {a \in All("lisA8") : LoadsDrive(text, a)}
           Changed(as) == {a \in as : code[a] # text[a]}
           TheFirst(as) == IF as = {} THEN {} ELSE {Min(as)}
<1>1. DOMAIN text = 1 .. Len(text) /\ Len(text) \in Nat /\ Len(code) = Len(text) /\ place \in Nat
  BY ProgramIs DEF ScanTypes
<1>2. ASSUME NEW S \in SUBSET DOMAIN text, NEW b \in S, \A c \in S : b <= c
      PROVE  TheFirst(S) = {b}
  <2>1. S \subseteq Nat /\ S # {}
    BY <1>1, <1>2
  <2>2. Min(S) \in S /\ \A c \in S : Min(S) <= c
    BY <2>1, MinOfNat
  <2>3. Min(S) = b
    BY <1>2, <2>1, <2>2
  <2> QED BY <2>1, <2>3
<1>3. ASSUME NEW k \in Single PROVE Changed(All(k)) = TheFirst(All(k))
  <2>1. CASE k \in hits
    <3>1. PICK b \in DOMAIN text :
            /\ Is(text, b, k) /\ code[b] # text[b]
            /\ \A c \in DOMAIN text : Is(text, c, k) => b <= c /\ (c # b => code[c] = text[c])
      BY <2>1 DEF HitsInv, SingleInv
    <3>2. Changed(All(k)) = {b}
      BY <3>1
    <3>3. b \in All(k) /\ (\A c \in All(k) : b <= c) /\ All(k) \in SUBSET DOMAIN text
      BY <3>1
    <3> HIDE DEF All, TheFirst
    <3> QED BY <1>2, <3>2, <3>3
  <2>2. CASE k \notin hits
    BY <1>1, <2>2 DEF HitsInv, SingleInv
  <2> QED BY <2>1, <2>2
<1>4. /\ Changed(All("lisA8")) = TheFirst(Commands)
      /\ Changed(All("addi60")) \subseteq UNION {FunctionOf(text, a) : a \in TheFirst(Commands)}
  <2>1. CASE "DVDLowRead" \in hits
    <3>1. PICK a \in DOMAIN text :
         /\ Is(text, a, "lisA8") /\ LoadsDrive(text, a) /\ code[a] # text[a]
         /\ \A c \in DOMAIN text :
              Is(text, c, "lisA8") => (LoadsDrive(text, c) => a <= c) /\ (c # a => code[c] = text[c])
         /\ \A d \in DOMAIN text : Is(text, d, "addi60") /\ code[d] # text[d] => d \in FunctionOf(text, a)
      BY <2>1 DEF HitsInv, LowReadInv
    <3>2. a \in Commands /\ (\A c \in Commands : a <= c) /\ Commands \in SUBSET DOMAIN text
      BY <3>1
    <3>3. TheFirst(Commands) = {a}
      <4> HIDE DEF Commands, TheFirst
      <4> QED BY <1>2, <3>2
    <3>4. Changed(All("lisA8")) = {a} /\ Changed(All("addi60")) \subseteq FunctionOf(text, a)
      BY <3>1
    <3> HIDE DEF Commands, TheFirst, Changed, All
    <3> QED BY <3>3, <3>4
  <2>2. CASE "DVDLowRead" \notin hits
    <3>1. Commands = {}
      BY <1>1, <2>2 DEF HitsInv, LowReadInv
    <3>2. \A a \in DOMAIN text : Is(text, a, "lisA8") \/ Is(text, a, "addi60") => code[a] = text[a]
      BY <2>2, WordsWere DEF Is, At
    <3>3. Changed(All("lisA8")) = {} /\ Changed(All("addi60")) = {}
      BY <3>2
    <3> HIDE DEF Commands, Changed, All
    <3> QED BY <3>1, <3>3
  <2> QED BY <2>1, <2>2
<1> QED BY <1>3, <1>4 DEF HitsRight, LoadsDrive, FunctionOf
-----------------------------------------------------------------------------
(* Functions.  A search marks the group of what it finds as seen; Ap says  *)
(* whether a pattern's patch is for this game.                             *)
Walking == phase \in {"functions", "loader"}
Table == IF phase = "loader" THEN LPatterns ELSE FPatterns
Patterns == Known_(Table)
Begins == Starts(Table, Patterns)
End(a) == a + MPattern(text, a).Length
IsPad(j) == Table[j].kind = "pad"
Marks(j) == SameGroup(Table, j) \cup (IF phase = "loader" THEN {j} ELSE {})
Ap(j) == phase = "loader" \/ Applies(Table[j])

(* What the searches for functions take for granted of a program: it ends  *)
(* with a blr and nothing behind it has a print of the table; nor has what *)
(* is left of a function behind the blr of the stub that replaced it; and  *)
(* there is one PADRead at most, which the search comes to.                *)
Inert ==
  /\ Is(text, Len(text), "blr")
  /\ \A j \in DOMAIN Table : Table[j].print # MPattern(text, Len(text) + 1)
  /\ \A a \in Begins : \A j \in Patterns[a] : \A o \in DOMAIN Table[j].patch :
       Table[j].patch[o].k = "blr" =>
         \A i \in DOMAIN Table : Table[i].print # MPattern(Patch(text, a, Table[j].patch), a + o + 1)
  /\ \A a \in DOMAIN text : \A j \in Patterns[a] : IsPad(j) =>
       a \in Begins /\ \A b \in DOMAIN text : \A i \in Patterns[b] : IsPad(i) => a = b

(* Where Starts counts the blr from.                                       *)
Hooks == {a + MPattern(text, a).Length : a \in {b \in DOMAIN text : \E j \in Patterns[b] : Table[j].kind = "pad"}}
Others == {b \in 0 .. Len(text) : ~Is(text, b, "blr") \/ b \in Hooks}
Odd(p) == (p - Max(Others \cap 0 .. p)) % 2 = 1

LEMMA TableIs ==
  ASSUME Walking
  PROVE  /\ IsTable(Table) /\ IsShorter(Table)
         /\ phase = "loader" => \A j \in DOMAIN Table : ~IsPad(j)
         /\ \A i, j \in DOMAIN Table : IsPad(j) /\ j \in Marks(i) => IsPad(i)
         /\ \A i, j \in DOMAIN Table : IsPad(i) /\ j \in Marks(i) => IsPad(j)
<1>1. IsTable(Table) /\ IsShorter(Table)
  BY ScanAssumption DEF Table
<1>2. phase = "loader" => \A j \in DOMAIN Table : ~IsPad(j)
  BY ScanAssumption DEF Table, IsPad
<1>3. CASE phase = "loader"
  BY <1>1, <1>2, <1>3
<1>4. CASE phase # "loader"
  <2>1. HasOwnPads(Table)
    BY <1>4, ScanAssumption DEF Table
  <2>2. \A i, j \in DOMAIN Table : j \in Marks(i) => Table[i].group # 0 /\ Table[j].group = Table[i].group
    BY <1>4 DEF Marks, SameGroup
  <2> QED BY <1>1, <1>4, <2>1, <2>2 DEF HasOwnPads, IsPad
<1> QED BY <1>3, <1>4

LEMMA MarksMore ==
  ASSUME Walking, NEW i \in DOMAIN Table, NEW j \in Marks(i)
  PROVE  j \in DOMAIN Table /\ Marks(j) \subseteq Marks(i)
  BY DEF Marks, SameGroup

LEMMA BeginsAre ==
  Begins = {a \in 2 .. Len(text) : Odd(a - 1)}
  BY DEF Begins, Starts, Odd, Others, Hooks

LEMMA OddIs ==
  ASSUME ScanTypes, NEW p \in Nat
  PROVE  /\ p \in Others => ~Odd(p)
         /\ p \notin Others => p # 0 /\ (Odd(p) <=> ~Odd(p - 1))
<1>1. 0 \in Others /\ Others \subseteq Nat
  <2>1. DOMAIN text = 1 .. Len(text) /\ Len(text) \in Nat
    BY ProgramIs DEF ScanTypes
  <2>2. ~Is(text, 0, "blr")
    BY <2>1 DEF Is, At, Ins
  <2> QED BY <2>1, <2>2 DEF Others
<1>2. \A q \in Nat : LET S == Others \cap 0 .. q
                     IN  Max(S) \in Nat /\ Max(S) \in S /\ \A y \in S : Max(S) >= y
  <2> TAKE q \in Nat
  <2> DEFINE S == Others \cap 0 .. q
  <2>1. S \subseteq Nat /\ S # {} /\ \A y \in S : y <= q
    BY <1>1
  <2> HIDE DEF S
  <2>2. Max(S) \in Nat /\ Max(S) \in S /\ \A y \in S : Max(S) >= y
    BY <2>1, MaxOfNat
  <2> QED BY <2>2 DEF S
<1>3. CASE p \in Others
  <2>1. Max(Others \cap 0 .. p) = p
    <3>1. PICK x : x = Max(Others \cap 0 .. p)
      OBVIOUS
    <3>2. p \in Others \cap 0 .. p
      BY <1>3
    <3>3. x \in Nat /\ x <= p /\ x >= p
      BY <1>2, <3>1, <3>2
    <3> QED BY <3>1, <3>3
  <2> QED BY <1>3, <2>1 DEF Odd
<1>4. CASE p \notin Others
  <2>1. p # 0 /\ p - 1 \in Nat
    BY <1>1, <1>4
  <2>2. Others \cap 0 .. p = Others \cap 0 .. p - 1
    BY <1>1, <1>4, <2>1
  <2>3. PICK x \in Nat : x = Max(Others \cap 0 .. p) /\ x <= p - 1
    <3>1. PICK x : x = Max(Others \cap 0 .. p)
      OBVIOUS
    <3>2. x \in Nat /\ x \in 0 .. p - 1
      BY <1>2, <2>2, <3>1
    <3> QED BY <2>1, <3>1, <3>2
  <2>4. x = Max(Others \cap 0 .. p - 1)
    BY <2>2, <2>3
  <2>5. (p - x) % 2 = 1 <=> ~((p - 1 - x) % 2 = 1)
    BY <2>1, <2>3
  <2> QED BY <1>4, <2>1, <2>3, <2>4, <2>5 DEF Odd
<1> QED BY <1>3, <1>4

(* Prints.                                                                 *)
LEMMA LengthIs ==
  ASSUME NEW m, IsProgram(m), NEW a \in Nat \ {0}, NEW e \in a .. Len(m), Is(m, e, "blr"),
         \A c \in a .. e - 1 : ~Is(m, c, "blr")
  PROVE  MPattern(m, a).Length = e - a
<1>1. Len(m) \in Nat
  BY ProgramIs
<1> DEFINE blrs == {n \in 0 .. Len(m) - 1 : Is(m, a + n, "blr")}
           S == blrs \cup {Len(m)}
<1>2. MPattern(m, a).Length = Min(S)
  BY DEF MPattern
<1>3. S \subseteq Nat /\ e - a \in S
  BY <1>1
<1>4. \A n \in S : n >= e - a
  <2> SUFFICES ASSUME NEW n \in blrs, n < e - a PROVE FALSE
    BY <1>1
  <2>1. a + n \in a .. e - 1 /\ Is(m, a + n, "blr")
    BY <1>1
  <2> QED BY <2>1
<1> HIDE DEF S
<1>5. Min(S) \in Nat /\ Min(S) \in S /\ \A n \in S : Min(S) <= n
  BY <1>3, MinOfNat
<1>6. Min(S) = e - a
  <2>1. Min(S) <= e - a /\ Min(S) >= e - a /\ e - a \in Nat /\ Min(S) \in Nat
    BY <1>1, <1>3, <1>4, <1>5
  <2> QED BY <2>1
<1> QED BY <1>2, <1>6

LEMMA FirstBlr ==
  ASSUME NEW m, NEW a \in Nat, NEW b \in Nat, NEW d \in a .. b, Is(m, d, "blr")
  PROVE  \E e \in a .. d : Is(m, e, "blr") /\ \A c \in a .. e - 1 : ~Is(m, c, "blr")
<1> DEFINE S == {c \in a .. b : Is(m, c, "blr")}
<1>1. S \subseteq Nat /\ d \in S
  OBVIOUS
<1>2. \A c \in S : c \in a .. b /\ Is(m, c, "blr")
  OBVIOUS
<1>3. \A c \in a .. b : Is(m, c, "blr") => c \in S
  OBVIOUS
<1> HIDE DEF S
<1>4. PICK e \in S : \A c \in S : e <= c
  BY <1>1, LeastNat
<1>5. e \in a .. d /\ Is(m, e, "blr")
  BY <1>1, <1>2, <1>4
<1>6. ASSUME NEW c \in a .. e - 1 PROVE ~Is(m, c, "blr")
  BY <1>3, <1>4, <1>5
<1> QED BY <1>5, <1>6

LEMMA SamePrint ==
  ASSUME NEW m, IsProgram(m), NEW f, IsProgram(f), Len(f) = Len(m), NEW a \in Nat \ {0},
         NEW d \in a .. Len(m), Is(m, d, "blr"), \A c \in a .. d : f[c] = m[c]
  PROVE  MPattern(f, a) = MPattern(m, a)
<1>1. Len(m) \in Nat /\ DOMAIN m = 1 .. Len(m) /\ DOMAIN f = 1 .. Len(m)
  BY ProgramIs
<1>2. PICK e \in a .. d : Is(m, e, "blr") /\ \A c \in a .. e - 1 : ~Is(m, c, "blr")
  BY <1>1, FirstBlr
<1>3. \A c \in a .. d : At(f, c) = At(m, c)
  BY <1>1 DEF At
<1>4. e \in a .. Len(m) /\ Is(f, e, "blr") /\ \A c \in a .. e - 1 : ~Is(f, c, "blr")
  BY <1>1, <1>2, <1>3 DEF Is
<1>5. MPattern(m, a).Length = e - a /\ MPattern(f, a).Length = e - a
  BY <1>2, <1>4, LengthIs
<1> DEFINE L(g) == Min({n \in 0 .. Len(g) - 1 : Is(g, a + n, "blr")} \cup {Len(g)})
           C(g, ks) == {n \in 0 .. L(g) - 1 : At(g, a + n).k \in ks}
           P(g, ks) == Cardinality(C(g, ks))
<1>6. \A g : MPattern(g, a) = [Length |-> L(g), FCalls |-> P(g, {"bl"}), Moves |-> P(g, {"mflr"}),
                               Loads |-> P(g, {"lis", "lisA8", "lisCC", "lisC0"})]
  BY DEF MPattern
<1> HIDE DEF L, P
<1>7. L(m) = e - a /\ L(f) = e - a
  BY <1>5, <1>6
<1>8. \A ks : C(f, ks) = C(m, ks)
  <2>1. \A n \in 0 .. e - a - 1 : a + n \in a .. d
    BY <1>1, <1>2
  <2> QED BY <1>3, <1>7, <2>1
<1>9. \A ks : P(f, ks) = P(m, ks)
  <2> HIDE DEF C
  <2> QED BY <1>8 DEF P
<1> QED BY <1>6, <1>7, <1>9

LEMMA PrintAtEnd ==
  ASSUME NEW m, IsProgram(m), NEW f, IsProgram(f), Len(f) = Len(m)
  PROVE  MPattern(f, Len(m) + 1) = MPattern(m, Len(m) + 1)
<1>1. Len(m) \in Nat /\ DOMAIN m = 1 .. Len(m) /\ DOMAIN f = 1 .. Len(m)
  BY ProgramIs
<1>2. \A n \in Nat : At(m, Len(m) + 1 + n) = Ins("op") /\ At(f, Len(m) + 1 + n) = Ins("op")
  BY <1>1 DEF At
<1> DEFINE a == Len(m) + 1
           Blrs(g) == {n \in 0 .. Len(g) - 1 : Is(g, a + n, "blr")}
           L(g) == Min(Blrs(g) \cup {Len(g)})
           C(g, ks) == {n \in 0 .. L(g) - 1 : At(g, a + n).k \in ks}
           P(g, ks) == Cardinality(C(g, ks))
<1>3. \A g : MPattern(g, a) = [Length |-> L(g), FCalls |-> P(g, {"bl"}), Moves |-> P(g, {"mflr"}),
                               Loads |-> P(g, {"lis", "lisA8", "lisCC", "lisC0"})]
  BY DEF MPattern
<1>4. Blrs(f) = {} /\ Blrs(m) = {}
  <2>1. \A n \in Nat : ~Is(m, Len(m) + 1 + n, "blr") /\ ~Is(f, Len(m) + 1 + n, "blr")
    <3>1. Ins("op").k # "blr"
      BY DEF Ins
    <3> QED BY <1>2, <3>1 DEF Is
  <2>2. \A n \in 0 .. Len(m) - 1 : n \in Nat
    BY <1>1
  <2> QED BY <2>1, <2>2
<1>5. L(f) = Min({Len(m)}) /\ L(m) = Min({Len(m)})
  <2> HIDE DEF Blrs
  <2>1. Blrs(f) \cup {Len(f)} = {Len(m)} /\ Blrs(m) \cup {Len(m)} = {Len(m)}
    BY <1>4
  <2> QED BY <2>1
<1>6. ASSUME NEW ks PROVE C(f, ks) = C(m, ks)
  <2> DEFINE l == Min({Len(m)})
             D(g) == {n \in 0 .. l - 1 : At(g, a + n).k \in ks}
  <2>1. C(f, ks) = D(f) /\ C(m, ks) = D(m)
    <3> HIDE DEF L, l
    <3> QED BY <1>5 DEF l
  <2>2. \A n \in 0 .. l - 1 : At(f, a + n) = At(m, a + n)
    BY <1>1, <1>2
  <2> HIDE DEF C, l, a
  <2>3. D(f) = D(m)
    BY <2>2
  <2> QED BY <2>1, <2>3, Zenon
<1>7. \A ks : P(f, ks) = P(m, ks)
  <2> HIDE DEF C
  <2> QED BY <1>6
<1> HIDE DEF L, P
<1> QED BY <1>3, <1>5, <1>7

(* The functions that the search has come to at place p, and whether it    *)
(* had come to one of the group of j, or to a PADRead, before a.           *)
Been(p) == {a \in Begins : a <= p}
Marked(a, j) == \E b \in Begins : b < a /\ \E i \in Patterns[b] : j \in Marks(i)
PadBefore(a) == \E b \in Begins : b < a /\ \E i \in Patterns[b] : IsPad(i)

(* Of function a with pattern j: it is replaced in c, if it is due, and    *)
(* word b of c is part of what replaced it.                                *)
PatchedIn(c, a, j) ==
  \A o \in DOMAIN Table[j].patch : a + o \in DOMAIN c => c[a + o] = Table[j].patch[o]

Done(c, a, j) ==
  IF IsPad(j) THEN Is(c, End(a), "b")
  ELSE Ap(j) /\ (Table[j].group # 0 => ~PadBefore(a)) => PatchedIn(c, a, j)

Wrote(c, b, a, j) ==
  IF IsPad(j) THEN b = End(a) /\ c[b] = Ins("b")
  ELSE b - a \in DOMAIN Table[j].patch /\ Ap(j) /\ ~Marked(a, j) /\ PatchedIn(c, a, j)

(* The search is at place p of c with the patterns s seen: it does not     *)
(* stand in front of a function; the functions it came to are replaced,    *)
(* and nothing else is written; what was seen is what was marked, but      *)
(* behind a PADRead; and a group is marked as a whole.                     *)
Walk(c, p, s) ==
  /\ p <= Len(text) => ~Odd(p - 1)
  /\ \A a \in Been(p) : \A j \in Patterns[a] : ~Marked(a, j) => Done(c, a, j)
  /\ \A b \in DOMAIN text : c[b] # text[b] => \E a \in Been(p) : \E j \in Patterns[a] : Wrote(c, b, a, j)
  /\ \A a \in Been(p) : \A i \in Patterns[a] : ~IsPad(i) => Marks(i) \subseteq s
  /\ (\A a \in Been(p) : \A i \in Patterns[a] : ~IsPad(i)) =>
       \A j \in s : \E a \in Been(p) : \E i \in Patterns[a] : j \in Marks(i)
  /\ phase = "functions" => \A j \in s : Table[j].group # 0
  /\ \A j \in s : j \in DOMAIN Table /\ Marks(j) \subseteq s

LEMMA Frame ==
  ASSUME ScanTypes
  PROVE  /\ Len(text) \in Nat \ {0} /\ Len(code) = Len(text) /\ IsProgram(text) /\ IsProgram(code)
         /\ DOMAIN text = 1 .. Len(text) /\ DOMAIN code = 1 .. Len(text)
         /\ place \in Nat \ {0}
  BY ProgramIs DEF ScanTypes

LEMMA PatternsAre ==
  ASSUME ScanTypes, Walking, NEW a \in DOMAIN text
  PROVE  /\ Patterns[a] = {j \in DOMAIN Table : Table[j].print = MPattern(text, a)}
         /\ \A i, j \in Patterns[a] : i = j
<1>1. Patterns[a] = {j \in DOMAIN Table : Table[j].print = MPattern(text, a)}
  BY DEF Patterns, Known_
<1> QED BY <1>1, TableIs DEF IsTable

LEMMA EndIs ==
  ASSUME ScanTypes, Is(text, Len(text), "blr"), NEW a \in 1 .. Len(text)
  PROVE  /\ End(a) \in a .. Len(text) /\ Is(text, End(a), "blr")
         /\ \A c \in a .. End(a) - 1 : ~Is(text, c, "blr")
         /\ MPattern(text, a).Length = End(a) - a
<1>1. /\ Len(text) \in Nat \ {0} /\ IsProgram(text) /\ Len(text) \in a .. Len(text)
      /\ a \in Nat /\ a \in Nat \ {0} /\ Len(text) \in Nat
  BY Frame
<1>2. PICK e \in a .. Len(text) : Is(text, e, "blr") /\ \A c \in a .. e - 1 : ~Is(text, c, "blr")
  BY <1>1, FirstBlr
<1>3. MPattern(text, a).Length = e - a
  BY <1>1, <1>2, LengthIs
<1>4. End(a) = e
  BY <1>1, <1>3 DEF End
<1> QED BY <1>2, <1>3, <1>4

LEMMA BeginIs ==
  ASSUME ScanTypes, Walking, Inert, NEW a \in Begins
  PROVE  /\ a \in 2 .. Len(text) /\ a \in DOMAIN text /\ Odd(a - 1)
         /\ End(a) \in a .. Len(text) /\ Is(text, End(a), "blr")
         /\ \A c \in a .. End(a) - 1 : ~Is(text, c, "blr")
<1>1. Len(text) \in Nat \ {0} /\ DOMAIN text = 1 .. Len(text)
  BY Frame
<1>2. a \in 2 .. Len(text) /\ Odd(a - 1)
  BY BeginsAre
<1>3. a \in 1 .. Len(text) /\ Is(text, Len(text), "blr")
  BY <1>1, <1>2 DEF Inert
<1> QED BY <1>1, <1>2, <1>3, EndIs

LEMMA NotBegin ==
  ASSUME ScanTypes, NEW p \in Nat, ~Is(text, p, "blr"), p <= Len(text)
  PROVE  p + 1 \notin Begins /\ ~Odd(p)
<1>1. p \in Others
  BY Frame DEF Others
<1>2. ~Odd(p)
  BY <1>1, OddIs
<1> QED BY <1>2, BeginsAre

LEMMA Apart ==
  ASSUME ScanTypes, Walking, Inert, NEW a \in Begins, NEW b \in Begins, a < b
  PROVE  End(a) < b
<1> SUFFICES ASSUME ~(End(a) < b) PROVE FALSE
  OBVIOUS
<1>1. /\ Len(text) \in Nat /\ a \in 2 .. Len(text) /\ b \in 2 .. Len(text) /\ Odd(b - 1)
      /\ End(a) \in a .. Len(text) /\ \A c \in a .. End(a) - 1 : ~Is(text, c, "blr")
  BY Frame, BeginIs
<1>2. b - 1 \in a .. End(a) - 1 /\ b - 1 \in Nat /\ b - 1 <= Len(text)
  BY <1>1
<1>3. ~Is(text, b - 1, "blr")
  BY <1>1, <1>2
<1>4. ~Odd(b - 1)
  BY <1>2, <1>3, NotBegin
<1> QED BY <1>1, <1>4

LEMMA WrittenIn ==
  ASSUME ScanTypes, Walking, Inert, NEW a \in Begins, NEW j \in Patterns[a], NEW c, NEW b \in DOMAIN text,
         Wrote(c, b, a, j)
  PROVE  b \in a .. End(a) /\ (~IsPad(j) => b + 1 < End(a))
<1>1. /\ Len(text) \in Nat /\ a \in 2 .. Len(text) /\ b \in 1 .. Len(text) /\ a \in DOMAIN text
      /\ End(a) \in a .. Len(text)
  BY Frame, BeginIs
<1>2. CASE IsPad(j)
  BY <1>1, <1>2 DEF Wrote
<1>3. CASE ~IsPad(j)
  <2>1. j \in DOMAIN Table /\ Table[j].print = MPattern(text, a)
    BY <1>1, PatternsAre
  <2>2. b - a \in DOMAIN Table[j].patch
    BY <1>3 DEF Wrote
  <2>3. b - a \in Nat /\ (b - a) + 1 < MPattern(text, a).Length
    BY <2>1, <2>2, TableIs DEF IsTable, IsShorter
  <2>4. MPattern(text, a).Length = End(a) - a
    <3>1. a \in 1 .. Len(text) /\ Is(text, Len(text), "blr")
      BY <1>1 DEF Inert
    <3> QED BY <3>1, EndIs
  <2>5. a \in Int /\ b \in Int /\ End(a) \in Int /\ a <= End(a)
    BY <1>1
  <2> QED BY <2>3, <2>4, <2>5
<1> QED BY <1>2, <1>3

(* Nothing was written behind a blr that is still to come.                 *)
LEMMA BehindBlr ==
  ASSUME ScanTypes, Walking, Inert, NEW c, NEW s, NEW p \in 1 .. Len(text), Walk(c, p, s),
         Is(text, p, "blr"), NEW b \in DOMAIN text, b > p
  PROVE  c[b] = text[b]
<1> SUFFICES ASSUME c[b] # text[b] PROVE FALSE
  OBVIOUS
<1>0. PICK a \in Been(p) : \E j \in Patterns[a] : Wrote(c, b, a, j)
  BY DEF Walk
<1>1. PICK j \in Patterns[a] : Wrote(c, b, a, j)
  BY <1>0
<1>2. a \in Begins /\ a <= p
  BY DEF Been
<1>3. b <= End(a)
  BY <1>1, <1>2, WrittenIn
<1>4. /\ Len(text) \in Nat /\ a \in 2 .. Len(text)
      /\ \A d \in a .. End(a) - 1 : ~Is(text, d, "blr")
      /\ End(a) \in a .. Len(text) /\ b \in 1 .. Len(text)
  BY <1>2, Frame, BeginIs
<1>5. p \in a .. End(a) - 1
  <2>1. a \in Int /\ p \in Int /\ b \in Int /\ End(a) \in Int
    BY <1>4
  <2> QED BY <1>2, <1>3, <2>1
<1> QED BY <1>4, <1>5

(* There is one PADRead at most, and it is not passed over.                *)
LEMMA PadsAre ==
  ASSUME ScanTypes, Walking, Inert, NEW a \in DOMAIN text, NEW j \in Patterns[a], IsPad(j)
  PROVE  /\ a \in Begins /\ ~Marked(a, j) /\ phase = "functions"
         /\ \A b \in DOMAIN text : \A i \in Patterns[b] : IsPad(i) => a = b
<1>1. a \in Begins /\ \A b \in DOMAIN text : \A i \in Patterns[b] : IsPad(i) => a = b
  BY DEF Inert
<1>2. j \in DOMAIN Table
  BY PatternsAre
<1>3. phase = "functions"
  BY <1>2, TableIs DEF Walking
<1>4. ASSUME Marked(a, j) PROVE FALSE
  <2>1. PICK b \in Begins : b < a /\ \E i \in Patterns[b] : j \in Marks(i)
    BY <1>4 DEF Marked
  <2>2. PICK i \in Patterns[b] : j \in Marks(i)
    BY <2>1
  <2>3. b \in DOMAIN text /\ i \in DOMAIN Table
    BY <2>2, BeginIs, PatternsAre
  <2>4. IsPad(i)
    BY <1>2, <2>2, <2>3, TableIs
  <2>5. a = b /\ a \in 2 .. Len(text)
    BY <1>1, <2>2, <2>3, <2>4, BeginIs
  <2> QED BY <2>1, <2>5, Frame
<1> QED BY <1>1, <1>3, <1>4

(* Where the search stands on a blr.                                       *)
LEMMA OnBlr ==
  ASSUME ScanTypes, Walking, Inert, NEW s, NEW p \in 1 .. Len(text), Walk(code, p, s),
         Is(text, p, "blr"), Is(code, p, "blr")
  PROVE  Odd(p) /\ p \notin Begins /\ (p + 1 <= Len(text) => ~Odd(p + 1))
<1>1. Len(text) \in Nat /\ DOMAIN text = 1 .. Len(text) /\ ~Odd(p - 1)
  BY Frame DEF Walk
<1>2. ASSUME p \in Hooks PROVE FALSE
  <2>1. PICK a \in DOMAIN text : p = End(a) /\ \E j \in Patterns[a] : IsPad(j)
    BY <1>2 DEF Hooks, End, IsPad
  <2>2. PICK j \in Patterns[a] : IsPad(j)
    BY <2>1
  <2>3. a \in Begins /\ ~Marked(a, j)
    BY <2>2, PadsAre
  <2>4. a \in Been(p)
    BY <1>1, <2>1, <2>3, BeginIs DEF Been
  <2>5. Done(code, a, j)
    BY <2>2, <2>3, <2>4 DEF Walk
  <2> QED BY <2>1, <2>2, <2>5 DEF Done, Is
<1>3. p \notin Others
  BY <1>2 DEF Others
<1>4. Odd(p)
  BY <1>1, <1>3, OddIs
<1>5. p + 1 <= Len(text) => ~Odd(p + 1)
  <2>1. p + 1 \in Nat /\ (p + 1) - 1 = p
    BY <1>1
  <2> QED BY <1>4, <2>1, OddIs
<1>6. p \notin Begins
  BY <1>1, BeginsAre
<1> QED BY <1>4, <1>5, <1>6

(* Where it stands on no blr.                                              *)
LEMMA OnNoBlr ==
  ASSUME ScanTypes, Walking, Inert, NEW s, NEW p \in 1 .. Len(text), Walk(code, p, s),
         ~Is(code, p, "blr")
  PROVE  p \in Others
<1>1. Len(text) \in Nat /\ DOMAIN text = 1 .. Len(text) /\ DOMAIN code = 1 .. Len(text)
  BY Frame
<1>2. CASE ~Is(text, p, "blr")
  BY <1>1, <1>2 DEF Others
<1>3. CASE Is(text, p, "blr")
  <2>1. code[p] # text[p]
    BY <1>1, <1>3 DEF Is, At
  <2>2. PICK a \in Been(p) : \E j \in Patterns[a] : Wrote(code, p, a, j)
    BY <1>1, <2>1 DEF Walk
  <2>3. PICK j \in Patterns[a] : Wrote(code, p, a, j)
    BY <2>2
  <2>4. a \in Begins /\ a <= p /\ p \in DOMAIN text
    BY <1>1 DEF Been
  <2>5. p <= End(a) /\ (~IsPad(j) => p + 1 < End(a)) /\ a \in DOMAIN text /\ a \in 2 .. Len(text)
        /\ End(a) \in a .. Len(text) /\ \A d \in a .. End(a) - 1 : ~Is(text, d, "blr")
    BY <1>1, <2>3, <2>4, WrittenIn, BeginIs
  <2>6. p = End(a)
    <3>1. ~(p \in a .. End(a) - 1)
      BY <1>3, <2>5
    <3> QED BY <1>1, <2>4, <2>5, <3>1
  <2>7. IsPad(j)
    BY <1>1, <2>5, <2>6
  <2>8. p \in Hooks
    BY <2>3, <2>5, <2>6, <2>7 DEF Hooks, End, IsPad
  <2> QED BY <1>1, <2>8 DEF Others
<1> QED BY <1>2, <1>3

(* Where it stands on the blr of a patch: behind it nothing is found.      *)
LEMMA OnNewBlr ==
  ASSUME ScanTypes, Walking, Inert, NEW s, NEW p \in 1 .. Len(text), Walk(code, p, s),
         ~Is(text, p, "blr"), Is(code, p, "blr")
  PROVE  /\ \A i \in DOMAIN Table : Table[i].print # MPattern(code, p + 1)
         /\ p + 1 <= Len(text) /\ ~Is(text, p + 1, "blr")
<1>1. /\ Len(text) \in Nat \ {0} /\ DOMAIN text = 1 .. Len(text) /\ DOMAIN code = 1 .. Len(text)
      /\ IsProgram(text) /\ IsProgram(code) /\ Len(code) = Len(text)
  BY Frame
<1>2. code[p] # text[p] /\ code[p].k = "blr"
  BY <1>1 DEF Is, At
<1>3. PICK a \in Been(p) : \E j \in Patterns[a] : Wrote(code, p, a, j)
  BY <1>1, <1>2 DEF Walk
<1>4. PICK j \in Patterns[a] : Wrote(code, p, a, j)
  BY <1>3
<1>5. a \in Begins /\ a <= p /\ p \in DOMAIN text
  BY <1>1 DEF Been
<1>6. /\ a \in DOMAIN text /\ a \in 2 .. Len(text) /\ End(a) \in a .. Len(text) /\ Is(text, End(a), "blr")
      /\ \A d \in a .. End(a) - 1 : ~Is(text, d, "blr")
  BY <1>5, BeginIs
<1>7. ~IsPad(j)
  BY <1>2, <1>4 DEF Wrote, Ins
<1>8. p + 1 < End(a) /\ p >= a
  BY <1>1, <1>4, <1>5, <1>6, <1>7, WrittenIn
<1>9. p + 1 <= Len(text) /\ ~Is(text, p + 1, "blr")
  <2>1. p + 1 \in a .. End(a) - 1
    BY <1>1, <1>6, <1>8
  <2> QED BY <1>1, <1>6, <1>8, <2>1
<1> DEFINE o == p - a
           m == Patch(text, a, Table[j].patch)
<1>10. o \in DOMAIN Table[j].patch /\ PatchedIn(code, a, j)
  BY <1>4, <1>7 DEF Wrote
<1>11. Table[j].patch[o].k = "blr"
  <2>1. a + o = p
    BY <1>1, <1>6
  <2>2. code[p] = Table[j].patch[o]
    BY <1>1, <1>10, <2>1 DEF PatchedIn
  <2> QED BY <1>2, <2>2
<1>12. \A i \in DOMAIN Table : Table[i].print # MPattern(m, p + 1)
  <2>1. \A i \in DOMAIN Table : Table[i].print # MPattern(m, a + o + 1)
    BY <1>5, <1>10, <1>11 DEF Inert
  <2>2. a + o + 1 = p + 1
    BY <1>1, <1>6
  <2> QED BY <2>1, <2>2
<1>13. ASSUME NEW c \in a .. End(a) PROVE code[c] = m[c]
  <2>1. c \in DOMAIN text /\ c \in 1 .. Len(text)
    BY <1>1, <1>6
  <2>2. CASE c - a \in DOMAIN Table[j].patch
    <3>1. a + (c - a) = c
      BY <1>1, <1>6
    <3>2. code[c] = Table[j].patch[c - a]
      BY <1>1, <1>10, <2>1, <2>2, <3>1 DEF PatchedIn
    <3> QED BY <2>1, <2>2, <3>2 DEF Patch
  <2>3. CASE c - a \notin DOMAIN Table[j].patch
    <3>1. m[c] = text[c]
      BY <2>1, <2>3 DEF Patch
    <3>2. ASSUME code[c] # text[c] PROVE FALSE
      <4>1. PICK x \in Been(p) : \E i \in Patterns[x] : Wrote(code, c, x, i)
        BY <2>1, <3>2 DEF Walk
      <4>2. PICK i \in Patterns[x] : Wrote(code, c, x, i)
        BY <4>1
      <4>3. x \in Begins /\ x \in 2 .. Len(text) /\ x \in DOMAIN text /\ End(x) \in x .. Len(text)
        BY BeginIs DEF Been
      <4>4. c \in x .. End(x)
        BY <2>1, <4>2, <4>3, WrittenIn
      <4>5. CASE x = a
        <5>1. i = j
          BY <1>6, <4>5, PatternsAre
        <5> QED BY <1>7, <2>3, <4>2, <4>5, <5>1 DEF Wrote
      <4>6. CASE x < a
        <5>1. End(x) < a
          BY <1>5, <4>3, <4>6, Apart
        <5> QED BY <1>1, <1>6, <4>3, <4>4, <5>1
      <4>7. CASE a < x
        <5>1. End(a) < x
          BY <1>5, <4>3, <4>7, Apart
        <5> QED BY <1>1, <1>6, <4>3, <4>4, <5>1
      <4> QED BY <1>1, <1>6, <4>3, <4>5, <4>6, <4>7
    <3> QED BY <3>1, <3>2
  <2> QED BY <2>2, <2>3
<1>14. m = [b \in DOMAIN text |-> m[b]]
  BY DEF Patch
<1>15. IsProgram(m) /\ Len(m) = Len(text) /\ DOMAIN m = DOMAIN text
  <2> HIDE DEF m
  <2> QED BY <1>1, <1>14, SameLength
<1>16. Is(m, End(a), "blr")
  <2>1. End(a) \in DOMAIN text
    BY <1>1, <1>6
  <2>2. ASSUME End(a) - a \in DOMAIN Table[j].patch PROVE FALSE
    <3>1. j \in DOMAIN Table /\ Table[j].print = MPattern(text, a)
      BY <1>6, PatternsAre
    <3>2. End(a) - a \in Nat /\ (End(a) - a) + 1 < MPattern(text, a).Length
      BY <1>1, <1>6, <2>2, <3>1, TableIs DEF IsShorter
    <3>3. MPattern(text, a).Length = End(a) - a
      <4>1. a \in 1 .. Len(text) /\ Is(text, Len(text), "blr")
        BY <1>1, <1>6 DEF Inert
      <4> QED BY <4>1, EndIs
    <3> QED BY <3>2, <3>3
  <2>3. m[End(a)] = text[End(a)]
    BY <2>1, <2>2 DEF Patch
  <2> HIDE DEF m
  <2> QED BY <1>6, <1>15, <2>1, <2>3 DEF Is, At
<1>17. MPattern(code, p + 1) = MPattern(m, p + 1)
  <2>1. p + 1 \in Nat \ {0} /\ End(a) \in p + 1 .. Len(m) /\ \A c \in p + 1 .. End(a) : code[c] = m[c]
    BY <1>1, <1>6, <1>8, <1>13, <1>15
  <2> HIDE DEF m
  <2> QED BY <1>1, <1>15, <1>16, <2>1, SamePrint
<1> QED BY <1>9, <1>12, <1>17

LEMMA BeginIff ==
  ASSUME NEW p \in Nat
  PROVE  p + 1 \in Begins <=> p + 1 \in 2 .. Len(text) /\ Odd(p)
<1>1. p + 1 - 1 = p
  OBVIOUS
<1> QED BY <1>1, BeginsAre

LEMMA BeenGrows ==
  ASSUME ScanTypes, NEW p \in Nat
  PROVE  /\ p + 1 \notin Begins => Been(p + 1) = Been(p)
         /\ p + 1 \notin Begins /\ p + 2 \notin Begins => Been(p + 2) = Been(p)
         /\ p + 1 \in Begins /\ p + 2 \notin Begins => Been(p + 2) = Been(p) \cup {p + 1}
<1>1. \A a \in Begins : a \in Int
  BY Frame, BeginsAre
<1>2. \A a \in Begins : /\ a <= p + 1 <=> a <= p \/ a = p + 1
                        /\ a <= p + 2 <=> a <= p \/ a = p + 1 \/ a = p + 2
  BY <1>1
<1> QED BY <1>2 DEF Been

(* The next step either comes to a function, which lies there as it was,   *)
(* or finds none and passes none.                                          *)
LEMMA StepIs ==
  ASSUME ScanTypes, Walking, Inert, Walk(code, place, seen), place <= Len(text)
  PROVE  LET q == place + (IF Is(code, place, "blr") THEN 2 ELSE 1)
         IN  /\ q <= Len(text) => ~Odd(q - 1)
             /\ \/ /\ Behind(Table) = {} /\ Been(q) = Been(place)
                \/ /\ place + 1 \in Begins /\ Been(q) = Been(place) \cup {place + 1}
                   /\ Behind(Table) = Patterns[place + 1] \ seen
                   /\ \A b \in DOMAIN text : b > place => code[b] = text[b]
<1>1. /\ Len(text) \in Nat \ {0} /\ DOMAIN text = 1 .. Len(text) /\ DOMAIN code = 1 .. Len(text)
      /\ IsProgram(text) /\ IsProgram(code) /\ Len(code) = Len(text) /\ place \in 1 .. Len(text)
  BY Frame
<1>2. Begins \subseteq 2 .. Len(text) /\ \A a \in Begins : Odd(a - 1)
  BY BeginsAre
<1> DEFINE q == place + (IF Is(code, place, "blr") THEN 2 ELSE 1)
<1>3. CASE ~Is(code, place, "blr")
  <2>1. place \in Others
    BY <1>1, <1>3, OnNoBlr
  <2>2. ~Odd(place)
    BY <1>1, <2>1, OddIs
  <2>3. place + 1 \notin Begins
    BY <1>1, <1>2, <2>2
  <2>4. Been(place + 1) = Been(place)
    BY <1>1, <2>3, BeenGrows
  <2>5. Behind(Table) = {}
    BY <1>3 DEF Behind
  <2>6. q = place + 1 /\ q - 1 = place
    BY <1>1, <1>3
  <2> HIDE DEF q
  <2>7. ~Odd(q - 1) /\ Been(q) = Been(place)
    BY <2>2, <2>4, <2>6
  <2> QED BY <2>5, <2>7 DEF q
<1>4. CASE Is(code, place, "blr") /\ ~Is(text, place, "blr")
  <2>1. /\ \A i \in DOMAIN Table : Table[i].print # MPattern(code, place + 1)
        /\ place + 1 <= Len(text) /\ ~Is(text, place + 1, "blr")
    BY <1>1, <1>4, OnNewBlr
  <2>2. Behind(Table) = {}
    BY <2>1 DEF Behind, Matches
  <2>3. place + 1 \notin Begins /\ ~Odd(place)
    BY <1>1, <1>4, NotBegin
  <2>4. place + 2 \notin Begins /\ ~Odd(place + 1)
    <3>1. place + 1 \in Nat /\ place + 1 + 1 = place + 2
      BY <1>1
    <3>2. place + 1 + 1 \notin Begins /\ ~Odd(place + 1)
      BY <2>1, <3>1, NotBegin
    <3> QED BY <3>1, <3>2
  <2>5. Been(place + 2) = Been(place)
    BY <1>1, <2>3, <2>4, BeenGrows
  <2>6. q = place + 2 /\ q - 1 = place + 1
    BY <1>1, <1>4
  <2> HIDE DEF q
  <2>7. ~Odd(q - 1) /\ Been(q) = Been(place)
    BY <2>4, <2>5, <2>6
  <2> QED BY <2>2, <2>7 DEF q
<1>5. CASE Is(code, place, "blr") /\ Is(text, place, "blr")
  <2>1. Odd(place) /\ (place + 1 <= Len(text) => ~Odd(place + 1))
    BY <1>1, <1>5, OnBlr
  <2>2. place + 2 \notin Begins
    <3>1. place + 1 \in Nat /\ place + 1 + 1 = place + 2
          /\ (place + 2 \in 2 .. Len(text) => place + 1 <= Len(text))
      BY <1>1
    <3>2. place + 1 + 1 \in Begins <=> place + 1 + 1 \in 2 .. Len(text) /\ Odd(place + 1)
      BY <3>1, BeginIff
    <3> QED BY <2>1, <3>1, <3>2
  <2>3. q = place + 2 /\ q - 1 = place + 1 /\ (q <= Len(text) => place + 1 <= Len(text))
    BY <1>1, <1>5
  <2> HIDE DEF q
  <2>4. q <= Len(text) => ~Odd(q - 1)
    BY <2>1, <2>3, Zenon
  <2>5. CASE place = Len(text)
    <3>1. place + 1 \notin Begins
      BY <1>1, <1>2, <2>5
    <3>2. Been(q) = Been(place)
      BY <1>1, <2>2, <2>3, <3>1, BeenGrows
    <3>3. MPattern(code, place + 1) = MPattern(text, place + 1)
      BY <1>1, <2>5, PrintAtEnd
    <3>4. \A j \in DOMAIN Table : Table[j].print # MPattern(text, place + 1)
      BY <2>5 DEF Inert
    <3>5. Behind(Table) = {}
      BY <3>3, <3>4 DEF Behind, Matches
    <3> QED BY <2>4, <3>2, <3>5 DEF q
  <2>6. CASE place < Len(text)
    <3>1. place + 1 \in Begins
      <4>1. place \in Nat /\ place + 1 \in 2 .. Len(text)
        BY <1>1, <2>6
      <4> QED BY <2>1, <4>1, BeginIff
    <3>2. Been(q) = Been(place) \cup {place + 1}
      BY <1>1, <2>2, <2>3, <3>1, BeenGrows
    <3>3. \A b \in DOMAIN text : b > place => code[b] = text[b]
      BY <1>1, <1>5, BehindBlr
    <3>4. MPattern(code, place + 1) = MPattern(text, place + 1)
      <4>1. /\ place + 1 \in Nat \ {0} /\ Len(text) \in place + 1 .. Len(text) /\ Is(text, Len(text), "blr")
            /\ \A c \in place + 1 .. Len(text) : code[c] = text[c]
        BY <1>1, <2>6, <3>3 DEF Inert
      <4> QED BY <1>1, <4>1, SamePrint
    <3>5. Behind(Table) = Patterns[place + 1] \ seen
      <4>1. place + 1 \in DOMAIN text
        BY <1>1, <2>6
      <4>2. Patterns[place + 1] = {j \in DOMAIN Table : Table[j].print = MPattern(text, place + 1)}
        BY <4>1, PatternsAre
      <4>3. Behind(Table) = Matches(Table, place + 1) \ seen
        BY <1>5 DEF Behind
      <4>4. Matches(Table, place + 1) = Patterns[place + 1]
        BY <3>4, <4>2 DEF Matches
      <4> QED BY <4>3, <4>4
    <3> QED BY <2>4, <3>1, <3>2, <3>3, <3>5 DEF q
  <2>7. place = Len(text) \/ place < Len(text)
    <3>1. place \in Int /\ Len(text) \in Int
      BY <1>1
    <3> QED BY <3>1
  <2> QED BY <2>5, <2>6, <2>7, Zenon
<1> QED BY <1>3, <1>4, <1>5, Zenon

(* A step that passes no function.                                         *)
LEMMA Passed ==
  ASSUME NEW c, NEW p, NEW q, NEW s, Walk(c, p, s), Been(q) = Been(p), q <= Len(text) => ~Odd(q - 1)
  PROVE  Walk(c, q, s)
  BY DEF Walk

(* What was done in front of a function stays.                             *)
LEMMA InFrontKept ==
  ASSUME ScanTypes, Walking, Inert, NEW c, NEW d, DOMAIN c = DOMAIN text, DOMAIN d = DOMAIN text,
         NEW p \in 1 .. Len(text), \A b \in DOMAIN text : b <= p => d[b] = c[b],
         NEW a \in Begins, End(a) <= p, NEW j \in Patterns[a]
  PROVE  /\ Done(c, a, j) => Done(d, a, j)
         /\ \A b \in DOMAIN text : Wrote(c, b, a, j) => Wrote(d, b, a, j)
<1>1. /\ Len(text) \in Nat \ {0} /\ DOMAIN text = 1 .. Len(text) /\ a \in 2 .. Len(text) /\ a \in DOMAIN text
      /\ End(a) \in a .. Len(text) /\ j \in DOMAIN Table /\ Table[j].print = MPattern(text, a)
  BY Frame, BeginIs, PatternsAre
<1>2. PatchedIn(c, a, j) => PatchedIn(d, a, j)
  <2> SUFFICES ASSUME PatchedIn(c, a, j), NEW o \in DOMAIN Table[j].patch, a + o \in DOMAIN d
               PROVE  d[a + o] = Table[j].patch[o]
    BY DEF PatchedIn
  <2>1. o \in Nat /\ o + 1 < MPattern(text, a).Length
    BY <1>1, TableIs DEF IsTable, IsShorter
  <2>2. MPattern(text, a).Length = End(a) - a
    <3>1. a \in 1 .. Len(text) /\ Is(text, Len(text), "blr")
      BY <1>1 DEF Inert
    <3> QED BY <3>1, EndIs
  <2>3. a + o <= p /\ a + o \in DOMAIN text
    BY <1>1, <2>1, <2>2
  <2>4. c[a + o] = Table[j].patch[o]
    BY <2>3 DEF PatchedIn
  <2> QED BY <2>3, <2>4
<1>3. End(a) \in DOMAIN text /\ d[End(a)] = c[End(a)]
  BY <1>1
<1>4. Done(c, a, j) => Done(d, a, j)
  <2>1. Is(c, End(a), "b") => Is(d, End(a), "b")
    BY <1>3 DEF Is, At
  <2>2. CASE IsPad(j)
    BY <2>1, <2>2 DEF Done
  <2>3. CASE ~IsPad(j)
    BY <1>2, <2>3 DEF Done
  <2> QED BY <2>2, <2>3
<1>5. \A b \in DOMAIN text : Wrote(c, b, a, j) => Wrote(d, b, a, j)
  <2> TAKE b \in DOMAIN text
  <2>1. CASE IsPad(j)
    BY <1>3, <2>1 DEF Wrote
  <2>2. CASE ~IsPad(j)
    BY <1>2, <2>2 DEF Wrote
  <2> QED BY <2>1, <2>2
<1> QED BY <1>4, <1>5

(* A step that comes to function n = p + 1.                                *)
LEMMA Grown ==
  ASSUME ScanTypes, Walking, Inert, NEW c, NEW d, DOMAIN c = DOMAIN text, DOMAIN d = DOMAIN text,
         NEW p \in 1 .. Len(text), NEW q, NEW s, NEW t, Walk(c, p, s), s \subseteq t,
         p + 1 \in Begins, Been(q) = Been(p) \cup {p + 1}, q <= Len(text) => ~Odd(q - 1),
         \A b \in DOMAIN text : b <= p => d[b] = c[b],
         \A i \in Patterns[p + 1] : ~Marked(p + 1, i) => Done(d, p + 1, i),
         \A b \in DOMAIN text : b > p /\ d[b] # text[b] => \E i \in Patterns[p + 1] : Wrote(d, b, p + 1, i),
         \A i \in Patterns[p + 1] : ~IsPad(i) => Marks(i) \subseteq t,
         (\A a \in Been(q) : \A i \in Patterns[a] : ~IsPad(i)) =>
           \A i \in t \ s : \E j \in Patterns[p + 1] : i \in Marks(j),
         phase = "functions" => \A i \in t \ s : Table[i].group # 0,
         \A i \in t \ s : i \in DOMAIN Table /\ Marks(i) \subseteq t
  PROVE  Walk(d, q, t)
<1>1. Len(text) \in Nat \ {0} /\ DOMAIN text = 1 .. Len(text)
  BY Frame
<1>2. ASSUME NEW a \in Been(p) PROVE a \in Begins /\ End(a) <= p
  <2>1. a \in Begins /\ a < p + 1 /\ a \in 2 .. Len(text) /\ End(a) \in a .. Len(text)
    BY <1>1, BeginIs DEF Been
  <2>2. End(a) < p + 1
    BY <2>1, Apart
  <2> QED BY <1>1, <2>1, <2>2
<1>3. \A a \in Been(p) : \A j \in Patterns[a] :
        /\ Done(c, a, j) => Done(d, a, j)
        /\ \A b \in DOMAIN text : Wrote(c, b, a, j) => Wrote(d, b, a, j)
  BY <1>2, InFrontKept
<1>4. ASSUME NEW a \in Been(q), NEW j \in Patterns[a], ~Marked(a, j) PROVE Done(d, a, j)
  <2>1. CASE a = p + 1
    BY <1>4, <2>1
  <2>2. CASE a \in Been(p)
    BY <1>3, <1>4, <2>2 DEF Walk
  <2> QED BY <2>1, <2>2
<1>5. ASSUME NEW b \in DOMAIN text, d[b] # text[b]
      PROVE  \E a \in Been(q) : \E j \in Patterns[a] : Wrote(d, b, a, j)
  <2>1. CASE b > p
    BY <1>5, <2>1
  <2>2. CASE b <= p
    <3>1. c[b] # text[b]
      BY <1>5, <2>2
    <3>2. PICK a \in Been(p) : \E j \in Patterns[a] : Wrote(c, b, a, j)
      BY <3>1 DEF Walk
    <3>3. PICK j \in Patterns[a] : Wrote(c, b, a, j)
      BY <3>2
    <3>4. Wrote(d, b, a, j)
      BY <1>3, <3>3
    <3> QED BY <3>3, <3>4
  <2> QED BY <1>1, <2>1, <2>2
<1>6. \A a \in Been(q) : \A i \in Patterns[a] : ~IsPad(i) => Marks(i) \subseteq t
  BY DEF Walk
<1>7. ASSUME \A a \in Been(q) : \A i \in Patterns[a] : ~IsPad(i), NEW j \in t
      PROVE  \E a \in Been(q) : \E i \in Patterns[a] : j \in Marks(i)
  <2>1. CASE j \in s
    BY <1>7, <2>1 DEF Walk
  <2>2. CASE j \notin s
    BY <1>7, <2>2
  <2> QED BY <2>1, <2>2
<1>8. phase = "functions" => \A j \in t : Table[j].group # 0
  BY DEF Walk
<1>9. \A j \in t : j \in DOMAIN Table /\ Marks(j) \subseteq t
  BY DEF Walk
<1> QED BY <1>4, <1>5, <1>6, <1>7, <1>8, <1>9 DEF Walk

(* A pattern that is found is the first of its group.                      *)
LEMMA FoundIsFirst ==
  ASSUME ScanTypes, Walking, Inert, NEW c, NEW p \in 1 .. Len(text), NEW s, Walk(c, p, s),
         p + 1 \in Begins, NEW j \in Patterns[p + 1], j \notin s
  PROVE  ~Marked(p + 1, j)
<1> SUFFICES ASSUME Marked(p + 1, j) PROVE FALSE
  OBVIOUS
<1>1. PICK b \in Begins : b < p + 1 /\ \E i \in Patterns[b] : j \in Marks(i)
  BY DEF Marked
<1>2. PICK i \in Patterns[b] : j \in Marks(i)
  BY <1>1
<1>3. /\ b \in DOMAIN text /\ i \in DOMAIN Table /\ p + 1 \in DOMAIN text /\ j \in DOMAIN Table
      /\ b \in 2 .. Len(text) /\ Len(text) \in Nat
  BY BeginIs, PatternsAre, Frame
<1>4. b \in Been(p)
  BY <1>1, <1>3 DEF Been
<1>5. CASE ~IsPad(i)
  BY <1>2, <1>4, <1>5 DEF Walk
<1>6. CASE IsPad(i)
  <2>1. IsPad(j)
    BY <1>2, <1>3, <1>6, TableIs
  <2>2. b = p + 1
    BY <1>2, <1>3, <1>6, <2>1, PadsAre
  <2> QED BY <1>1, <1>3, <2>2
<1> QED BY <1>5, <1>6

(* Nothing was found.                                                      *)
LEMMA NoneFound ==
  ASSUME ScanTypes, Walking, Inert, Walk(code, place, seen), place <= Len(text), Behind(Table) = {},
         NEW q, q = place + (IF Is(code, place, "blr") THEN 2 ELSE 1)
  PROVE  Walk(code, q, seen)
<1>1. Len(text) \in Nat /\ place \in 1 .. Len(text) /\ DOMAIN code = DOMAIN text
  BY Frame
<1>2. CASE Been(q) = Been(place)
  BY <1>2, StepIs, Passed
<1>3. CASE /\ place + 1 \in Begins /\ Been(q) = Been(place) \cup {place + 1}
           /\ Patterns[place + 1] \subseteq seen /\ \A b \in DOMAIN text : b > place => code[b] = text[b]
  <2>0. place + 1 \in DOMAIN text
    BY <1>3, BeginIs
  <2>1. ASSUME NEW i \in Patterns[place + 1], ~Marked(place + 1, i) PROVE Done(code, place + 1, i)
    <3>1. i \in seen
      BY <1>3
    <3>2. PICK a \in Been(place) : \E x \in Patterns[a] : IsPad(x)
      <4> SUFFICES ASSUME \A a \in Been(place) : \A x \in Patterns[a] : ~IsPad(x) PROVE FALSE
        OBVIOUS
      <4>1. PICK a \in Been(place) : \E x \in Patterns[a] : i \in Marks(x)
        BY <3>1 DEF Walk
      <4>2. a \in Begins /\ a < place + 1
        <5>1. a \in Begins /\ a <= place /\ a \in 2 .. Len(text)
          BY <4>1, BeginIs DEF Been
        <5> QED BY <1>1, <5>1
      <4> QED BY <2>1, <4>1, <4>2 DEF Marked
    <3>3. PICK x \in Patterns[a] : IsPad(x)
      BY <3>2
    <3>4. a \in Begins /\ a < place + 1 /\ a \in DOMAIN text
      <4>1. a \in Begins /\ a <= place /\ a \in 2 .. Len(text) /\ a \in DOMAIN text
        BY <3>2, BeginIs DEF Been
      <4> QED BY <1>1, <4>1
    <3>5. PadBefore(place + 1)
      BY <3>3, <3>4 DEF PadBefore
    <3>6. ~IsPad(i)
      <4> SUFFICES ASSUME IsPad(i) PROVE FALSE
        OBVIOUS
      <4>1. a = place + 1
        BY <2>0, <3>3, <3>4, PadsAre
      <4>2. a \in 2 .. Len(text)
        BY <3>4, BeginIs
      <4> QED BY <1>1, <3>4, <4>1, <4>2
    <3>7. phase = "functions"
      BY <3>3, <3>4, PadsAre
    <3>8. Table[i].group # 0
      BY <3>1, <3>7 DEF Walk
    <3> QED BY <3>5, <3>6, <3>8 DEF Done
  <2>2. \A i \in Patterns[place + 1] : Marks(i) \subseteq seen
    BY <1>3 DEF Walk
  <2>3. q <= Len(text) => ~Odd(q - 1)
    BY StepIs
  <2> QED BY <1>1, <1>3, <2>1, <2>2, <2>3, Grown
<1>4. Behind(Table) = Patterns[place + 1] \ seen => Patterns[place + 1] \subseteq seen
  BY Zenon
<1> QED BY <1>2, <1>3, <1>4, StepIs

(* A function was found and is replaced.                                   *)
LEMMA Replaced ==
  ASSUME ScanTypes, Walking, Inert, Walk(code, place, seen), place <= Len(text),
         NEW j \in Behind(Table), ~IsPad(j),
         NEW q, q = place + (IF Is(code, place, "blr") THEN 2 ELSE 1),
         NEW d, d = IF Ap(j) THEN Patch(code, place + 1, Table[j].patch) ELSE code
  PROVE  Walk(d, q, seen \cup Marks(j))
<1> DEFINE n == place + 1
           t == seen \cup Marks(j)
<1>1. Len(text) \in Nat /\ place \in 1 .. Len(text) /\ DOMAIN code = DOMAIN text /\ DOMAIN text = 1 .. Len(text)
  BY Frame
<1>2. /\ n \in Begins /\ Been(q) = Been(place) \cup {n} /\ Behind(Table) = Patterns[n] \ seen
      /\ \A b \in DOMAIN text : b > place => code[b] = text[b]
      /\ q <= Len(text) => ~Odd(q - 1)
  BY StepIs
<1>3. n \in DOMAIN text /\ j \in Patterns[n] /\ j \notin seen
  BY <1>2, BeginIs
<1>4. j \in DOMAIN Table /\ \A i \in Patterns[n] : i = j
  BY <1>3, PatternsAre
<1>5. ~Marked(n, j)
  BY <1>1, <1>2, <1>3, FoundIsFirst
<1>6. DOMAIN d = DOMAIN text
  BY <1>1 DEF Patch
<1>7. DOMAIN Table[j].patch \subseteq Nat
  BY <1>4, TableIs DEF IsTable
<1>8. \A b \in DOMAIN text : b <= place => d[b] = code[b]
  <2> SUFFICES ASSUME NEW b \in DOMAIN text, b <= place PROVE d[b] = code[b]
    OBVIOUS
  <2>1. b - n \notin DOMAIN Table[j].patch
    <3>1. ~(b - n \in Nat)
      BY <1>1
    <3> QED BY <1>7, <3>1
  <2> QED BY <1>1, <2>1 DEF Patch
<1>9. Ap(j) => PatchedIn(d, n, j)
  <2> SUFFICES ASSUME Ap(j), NEW o \in DOMAIN Table[j].patch, n + o \in DOMAIN d
               PROVE  d[n + o] = Table[j].patch[o]
    BY DEF PatchedIn
  <2>1. o \in Nat /\ (n + o) - n = o
    BY <1>1, <1>7
  <2>2. n + o \in DOMAIN code
    BY <1>1, <1>6
  <2> QED BY <2>1, <2>2 DEF Patch
<1>10. \A i \in Patterns[n] : ~Marked(n, i) => Done(d, n, i)
  BY <1>4, <1>9 DEF Done
<1>11. ASSUME NEW b \in DOMAIN text, b > place /\ d[b] # text[b]
       PROVE  \E i \in Patterns[n] : Wrote(d, b, n, i)
  <2>1. code[b] = text[b]
    BY <1>2, <1>11
  <2>2. Ap(j) /\ b - n \in DOMAIN Table[j].patch
    BY <1>1, <1>11, <2>1 DEF Patch
  <2>3. Wrote(d, b, n, j)
    BY <1>5, <1>9, <2>2 DEF Wrote
  <2> QED BY <1>3, <2>3
<1>12. \A i \in Patterns[n] : ~IsPad(i) => Marks(i) \subseteq t
  BY <1>4
<1>13. \A i \in t \ seen : i \in Marks(j)
  OBVIOUS
<1>14. \A i \in t \ seen : \E x \in Patterns[n] : i \in Marks(x)
  BY <1>3, <1>13
<1>15. phase = "functions" => \A i \in t \ seen : Table[i].group # 0
  BY <1>13 DEF Marks, SameGroup
<1>16. ASSUME NEW i \in t \ seen PROVE i \in DOMAIN Table /\ Marks(i) \subseteq t
  <2>1. i \in DOMAIN Table /\ Marks(i) \subseteq Marks(j)
    BY <1>4, <1>13, MarksMore
  <2> QED BY <2>1
<1>17. seen \subseteq t
  OBVIOUS
<1> HIDE DEF t, n
<1>18. Walk(d, q, t)
  BY <1>1, <1>2, <1>6, <1>8, <1>10, <1>11, <1>12, <1>14, <1>15, <1>16, <1>17, Grown DEF n
<1> QED BY <1>18 DEF t

(* PADRead was found and is hooked at its end.                             *)
LEMMA PadHooked ==
  ASSUME ScanTypes, Walking, Inert, Walk(code, place, seen), place <= Len(text),
         NEW j \in Behind(Table), IsPad(j),
         NEW q, q = place + (IF Is(code, place, "blr") THEN 2 ELSE 1),
         NEW g, g = {} \/ \E k \in DOMAIN Table : g = SameGroup(Table, k)
  PROVE  Walk(Hooked(code, place + 1), q, seen \cup g)
<1> DEFINE n == place + 1
           t == seen \cup g
           d == Hooked(code, n)
<1>1. /\ Len(text) \in Nat /\ place \in 1 .. Len(text) /\ DOMAIN code = DOMAIN text /\ DOMAIN text = 1 .. Len(text)
      /\ Len(code) = Len(text)
  BY Frame
<1>2. /\ n \in Begins /\ Been(q) = Been(place) \cup {n} /\ Behind(Table) = Patterns[n] \ seen
      /\ \A b \in DOMAIN text : b > place => code[b] = text[b]
      /\ q <= Len(text) => ~Odd(q - 1)
  BY StepIs
<1>3. n \in DOMAIN text /\ j \in Patterns[n] /\ j \notin seen
  BY <1>2, BeginIs
<1>4. j \in DOMAIN Table /\ \A i \in Patterns[n] : i = j
  BY <1>3, PatternsAre
<1>5. phase = "functions"
  BY <1>3, PadsAre
<1>6. /\ End(n) \in n .. Len(text) /\ Is(text, End(n), "blr") /\ n \in Nat
      /\ \A c \in n .. End(n) - 1 : ~Is(text, c, "blr")
  BY <1>1, <1>2, BeginIs
<1>7. Stop(code, n, "blr") = End(n)
  <2> DEFINE e == Stop(code, n, "blr")
  <2>1. code[End(n)].k = "blr"
    BY <1>1, <1>2, <1>6 DEF Is, At
  <2>2. /\ e \in n .. End(n) /\ code[e].k \in {"blr", "blr"}
    <3>1. n \in Nat \ {0} /\ Len(code) \in Nat /\ DOMAIN code = 1 .. Len(code) /\ End(n) \in n .. Len(code)
          /\ code[End(n)].k \in {"blr", "blr"}
      BY <1>1, <1>6, <2>1
    <3> HIDE DEF n
    <3> QED BY <3>1, StopIs
  <2> HIDE DEF e
  <2>3. e \in DOMAIN text /\ e > place
    BY <1>1, <1>6, <2>2
  <2>4. Is(text, e, "blr")
    BY <1>2, <2>2, <2>3 DEF Is, At
  <2>5. ~(e \in n .. End(n) - 1)
    BY <1>6, <2>4
  <2>6. e = End(n)
    BY <1>1, <1>6, <2>2, <2>5
  <2> QED BY <2>6 DEF e
<1>8. d = [code EXCEPT ![End(n)] = Ins("b")]
  BY <1>7 DEF Hooked
<1> HIDE DEF d
<1>9. DOMAIN d = DOMAIN text /\ End(n) \in DOMAIN text /\ d[End(n)] = Ins("b")
      /\ \A b \in DOMAIN text : b # End(n) => d[b] = code[b]
  BY <1>1, <1>6, <1>8
<1>10. \A b \in DOMAIN text : b <= place => d[b] = code[b]
  BY <1>1, <1>6, <1>9
<1>11. \A i \in Patterns[n] : ~Marked(n, i) => Done(d, n, i)
  <2>1. Is(d, End(n), "b")
    BY <1>9 DEF Is, At, Ins
  <2> QED BY <1>4, <2>1 DEF Done
<1>12. ASSUME NEW b \in DOMAIN text, b > place /\ d[b] # text[b]
       PROVE  \E i \in Patterns[n] : Wrote(d, b, n, i)
  <2>1. b = End(n)
    BY <1>2, <1>9, <1>12
  <2>2. Wrote(d, b, n, j)
    BY <1>9, <2>1 DEF Wrote
  <2> QED BY <1>3, <2>2
<1>13. \A i \in Patterns[n] : IsPad(i)
  BY <1>4
<1>14. n \in Been(q)
  BY <1>2
<1>15. \A i \in t \ seen : i \in g
  OBVIOUS
<1>16. ASSUME NEW i \in g PROVE i \in DOMAIN Table /\ Table[i].group # 0 /\ Marks(i) \subseteq g
  <2>1. PICK k \in DOMAIN Table : g = SameGroup(Table, k)
    BY <1>16
  <2>2. g = Marks(k)
    BY <1>5, <2>1 DEF Marks
  <2>3. i \in DOMAIN Table /\ Marks(i) \subseteq Marks(k)
    BY <1>16, <2>2, MarksMore
  <2>4. Table[i].group # 0
    BY <1>16, <2>1 DEF SameGroup
  <2> QED BY <2>2, <2>3, <2>4
<1>17. \A i \in t \ seen : i \in DOMAIN Table /\ Table[i].group # 0 /\ Marks(i) \subseteq t
  BY <1>15, <1>16
<1>18. seen \subseteq t
  OBVIOUS
<1>19. ~ \A a \in Been(q) : \A i \in Patterns[a] : ~IsPad(i)
  BY <1>3, <1>14
<1> HIDE DEF t, n
<1>20. Walk(d, q, t)
  BY <1>1, <1>2, <1>9, <1>10, <1>11, <1>12, <1>13, <1>17, <1>18, <1>19, Grown DEF n
<1> QED BY <1>20 DEF t, d, n

LEMMA WalkBegin ==
  ScanTypes /\ Walking /\ code = text /\ place = 1 /\ seen = {} => Walk(code, place, seen)
<1> SUFFICES ASSUME ScanTypes, Walking, code = text, place = 1, seen = {} PROVE Walk(code, place, seen)
  OBVIOUS
<1>1. \A a \in Begins : a \in 2 .. Len(text) /\ Len(text) \in Nat
  BY Frame, BeginsAre
<1>2. Been(place) = {}
  <2>1. \A a \in Begins : ~(a <= 1)
    BY <1>1
  <2> QED BY <2>1 DEF Been
<1>3. ~Odd(0)
  <2>1. 0 \in Nat
    OBVIOUS
  <2> QED BY <2>1, OddIs, Zenon
<1>4. place - 1 = 0
  OBVIOUS
<1>5. ~Odd(place - 1)
  BY <1>3, <1>4, Zenon
<1>6. \A b \in DOMAIN text : code[b] = text[b]
  OBVIOUS
<1>7. \A j : j \notin seen
  OBVIOUS
<1> QED BY <1>2, <1>5, <1>6, <1>7, Zenon DEF Walk

(* The whole program has been gone over.                                   *)
LEMMA AllBeen ==
  ASSUME ScanTypes, place > Len(text)
  PROVE  Been(place) = Begins
<1>1. \A a \in Begins : a \in 2 .. Len(text)
  BY BeginsAre
<1>2. Len(text) \in Nat /\ place \in Nat
  BY Frame
<1> QED BY <1>1, <1>2 DEF Been

LEMMA LoaderEndRight ==
  ASSUME ScanTypes, Walking, Inert, Walk(code, place, seen), place > Len(text), phase = "loader"
  PROVE  LoaderRight
<1> DEFINE First(a, j) == j \in Patterns[a] /\ ~Later(LPatterns, Patterns, Begins, a, j)
<1>1. Table = LPatterns
  BY DEF Table
<1>2. Been(place) = Begins
  BY AllBeen
<1>3. ASSUME NEW a \in Begins, NEW j \in Patterns[a]
      PROVE  /\ a \in 2 .. Len(text) /\ a \in DOMAIN text /\ j \in DOMAIN Table /\ ~IsPad(j) /\ Ap(j)
             /\ Later(LPatterns, Patterns, Begins, a, j) <=> Marked(a, j)
  <2>1. a \in 2 .. Len(text) /\ a \in DOMAIN text
    BY BeginIs
  <2>2. j \in DOMAIN Table
    BY <2>1, PatternsAre
  <2>3. ASSUME NEW b \in Begins, NEW i \in Patterns[b] PROVE Kin(LPatterns, i, j) <=> j \in Marks(i)
    <3>1. b \in DOMAIN text /\ i \in DOMAIN Table
      BY BeginIs, PatternsAre
    <3> QED BY <1>1, <2>2, <3>1 DEF Kin, Marks, SameGroup
  <2>4. Later(LPatterns, Patterns, Begins, a, j) <=> Marked(a, j)
    BY <2>3 DEF Later, Marked
  <2> QED BY <2>1, <2>2, <2>4, TableIs DEF Ap
<1>4. ASSUME NEW a \in Begins, NEW j \in Patterns[a], First(a, j)
      PROVE  Patched(a, LPatterns[j])
  <2>1. ~Marked(a, j) /\ ~IsPad(j) /\ Ap(j) /\ phase # "functions"
    BY <1>3, <1>4
  <2>2. Done(code, a, j)
    BY <1>2, <2>1 DEF Walk
  <2>3. ~PadBefore(a)
    BY <1>3 DEF PadBefore
  <2>4. PatchedIn(code, a, j)
    BY <2>1, <2>2, <2>3 DEF Done
  <2> QED BY <1>1, <2>4 DEF Patched, PatchedIn
<1>5. ASSUME NEW b \in DOMAIN text, code[b] # text[b]
      PROVE  \E a \in 2 .. b : \E j \in Patterns[a] : First(a, j) /\ b - a \in DOMAIN LPatterns[j].patch
  <2>1. PICK a \in Begins : \E j \in Patterns[a] : Wrote(code, b, a, j)
    BY <1>2, <1>5 DEF Walk
  <2>2. PICK j \in Patterns[a] : Wrote(code, b, a, j)
    BY <2>1
  <2>3. b - a \in DOMAIN LPatterns[j].patch /\ ~Marked(a, j)
    BY <1>1, <1>3, <2>2 DEF Wrote
  <2>4. a \in 2 .. b
    <3>1. b \in a .. End(a) /\ a \in 2 .. Len(text) /\ End(a) \in a .. Len(text)
      BY <2>2, WrittenIn, BeginIs
    <3> QED BY <3>1, Frame
  <2> QED BY <1>3, <2>3, <2>4
<1> HIDE DEF First
<1>6. Patterns = Known_(LPatterns) /\ Begins = Starts(LPatterns, Known_(LPatterns))
  BY <1>1 DEF Patterns, Begins
<1> QED BY <1>4, <1>5, <1>6 DEF LoaderRight, First

LEMMA FunctionsEndRight ==
  ASSUME ScanTypes, Walking, Inert, Walk(code, place, seen), place > Len(text), phase = "functions"
  PROVE  FunctionsRight
<1> DEFINE First(a, j) == FPatterns[j].group = 0 \/ ~Later(FPatterns, Patterns, Begins, a, j)
           Pad(a) == \E b \in Begins : b < a /\ \E i \in Patterns[b] : FPatterns[i].kind = "pad"
<1>1. Table = FPatterns
  BY DEF Table
<1>2. Been(place) = Begins
  BY AllBeen
<1>3. ASSUME NEW a \in Begins, NEW j \in Patterns[a]
      PROVE  /\ a \in 2 .. Len(text) /\ a \in DOMAIN text /\ j \in DOMAIN Table
             /\ First(a, j) <=> ~Marked(a, j)
  <2>1. a \in 2 .. Len(text) /\ a \in DOMAIN text
    BY BeginIs
  <2>2. j \in DOMAIN Table
    BY <2>1, PatternsAre
  <2>3. ASSUME NEW b \in Begins, NEW i \in Patterns[b]
        PROVE  j \in Marks(i) <=> FPatterns[j].group # 0 /\ Kin(FPatterns, i, j)
    <3>1. b \in DOMAIN text /\ i \in DOMAIN Table
      BY BeginIs, PatternsAre
    <3> QED BY <1>1, <2>2, <3>1 DEF Kin, Marks, SameGroup
  <2>4. First(a, j) <=> ~Marked(a, j)
    BY <2>3 DEF Later, Marked
  <2> QED BY <2>1, <2>2, <2>4
<1>4. \A a : Pad(a) <=> PadBefore(a)
  BY <1>1 DEF PadBefore, IsPad
<1>5. \A j : Ap(j) <=> Applies(FPatterns[j])
  BY <1>1 DEF Ap
<1>6. ASSUME NEW a \in Begins, NEW j \in Patterns[a], First(a, j)
      PROVE  IF FPatterns[j].kind = "pad" THEN Is(code, End(a), "b")
             ELSE Applies(FPatterns[j]) /\ (FPatterns[j].group # 0 => ~Pad(a)) => Patched(a, FPatterns[j])
  <2>1. ~Marked(a, j)
    BY <1>3, <1>6
  <2>2. Done(code, a, j)
    BY <1>2, <2>1 DEF Walk
  <2>3. PatchedIn(code, a, j) <=> Patched(a, FPatterns[j])
    BY <1>1 DEF Patched, PatchedIn
  <2>4. IsPad(j) <=> FPatterns[j].kind = "pad"
    BY <1>1 DEF IsPad
  <2> HIDE DEF First, Pad
  <2> QED BY <1>1, <1>4, <1>5, <2>2, <2>3, <2>4 DEF Done
<1>7. ASSUME NEW b \in DOMAIN text, code[b] # text[b]
      PROVE  \E a \in 2 .. b : \E j \in Patterns[a] :
               IF FPatterns[j].kind = "pad" THEN b = End(a)
               ELSE b - a \in DOMAIN FPatterns[j].patch /\ Applies(FPatterns[j]) /\ First(a, j)
  <2>1. PICK a \in Begins : \E j \in Patterns[a] : Wrote(code, b, a, j)
    BY <1>2, <1>7 DEF Walk
  <2>2. PICK j \in Patterns[a] : Wrote(code, b, a, j)
    BY <2>1
  <2>3. IF FPatterns[j].kind = "pad" THEN b = End(a)
        ELSE b - a \in DOMAIN FPatterns[j].patch /\ Applies(FPatterns[j]) /\ First(a, j)
    <3>1. First(a, j) <=> ~Marked(a, j)
      BY <1>3
    <3> HIDE DEF First
    <3> QED BY <1>1, <1>5, <2>2, <3>1 DEF Wrote, IsPad
  <2>4. a \in 2 .. b
    <3>1. b \in a .. End(a) /\ a \in 2 .. Len(text) /\ End(a) \in a .. Len(text)
      BY <2>2, WrittenIn, BeginIs
    <3> QED BY <3>1, Frame
  <2> HIDE DEF First
  <2> QED BY <2>3, <2>4
<1>8. Patterns = Known_(FPatterns) /\ Begins = Starts(FPatterns, Known_(FPatterns))
  BY <1>1 DEF Patterns, Begins
<1> HIDE DEF First, Pad
<1> QED BY <1>6, <1>7, <1>8 DEF FunctionsRight, First, Pad, End

(* What is said of a program stays as long as the program does.            *)
LEMMA SameProgram ==
  ASSUME UNCHANGED <<text, phase, cheats, title>>
  PROVE  /\ Table' = Table /\ Begins' = Begins /\ (Inert' <=> Inert)
         /\ Walk(code, place, seen)' <=> Walk(code', place', seen')
<1>1. Table' = Table
  BY DEF Table
<1>2. Patterns' = Patterns
  BY <1>1 DEF Patterns, Known_
<1>3. Begins' = Begins
  BY <1>1, <1>2 DEF Begins, Starts
<1>4. Others' = Others
  BY <1>1, <1>2 DEF Others, Hooks
<1>5. Inert' <=> Inert
  BY <1>1, <1>2, <1>3 DEF Inert, IsPad
<1>6. Walk(code, place, seen)' <=> Walk(code', place', seen')
  BY <1>1, <1>2, <1>3, <1>4 DEF Walk, Odd, Been, Marked, Done, Wrote, PatchedIn, PadBefore, IsPad, End, Ap,
     Applies, Marks, SameGroup
<1> QED BY <1>1, <1>3, <1>5, <1>6

-----------------------------------------------------------------------------
(* The program that is searched is as its search takes it for granted.     *)
Plain == (phase = "hits" => Searchable(text)) /\ (Walking => Inert)

(* The invariant of the searches.                                          *)
SearchInv ==
  /\ ScanTypes
  /\ phase = "hits" /\ Searchable(text) => HitsInv
  /\ Walking /\ Inert => Walk(code, place, seen)

LEMMA HitsBegun == ScanTypes /\ place = 1 /\ hits = {} /\ code = text => HitsInv
  BY HitsBegin

LEMMA SearchInvInit == ScanInit => SearchInv
<1> SUFFICES ASSUME ScanInit PROVE SearchInv
  OBVIOUS
<1>1. ScanTypes
  BY ScanTypesInit
<1>2. code = text /\ place = 1 /\ seen = {} /\ hits = {}
  BY DEF ScanInit
<1> QED BY <1>1, <1>2, HitsBegun, WalkBegin DEF SearchInv

LEMMA SearchInvNext == SearchInv /\ [ScanNext]_scan => SearchInv'
<1> SUFFICES ASSUME SearchInv, [ScanNext]_scan PROVE SearchInv'
  OBVIOUS
<1>1. ScanTypes'
  BY ScanTypesNext DEF SearchInv
<1>2. ScanTypes' /\ (place = 1)' /\ (hits = {})' /\ (code = text)' => HitsInv'
  BY HitsBegun, PTL
<1>3. ScanTypes' /\ Walking' /\ (code = text)' /\ (place = 1)' /\ (seen = {})' => Walk(code, place, seen)'
  BY WalkBegin, PTL
<1>4. CASE UNCHANGED scan
  <2>1. UNCHANGED <<code, text, phase, place, seen, started, hits, cheats, title>>
    BY <1>4 DEF scan
  <2>2. HitsInv => HitsInv'
    BY <2>1 DEF HitsInv, HitChange, SingleInv, LowReadInv, LoadsDrive, FunctionOf, Slept, Wanted
  <2>3. Walking /\ Inert => Walk(code, place, seen)'
    BY <2>1, SameProgram DEF SearchInv
  <2> QED BY <1>1, <2>1, <2>2, <2>3, SameProgram DEF SearchInv, Walking
<1>5. CASE DoCardPatches
  <2>1. CASE CardsEnd
    BY <1>1, <1>2, <2>1 DEF CardsEnd, Begin, SearchInv, ScanTypes, Walking
  <2>2. CASE phase' = "cards"
    BY <1>1, <2>2 DEF SearchInv, Walking
  <2> QED BY <1>5, <2>1, <2>2 DEF DoCardPatches, CardFound, NoCard, More
<1>6. CASE DoHits
  <2>1. CASE HitsEnd
    BY <1>1, <1>3, <2>1 DEF HitsEnd, Begin, SearchInv, Walking
  <2>2. CASE phase' = "hits"
    <3>1. phase = "hits" /\ text' = text
      BY <1>6, <2>2 DEF DoHits, SingleHit, SleepHit, LowReadHit, LowReadFalse, NoHit, HitsEnd, More, Hit, Begin
    <3>2. Searchable(text) => HitsInv'
      BY <1>6, <2>2, <3>1, HitsKeep DEF SearchInv
    <3> QED BY <1>1, <2>2, <3>1, <3>2 DEF SearchInv, Walking
  <2> QED BY <1>6, <2>1, <2>2 DEF DoHits, SingleHit, SleepHit, LowReadHit, LowReadFalse, NoHit, More, Hit
<1>7. CASE DoFunctions \/ DoPatchesLoader
  <2>1. Walking /\ UNCHANGED <<text, phase, cheats, title>> /\ place <= Len(text)
        /\ (DoFunctions => phase = "functions") /\ (DoPatchesLoader => phase = "loader")
    BY <1>7 DEF DoFunctions, DoPatchesLoader, FunctionFound, PadFound, NoFunction, LoaderFound, NotInLoader,
       More, Walking, SearchInv, ScanTypes
  <2> SUFFICES ASSUME Inert PROVE Walk(code', place', seen')
    BY <1>1, <2>1, SameProgram DEF SearchInv, Walking
  <2> DEFINE q == place + (IF Is(code, place, "blr") THEN 2 ELSE 1)
  <2>2. ScanTypes /\ Walk(code, place, seen)
    BY <2>1 DEF SearchInv
  <2>3. place' = q
    BY <1>7 DEF DoFunctions, DoPatchesLoader, FunctionFound, PadFound, NoFunction, LoaderFound, NotInLoader,
       Onward
  <2> HIDE DEF q
  <2>4. CASE DoFunctions
    <3>1. Table = FPatterns /\ phase = "functions"
      BY <2>1, <2>4 DEF Table
    <3>2. ASSUME NEW j \in DOMAIN FPatterns, FunctionFound(j) PROVE Walk(code', place', seen')
      <4>1. j \in Behind(Table) /\ ~IsPad(j) /\ seen' = seen \cup Marks(j)
            /\ code' = IF Ap(j) THEN Patch(code, place + 1, Table[j].patch) ELSE code
        BY <3>1, <3>2 DEF FunctionFound, IsPad, Marks, Ap
      <4> QED BY <2>1, <2>2, <2>3, <4>1, Replaced DEF q
    <3>3. ASSUME NEW j \in DOMAIN FPatterns, PadFound(j) PROVE Walk(code', place', seen')
      <4>1. j \in Behind(Table) /\ IsPad(j) /\ code' = Hooked(code, place + 1)
        BY <3>1, <3>3 DEF PadFound, IsPad
      <4>2. PICK g \in {{}} \cup {SameGroup(FPatterns, k) : k \in DOMAIN FPatterns} : seen' = seen \cup g
        BY <3>3 DEF PadFound
      <4>3. g = {} \/ \E k \in DOMAIN Table : g = SameGroup(Table, k)
        BY <3>1
      <4> QED BY <2>1, <2>2, <2>3, <4>1, <4>2, <4>3, PadHooked DEF q
    <3>4. CASE NoFunction
      <4>1. Behind(Table) = {} /\ UNCHANGED <<code, seen>>
        BY <3>1, <3>4 DEF NoFunction
      <4> QED BY <2>1, <2>2, <2>3, <4>1, NoneFound DEF q
    <3> QED BY <2>4, <3>2, <3>3, <3>4 DEF DoFunctions
  <2>5. CASE DoPatchesLoader
    <3>1. Table = LPatterns /\ phase = "loader"
      BY <2>1, <2>5 DEF Table
    <3>2. ASSUME NEW j \in DOMAIN LPatterns, LoaderFound(j) PROVE Walk(code', place', seen')
      <4>1. j \in Behind(Table) /\ j \in DOMAIN Table
        BY <3>1, <3>2 DEF LoaderFound
      <4>2. ~IsPad(j) /\ Ap(j)
        BY <2>1, <3>1, <4>1, TableIs DEF Ap
      <4>3. seen' = seen \cup Marks(j)
            /\ code' = IF Ap(j) THEN Patch(code, place + 1, Table[j].patch) ELSE code
        BY <3>1, <3>2, <4>2 DEF LoaderFound, Marks
      <4> QED BY <2>1, <2>2, <2>3, <4>1, <4>2, <4>3, Replaced DEF q
    <3>3. CASE NotInLoader
      <4>1. Behind(Table) = {} /\ UNCHANGED <<code, seen>>
        BY <3>1, <3>3 DEF NotInLoader
      <4> QED BY <2>1, <2>2, <2>3, <4>1, NoneFound DEF q
    <3> QED BY <2>5, <3>2, <3>3 DEF DoPatchesLoader
  <2> QED BY <1>7, <2>4, <2>5
<1>8. CASE ScanEnd
  BY <1>1, <1>8 DEF ScanEnd, SearchInv, Walking
<1> QED BY <1>4, <1>5, <1>6, <1>7, <1>8 DEF ScanNext

LEMMA SearchInvRight == SearchInv => (phase # "cards" /\ Plain => SearchesAreRight)
<1> SUFFICES ASSUME SearchInv, phase # "cards", Plain PROVE SearchesAreRight
  OBVIOUS
<1>1. ScanTypes /\ Len(code) = Len(text)
  BY DEF SearchInv, ScanTypes
<1>2. Ended("hits") => HitsRight
  BY <1>1, HitsEndRight DEF SearchInv, Plain, Ended
<1>3. Ended("functions") => FunctionsRight
  BY <1>1, FunctionsEndRight DEF SearchInv, Plain, Ended, Walking
<1>4. Ended("loader") => LoaderRight
  BY <1>1, LoaderEndRight DEF SearchInv, Plain, Ended, Walking
<1> QED BY <1>2, <1>3, <1>4 DEF SearchesAreRight, Ended

(* The searches for single instructions, for functions and for those of a  *)
(* loader do what is meant by them (Patches.c:544, 638, 881): what they    *)
(* look for is replaced, the first of a group only, and the two for        *)
(* functions write nothing else.  The search for the memory-card functions *)
(* is over, or was not made.                                               *)
THEOREM SearchesFindTheirs == ScanSpec => [](phase # "cards" /\ Plain => SearchesAreRight)
  BY SearchInvInit, SearchInvNext, SearchInvRight, PTL DEF ScanSpec
=============================================================================
