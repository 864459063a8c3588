------------------------------- MODULE MCBoot -------------------------------
(* The loader of DML from the power button on: Boot, and, beside it, the   *)
(* patcher, with the executables of MCDolPatch, with branches in words of  *)
(* 9 bits that have a field of 6, and with programs of four functions that *)
(* are searched.  The games of Boot are an American and a European one,    *)
(* one of them in the menu's table.                                        *)
EXTENDS Boot, MCDolPatch, Branch, PatchScan, TLC
CONSTANTS usa, eur

MCGames  == {usa, eur}
MCRegion == (usa :> 1) @@ (eur :> 2)

Config(v, forced, path, nodisc) ==
  [video |-> v, forced |-> forced, path |-> path, nodisc |-> nodisc]

MCConfigs ==
  {Config("AUTO", {}, p, n) : p \in {NoGame, Missing, usa, eur}, n \in BOOLEAN}
    \cup {Config("NONE", {}, usa, FALSE)}
    \cup {Config("FORCE", f, p, TRUE) :
            f \in {{"PAL50"}, {"PAL60", "PROG"}, {"NTSC"}, {"PROG"}}, p \in {NoGame, eur}}

(* Functions for the searches, by what is in them.                         *)
Body(n, k)      == [i \in 1 .. n |-> Ins(k)]
Func(ops, lis)  == <<Ins("mflr")>> \o Body(ops + 2, "op") \o Body(lis, "lis") \o <<Ins("blr")>>
Game(ops, lis)  == <<Ins("mflr"), [k |-> "bl", n |-> 0]>> \o Tail(Func(ops, lis))
Hit_(k)         == <<Ins("mflr")>> \o [i \in DOMAIN k |-> Ins(k[i])] \o <<Ins("blr")>>
Pattern(f, kind, group, patch) ==
  [print |-> MPattern(f, 1), kind |-> kind, group |-> group, patch |-> patch]
Stub(n)  == 0 :> [k |-> "new", n |-> n] @@ 1 :> Ins("blr")
Long(n)  == 2 :> [k |-> "new", n |-> n] @@ Stub(n)
Nops     == 1 :> Ins("nop") @@ 2 :> Ins("nop")

MCCPatterns == <<
  Pattern(Func(1, 0), "FreeBlocks", 1, Stub(1)), Pattern(Func(2, 0), "FreeBlocks", 1, Stub(2)),
  Pattern(Func(0, 1), "Probe", 2, Stub(3)),
  Pattern(Func(1, 1), "Read", 3, Stub(4)), Pattern(Func(2, 1), "Read", 3, Stub(5)),
  Pattern(Func(3, 0), "Async", 0, Stub(6)), Pattern(<<Ins("mflr"), Ins("blr")>>, "Close", 0, Long(7))>>
MCFPatterns == <<
  Pattern(Game(0, 0), "plain", 0, Stub(1)), Pattern(Game(3, 0), "audio", 0, Nops),
  Pattern(Game(1, 0), "fwrite", 1, Stub(2)), Pattern(Game(2, 0), "fwrite", 1, Stub(3)),
  Pattern(Game(0, 1), "vat", 0, Stub(4)), Pattern(Game(1, 1), "pad", 2, Stub(0))>>
MCLPatterns == <<
  Pattern(Func(1, 0), "plain", 1, Stub(1)), Pattern(Func(2, 0), "plain", 1, Stub(2)),
  Pattern(Func(3, 0), "plain", 0, Stub(3))>>

(* Programs begin with a function of no interest.  -i stands for a call of *)
(* the function i before.                                                  *)
Caller(i) == <<Ins("mflr"), Ins("lis"), Ins("op"), [k |-> "bl", n |-> -i], Ins("op"), Ins("blr")>>
Head_     == Func(5, 0)
StartOf(fs, i) == 1 + MapThenSumSet(LAMBDA j : Len(fs[j]), 1 .. i - 1)
Joined(gs) ==
  LET fs == <<Head_>> \o gs
      At_(a) == CHOOSE i \in DOMAIN fs : StartOf(fs, i) <= a /\ a < StartOf(fs, i + 1)
      Word_(a) == fs[At_(a)][a - StartOf(fs, At_(a)) + 1]
  IN  [a \in 1 .. StartOf(fs, Len(fs) + 1) - 1 |->
         IF Word_(a).n < 0 THEN [k |-> "bl", n |-> StartOf(fs, At_(a) + Word_(a).n)] ELSE Word_(a)]
Programs_(fs, n) == {Joined(gs) : gs \in [1 .. n -> fs]}

Empty_    == <<Ins("blr")>>
Result    == <<Ins("mflr"), Ins("cmpwi"), Ins("op"), Ins("blr")>>
CardFns   == {Func(1, 0), Func(2, 0), Func(0, 1), Func(1, 1), Func(2, 1), Func(3, 0),
              <<Ins("mflr"), Ins("blr")>>, Caller(1), Result}
DiscFns   == {Game(0, 0), Game(1, 0), Game(2, 0), Game(3, 0), Game(0, 1), Game(1, 1), Empty_}
HitFns    == {Hit_(<<"lisA8", "lisCC", "addi60">>), Hit_(<<"lisCC", "lisA8", "addi60">>),
              Hit_(<<"lisA8">>), Hit_(<<"lisA8", "lisCC">>), Hit_(<<"OSSleepThread">>), Game(0, 0),
              Hit_(<<"OSDispatchInterrupt", "cbForStateBusy">>),
              Hit_(<<"SetInterruptMask", "DVDInterruptHandler">>)}
LoaderFns == {Func(1, 0), Func(2, 0), Func(3, 0), Func(4, 0), Empty_}

MCTexts   == Programs_(DiscFns, 3) \cup Programs_(HitFns, 2)
               \cup {Joined(<<Func(1, 0), f, g>>) : f \in CardFns, g \in CardFns}
               \cup {Joined(<<f, Func(1, 0), g>>) : f \in CardFns, g \in CardFns}
MCLoaders == Programs_(LoaderFns, 3)
MCSetups  == [cheats : {FALSE}, title : {"zelda", "darkness"}] \cup [cheats : {TRUE}, title : {"zelda"}]
MCResult  == 0 :> [k |-> "new", n |-> 9]

(* One of them moves: the console boots, a program is loaded, a branch is  *)
(* patched in, or a program is searched.                                   *)
NoBoot   == /\ pc = "off" /\ chip = Written([mode |-> 0, pal60 |-> FALSE, prog |-> FALSE])
            /\ bootbin = NoGame /\ ~protected /\ ~torn
NoLoad   == loads = 0 /\ PatchState = 0
NoBranch == from = 0 /\ to = 0 /\ word = 0
Rest     == Joined(<<Empty_, Empty_, Empty_>>)
NoScan   == /\ phase = "loader" /\ place = 1 /\ title = "zelda" /\ cheats = FALSE
            /\ seen = {} /\ hits = {} /\ started = FALSE /\ code = Rest /\ text = Rest

MCInit ==
  \/ Init /\ DolInit /\ NoScan /\ BranchInit /\ (NoBoot \/ NoBranch)
  \/ Init /\ NoBoot /\ DolInit /\ NoBranch /\ BranchInit /\ ScanInit

Boots == NoLoad /\ NoBranch /\ NoScan /\ UNCHANGED <<dolvars, branch, scan>>

MCNext ==
  \/ Boots /\ Next
  \/ NoBoot /\ NoBranch /\ NoScan /\ DolNext /\ UNCHANGED <<vars, branch, scan>>
  \/ NoBoot /\ NoLoad /\ NoScan /\ BranchNext /\ UNCHANGED <<vars, dolvars, scan>>
  \/ NoBoot /\ NoLoad /\ NoBranch /\ ScanNext /\ UNCHANGED <<vars, dolvars, branch>>
  \/ phase = "done" /\ UNCHANGED <<vars, dolvars, branch, scan>>  \* the program runs

MCSpec ==
  /\ MCInit /\ [][MCNext]_<<vars, dolvars, branch, scan>>
  /\ WF_<<vars, dolvars, branch, scan>>(Boots /\ Main)
=============================================================================
