------------------------------ MODULE PatchScan ------------------------------
(***************************************************************************)
(* How the patcher finds what it replaces (DML/Patches.c).  A function is  *)
(* known by its print: its length and how many instructions of some kinds  *)
(* it has.  DoPatches goes over a program up to three times: for the       *)
(* memory-card functions (DoCardPatches), for single instructions of the   *)
(* DVD and interrupt code, and for functions; DoPatchesLoader goes once    *)
(* over the disc's own loader.  Each search writes to the code that it,    *)
(* and the next one, goes on to read.                                      *)
(*                                                                         *)
(* The places of a program are its words, 1 the first.  An instruction is  *)
(* [k, n]: its kind and, for a branch, the place it goes to.               *)
(***************************************************************************)
EXTENDS Integers, Sequences, FiniteSets, FiniteSetsExt, TLC

CONSTANTS
  Texts,         \* programs, as sequences of instructions
  Setups,        \* values of cheats and title
  LoaderTexts,   \* loaders
  CPatterns,     \* the tables: sequences of [print, kind, group, patch]
  FPatterns,
  LPatterns,
  GetResultCode, \* what replaces CARDGetResultCode
  Above          \* how far it lies above CARDFreeBlocks, 0x30

Ins(k) == [k |-> k, n |-> 0]
At(m, a) == IF a \in DOMAIN m THEN m[a] ELSE Ins("op")
Is(m, a, k) == At(m, a).k = k

(* The print of what begins at a and ends with a blr.                      *)
MPattern(m, a) ==
  LET blrs   == {n \in 0 .. Len(m) - 1 : Is(m, a + n, "blr")}
      length == Min(blrs \cup {Len(m)})
      Count(ks) == Cardinality({n \in 0 .. length - 1 : At(m, a + n).k \in ks})
  IN  [Length |-> length, FCalls |-> Count({"bl"}), Moves |-> Count({"mflr"}),
       Loads |-> Count({"lis", "lisA8", "lisCC", "lisC0"})]

(* A patch says what is written at which distance from the function's      *)
(* start; no two patterns of a table have the same print, and the members  *)
(* of a group, which is not 0, are variants of one function.               *)
IsTable(t) ==
  /\ \A i, j \in DOMAIN t : t[i].print = t[j].print => i = j
  /\ \A i \in DOMAIN t : t[i].group \in Nat /\ DOMAIN t[i].patch \subseteq Nat

(* The patches are shorter than the functions, but for that of CARDClose.  *)
IsShorter(t) == \A i \in DOMAIN t : \A o \in DOMAIN t[i].patch : o + 1 < t[i].print.Length

(* The variants of PADRead are a group of their own.                       *)
HasOwnPads(t) ==
  \A i, j \in DOMAIN t : t[i].kind = "pad" /\ t[i].group # 0 /\ t[j].group = t[i].group => t[j].kind = "pad"

(* memcpy( ptr + a, Patch, PatchLength )                                   *)
Patch(m, a, patch) == [b \in DOMAIN m |-> IF b - a \in DOMAIN patch THEN patch[b - a] ELSE m[b]]

ASSUME ScanAssumption ==
  /\ IsTable(CPatterns) /\ IsTable(FPatterns) /\ IsTable(LPatterns)
  /\ IsShorter(FPatterns) /\ IsShorter(LPatterns)
  /\ HasOwnPads(FPatterns) /\ \A i \in DOMAIN LPatterns : LPatterns[i].kind # "pad"
  /\ Above \in Nat
  /\ \A m \in Texts \cup LoaderTexts :
       /\ m \in Seq({m[a] : a \in DOMAIN m}) /\ Len(m) > 0
       /\ Is(m, 1, "mflr") /\ Is(m, Len(m), "blr")

VARIABLES
  code,    \* the program in memory
  text,    \* history: as it was when this search began
  phase,   \* the search: "cards", "hits", "functions", "loader" or "done"
  place,   \* where it is
  seen,    \* the patterns of its table whose Found is set
  started, \* FoundCardFuncStart
  hits,    \* PatchCount: the kinds that were patched
  cheats,  \* DML_CFG_CHEATS
  title    \* "darkness" (Eternal Darkness), "zelda" (Wind Waker) or another

scan == <<code, text, phase, place, seen, started, hits, cheats, title>>

Single == {"OSDispatchInterrupt", "SetInterruptMask", "DVDInterruptHandler", "cbForStateBusy"}
Wanted == Single \cup {"DVDLowRead"} \cup (IF cheats THEN {"OSSleepThread"} ELSE {})

(* With DML_CFG_NMM DoPatches begins with the memory card.                 *)
ScanInit ==
  /\ \/ code \in Texts /\ phase \in {"cards", "hits"}
     \/ code \in LoaderTexts /\ phase = "loader"
  /\ text = code /\ place = 1 /\ seen = {} /\ started = FALSE /\ hits = {}
  /\ \E s \in Setups : cheats = s.cheats /\ title = s.title
-----------------------------------------------------------------------------
More(p) == phase = p /\ place <= Len(code)

(* The next search of the same program, with a table of its own.           *)
Begin(p) ==
  /\ phase' = p /\ text' = code' /\ place' = 1 /\ seen' = {}
  /\ UNCHANGED <<started, hits, cheats, title>>

SameGroup(t, j) == {k \in DOMAIN t : t[j].group # 0 /\ t[k].group = t[j].group}
Matches(t, a) == {j \in DOMAIN t : t[j].print = MPattern(code, a)}

(* DoCardPatches: from the first CARDFreeBlocks on.                        *)
IsCard(j) == j \notin seen /\ (started \/ CPatterns[j].kind = "FreeBlocks")

Cards == IF Is(code, place, "mflr") THEN {j \in Matches(CPatterns, place) : IsCard(j)} ELSE {}

WithResultCode(m, j) ==
  IF CPatterns[j].kind = "FreeBlocks" /\ Is(m, place - Above, "cmpwi")
  THEN Patch(m, place - Above, GetResultCode) ELSE m

(* The first call of the function at a, before the third blr.              *)
CallsOf(m, a) ==
  {b \in a .. Len(m) : m[b] = [k |-> "bl", n |-> a]
                       /\ Cardinality({c \in a .. b - 1 : Is(m, c, "blr")}) < 3}

(* The function with this call is the synchronous one: it becomes          *)
(* li rX, 0 for the callback and a branch.                                 *)
Redirected(m, a) ==
  LET start == Max({c \in 1 .. Min(CallsOf(m, a)) : Is(m, c, "mflr")})
  IN  IF CallsOf(m, a) # {} /\ Is(m, start + 1, "lis")
      THEN Patch(m, start, 0 :> Ins("li") @@ 1 :> [k |-> "b", n |-> a]) ELSE m

(* If no CARDProbe was found before CARDRead, none will be.                *)
Known(j) ==
  {j} \cup SameGroup(CPatterns, j)
      \cup (IF CPatterns[j].kind = "Read" THEN {k \in DOMAIN CPatterns : CPatterns[k].kind = "Probe"}
            ELSE {})

CardFound(j) ==
  /\ More("cards") /\ j \in Cards
  /\ LET m == WithResultCode(code, j)
         n == IF CPatterns[j].kind \in {"Async", "Read"} THEN Redirected(m, place) ELSE m
     IN  code' = Patch(n, place, CPatterns[j].patch)
  /\ seen' = seen \cup Known(j)
  /\ started' = TRUE
  /\ place' = place + 1
  /\ UNCHANGED <<text, phase, hits, cheats, title>>

NoCard ==
  /\ More("cards") /\ Cards = {}
  /\ place' = place + 1
  /\ UNCHANGED <<code, text, phase, seen, started, hits, cheats, title>>

CardsEnd ==
  /\ phase = "cards" /\ place > Len(code)
  /\ UNCHANGED code /\ Begin("hits")

(* The first blr or k from b on.                                           *)
Stop(m, b, k) == Min({c \in b .. Len(m) : m[c].k \in {"blr", k}})

(* DVDLowRead, by the address of the drive it loads: both halves of it are *)
(* in the same function as the command at a, if that is the right one.     *)
LowRead(m, a) ==
  LET start == Max({c \in 1 .. a : Is(m, c, "mflr")})
      high  == Stop(m, start, "lisCC")
      half  == [m EXCEPT ![high] = Ins("lisC0")]
      low   == Stop(half, high, "addi60")
  IN  IF Is(m, high, "blr") THEN [m |-> m, hit |-> FALSE]
      ELSE IF Is(half, low, "blr") THEN [m |-> half, hit |-> FALSE]
      ELSE [m |-> [half EXCEPT ![low] = Ins("addi2F"), ![a] = Ins("lis")], hit |-> TRUE]

(* The cheat handler is entered from the end of OSSleepThread.             *)
Hooked(m, a) == [m EXCEPT ![Stop(m, a, "blr")] = Ins("b")]

(* Variant for a run: a kind is patched wherever it is.                    *)
Hits_All(a) == Wanted

(* The kinds that are looked for at place a: a kind is patched once.       *)
Hits(a) == Wanted \ hits

Hit(k, m) ==
  /\ code' = m
  /\ hits' = hits \cup {k}
  /\ place' = IF hits' = Wanted THEN Len(code) + 1 ELSE place + 1
  /\ UNCHANGED <<text, phase, seen, started, cheats, title>>

SingleHit ==
  /\ More("hits")
  /\ \E k \in Single \cap Hits(place) :
       Is(code, place, k) /\ Hit(k, [code EXCEPT ![place] = Ins("op")])

SleepHit ==
  /\ More("hits") /\ "OSSleepThread" \in Hits(place) /\ Is(code, place, "OSSleepThread")
  /\ Hit("OSSleepThread", Hooked(code, place))

LowReadHit ==
  /\ More("hits") /\ "DVDLowRead" \in Hits(place) /\ Is(code, place, "lisA8")
  /\ LowRead(code, place).hit
  /\ Hit("DVDLowRead", LowRead(code, place).m)

(* The code may have changed even so.                                      *)
LowReadFalse ==
  /\ More("hits") /\ "DVDLowRead" \in Hits(place) /\ Is(code, place, "lisA8")
  /\ ~LowRead(code, place).hit
  /\ code' = LowRead(code, place).m
  /\ place' = place + 1
  /\ UNCHANGED <<text, phase, seen, started, hits, cheats, title>>

NoHit ==
  /\ More("hits")
  /\ code[place].k \notin Hits(place)
  /\ ~("DVDLowRead" \in Hits(place) /\ Is(code, place, "lisA8"))
  /\ place' = place + 1
  /\ UNCHANGED <<code, text, phase, seen, started, hits, cheats, title>>

HitsEnd ==
  /\ phase = "hits" /\ place > Len(code)
  /\ UNCHANGED code /\ Begin("functions")

(* Functions are looked for behind a blr.                                  *)
Behind(t) == IF Is(code, place, "blr") THEN Matches(t, place + 1) \ seen ELSE {}

(* Behind a blr the next word is passed over as well.                      *)
Onward == place' = place + (IF Is(code, place, "blr") THEN 2 ELSE 1)

(* The patches that only some games get, and the cheats' own fwrite.       *)
Applies(p) ==
  /\ p.kind = "audio" => title # "darkness"
  /\ p.kind = "vat" => title = "zelda"
  /\ p.kind = "fwrite" => ~cheats

(* Found is set by way of a group only.                                    *)
FunctionFound(j) ==
  /\ More("functions") /\ j \in Behind(FPatterns) /\ FPatterns[j].kind # "pad"
  /\ code' = IF Applies(FPatterns[j]) THEN Patch(code, place + 1, FPatterns[j].patch) ELSE code
  /\ seen' = seen \cup SameGroup(FPatterns, j)
  /\ Onward
  /\ UNCHANGED <<text, phase, started, hits, cheats, title>>

(* PADRead is hooked at its end.  j, which was the pattern's number, is    *)
(* then the distance of that end: the group is what lies there in memory.  *)
PadFound(j) ==
  /\ More("functions") /\ j \in Behind(FPatterns) /\ FPatterns[j].kind = "pad"
  /\ code' = Hooked(code, place + 1)
  /\ \E g \in {{}} \cup {SameGroup(FPatterns, k) : k \in DOMAIN FPatterns} : seen' = seen \cup g
  /\ Onward
  /\ UNCHANGED <<text, phase, started, hits, cheats, title>>

NoFunction ==
  /\ More("functions") /\ Behind(FPatterns) = {}
  /\ Onward
  /\ UNCHANGED <<code, text, phase, seen, started, hits, cheats, title>>

(* DoPatchesLoader: here Found is set for each that is found.              *)
LoaderFound(j) ==
  /\ More("loader") /\ j \in Behind(LPatterns)
  /\ code' = Patch(code, place + 1, LPatterns[j].patch)
  /\ seen' = seen \cup {j} \cup SameGroup(LPatterns, j)
  /\ Onward
  /\ UNCHANGED <<text, phase, started, hits, cheats, title>>

NotInLoader ==
  /\ More("loader") /\ Behind(LPatterns) = {}
  /\ Onward
  /\ UNCHANGED <<code, text, phase, seen, started, hits, cheats, title>>

ScanEnd ==
  /\ phase \in {"functions", "loader"} /\ place > Len(code)
  /\ phase' = "done"
  /\ UNCHANGED <<code, text, place, seen, started, hits, cheats, title>>

DoCardPatches   == (\E j \in DOMAIN CPatterns : CardFound(j)) \/ NoCard \/ CardsEnd
DoHits          == SingleHit \/ SleepHit \/ LowReadHit \/ LowReadFalse \/ NoHit \/ HitsEnd
DoFunctions     == (\E j \in DOMAIN FPatterns : FunctionFound(j) \/ PadFound(j)) \/ NoFunction
DoPatchesLoader == (\E j \in DOMAIN LPatterns : LoaderFound(j)) \/ NotInLoader

ScanNext == DoCardPatches \/ DoHits \/ DoFunctions \/ DoPatchesLoader \/ ScanEnd
ScanSpec == ScanInit /\ [][ScanNext]_scan
-----------------------------------------------------------------------------
(* What each search should have done to the text it began with.            *)
Ended(p) == phase = p /\ place > Len(code)

Known_(t) == [a \in DOMAIN text |-> {j \in DOMAIN t : t[j].print = MPattern(text, a)}]
Kin(t, i, j) == i = j \/ (t[i].group # 0 /\ t[i].group = t[j].group)
Patched(a, p) == \A o \in DOMAIN p.patch : a + o \in DOMAIN code => code[a + o] = p.patch[o]

(* Functions behind an odd number of blr: behind an empty function the     *)
(* search finds nothing (Patches.c:886), and nothing behind PADRead, whose *)
(* blr it has replaced (Patches.c:949).  is says which patterns match.     *)
Starts(t, is) ==
  LET hooked == {a + MPattern(text, a).Length : a \in {b \in DOMAIN text : \E j \in is[b] : t[j].kind = "pad"}}
      others == {b \in 0 .. Len(text) : ~Is(text, b, "blr") \/ b \in hooked}
  IN  {a \in 2 .. Len(text) : (a - 1 - Max(others \cap 0 .. a - 1)) % 2 = 1}

(* Function a with pattern j is not the first of its group.                *)
Later(t, is, starts, a, j) == \E b \in starts : b < a /\ \E i \in is[b] : Kin(t, i, j)

LoaderRight ==
  LET t == LPatterns
      is == Known_(t)
      starts == Starts(t, is)
      First(a, j) == j \in is[a] /\ ~Later(t, is, starts, a, j)
  IN  /\ \A a \in starts : \A j \in is[a] : First(a, j) => Patched(a, t[j])
      /\ \A b \in DOMAIN text : code[b] # text[b] =>
           \E a \in 2 .. b : \E j \in is[a] : First(a, j) /\ b - a \in DOMAIN t[j].patch

(* Behind a PADRead any group may count as found.                          *)
FunctionsRight ==
  LET t == FPatterns
      is == Known_(t)
      starts == Starts(t, is)
      First(a, j) == t[j].group = 0 \/ ~Later(t, is, starts, a, j)
      Pad(a) == \E b \in starts : b < a /\ \E i \in is[b] : t[i].kind = "pad"
      End(a) == a + MPattern(text, a).Length
  IN  /\ \A a \in starts : \A j \in is[a] : First(a, j) =>
           IF t[j].kind = "pad" THEN Is(code, End(a), "b")
           ELSE Applies(t[j]) /\ (t[j].group # 0 => ~Pad(a)) => Patched(a, t[j])
      /\ \A b \in DOMAIN text : code[b] # text[b] =>
           \E a \in 2 .. b : \E j \in is[a] :
             IF t[j].kind = "pad" THEN b = End(a)
             ELSE b - a \in DOMAIN t[j].patch /\ Applies(t[j]) /\ First(a, j)

(* From CARDFreeBlocks on, the first of each kind and group.  A function   *)
(* that calls one with a callback goes there with none.  The stub of       *)
(* CARDClose is longer than the function (Patches.c:143): it destroys what *)
(* begins behind it.                                                       *)
CardsRight ==
  LET t == CPatterns
      is == Known_(t)
      all == {a \in DOMAIN text : Is(text, a, "mflr")}
      free == {a \in all : \E j \in is[a] : t[j].kind = "FreeBlocks"}
      heads == {a \in all : \E f \in free : f <= a}
      Over(i, j) == Kin(t, i, j) \/ (t[i].kind = "Read" /\ t[j].kind = "Probe")
      Due(a, j) == j \in is[a] /\ ~\E b \in heads : b < a /\ \E i \in is[b] : Over(i, j)
      Reached(a) == \E b \in heads : b < a /\ \E j \in is[b] : Due(b, j) /\ a - b \in DOMAIN t[j].patch
      Calls_(s, a) == \E b \in DOMAIN text : /\ s < b /\ text[b] = [k |-> "bl", n |-> a]
                                            /\ \A h \in all : h <= s \/ h > b
  IN  \A a \in heads : \A j \in is[a] : Due(a, j) /\ ~Reached(a) =>
        /\ Patched(a, t[j])
        /\ t[j].kind \in {"Async", "Read"} =>
             \A s \in all : s > a /\ Calls_(s, a) /\ Is(text, s + 1, "lis") =>
               code[s] = Ins("li") /\ code[s + 1] = [k |-> "b", n |-> a]

(* Of each kind the first, and of the commands to the drive the first in a *)
(* function that loads the drive's address.  A function with one half of   *)
(* that address only may lose it (Patches.c:656).                          *)
HitsRight ==
  LET All(k) == {a \in DOMAIN text : Is(text, a, k)}
      Function(a) == {b \in DOMAIN text : \A c \in (a .. b) \cup (b .. a) : ~Is(text, c, "blr")}
      Loads(a) == \E s, c, d \in Function(a) :
                    /\ s < a /\ s < c /\ c < d
                    /\ Is(text, s, "mflr") /\ Is(text, c, "lisCC") /\ Is(text, d, "addi60")
      Commands == {a \in All("lisA8") : Loads(a)}
      Changed(as) == {a \in as : code[a] # text[a]}
      TheFirst(as) == IF as = {} THEN {} ELSE {Min(as)}
  IN  /\ \A k \in Single : Changed(All(k)) = TheFirst(All(k))
      /\ Changed(All("lisA8")) = TheFirst(Commands)
      /\ Changed(All("addi60")) \subseteq UNION {Function(a) : a \in TheFirst(Commands)}

(* Each search does to a program what is meant by it, whatever stands in   *)
(* front of and behind the functions: what it looks for is replaced, once  *)
(* for a group of variants (Patches.c:425, 571, 981), with the callers of  *)
(* a function with a callback led to it (Patches.c:458), and nothing else  *)
(* is written by the searches for functions.                               *)
SearchesAreRight ==
  /\ Ended("cards") => CardsRight
  /\ Ended("hits") => HitsRight
  /\ Ended("functions") => FunctionsRight
  /\ Ended("loader") => LoaderRight
=============================================================================
