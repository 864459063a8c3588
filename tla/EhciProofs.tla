------------------------------ MODULE EhciProofs ------------------------------
(***************************************************************************)
(* Proofs about two parts of the EHCI build.                               *)
(*                                                                         *)
(* EhciDisc, the start of a game, for any games, any addresses that        *)
(* satisfy EhciDiscAssumption and any number of starts: the region and the *)
(* id fit the game, and the first function of each kind is patched         *)
(* whatever the order in which the game is read.  RegionInv follows the id *)
(* from DIInit on and says that a game runs only after its file table was  *)
(* read.  PatchInv adds what memory holds while the first game is read: no *)
(* functions but its own, and, once the table has come last, none that is  *)
(* the first of its kind.                                                  *)
(*                                                                         *)
(* UsbTransfer, for a buffer at any address and any length up to 65535:    *)
(* the qtds cover it, and what is returned is what was moved.  ListInv and *)
(* DataInv are the layout while the list grows, EndInv the list when it is *)
(* complete, MoveInv how far the controller has come in it, and IntInv     *)
(* whose interrupt has come.                                               *)
(***************************************************************************)
EXTENDS EhciDisc, UsbTransfer, WellFoundedInduction, TLAPS

Less == {ss \in Nat \X Nat : ss[1] < ss[2]}

(* A set of naturals has a least element.                                  *)
LEMMA LeastNat ==
  ASSUME NEW T, T \subseteq Nat, T # {}
  PROVE  \E x \in T : \A y \in T : x <= y
<1>1. IsWellFoundedOn(Less, Nat)
  BY NatLessThanWellFounded DEF OpToRel, Less
<1>2. PICK x \in T : \A y \in T : ~ (<<y, x>> \in Less)
  BY <1>1, WFMin
<1>3. ASSUME NEW y \in T PROVE x <= y
  <2>1. ~ (<<y, x>> \in Less) /\ x \in Nat /\ y \in Nat
    BY <1>2
  <2> QED BY <2>1 DEF Less
<1> QED BY <1>3

(* Min chooses it.                                                         *)
LEMMA MinOfNat ==
  ASSUME NEW S, S \subseteq Nat, S # {}
  PROVE  Min(S) \in S /\ \A y \in S : Min(S) <= y
  BY LeastNat DEF Min

(* A bounded one has a greatest, which Max chooses.                        *)
LEMMA MaxOfNat ==
  ASSUME NEW S, S \subseteq Nat, S # {}, NEW b \in Nat, \A y \in S : y <= b
  PROVE  Max(S) \in S /\ \A y \in S : Max(S) >= y
<1> DEFINE T == {b - y : y \in S}
<1>1. T \subseteq Nat
  <2>1. ASSUME NEW z \in T PROVE z \in Nat
    <3>1. PICK y \in S : z = b - y
      OBVIOUS
    <3>2. y \in Nat /\ y <= b
      OBVIOUS
    <3> QED BY <3>1, <3>2
  <2> QED BY <2>1
<1>2. T # {}
  OBVIOUS
<1>3. Min(T) \in T /\ \A z \in T : Min(T) <= z
  <2> HIDE DEF T
  <2> QED BY <1>1, <1>2, MinOfNat
<1>4. PICK m \in S : Min(T) = b - m
  BY <1>3
<1>5. ASSUME NEW y \in S PROVE m >= y
  <2>1. b - y \in T
    OBVIOUS
  <2>2. b - m <= b - y
    BY <1>3, <1>4, <2>1
  <2>3. m \in Nat /\ y \in Nat
    OBVIOUS
  <2> QED BY <2>2, <2>3
<1> QED
  BY <1>5 DEF Max
-----------------------------------------------------------------------------
(* The first function of a kind is one of them, and no other comes before. *)
LEMMA FirstOfKind ==
  ASSUME NEW S, \A x \in S : x.at \in Nat, NEW k, NEW z \in S, z.kind = k
  PROVE  /\ FirstOf(S, k) \in Nat
         /\ \E x \in S : x.kind = k /\ x.at = FirstOf(S, k)
         /\ FirstOf(S, k) <= z.at
<1> DEFINE A == {x.at : x \in {y \in S : y.kind = k}}
<1>1. A \subseteq Nat /\ z.at \in A
  OBVIOUS
<1>2. Min(A) \in A /\ \A y \in A : Min(A) <= y
  <2> HIDE DEF A
  <2> QED BY <1>1, MinOfNat
<1>3. FirstOf(S, k) = Min(A)
  BY DEF FirstOf
<1> QED
  BY <1>1, <1>2, <1>3

(* Where the code of a game is.                                            *)
LEMMA CodePlace ==
  ASSUME NEW g \in Images
  PROVE  /\ TextEnd(g) \in Nat
         /\ \A x \in g.fns : /\ x.kind \in PatchKinds /\ x = [at |-> x.at, kind |-> x.kind]
                             /\ x.at \in Nat /\ DolBase <= x.at
                             /\ x.at < TextEnd(g) /\ x.at < Loader
<1> DEFINE Used == {t \in g.text : t.at # 0}
           Tails == {s.at + s.length : s \in Used}
<1>1. IsImage(g) /\ DolBase \in Nat \ {0} /\ Loader \in Nat
  BY EhciDiscAssumption
<1>2. \A s \in Used : /\ s.at \in Nat /\ s.length \in Nat \ {0}
                      /\ DolBase <= s.at /\ s.at + s.length <= Loader
  BY <1>1 DEF IsImage
<1>3. Tails # {}
  BY <1>1 DEF IsImage
<1>4. Tails \subseteq Nat /\ \A y \in Tails : y <= Loader
  BY <1>2
<1>5. Max(Tails) \in Tails /\ \A y \in Tails : Max(Tails) >= y
  <2> HIDE DEF Tails
  <2> QED BY <1>1, <1>3, <1>4, MaxOfNat
<1>6. TextEnd(g) = Max(Tails)
  BY DEF TextEnd
<1>7. ASSUME NEW x \in g.fns
      PROVE  /\ x.kind \in PatchKinds /\ x = [at |-> x.at, kind |-> x.kind]
             /\ x.at \in Nat /\ DolBase <= x.at /\ x.at < TextEnd(g) /\ x.at < Loader
  <2>1. PICK k \in PatchKinds, s \in Used :
               \E i \in 0 .. s.length - 1 : x = [at |-> s.at + i, kind |-> k]
    BY <1>1 DEF IsImage
  <2>2. PICK i \in 0 .. s.length - 1 : x = [at |-> s.at + i, kind |-> k]
    BY <2>1
  <2>3. /\ s.at \in Nat /\ s.length \in Nat \ {0}
        /\ DolBase <= s.at /\ s.at + s.length <= Loader
    BY <1>2
  <2>4. s.at + s.length <= TextEnd(g) /\ TextEnd(g) \in Nat
    BY <1>4, <1>5, <1>6
  <2> HIDE DEF Used, Tails
  <2>5. x.at = s.at + i /\ x.kind = k
    BY <2>2
  <2> QED
    BY <1>1, <2>2, <2>3, <2>4, <2>5
<1> QED
  BY <1>4, <1>5, <1>6, <1>7

(* DoPatches over the code of a game leaves none that is first of its kind. *)
LEMMA PatchesFirst ==
  ASSUME NEW g \in Images, NEW after, after \subseteq g.fns, NEW z \in g.fns,
         z.at = FirstOf(g.fns, z.kind)
  PROVE  z \notin DoPatches(after, DolBase, TextEnd(g) - DolBase)
<1> DEFINE size == TextEnd(g) - DolBase
           seen == Within(after, DolBase, size)
           every == \A k \in PatchKinds : \E x \in seen : x.kind = k
           ends == {FirstOf(seen, k) : k \in PatchKinds}
<1>1. DolBase \in Nat /\ TextEnd(g) \in Nat /\ DolBase + size = TextEnd(g)
  BY CodePlace, EhciDiscAssumption
<1>2. \A x \in seen : x \in g.fns /\ x.at \in Nat /\ x.at < TextEnd(g)
  BY CodePlace DEF Within
<1>3. SUFFICES ASSUME z \in DoPatches(after, DolBase, size)
               PROVE  FALSE
  OBVIOUS
<1>4. z \in after
  BY <1>3 DEF DoPatches
<1>5. z \in seen
  BY <1>1, <1>4, CodePlace DEF Within
<1>6. z.at > IF every THEN Max(ends) ELSE DolBase + size
  BY <1>3, <1>5 DEF DoPatches
<1>7. CASE ~every
  BY <1>1, <1>2, <1>5, <1>6, <1>7
<1>8. CASE every
  <2>1. \A k \in PatchKinds : FirstOf(seen, k) \in Nat /\ FirstOf(seen, k) <= TextEnd(g)
    <3>1. ASSUME NEW k \in PatchKinds
          PROVE  FirstOf(seen, k) \in Nat /\ FirstOf(seen, k) <= TextEnd(g)
      <4>1. PICK x \in seen : x.kind = k
        BY <1>8
      <4>2. FirstOf(seen, k) \in Nat /\ FirstOf(seen, k) <= x.at
        <5> HIDE DEF seen
        <5> QED BY <1>2, <4>1, FirstOfKind
      <4>3. x.at \in Nat /\ x.at < TextEnd(g)
        BY <1>2
      <4> HIDE DEF seen
      <4> QED BY <1>1, <4>2, <4>3
    <3> QED BY <3>1
  <2>2. z.kind \in PatchKinds
    BY CodePlace
  <2>3. ends \subseteq Nat /\ ends # {} /\ \A y \in ends : y <= TextEnd(g)
    BY <2>1, <2>2
  <2>4. Max(ends) \in Nat /\ \A y \in ends : Max(ends) >= y
    <3> HIDE DEF ends
    <3> QED BY <1>1, <2>3, MaxOfNat
  <2>5. Max(ends) >= FirstOf(seen, z.kind)
    BY <2>2, <2>4
  <2>6. PICK x \in seen : x.kind = z.kind /\ x.at = FirstOf(seen, z.kind)
    <3> HIDE DEF seen
    <3> QED BY <1>2, <1>5, FirstOfKind
  <2>7. x \in g.fns /\ \A y \in g.fns : y.at \in Nat
    BY <1>2, CodePlace
  <2>8. z.at <= x.at
    BY <2>6, <2>7, FirstOfKind
  <2>9. z.at > Max(ends)
    BY <1>6, <1>8
  <2>10. z.at \in Nat /\ x.at \in Nat
    BY <2>7
  <2> HIDE DEF ends, seen
  <2> QED
    BY <2>4, <2>5, <2>6, <2>8, <2>9, <2>10
<1> QED
  BY <1>7, <1>8
-----------------------------------------------------------------------------
Stages == {"config", "select", "discid", "init", "patch", "run", "halt"}

RegionInv ==
  /\ main \in Stages /\ image \in Images \cup {NoImage} /\ Patch \in BOOLEAN
  /\ main \in {"discid", "init", "patch", "run"} => image \in Images
  /\ main \in {"patch", "run"} => id = image.id
  /\ program # "off" => main = "run" /\ stubs
  /\ main # "run" => ~Patch /\ program = "off"
  /\ Patch => video = IF image.pal THEN 5 ELSE 0
  /\ program = "menu" => Patch \/ image.table \in toload
  /\ program = "game" => Patch

LEMMA RegionInit == DiscInit => RegionInv
  BY DEF DiscInit, RegionInv, Stages

(* The region in memory is that of the game once the id is.                *)
LEMMA RegionOfId ==
  ASSUME NEW g \in Images
  PROVE  IsPal(g.id) <=> g.pal
<1>1. \A h \in Images : IsImage(h)
  BY EhciDiscAssumption
<1>2. \A h \in Images : h.id = g.id => h.pal = g.pal
  BY EhciDiscAssumption
<1> QED
  BY <1>1, <1>2 DEF IsPal

LEMMA RegionStep == RegionInv /\ [DiscNext]_disc => RegionInv'
<1> SUFFICES ASSUME RegionInv, [DiscNext]_disc
             PROVE  RegionInv'
  OBVIOUS
<1>1. CASE DVDReadConfig
  BY <1>1 DEF RegionInv, Stages, DVDReadConfig, ppc
<1>2. CASE DVDSelectGame
  BY <1>2 DEF RegionInv, Stages, DVDSelectGame, ppc
<1>3. CASE ReadDiscID
  BY <1>3 DEF RegionInv, Stages, ReadDiscID, ppc, game
<1>4. CASE DIInit
  BY <1>4 DEF RegionInv, Stages, DIInit, ppc, game
<1>5. CASE PatchGCIPL
  BY <1>5 DEF RegionInv, Stages, PatchGCIPL, game
<1>6. ASSUME NEW s \in toload, LoadPart(s)
      PROVE  RegionInv'
  <2>1. /\ main = "run" /\ program = "menu" /\ toload' = toload \ {s}
        /\ UNCHANGED <<main, image, id, stubs, program>>
    BY <1>6 DEF LoadPart, game
  <2>2. image \in Images /\ id = image.id /\ stubs
    BY <2>1 DEF RegionInv
  <2>3. IsPal(id) <=> image.pal
    BY <2>2, RegionOfId
  <2>4. \/ Patch' = TRUE /\ video' = IF IsPal(id) THEN 5 ELSE 0
        \/ ~(s.at > High /\ s.length # Bi2Length /\ ~Patch) /\ UNCHANGED <<video, Patch>>
    BY <1>6 DEF LoadPart, DIRead
  <2>5. image.table.at > High /\ image.table.length # Bi2Length
    BY <2>2, EhciDiscAssumption DEF IsImage
  <2>6. Patch' \in BOOLEAN /\ (Patch' => video' = IF image.pal THEN 5 ELSE 0)
    <3>1. (IF IsPal(id) THEN 5 ELSE 0) = IF image.pal THEN 5 ELSE 0
      BY <2>3
    <3>2. CASE Patch' = TRUE /\ video' = IF IsPal(id) THEN 5 ELSE 0
      BY <3>1, <3>2
    <3>3. CASE UNCHANGED <<video, Patch>>
      BY <3>3 DEF RegionInv
    <3> QED BY <2>4, <3>2, <3>3
  <2>7. Patch' \/ image.table \in toload'
    <3>1. CASE Patch
      BY <2>4, <3>1
    <3>2. CASE ~Patch /\ s = image.table
      BY <2>4, <2>5, <3>2
    <3>3. CASE ~Patch /\ s # image.table
      BY <2>1, <3>3 DEF RegionInv
    <3> QED BY <3>1, <3>2, <3>3
  <2> QED
    BY <2>1, <2>2, <2>6, <2>7 DEF RegionInv
<1>7. CASE LoadFails
  BY <1>7 DEF RegionInv, Stages, LoadFails, game
<1>8. CASE RunGame
  BY <1>8 DEF RegionInv, Stages, RunGame, game
<1>9. CASE RestartGame
  <2>1. /\ main = "run" /\ program = "game" /\ program' = "menu"
        /\ UNCHANGED <<main, image, id, stubs>>
    BY <1>9 DEF RestartGame, game
  <2>2. Patch' = TRUE /\ video' = video
    BY <1>9, <2>1 DEF RestartGame, DIRead, RegionInv
  <2> QED
    BY <2>1, <2>2 DEF RegionInv
<1>10. CASE UNCHANGED disc
  BY <1>10 DEF RegionInv, disc
<1> QED
  BY <1>1, <1>2, <1>3, <1>4, <1>5, <1>6, <1>7, <1>8, <1>9, <1>10 DEF DiscNext

(* A game finds its own id and its region's video mode, and no menu runs   *)
(* without the stubs: DIInit writes the id after the drive did, and a game *)
(* runs only once its file table was read.                                 *)
THEOREM RegionIsRight == DiscSpec => []RegionFits
<1>1. RegionInv => RegionFits
  BY DEF RegionInv, RegionFits
<1> QED
  BY <1>1, RegionInit, RegionStep, PTL DEF DiscSpec
-----------------------------------------------------------------------------
Game      == image.text \cup image.other \cup {image.table}
FirstGame == (program = "menu" /\ starts = 0) \/ (program = "game" /\ starts = 1)
Firsts(g) == {x \in g.fns : x.at = FirstOf(g.fns, x.kind)}

PatchInv ==
  /\ RegionInv
  /\ main \in {"discid", "init", "patch", "run"} => DOLSize = TextEnd(image) - DolBase
  /\ starts \in Nat /\ late \in BOOLEAN
  /\ main # "run" => raw = {} /\ toload = {} /\ starts = 0
  /\ main = "run" => toload \subseteq Game /\ raw \subseteq image.fns \cup MenuCode
  /\ program = "game" => toload = {} /\ starts > 0
  /\ program = "menu" /\ starts = 0 /\ Patch => image.table \notin toload
  /\ FirstGame => raw \subseteq image.fns
  /\ FirstGame /\ Patch /\ ~late => Firsts(image) \cap raw = {}
  /\ program = "menu" /\ starts > 0 => MenuCode \cap raw = {}

LEMMA PatchInit == DiscInit => PatchInv
<1> SUFFICES ASSUME DiscInit PROVE PatchInv
  OBVIOUS
<1>1. main = "config" /\ program = "off" /\ Patch = FALSE /\ raw = {} /\ toload = {}
  BY DEF DiscInit
<1>2. starts = 0 /\ late = FALSE
  BY DEF DiscInit
<1> QED
  BY <1>1, <1>2, RegionInit DEF PatchInv, FirstGame

(* A part of a game that is not its file table never sets off the patches. *)
LEMMA OnlyTheTable ==
  ASSUME NEW g \in Images, NEW s \in g.text \cup g.other
  PROVE  s.at > High => s.length = Bi2Length
<1>1. IsImage(g) /\ Loader \in Nat /\ High \in Nat /\ High > Loader + 2
  BY EhciDiscAssumption
<1>2. s.at \in Nat /\ s.length \in Nat
  BY <1>1 DEF IsImage
<1>3. CASE s \in g.text
  <2>1. s.at = 0 \/ s.at + s.length <= Loader
    BY <1>1, <1>3 DEF IsImage
  <2> QED BY <1>1, <1>2, <2>1
<1>4. CASE s \in g.other
  <2>1. s.at <= High \/ s.length = Bi2Length
    BY <1>1, <1>4 DEF IsImage
  <2> QED BY <1>1, <1>2, <2>1
<1> QED
  BY <1>3, <1>4

(* What a read leaves in memory was there or came with it.                 *)
LEMMA NothingNew ==
  ASSUME NEW buffer, NEW length, NEW code, DIRead(buffer, length, code)
  PROVE  raw' \subseteq raw \cup code
<1> DEFINE after == {x \in raw : x.at \notin buffer .. buffer + length - 1} \cup code
<1>1. \A p, n : DoPatches(after, p, n) \subseteq after
  BY DEF DoPatches
<1>2. after \subseteq raw \cup code
  OBVIOUS
<1>3. raw' = after \/ \E p, n : raw' = DoPatches(after, p, n)
  BY DEF DIRead
<1> HIDE DEF after
<1> QED
  BY <1>1, <1>2, <1>3

(* The code of the menu is no game's.                                      *)
LEMMA MenuApart ==
  ASSUME NEW g \in Images
  PROVE  g.fns \cap MenuCode = {}
<1>1. \A x \in g.fns : x.at \in Nat /\ x.at < Loader
  BY CodePlace
<1>2. \A x \in MenuCode : x.at > Loader
  BY EhciDiscAssumption DEF MenuCode
<1> QED
  BY <1>1, <1>2, EhciDiscAssumption
(* The menu loads a part of the game.                                      *)
LEMMA LoadStep ==
  ASSUME PatchInv, NEW s \in toload, LoadPart(s)
  PROVE  /\ raw' \subseteq image.fns \cup MenuCode
         /\ starts = 0 => /\ raw' \subseteq image.fns
                          /\ Patch' => image.table \notin toload'
                          /\ Patch' /\ ~late' => Firsts(image) \cap raw' = {}
         /\ starts > 0 => MenuCode \cap raw' = {}
<1> DEFINE code == IF s \in image.text THEN CodeIn(s) ELSE {}
           after == {x \in raw : x.at \notin s.at .. s.at + s.length - 1} \cup code
<1>1. /\ main = "run" /\ program = "menu" /\ toload' = toload \ {s}
      /\ DIRead(s.at, s.length, code)
      /\ late' = (late \/ (s \in image.text /\ image.table \notin toload))
  BY DEF LoadPart
<1>2. image \in Images /\ DOLSize = TextEnd(image) - DolBase
  BY <1>1 DEF PatchInv, RegionInv
<1>3. code \subseteq image.fns
  BY DEF CodeIn, Within
<1>4. raw' \subseteq raw \cup code
  <2> HIDE DEF code
  <2> QED BY <1>1, NothingNew
<1>5. raw \subseteq image.fns \cup MenuCode /\ toload \subseteq Game
  BY <1>1 DEF PatchInv
<1>6. image.fns \cap MenuCode = {}
  BY <1>2, MenuApart
<1>7. ASSUME starts = 0
      PROVE  /\ raw' \subseteq image.fns
             /\ Patch' => image.table \notin toload'
             /\ Patch' /\ ~late' => Firsts(image) \cap raw' = {}
  <2>1. FirstGame /\ raw \subseteq image.fns
    BY <1>1, <1>7 DEF PatchInv, FirstGame
  <2>2. Patch => image.table \notin toload
    BY <1>1, <1>7 DEF PatchInv
  <2>3. CASE s = image.table
    <3>1. ~Patch
      BY <2>2, <2>3
    <3>2. s.at > High /\ s.length # Bi2Length
      BY <1>2, <2>3, EhciDiscAssumption DEF IsImage
    <3>3. raw' = DoPatches(after, DolBase, TextEnd(image) - DolBase)
      BY <1>1, <1>2, <3>1, <3>2 DEF DIRead
    <3>4. after \subseteq image.fns
      BY <1>3, <2>1
    <3>5. Firsts(image) \cap raw' = {}
      <4> HIDE DEF after
      <4> QED BY <1>2, <3>3, <3>4, PatchesFirst DEF Firsts
    <3> QED BY <1>1, <1>3, <1>4, <2>1, <2>3, <3>5
  <2>4. CASE s # image.table
    <3>1. s \in image.text \cup image.other
      BY <1>5, <2>4 DEF Game
    <3>2. s.at > High => s.length = Bi2Length
      BY <1>2, <3>1, OnlyTheTable
    <3>3. Patch' = Patch
      BY <1>1, <3>2 DEF DIRead
    <3>4. ASSUME Patch, ~late' PROVE Firsts(image) \cap raw' = {}
      <4>1. s \notin image.text /\ ~late
        BY <1>1, <2>2, <3>4
      <4>2. raw' \subseteq raw
        BY <1>4, <4>1
      <4>3. Firsts(image) \cap raw = {}
        BY <2>1, <3>4, <4>1 DEF PatchInv
      <4> QED BY <4>2, <4>3
    <3> QED BY <1>1, <1>3, <1>4, <2>1, <2>2, <3>3, <3>4
  <2> QED BY <2>3, <2>4
<1>8. ASSUME starts > 0 PROVE MenuCode \cap raw' = {}
  <2>1. MenuCode \cap raw = {}
    BY <1>1, <1>8 DEF PatchInv
  <2> HIDE DEF code
  <2> QED BY <1>3, <1>4, <1>6, <2>1
<1> HIDE DEF code
<1> QED
  BY <1>3, <1>4, <1>5, <1>7, <1>8

(* A game that restarts reads the menu's code, which DoPatches runs over:  *)
(* it has not every kind, so the search goes to the end.                   *)
LEMMA RestartStep ==
  ASSUME PatchInv, RestartGame
  PROVE  raw' \subseteq image.fns \cup MenuCode /\ MenuCode \cap raw' = {}
<1> DEFINE length == High - Loader
           kept == {x \in raw : x.at \notin Loader .. Loader + length - 1}
           after == kept \cup MenuCode
           seen == Within(after, Loader, length)
<1>1. main = "run" /\ program = "game" /\ DIRead(Loader, length, MenuCode)
  BY DEF RestartGame
<1>2. Patch /\ image \in Images /\ raw \subseteq image.fns \cup MenuCode
  BY <1>1 DEF PatchInv, RegionInv
<1>3. Loader \in Nat /\ High \in Nat /\ High > Loader + 2
  BY EhciDiscAssumption
<1>4. raw' = DoPatches(after, Loader, length)
  BY <1>1, <1>2 DEF DIRead
<1>5. MenuCode \subseteq seen
  BY <1>3 DEF Within, MenuCode
<1>6. \A x \in after : x \in seen => x \in MenuCode
  <2>1. \A x \in raw : x.at \in Nat
    BY <1>2, <1>3, CodePlace DEF MenuCode
  <2> QED BY <1>3, <2>1 DEF Within
<1>7. "AI" \in PatchKinds /\ \A x \in MenuCode : x.kind # "AI"
  BY DEF PatchKinds, MenuCode
<1>8. ~ \A k \in PatchKinds : \E x \in seen : x.kind = k
  BY <1>6, <1>7 DEF Within
<1>9. \A x \in raw' : x \in after /\ (x \notin seen \/ x.at > Loader + length)
  BY <1>4, <1>8 DEF DoPatches
<1>10. \A x \in MenuCode : ~ (x.at > Loader + length)
  BY <1>3 DEF MenuCode
<1>11. MenuCode \cap raw' = {}
  <2> HIDE DEF seen
  <2> QED BY <1>5, <1>9, <1>10
<1>12. raw' \subseteq raw \cup MenuCode
  BY <1>1, NothingNew
<1> QED
  BY <1>2, <1>11, <1>12

LEMMA PatchStep == PatchInv /\ [DiscNext]_disc => PatchInv'
<1> SUFFICES ASSUME PatchInv, [DiscNext]_disc
             PROVE  PatchInv'
  OBVIOUS
<1>1. RegionInv'
  BY RegionStep DEF PatchInv
<1>2. CASE DVDReadConfig
  BY <1>1, <1>2 DEF PatchInv, RegionInv, DVDReadConfig, ppc, FirstGame
<1>3. CASE DVDSelectGame
  BY <1>1, <1>3 DEF PatchInv, RegionInv, DVDSelectGame, ppc, FirstGame
<1>4. CASE ReadDiscID
  BY <1>1, <1>4 DEF PatchInv, RegionInv, ReadDiscID, ppc, game, FirstGame
<1>5. CASE DIInit
  BY <1>1, <1>5 DEF PatchInv, RegionInv, DIInit, ppc, game, FirstGame
<1>6. CASE PatchGCIPL
  BY <1>1, <1>6 DEF PatchInv, RegionInv, PatchGCIPL, game, FirstGame, Game
<1>7. ASSUME NEW s \in toload, LoadPart(s)
      PROVE  PatchInv'
  <2>1. /\ main = "run" /\ program = "menu" /\ toload' = toload \ {s}
        /\ late' = (late \/ (s \in image.text /\ image.table \notin toload))
        /\ UNCHANGED <<main, image, DOLSize, program, starts>>
    BY <1>7 DEF LoadPart, game
  <2>2. /\ raw' \subseteq image.fns \cup MenuCode
        /\ starts = 0 => /\ raw' \subseteq image.fns
                         /\ Patch' => image.table \notin toload'
                         /\ Patch' /\ ~late' => Firsts(image) \cap raw' = {}
        /\ starts > 0 => MenuCode \cap raw' = {}
    BY <1>7, LoadStep
  <2>3. late' \in BOOLEAN /\ starts' \in Nat /\ (FirstGame' <=> starts = 0)
    BY <2>1 DEF PatchInv, FirstGame
  <2>4. DOLSize' = TextEnd(image') - DolBase /\ toload' \subseteq Game'
    BY <2>1 DEF PatchInv, Game
  <2>5. (main # "run" => raw = {} /\ toload = {} /\ starts = 0)'
    BY <2>1
  <2>6. (main = "run" => toload \subseteq Game /\ raw \subseteq image.fns \cup MenuCode)'
    BY <2>1, <2>2, <2>4
  <2>7. (program = "game" => toload = {} /\ starts > 0)'
    BY <2>1
  <2>8. (program = "menu" /\ starts = 0 /\ Patch => image.table \notin toload)'
    BY <2>1, <2>2
  <2>9. (FirstGame => raw \subseteq image.fns)'
    BY <2>1, <2>2, <2>3
  <2>10. (FirstGame /\ Patch /\ ~late => Firsts(image) \cap raw = {})'
    BY <2>1, <2>2, <2>3 DEF Firsts
  <2>11. (program = "menu" /\ starts > 0 => MenuCode \cap raw = {})'
    BY <2>1, <2>2
  <2> QED
    BY <1>1, <2>3, <2>4, <2>5, <2>6, <2>7, <2>8, <2>9, <2>10, <2>11 DEF PatchInv
<1>8. CASE LoadFails
  BY <1>1, <1>8 DEF PatchInv, RegionInv, LoadFails, game, FirstGame, Game
<1>9. CASE RunGame
  BY <1>1, <1>9 DEF PatchInv, RegionInv, RunGame, game, FirstGame, Game, Firsts
<1>10. CASE RestartGame
  <2>1. /\ main = "run" /\ program = "game" /\ program' = "menu" /\ late' = FALSE
        /\ toload' = Game /\ UNCHANGED <<main, image, DOLSize, starts>>
    BY <1>10 DEF RestartGame, game, Game
  <2>2. raw' \subseteq image.fns \cup MenuCode /\ MenuCode \cap raw' = {}
    BY <1>10, RestartStep
  <2>3. starts' \in Nat /\ starts' > 0 /\ ~FirstGame'
    BY <2>1 DEF PatchInv, FirstGame
  <2>4. DOLSize' = TextEnd(image') - DolBase /\ toload' \subseteq Game'
    BY <2>1 DEF PatchInv, Game
  <2> QED
    <3>1. (main \in {"discid", "init", "patch", "run"} => DOLSize = TextEnd(image) - DolBase)'
      BY <2>4
    <3>2. (starts \in Nat /\ late \in BOOLEAN)'
      BY <2>1, <2>3
    <3>3. (main # "run" => raw = {} /\ toload = {} /\ starts = 0)'
      BY <2>1
    <3>4. (main = "run" => toload \subseteq Game /\ raw \subseteq image.fns \cup MenuCode)'
      BY <2>1, <2>2, <2>4
    <3>5. (program = "game" => toload = {} /\ starts > 0)'
      BY <2>1
    <3>6. (program = "menu" /\ starts = 0 /\ Patch => image.table \notin toload)'
      BY <2>3
    <3>7. (FirstGame => raw \subseteq image.fns)'
      BY <2>3
    <3>8. (FirstGame /\ Patch /\ ~late => Firsts(image) \cap raw = {})'
      BY <2>3
    <3>9. (program = "menu" /\ starts > 0 => MenuCode \cap raw = {})'
      BY <2>2
    <3> QED
      BY <1>1, <3>1, <3>2, <3>3, <3>4, <3>5, <3>6, <3>7, <3>8, <3>9 DEF PatchInv
<1>11. CASE UNCHANGED disc
  BY <1>1, <1>11 DEF PatchInv, disc, FirstGame, Game, Firsts
<1> QED
  BY <1>2, <1>3, <1>4, <1>5, <1>6, <1>7, <1>8, <1>9, <1>10, <1>11 DEF DiscNext

(* When the first game starts, the first function of each kind in it is    *)
(* patched if the file table was the last part of it to be read, for any   *)
(* number and order of parts; and a game that restarts finds the menu's    *)
(* functions patched every time.                                           *)
THEOREM GamesArePatched == DiscSpec => []GameIsPatched
<1>1. PatchInv => GameIsPatched
  <2> SUFFICES ASSUME PatchInv PROVE GameIsPatched
    OBVIOUS
  <2>1. ASSUME program = "game", starts = 1, ~late, NEW k \in {x.kind : x \in image.fns}
        PROVE  [at |-> FirstOf(image.fns, k), kind |-> k] \notin raw
    <3>1. main = "run" /\ image \in Images /\ Patch
      BY <2>1 DEF PatchInv, RegionInv
    <3>2. PICK z \in image.fns : z.kind = k
      OBVIOUS
    <3>3. PICK x \in image.fns : x.kind = k /\ x.at = FirstOf(image.fns, k)
      BY <3>1, <3>2, CodePlace, FirstOfKind
    <3>4. x = [at |-> FirstOf(image.fns, k), kind |-> k] /\ x \in Firsts(image)
      BY <3>1, <3>3, CodePlace DEF Firsts
    <3>5. Firsts(image) \cap raw = {}
      BY <2>1, <3>1 DEF PatchInv, FirstGame
    <3> QED BY <3>4, <3>5
  <2>2. program = "menu" /\ starts > 0 => MenuCode \cap raw = {}
    BY DEF PatchInv
  <2> QED BY <2>1, <2>2 DEF GameIsPatched
<1> QED
  BY <1>1, PatchInit, PatchStep, PTL DEF DiscSpec
-----------------------------------------------------------------------------
(* The descriptors, and what each variable of a transfer ranges over.      *)
UrbStages == {"idle", "setup", "data", "status", "start", "handshake"}
Pages  == UNION {[S -> Nat] : S \in SUBSET (0 .. 4)}
Qtds   == [pid : {"setup", "in", "out"}, toggle : {0, 1}, hw_buf : Pages, length : Nat,
           left : Nat, alt : {"zero", "end"}, ioc : BOOLEAN]
Urbs   == [ep : {"none", "bulk", "control"}, input : BOOLEAN, at : Nat, length : Nat]
Rests  == [at : Nat, length : Nat]

TransferTypes ==
  /\ urb \in Urbs /\ rest \in Rests
  /\ toggle1 \in {0, 1} /\ used \in Nat /\ cur \in Nat \ {0} /\ moved \in Nat
  /\ stage \in UrbStages /\ result \in Int
  /\ qtds \in Seq(Qtds)
  /\ int \in BOOLEAN

(* The data stage is the qtds from DataFrom to DataTo: behind the SETUP    *)
(* packet of a control transfer, and before its STATUS stage.              *)
Control  == urb.ep = "control"
Queued   == stage \in {"start", "handshake"}
DataFrom == IF Control THEN 2 ELSE 1
DataTo   == IF Queued /\ Control /\ urb.length > 0 THEN Len(qtds) - 1 ELSE Len(qtds)
Limit    == urb.at + urb.length

(* Byte k of a qtd goes to the k-th address behind its first.              *)
InPlace(q) ==
  /\ 0 \in DOMAIN q.hw_buf
  /\ \A k \in Nat : k < q.length => Address(q, k) = q.hw_buf[0] + k

(* One qtd of the data stage, by itself and with the one in front of it;   *)
(* and one that is not the last.                                           *)
Placed(i) ==
  /\ qtds[i].pid # "setup" /\ qtds[i].length < 32768 /\ InPlace(qtds[i])
  /\ i = DataFrom => Begins(i) = urb.at
  /\ i # DataFrom => Begins(i) = Ends(i - 1)
  /\ Ends(i) <= Limit
Full(i) ==
  /\ qtds[i].length >= 16384 /\ qtds[i].length % maxpacket = 0
  /\ qtds[i].pid = "in" => qtds[i].alt = "zero"

ListInv ==
  /\ stage = "idle" => used = 0
  /\ stage = "setup" => /\ Control /\ qtds = <<>> /\ used = 0
                        /\ rest.at = urb.at /\ rest.length = urb.length
  /\ stage # "idle" => urb.length <= 65535 /\ (Control => urb.length <= 256)
  /\ stage \in {"data", "status", "start", "handshake"} =>
       /\ used = Len(qtds)
       /\ Control => Len(qtds) >= 1 /\ qtds[1].pid = "setup" /\ qtds[1].length = 8
       /\ \A i \in Nat : DataFrom <= i /\ i <= DataTo => Placed(i)
       /\ \A i \in Nat : DataFrom <= i /\ i < DataTo => Full(i)

DataInv ==
  stage = "data" =>
    /\ Len(qtds) < DataFrom => rest.at = urb.at
    /\ Len(qtds) >= DataFrom => rest.at = Ends(Len(qtds)) /\ Full(Len(qtds)) /\ rest.length > 0
    /\ rest.at + rest.length = Limit
    /\ Control => Len(qtds) = 1 /\ toggle1 = 1
    /\ ~Control => rest.length + 16384 * Len(qtds) <= urb.length

DataPid == IF urb.input \/ (Control /\ urb.length = 0) THEN "in" ELSE "out"

(* The last qtd of a control transfer.                                     *)
Ending(s) ==
  /\ s.toggle = 1 /\ s.length = 0
  /\ s.pid = (IF urb.input /\ urb.length > 0 THEN "out" ELSE "in")

EndInv ==
  /\ stage = "status" => Control /\ urb.length > 0 /\ Len(qtds) = 2
  /\ stage \in {"status", "start", "handshake"} =>
       /\ DataTo >= DataFrom /\ Ends(DataTo) = Limit
       /\ urb.length = 0 => DataTo = DataFrom
       /\ urb.length # 0 => qtds[DataTo].length > 0
  /\ Queued /\ Control => Ending(qtds[Len(qtds)])

(* Nothing is moved before the queue head is linked; and what the qtds     *)
(* tell of what is moved then.                                             *)
Unmoved(i) == qtds[i].left = qtds[i].length
WholeOrShort == moved = urb.length \/ \E i \in Nat : 1 <= i /\ i <= Len(qtds) /\ qtds[i].left > 0

MoveInv ==
  /\ stage \in {"setup", "data", "status", "start"} =>
       /\ cur = 1 /\ moved = 0
       /\ \A i \in Nat : 1 <= i /\ i <= Len(qtds) => Unmoved(i)
  /\ stage = "handshake" =>
       /\ cur <= Len(qtds) + 1
       /\ \A i \in Nat : cur <= i /\ i <= Len(qtds) => Unmoved(i)
       /\ moved = actual_length(qtds) /\ moved <= urb.length
       /\ cur < DataFrom => moved = 0
       /\ DataFrom <= cur /\ cur <= DataTo => moved = Begins(cur) - urb.at
       /\ cur > DataTo => WholeOrShort

(* Whose interrupt it is.                                                  *)
IntInv ==
  /\ stage \in {"setup", "data", "status", "start"} =>
       ~int /\ \A i \in Nat : 1 <= i /\ i <= Len(qtds) => ~qtds[i].ioc
  /\ stage = "handshake" =>
       /\ int => cur > DataTo
       /\ \A i \in Nat : 1 <= i /\ i < Len(qtds) => ~qtds[i].ioc

TransferInv == TransferTypes /\ ListInv /\ DataInv /\ EndInv /\ MoveInv /\ IntInv
-----------------------------------------------------------------------------
(* One descriptor: how much it takes, and where that goes.                 *)

LEMMA WholePackets ==
  ASSUME NEW r \in Nat, 16385 <= r, r <= 20480
  PROVE  \A m \in {64, 512} :
           \E s \in Nat : s = r - (r % m) /\ 16384 <= s /\ s <= r /\ s % m = 0
<1>1. \E s \in Nat : s = r - (r % 64) /\ 16384 <= s /\ s <= r /\ s % 64 = 0
  <2>1. PICK d \in Nat : r = 64 * d + (r % 64) /\ r % 64 \in 0 .. 63
    <3> WITNESS r \div 64 \in Nat
    <3> QED OBVIOUS
  <2>2. (64 * d) % 64 = 0
    OBVIOUS
  <2>3. 64 * d \in Nat /\ 64 * d = r - (r % 64) /\ 16384 <= 64 * d /\ 64 * d <= r
    BY <2>1
  <2> QED BY <2>2, <2>3
<1>2. \E s \in Nat : s = r - (r % 512) /\ 16384 <= s /\ s <= r /\ s % 512 = 0
  <2>1. PICK d \in Nat : r = 512 * d + (r % 512) /\ r % 512 \in 0 .. 511
    <3> WITNESS r \div 512 \in Nat
    <3> QED OBVIOUS
  <2>2. (512 * d) % 512 = 0
    OBVIOUS
  <2>3. 512 * d \in Nat /\ 512 * d = r - (r % 512) /\ 16384 <= 512 * d /\ 512 * d <= r
    BY <2>1
  <2> QED BY <2>2, <2>3
<1> QED BY <1>1, <1>2

LEMMA CountIs ==
  ASSUME NEW at \in Nat, NEW len \in Nat
  PROVE  /\ Count(at, len) \in Nat /\ Count(at, len) <= len /\ Count(at, len) <= 20480
         /\ Count(at, len) <= Room(at, 5)
         /\ Count(at, len) # len => Count(at, len) >= 16384 /\ Count(at, len) % maxpacket = 0
         /\ len <= 256 => Count(at, len) = len
<1> DEFINE r == Room(at, 5)
<1>1. r \in Nat /\ 16385 <= r /\ r <= 20480
  BY DEF Room, Page
<1>2. maxpacket \in {64, 512}
  BY DEF maxpacket
<1>3. Count(at, len) = IF len <= r THEN len ELSE r - (r % maxpacket)
  BY DEF Count
<1> HIDE DEF r
<1>4. PICK s \in Nat : s = r - (r % maxpacket) /\ 16384 <= s /\ s <= r /\ s % maxpacket = 0
  <2>1. \A m \in {64, 512} :
          \E s \in Nat : s = r - (r % m) /\ 16384 <= s /\ s <= r /\ s % m = 0
    BY <1>1, WholePackets
  <2> QED BY <1>2, <2>1
<1>5. CASE len <= r
  <2>1. Count(at, len) = len
    BY <1>3, <1>5, Zenon
  <2>2. len \in Nat /\ len <= r /\ len <= 20480
    BY <1>1, <1>5
  <2> QED BY <2>1, <2>2 DEF r
<1>6. CASE ~(len <= r)
  <2>1. Count(at, len) = s /\ r \in Nat /\ r <= 20480 /\ r >= 16385
    BY <1>1, <1>3, <1>4, <1>6
  <2>2. s <= r /\ s <= len /\ s <= 20480 /\ s >= 16384 /\ s \in Nat /\ ~(len <= 256)
    BY <1>4, <1>6, <2>1
  <2> QED BY <1>4, <2>1, <2>2 DEF r
<1> QED BY <1>5, <1>6

LEMMA PagesAreTyped ==
  ASSUME NEW at \in Nat, NEW len \in Nat
  PROVE  hw_buf(at, len) \in Pages /\ hw_buf(at, len)[0] = at /\ 0 \in DOMAIN hw_buf(at, len)
<1> DEFINE D == {0} \cup {p \in 1 .. 4 : Room(at, p) < len}
<1>1. D \in SUBSET (0 .. 4)
  OBVIOUS
<1>2. \A i \in D : (IF i = 0 THEN at ELSE (at \div Page + i) * Page) \in Nat
  BY <1>1 DEF Page
<1>3. hw_buf(at, len) \in [D -> Nat]
  BY <1>2 DEF hw_buf
<1> QED BY <1>1, <1>3 DEF Pages, hw_buf

(* Byte k lies in page o \div Page of the five.                            *)
LEMMA BytesInPlace ==
  ASSUME NEW at \in Nat, NEW len \in Nat, NEW q, q.hw_buf = hw_buf(at, len),
         q.length = Count(at, len)
  PROVE  InPlace(q)
<1>1. q.hw_buf[0] = at /\ 0 \in DOMAIN q.hw_buf
  BY PagesAreTyped
<1> SUFFICES ASSUME NEW k \in Nat, k < q.length PROVE Address(q, k) = at + k
  BY <1>1 DEF InPlace
<1>2. k \in Nat /\ k < len /\ k < Room(at, 5)
  <2>1. Count(at, len) \in Nat /\ Count(at, len) <= len /\ Count(at, len) <= Room(at, 5)
    BY CountIs
  <2>2. Room(at, 5) \in Nat
    BY DEF Room, Page
  <2> QED BY <2>1, <2>2
<1> DEFINE o == (at % Page) + k
<1>3. CASE o < Page
  BY <1>1, <1>3 DEF Address
<1>4. CASE ~(o < Page)
  <2> DEFINE p == o \div Page
  <2>1. p \in 1 .. 4 /\ Room(at, p) < len
    BY <1>2, <1>4 DEF Room, Page
  <2>2. q.hw_buf[p] = (at \div Page + p) * Page
    BY <2>1 DEF hw_buf
  <2>3. (at \div Page + p) * Page + (o % Page) = at + k
    BY <1>2 DEF Page
  <2> QED BY <1>1, <1>4, <2>2, <2>3 DEF Address
<1> QED BY <1>3, <1>4
-----------------------------------------------------------------------------
(* What the parts of the invariant go by.                                  *)

LEMMA QtdIs ==
  ASSUME NEW pid \in {"setup", "in", "out"}, NEW toggle \in {0, 1},
         NEW at \in Nat, NEW len \in Nat, NEW count \in Nat, NEW q,
         q = qtd_fill(pid, toggle, at, len, count)
  PROVE  /\ q \in Qtds /\ q.pid = pid /\ q.toggle = toggle
         /\ q.hw_buf = hw_buf(at, len) /\ q.length = count /\ q.left = count
         /\ q.alt = "end" /\ ~q.ioc
<1>1. hw_buf(at, len) \in Pages
  BY PagesAreTyped
<1> QED BY <1>1 DEF qtd_fill, Qtds

LEMMA AltIs ==
  ASSUME NEW q \in Qtds, NEW alt \in {"zero", "end"}, NEW r, r = [q EXCEPT !.alt = alt]
  PROVE  /\ r \in Qtds /\ r.alt = alt
         /\ r.pid = q.pid /\ r.toggle = q.toggle /\ r.hw_buf = q.hw_buf
         /\ r.length = q.length /\ r.left = q.left /\ (r.ioc <=> q.ioc)
  BY DEF Qtds

LEMMA Appended ==
  ASSUME NEW s \in Seq(Qtds), NEW q \in Qtds
  PROVE  /\ Append(s, q) \in Seq(Qtds) /\ Len(s) \in Nat
         /\ Len(Append(s, q)) = Len(s) + 1
         /\ \A i \in Nat : 1 <= i /\ i <= Len(s) => Append(s, q)[i] = s[i]
         /\ Append(s, q)[Len(s) + 1] = q
  OBVIOUS

(* Sums of places in the buffer.                                           *)
LEMMA WithinSum ==
  ASSUME NEW a \in Nat, NEW b \in Nat, NEW m \in Nat, NEW k \in Nat, NEW l \in Nat,
         b + m <= a + l, k <= m
  PROVE  b - a + k <= l
OBVIOUS

LEMMA ExactSum ==
  ASSUME NEW a \in Nat, NEW b \in Nat, NEW m \in Nat, NEW l \in Nat, b + m = a + l
  PROVE  b - a + m = l
OBVIOUS

LEMMA SumLessSame ==
  ASSUME NEW a \in Nat, NEW b \in Nat, NEW m \in Nat
  PROVE  b - a + m = (b + m) - a
OBVIOUS

(* What is left for the qtds to come, each of 16384 bytes and more.        *)
LEMMA LessIsLeft ==
  ASSUME NEW l \in Nat, NEW c \in Nat, NEW k \in Nat, NEW u \in Nat,
         l + 16384 * k <= u, c >= 16384
  PROVE  l - c + 16384 * (k + 1) <= u
OBVIOUS

LEMMA Typed ==
  ASSUME TransferTypes
  PROVE  /\ urb.at \in Nat /\ urb.length \in Nat /\ rest.at \in Nat /\ rest.length \in Nat
         /\ Limit \in Nat /\ Limit = urb.at + urb.length
         /\ DataFrom \in Nat /\ DataFrom >= 1 /\ DataFrom <= 2
         /\ (Control => DataFrom = 2) /\ (~Control => DataFrom = 1)
         /\ Len(qtds) \in Nat
<1>1. urb.at \in Nat /\ urb.length \in Nat /\ rest.at \in Nat /\ rest.length \in Nat
  BY DEF TransferTypes, Urbs, Rests
<1>2. Limit \in Nat /\ Limit = urb.at + urb.length
  BY <1>1 DEF Limit
<1>3. /\ DataFrom \in Nat /\ DataFrom >= 1 /\ DataFrom <= 2
      /\ (Control => DataFrom = 2) /\ (~Control => DataFrom = 1)
  BY DEF DataFrom
<1>4. qtds \in Seq(Qtds)
  BY DEF TransferTypes
<1>5. Len(qtds) \in Nat
  BY <1>4
<1> QED BY <1>1, <1>2, <1>3, <1>5

LEMMA QtdTyped ==
  ASSUME NEW q \in Qtds
  PROVE  q.length \in Nat /\ q.left \in Nat /\ q.hw_buf \in Pages
  BY DEF Qtds

LEMMA OneOf ==
  ASSUME NEW s \in Seq(Qtds), NEW i \in Nat, 1 <= i, i <= Len(s)
  PROVE  s[i] \in Qtds
<1>1. i \in 1 .. Len(s)
  OBVIOUS
<1> QED BY <1>1

(* An address that a qtd begins at.                                        *)
LEMMA BeginsTyped ==
  ASSUME qtds \in Seq(Qtds), NEW i \in Nat, 1 <= i, i <= Len(qtds), InPlace(qtds[i])
  PROVE  Begins(i) \in Nat /\ Ends(i) \in Nat /\ Ends(i) = Begins(i) + qtds[i].length
<1>1. qtds[i].hw_buf \in Pages /\ qtds[i].length \in Nat
  <2>1. qtds[i] \in Qtds
    BY OneOf
  <2> QED BY <2>1, QtdTyped
<1>2. 0 \in DOMAIN qtds[i].hw_buf
  BY DEF InPlace
<1>3. PICK S \in SUBSET (0 .. 4) : qtds[i].hw_buf \in [S -> Nat]
  BY <1>1 DEF Pages
<1>4. Begins(i) \in Nat
  BY <1>2, <1>3 DEF Begins
<1> QED BY <1>1, <1>4 DEF Ends

LEMMA SameUrb ==
  ASSUME urb' = urb
  PROVE  /\ (Control' <=> Control) /\ DataFrom' = DataFrom /\ Limit' = Limit
         /\ maxpacket' = maxpacket /\ DataPid' = DataPid
  BY DEF Control, DataFrom, Limit, maxpacket, DataPid

(* Two qtds that tell the controller the same.                             *)
Alike(q, r) == /\ q.pid = r.pid /\ q.toggle = r.toggle /\ q.hw_buf = r.hw_buf
               /\ q.length = r.length /\ q.alt = r.alt

LEMMA PlacedStays ==
  ASSUME urb' = urb, NEW i, Alike(qtds'[i], qtds[i]),
         i # DataFrom => Alike(qtds'[i - 1], qtds[i - 1]), Placed(i)
  PROVE  Placed(i)'
<1>1. DataFrom' = DataFrom /\ Limit' = Limit
  BY SameUrb
<1>2. InPlace(qtds[i])'
  <2>1. \A k : Address(qtds'[i], k) = Address(qtds[i], k)
    BY DEF Address, Alike
  <2> QED BY <2>1 DEF InPlace, Placed, Alike
<1>3. Begins(i)' = Begins(i) /\ Ends(i)' = Ends(i) /\ (i # DataFrom => Ends(i - 1)' = Ends(i - 1))
  BY DEF Begins, Ends, Alike
<1> QED BY <1>1, <1>2, <1>3 DEF Placed, Alike

LEMMA FullStays ==
  ASSUME urb' = urb, NEW i, Alike(qtds'[i], qtds[i]), Full(i)
  PROVE  Full(i)'
  BY SameUrb DEF Full, Alike

(* There is always a qtd left.                                             *)
LEMMA NoBug ==
  ASSUME TransferInv, stage \in {"setup", "data", "status"}
  PROVE  used < EHCI_MAX_QTD
<1> USE DEF TransferInv
<1>1. Len(qtds) \in Nat /\ rest.length \in Nat /\ urb.length \in Nat
  BY Typed
<1>2. CASE stage = "setup"
  BY <1>2 DEF ListInv, EHCI_MAX_QTD
<1>3. CASE stage = "status"
  <2>1. used = Len(qtds)
    BY <1>3 DEF ListInv
  <2>2. Len(qtds) = 2
    BY <1>3 DEF EndInv
  <2> QED BY <2>1, <2>2 DEF EHCI_MAX_QTD
<1>4. CASE stage = "data" /\ Control
  <2>1. used = Len(qtds)
    BY <1>4 DEF ListInv
  <2>2. Len(qtds) = 1
    BY <1>4 DEF DataInv
  <2> QED BY <2>1, <2>2 DEF EHCI_MAX_QTD
<1>5. CASE stage = "data" /\ ~Control
  <2>1. rest.length + 16384 * Len(qtds) <= urb.length /\ urb.length <= 65535 /\ used = Len(qtds)
    BY <1>5 DEF ListInv, DataInv
  <2> QED BY <1>1, <2>1 DEF EHCI_MAX_QTD
<1> QED BY <1>2, <1>3, <1>4, <1>5
-----------------------------------------------------------------------------
(* The sum of qh_end_transfer.                                             *)

(* f is the running sum over the first n qtds of s.                        *)
Sums(f, s, n) ==
  /\ f \in [0 .. n -> Int] /\ f[0] = 0
  /\ \A i \in 1 .. n : f[i] = f[i - 1] + Counted(s[i])

LEMMA CountedInt ==
  ASSUME NEW q \in Qtds
  PROVE  Counted(q) \in Int
  BY DEF Counted, Qtds

LEMMA SumsExist ==
  ASSUME NEW s \in Seq(Qtds), NEW n \in 0 .. Len(s)
  PROVE  \E f : Sums(f, s, n)
<1> DEFINE T == {k \in 0 .. Len(s) : ~ \E f : Sums(f, s, k)}
<1>1. SUFFICES T = {}
  OBVIOUS
<1>2. SUFFICES ASSUME T # {} PROVE FALSE
  OBVIOUS
<1>3. PICK m \in T : \A y \in T : m <= y
  <2>1. T \subseteq Nat
    OBVIOUS
  <2> HIDE DEF T
  <2> QED BY <1>2, <2>1, LeastNat
<1>4. Sums([i \in 0 .. 0 |-> 0], s, 0)
  BY DEF Sums
<1>5. m \in 1 .. Len(s)
  BY <1>3, <1>4
<1>6. m - 1 \in 0 .. Len(s) /\ m - 1 \notin T
  BY <1>3, <1>5
<1>7. PICK f : Sums(f, s, m - 1)
  BY <1>6
<1> DEFINE g == [i \in 0 .. m |-> IF i = m THEN f[m - 1] + Counted(s[m]) ELSE f[i]]
<1>8. f \in [0 .. m - 1 -> Int] /\ f[0] = 0 /\ Counted(s[m]) \in Int
  BY <1>5, <1>7, CountedInt DEF Sums
<1>9. g \in [0 .. m -> Int] /\ g[0] = 0
  BY <1>5, <1>8
<1>10. ASSUME NEW i \in 1 .. m PROVE g[i] = g[i - 1] + Counted(s[i])
  <2>1. CASE i = m
    BY <1>5, <1>8, <2>1
  <2>2. CASE i # m
    <3>1. i \in 1 .. m - 1 /\ i - 1 \in 0 .. m - 1
      BY <1>5, <2>2
    <3>2. f[i] = f[i - 1] + Counted(s[i])
      BY <1>7, <3>1 DEF Sums
    <3>3. g[i] = f[i] /\ g[i - 1] = f[i - 1]
      BY <1>5, <3>1
    <3> QED BY <3>2, <3>3
  <2> QED BY <2>1, <2>2
<1>11. Sums(g, s, m)
  BY <1>9, <1>10 DEF Sums
<1> QED BY <1>3, <1>11

LEMMA SumsUnique ==
  ASSUME NEW s \in Seq(Qtds), NEW n \in 0 .. Len(s), NEW f, NEW g,
         Sums(f, s, n), Sums(g, s, n)
  PROVE  f[n] = g[n]
<1> DEFINE T == {k \in 0 .. n : f[k] # g[k]}
<1>1. SUFFICES ASSUME T # {} PROVE FALSE
  OBVIOUS
<1>2. PICK m \in T : \A y \in T : m <= y
  <2>1. T \subseteq Nat
    OBVIOUS
  <2> HIDE DEF T
  <2> QED BY <1>1, <2>1, LeastNat
<1>3. m \in 1 .. n
  BY <1>2 DEF Sums
<1>4. f[m - 1] = g[m - 1]
  BY <1>2, <1>3
<1>5. f[m] = f[m - 1] + Counted(s[m]) /\ g[m] = g[m - 1] + Counted(s[m])
  BY <1>3 DEF Sums
<1> QED BY <1>2, <1>4, <1>5

LEMMA SumIs ==
  ASSUME NEW s \in Seq(Qtds), NEW f, Sums(f, s, Len(s))
  PROVE  actual_length(s) = f[Len(s)]
<1> DEFINE sum == CHOOSE h : h = [i \in 0 .. Len(s) |-> IF i = 0 THEN 0 ELSE h[i - 1] + Counted(s[i])]
<1>1. actual_length(s) = sum[Len(s)]
  BY DEF actual_length
<1>2. f = [i \in 0 .. Len(s) |-> IF i = 0 THEN 0 ELSE f[i - 1] + Counted(s[i])]
  BY DEF Sums
<1>3. sum = [i \in 0 .. Len(s) |-> IF i = 0 THEN 0 ELSE sum[i - 1] + Counted(s[i])]
  BY <1>2
<1> HIDE DEF sum
<1>4. sum[0] = 0 /\ \A i \in 1 .. Len(s) : sum[i] = sum[i - 1] + Counted(s[i])
  BY <1>3
<1>5. Sums(sum, s, Len(s))
  <2> DEFINE T == {k \in 0 .. Len(s) : sum[k] \notin Int}
  <2>1. T = {}
    <3>1. SUFFICES ASSUME T # {} PROVE FALSE
      OBVIOUS
    <3>2. PICK m \in T : \A y \in T : m <= y
      <4>1. T \subseteq Nat
        OBVIOUS
      <4> HIDE DEF T
      <4> QED BY <3>1, <4>1, LeastNat
    <3>3. m \in 1 .. Len(s)
      BY <1>4, <3>2
    <3>4. sum[m - 1] \in Int
      BY <3>2, <3>3
    <3>5. Counted(s[m]) \in Int
      BY <3>3, CountedInt
    <3> QED BY <1>4, <3>2, <3>3, <3>4, <3>5
  <2>2. \A k \in 0 .. Len(s) : sum[k] \in Int
    BY <2>1
  <2>3. sum \in [0 .. Len(s) -> Int]
    BY <1>3, <2>2
  <2> QED BY <1>4, <2>3 DEF Sums
<1> QED BY <1>1, <1>5, SumsUnique

LEMMA SumOfNone ==
  ASSUME NEW s \in Seq(Qtds), \A i \in 1 .. Len(s) : s[i].left = s[i].length
  PROVE  actual_length(s) = 0
<1> DEFINE f == [i \in 0 .. Len(s) |-> 0]
<1>1. ASSUME NEW i \in 1 .. Len(s) PROVE Counted(s[i]) = 0
  <2>1. s[i] \in Qtds
    OBVIOUS
  <2>2. s[i].length \in Nat /\ s[i].left = s[i].length
    BY <2>1 DEF Qtds
  <2> QED BY <2>2 DEF Counted
<1>2. Sums(f, s, Len(s))
  BY <1>1 DEF Sums
<1> QED BY <1>2, SumIs

(* One qtd has moved more.                                                 *)
LEMMA SumGrows ==
  ASSUME NEW s \in Seq(Qtds), NEW r \in Seq(Qtds), Len(r) = Len(s),
         NEW c \in 1 .. Len(s), NEW d \in Int, Counted(r[c]) = Counted(s[c]) + d,
         \A i \in 1 .. Len(s) : i # c => Counted(r[i]) = Counted(s[i])
  PROVE  actual_length(r) = actual_length(s) + d
<1>1. PICK f : Sums(f, s, Len(s))
  BY SumsExist
<1> DEFINE g == [i \in 0 .. Len(s) |-> IF i < c THEN f[i] ELSE f[i] + d]
<1>2. f \in [0 .. Len(s) -> Int] /\ f[0] = 0
  BY <1>1 DEF Sums
<1>3. g \in [0 .. Len(r) -> Int] /\ g[0] = 0
  BY <1>2
<1>4. ASSUME NEW i \in 1 .. Len(r) PROVE g[i] = g[i - 1] + Counted(r[i])
  <2>1. f[i] = f[i - 1] + Counted(s[i]) /\ f[i] \in Int /\ f[i - 1] \in Int
        /\ Counted(s[i]) \in Int /\ Counted(r[i]) \in Int
    <3>0. i \in 1 .. Len(s) /\ Len(s) \in Nat
      BY <1>4
    <3>1. f[i] = f[i - 1] + Counted(s[i])
      BY <1>1, <3>0, Zenon DEF Sums
    <3>2. f[i] \in Int /\ f[i - 1] \in Int
      <4>1. i \in 0 .. Len(s) /\ i - 1 \in 0 .. Len(s)
        BY <3>0
      <4> QED BY <1>2, <4>1
    <3>3. s[i] \in Qtds /\ r[i] \in Qtds
      BY <3>0
    <3> QED BY <3>1, <3>2, <3>3, CountedInt
  <2>2. PICK x \in Int, y \in Int : x = f[i] /\ y = f[i - 1]
    BY <2>1
  <2>3. /\ g[i] = (IF i < c THEN x ELSE x + d)
        /\ g[i - 1] = (IF i - 1 < c THEN y ELSE y + d)
    <3>1. i \in 0 .. Len(s) /\ i - 1 \in 0 .. Len(s)
      BY <1>4
    <3> QED BY <2>2, <3>1
  <2> HIDE DEF g
  <2>4. PICK u \in Int, v \in Int : u = Counted(s[i]) /\ v = Counted(r[i])
    BY <2>1
  <2>5. x = y + u /\ v = (IF i = c THEN u + d ELSE u)
    BY <1>4, <2>1, <2>2, <2>4
  <2>6. g[i] = g[i - 1] + v
    BY <2>3, <2>5
  <2> QED BY <2>4, <2>6
<1>5. Sums(g, r, Len(r))
  BY <1>3, <1>4 DEF Sums
<1>6. actual_length(s) = f[Len(s)] /\ actual_length(r) = g[Len(r)]
  BY <1>1, <1>5, SumIs
<1>7. g[Len(r)] = f[Len(s)] + d
  BY <1>2
<1> QED BY <1>6, <1>7
-----------------------------------------------------------------------------
(* The steps.  First the list as it grows.                                 *)

LEMMA TransferStarts == TransferInit => TransferInv
<1> SUFFICES ASSUME TransferInit PROVE TransferInv
  OBVIOUS
<1>1. TransferTypes
  <2>1. NoUrb \in Urbs /\ [at |-> 0, length |-> 0] \in Rests
    BY DEF NoUrb, Urbs, Rests
  <2>2. urb \in Urbs /\ rest \in Rests
    BY <2>1 DEF TransferInit
  <2>3. stage \in UrbStages /\ qtds \in Seq(Qtds)
    BY DEF TransferInit, UrbStages
  <2>4. toggle1 \in {0, 1} /\ used \in Nat /\ cur \in Nat \ {0} /\ moved \in Nat /\ result \in Int
    BY DEF TransferInit
  <2>5. int \in BOOLEAN
    BY Zenon DEF TransferInit
  <2> QED BY <2>2, <2>3, <2>4, <2>5, Zenon DEF TransferTypes
<1>2. stage = "idle" /\ used = 0
  BY DEF TransferInit
<1>3. ListInv /\ DataInv /\ EndInv /\ MoveInv /\ IntInv
  BY <1>2 DEF ListInv, DataInv, EndInv, MoveInv, IntInv, Queued
<1> QED BY <1>1, <1>3 DEF TransferInv

LEMMA SubmitKeeps ==
  ASSUME TransferInv, NEW ep \in {"bulk", "control"}, NEW input \in BOOLEAN, NEW at \in Buffers,
         NEW len \in Lengths, ep = "control" => len <= 256, Submit(ep, input, at, len)
  PROVE  TransferInv'
<1>1. at \in Nat /\ len \in Nat /\ len <= 65535
  BY TransferAssumption
<1>2. urb' \in Urbs /\ urb'.ep = ep /\ urb'.length = len /\ urb'.at = at
  BY <1>1 DEF Submit, Urbs
<1>3. rest' \in Rests /\ rest'.at = at /\ rest'.length = len
  BY <1>1 DEF Submit, Rests
<1>4. /\ toggle1' = 0 /\ qtds' = <<>> /\ cur' = 1 /\ moved' = 0 /\ result' = 0
      /\ stage' = IF ep = "control" THEN "setup" ELSE "data"
  BY DEF Submit
<1>5. int' = FALSE
  BY Zenon DEF Submit
<1>6. used' = 0
  BY DEF Submit, TransferInv, ListInv
<1>7. TransferTypes'
  <2>1. qtds' \in Seq(Qtds) /\ stage' \in UrbStages
    BY <1>4 DEF UrbStages
  <2>2. toggle1' \in {0, 1} /\ used' \in Nat /\ cur' \in Nat \ {0} /\ moved' \in Nat /\ result' \in Int
    BY <1>4, <1>6
  <2>3. int' \in BOOLEAN
    BY <1>5, Zenon
  <2> QED BY <1>2, <1>3, <2>1, <2>2, <2>3, Zenon DEF TransferTypes
<1>8. (Control' <=> ep = "control") /\ Limit' = at + len /\ (~Control' => DataFrom' = 1)
  BY <1>2 DEF Control, Limit, DataFrom
<1>9. stage' = "setup" <=> ep = "control"
  BY <1>4
<1>10. stage' \in {"setup", "data"} /\ Len(qtds') = 0
  BY <1>4
<1>11. ~Queued' /\ DataTo' = 0
  BY <1>10 DEF Queued, DataTo
<1>12. ListInv'
  <2>1. urb'.length <= 65535 /\ (Control' => urb'.length <= 256)
    BY <1>1, <1>2, <1>8
  <2>2. stage' = "data" => ~Control' /\ DataFrom' = 1
    BY <1>8, <1>9
  <2> QED BY <1>2, <1>3, <1>4, <1>6, <1>8, <1>9, <1>10, <1>11, <2>1, <2>2 DEF ListInv
<1>13. DataInv'
  <2>1. SUFFICES ASSUME stage' = "data" PROVE DataInv'
    BY DEF DataInv
  <2>2. ~Control' /\ DataFrom' = 1
    BY <1>8, <1>9, <2>1
  <2> QED BY <1>1, <1>2, <1>3, <1>8, <1>10, <2>2 DEF DataInv
<1>14. EndInv'
  BY <1>10, <1>11 DEF EndInv
<1>15. MoveInv'
  BY <1>4, <1>10 DEF MoveInv
<1>16. IntInv'
  BY <1>5, <1>10 DEF IntInv
<1> QED BY <1>7, <1>12, <1>13, <1>14, <1>15, <1>16 DEF TransferInv

LEMMA SetupKeeps ==
  ASSUME TransferInv, SetupStage
  PROVE  TransferInv'
<1> DEFINE q == qtd_fill("setup", 0, 0, 8, 8)
<1>1. q \in Qtds /\ q.pid = "setup" /\ q.length = 8 /\ q.left = 8 /\ ~q.ioc
  <2>1. "setup" \in {"setup", "in", "out"} /\ 0 \in {0, 1} /\ 0 \in Nat /\ 8 \in Nat
    OBVIOUS
  <2>2. q = qtd_fill("setup", 0, 0, 8, 8)
    OBVIOUS
  <2> HIDE DEF q
  <2> QED BY <2>1, <2>2, QtdIs
<1>2. /\ stage = "setup" /\ used = 0 /\ qtds = <<>> /\ Control /\ urb.length <= 256
      /\ rest.at = urb.at /\ rest.length = urb.length
  BY DEF SetupStage, TransferInv, ListInv
<1>3. TransferTypes /\ urb.length \in Nat /\ urb.at \in Nat
  BY Typed DEF TransferInv
<1> HIDE DEF q
<1>4. used' = 1 /\ qtds' = Append(qtds, q) /\ stage' = "data"
  BY <1>2 DEF SetupStage, Link, EHCI_MAX_QTD, q
<1>5. toggle1' = 1 /\ UNCHANGED <<urb, rest, cur, moved, result>>
  BY DEF SetupStage
<1>6. int' = int
  BY DEF SetupStage
<1>7. qtds' \in Seq(Qtds) /\ Len(qtds') = 1 /\ qtds'[1] = q
  BY <1>1, <1>2, <1>4
<1>8. TransferTypes'
  <2>1. stage' \in UrbStages /\ toggle1' \in {0, 1} /\ used' \in Nat
    BY <1>4, <1>5 DEF UrbStages
  <2> QED BY <1>3, <1>5, <1>6, <1>7, <2>1, Zenon DEF TransferTypes
<1>9. Control' /\ DataFrom' = 2 /\ Limit' = urb.at + urb.length
  BY <1>2, <1>5 DEF Control, DataFrom, Limit
<1>10. ~Queued' /\ DataTo' = 1
  BY <1>4, <1>7 DEF DataTo, Queued
<1>11. ListInv'
  BY <1>1, <1>2, <1>3, <1>4, <1>5, <1>7, <1>9, <1>10 DEF ListInv
<1>12. DataInv'
  BY <1>2, <1>4, <1>5, <1>7, <1>9 DEF DataInv
<1>13. EndInv'
  BY <1>4, <1>10 DEF EndInv
<1>14. MoveInv'
  <2>1. cur' = 1 /\ moved' = 0
    BY <1>2, <1>5 DEF TransferInv, MoveInv
  <2>2. \A i \in Nat : 1 <= i /\ i <= Len(qtds') => i = 1
    BY <1>7
  <2>3. Unmoved(1)'
    BY <1>1, <1>7 DEF Unmoved
  <2> QED BY <1>4, <2>1, <2>2, <2>3 DEF MoveInv
<1>15. IntInv'
  <2>1. ~int'
    BY <1>2, <1>6 DEF TransferInv, IntInv
  <2>2. \A i \in Nat : 1 <= i /\ i <= Len(qtds') => i = 1
    BY <1>7
  <2> QED BY <1>1, <1>4, <1>7, <2>1, <2>2 DEF IntInv
<1> QED BY <1>8, <1>11, <1>12, <1>13, <1>14, <1>15 DEF TransferInv

LEMMA DataKeeps ==
  ASSUME TransferInv, DataStage
  PROVE  TransferInv'
<1>0. PICK n \in Nat : n = Len(qtds)
  BY Typed DEF TransferInv
<1>a. PICK a \in Nat, l \in Nat : a = rest.at /\ l = rest.length
  <2>1. rest.at \in Nat /\ rest.length \in Nat
    BY Typed DEF TransferInv
  <2> QED BY <2>1
<1> DEFINE count == Count(a, l)
           pid   == IF urb.input \/ (urb.ep = "control" /\ urb.length = 0) THEN "in" ELSE "out"
           fill  == qtd_fill(pid, toggle1, a, l, count)
           alt   == IF urb.input /\ ~(count = l) THEN "zero" ELSE "end"
           q     == [fill EXCEPT !.alt = alt]
           next  == IF ~(count = l) THEN "data"
                    ELSE IF urb.ep = "control" /\ urb.length > 0 THEN "status" ELSE "start"
<1>1. TransferTypes /\ ListInv /\ DataInv /\ EndInv /\ MoveInv /\ IntInv /\ stage = "data"
  BY DEF TransferInv, DataStage
<1>2. /\ urb.at \in Nat /\ urb.length \in Nat
      /\ DataFrom \in Nat /\ DataFrom >= 1 /\ DataFrom <= 2
      /\ (Control => DataFrom = 2) /\ (~Control => DataFrom = 1)
      /\ Limit \in Nat /\ Limit = urb.at + urb.length
  BY <1>1, Typed
<1>3. toggle1 \in {0, 1} /\ qtds \in Seq(Qtds) /\ used \in Nat
  BY <1>1 DEF TransferTypes
<1>4. /\ count \in Nat /\ count <= l /\ count <= 20480
      /\ count # l => count >= 16384 /\ count % maxpacket = 0
      /\ l <= 256 => count = l
  BY CountIs
<1>5. InPlace(q) /\ q.hw_buf[0] = a /\ q \in Qtds /\ q.pid = pid /\ q.toggle = toggle1
      /\ q.length = count /\ q.left = count /\ q.alt = alt /\ ~q.ioc
  <2>1. pid \in {"setup", "in", "out"} /\ alt \in {"zero", "end"} /\ fill = qtd_fill(pid, toggle1, a, l, count)
    OBVIOUS
  <2>2. q = [fill EXCEPT !.alt = alt] /\ count = Count(a, l)
    OBVIOUS
  <2> HIDE DEF pid, count, fill, alt, q
  <2>3. /\ fill \in Qtds /\ fill.pid = pid /\ fill.toggle = toggle1
        /\ fill.hw_buf = hw_buf(a, l) /\ fill.length = count
        /\ fill.left = count /\ ~fill.ioc
    <3>1. toggle1 \in {0, 1} /\ count \in Nat
      BY <1>3, <1>4
    <3>2. pid \in {"setup", "in", "out"} /\ fill = qtd_fill(pid, toggle1, a, l, count)
      BY <2>1
    <3>3. hw_buf(a, l) \in Pages
      BY PagesAreTyped
    <3> QED BY <3>1, <3>2, <3>3 DEF qtd_fill, Qtds
  <2>4. /\ q \in Qtds /\ q.alt = alt /\ q.pid = pid /\ q.toggle = toggle1
        /\ q.hw_buf = hw_buf(a, l) /\ q.length = count /\ q.left = count /\ ~q.ioc
    BY <2>1, <2>2, <2>3, AltIs
  <2>5. InPlace(q)
    BY <1>2, <2>2, <2>4, BytesInPlace
  <2>6. hw_buf(a, l)[0] = a
    BY <1>2, PagesAreTyped
  <2> QED BY <2>4, <2>5, <2>6
<1>6. /\ used' = used + 1 /\ qtds' = Append(qtds, q) /\ stage' = next
      /\ rest' = [at |-> a + count, length |-> l - count]
  <2>1. used < EHCI_MAX_QTD
    BY <1>1, NoBug DEF TransferInv
  <2> QED BY <1>a, <2>1 DEF DataStage, Link
<1>7. toggle1' \in {0, 1} /\ UNCHANGED <<urb, cur, moved, result>>
  BY <1>3 DEF DataStage
<1>8. int' = int
  BY DEF DataStage
<1>9. pid \in {"in", "out"} /\ (pid = "in" /\ count # l => alt = "zero" \/ ~urb.input)
  OBVIOUS
<1>10. /\ next \in {"data", "status", "start"} /\ (next = "data" <=> count # l)
       /\ (next = "status" <=> (count = l /\ Control /\ urb.length > 0))
  BY DEF Control
<1>11. pid = DataPid
  BY DEF DataPid, Control
<1>12. pid = "in" /\ count # l => alt = "zero"
  <2>1. Control => count = l
    <3>1. ASSUME Control PROVE l <= 256
      <4>1. Len(qtds) = 1 /\ DataFrom = 2
        BY <1>1, <1>2, <3>1 DEF DataInv
      <4>2. a = urb.at /\ a + l = Limit /\ urb.length <= 256
        BY <1>a, <1>1, <3>1, <4>1 DEF DataInv, ListInv
      <4> QED BY <1>2, <4>2
    <3> QED BY <1>4, <3>1
  <2> QED BY <2>1 DEF Control
<1> HIDE DEF q, count, pid, next, fill, alt
<1>13. /\ qtds' \in Seq(Qtds) /\ Len(qtds') = n + 1
       /\ \A i \in Nat : 1 <= i /\ i <= n => qtds'[i] = qtds[i]
       /\ qtds'[n + 1] = q
  BY <1>0, <1>3, <1>5, <1>6, Appended
<1>14. (Control' <=> Control) /\ DataFrom' = DataFrom /\ Limit' = Limit /\ maxpacket' = maxpacket
  BY <1>7, SameUrb
<1>15. TransferTypes'
  <2>1. rest' \in Rests
    BY <1>2, <1>4, <1>6 DEF Rests
  <2>2. used' \in Nat /\ stage' \in UrbStages
    BY <1>3, <1>6, <1>10 DEF UrbStages
  <2> QED BY <1>1, <1>7, <1>8, <1>13, <2>1, <2>2, Zenon DEF TransferTypes
<1>16. ~Queued /\ DataTo = n
  BY <1>0, <1>1 DEF DataTo, Queued
<1>17. DataTo' = n + 1
  <2>1. Queued' /\ Control' => urb'.length = 0
    <3>1. next = "start" => ~(Control /\ urb.length > 0)
      BY <1>10
    <3> QED BY <1>2, <1>6, <1>7, <1>10, <1>14, <3>1 DEF Queued
  <2> QED BY <1>2, <1>7, <1>13, <2>1 DEF DataTo
<1>18. n + 1 >= DataFrom /\ (Control => n = 1) /\ (n < DataFrom => n + 1 = DataFrom)
  BY <1>0, <1>1, <1>2 DEF DataInv
<1>19. /\ n < DataFrom => a = urb.at
       /\ n >= DataFrom => a = Ends(n) /\ Full(n) /\ l > 0
       /\ a + l = Limit
       /\ ~Control => l + 16384 * n <= urb.length
  BY <1>0, <1>a, <1>1 DEF DataInv
(* The new one begins where the one before ended.                          *)
<1>20. Begins(n + 1)' = a /\ Ends(n + 1)' = a + count
  BY <1>5, <1>13 DEF Begins, Ends
<1>21. Placed(n + 1)'
  <2>1. n + 1 # DataFrom => Ends(n + 1 - 1)' = a
    <3>1. SUFFICES ASSUME n + 1 # DataFrom PROVE Ends(n + 1 - 1)' = a
      OBVIOUS
    <3>2. n >= DataFrom /\ 1 <= n /\ n + 1 - 1 = n
      BY <1>2, <1>18, <3>1
    <3>3. qtds'[n] = qtds[n]
      BY <1>2, <1>13, <3>2
    <3>4. Ends(n)' = Ends(n)
      BY <3>3 DEF Ends, Begins
    <3> QED BY <1>19, <3>2, <3>4
  <2>2. n + 1 = DataFrom => a = urb.at
    BY <1>2, <1>19
  <2>3. Ends(n + 1)' <= Limit'
    BY <1>2, <1>4, <1>14, <1>19, <1>20
  <2>4. qtds'[n + 1].pid # "setup" /\ qtds'[n + 1].length < 32768
    BY <1>4, <1>5, <1>9, <1>13
  <2>5. InPlace(qtds[n + 1])'
    BY <1>5, <1>13 DEF InPlace, Address
  <2> QED BY <1>7, <1>14, <1>20, <2>1, <2>2, <2>3, <2>4, <2>5 DEF Placed
<1>22. ASSUME NEW i \in Nat, DataFrom <= i, i <= n PROVE Placed(i)'
  <2>1. Placed(i) /\ 1 <= i
    BY <1>1, <1>2, <1>16, <1>22 DEF ListInv
  <2>2. qtds'[i] = qtds[i]
    BY <1>13, <1>22, <2>1
  <2>3. i # DataFrom => qtds'[i - 1] = qtds[i - 1]
    <3>1. i # DataFrom => i - 1 \in Nat /\ 1 <= i - 1 /\ i - 1 <= n
      BY <1>2, <1>22
    <3> QED BY <1>13, <3>1
  <2> QED BY <1>7, <2>1, <2>2, <2>3, PlacedStays DEF Alike
<1>23. ASSUME NEW i \in Nat, DataFrom <= i, i <= n PROVE Full(i)'
  <2>1. Full(i) /\ 1 <= i
    <3>1. CASE i = n
      BY <1>2, <1>19, <1>23, <3>1
    <3>2. CASE i # n
      BY <1>1, <1>2, <1>16, <1>23, <3>2 DEF ListInv
    <3> QED BY <3>1, <3>2
  <2>2. qtds'[i] = qtds[i]
    BY <1>13, <1>23, <2>1
  <2> QED BY <1>7, <2>1, <2>2, FullStays DEF Alike
<1>24. ListInv'
  <2>1. used = n /\ (Control => n >= 1 /\ qtds[1].pid = "setup" /\ qtds[1].length = 8)
        /\ urb.length <= 65535 /\ (Control => urb.length <= 256)
    BY <1>0, <1>1 DEF ListInv
  <2>2. used' = Len(qtds') /\ urb'.length <= 65535 /\ (Control' => urb'.length <= 256)
    BY <1>6, <1>7, <1>13, <1>14, <2>1
  <2>3. Control' => Len(qtds') >= 1 /\ qtds'[1].pid = "setup" /\ qtds'[1].length = 8
    <3>1. Control => qtds'[1] = qtds[1]
      BY <1>13, <2>1
    <3> QED BY <1>2, <1>13, <1>14, <2>1, <3>1
  <2>4. \A i \in Nat : DataFrom' <= i /\ i <= DataTo' => Placed(i)'
    <3>1. \A i \in Nat : i <= n + 1 => i = n + 1 \/ i <= n
      BY <1>2
    <3> QED BY <1>14, <1>17, <1>21, <1>22, <3>1
  <2>5. \A i \in Nat : DataFrom' <= i /\ i < DataTo' => Full(i)'
    <3>1. \A i \in Nat : i < n + 1 => i <= n
      BY <1>2
    <3> QED BY <1>14, <1>17, <1>23, <3>1
  <2>6. stage' # "idle" /\ stage' # "setup"
    BY <1>6, <1>10
  <2> QED BY <2>2, <2>3, <2>4, <2>5, <2>6 DEF ListInv
<1>25. DataInv'
  <2>1. SUFFICES ASSUME stage' = "data" PROVE DataInv'
    BY DEF DataInv
  <2>2. count # l /\ count >= 16384 /\ count % maxpacket = 0
    BY <1>4, <1>6, <1>10, <2>1
  <2>3. ~Control
    <3>1. Control => urb.length <= 256
      BY <1>1 DEF ListInv
    <3>2. Control => l <= 256
      BY <1>2, <1>18, <1>19, <3>1
    <3> QED BY <1>4, <2>2, <3>2
  <2>4. Full(n + 1)'
    BY <1>5, <1>12, <1>13, <1>14, <2>2 DEF Full
  <2>5. rest'.at = a + count /\ rest'.length = l - count
    BY <1>6
  <2>6. rest'.length > 0 /\ rest'.at + rest'.length = Limit'
    BY <1>2, <1>4, <1>14, <1>19, <2>2, <2>5
  <2>7. rest'.length + 16384 * Len(qtds') <= urb'.length
    <3>1. l + 16384 * n <= urb.length
      BY <1>19, <2>3
    <3>2. l - count + 16384 * (n + 1) <= urb.length
      BY <1>2, <1>4, <2>2, <3>1, LessIsLeft
    <3> QED BY <1>7, <1>13, <2>5, <3>2
  <2>8. ~(Len(qtds') < DataFrom')
    BY <1>2, <1>13, <1>14, <1>18
  <2>9. rest'.at = Ends(Len(qtds))'
    <3>1. Ends(Len(qtds))' = Ends(n + 1)'
      BY <1>13 DEF Ends, Begins
    <3> QED BY <1>20, <2>5, <3>1
  <2>10. Full(Len(qtds))'
    BY <1>13, <2>4 DEF Full
  <2> QED BY <1>14, <2>3, <2>6, <2>7, <2>8, <2>9, <2>10 DEF DataInv
<1>26. EndInv'
  <2>1. stage' = "status" => Control' /\ urb'.length > 0 /\ Len(qtds') = 2
    BY <1>6, <1>7, <1>10, <1>13, <1>14, <1>18
  <2>2. ASSUME stage' # "data"
        PROVE  /\ DataTo' >= DataFrom' /\ Ends(DataTo)' = Limit'
               /\ urb'.length = 0 => DataTo' = DataFrom'
               /\ urb'.length # 0 => qtds'[DataTo'].length > 0
    <3>1. count = l
      BY <1>6, <1>10, <2>2
    <3>2. Ends(n + 1)' = Limit'
      BY <1>14, <1>19, <1>20, <3>1
    <3>3. urb.length = 0 => n + 1 = DataFrom
      <4>1. SUFFICES ASSUME urb.length = 0, n >= DataFrom PROVE FALSE
        BY <1>2, <1>18
      <4>2. ~Control
        BY <1>2, <1>18, <4>1
      <4> QED BY <1>2, <1>19, <4>1, <4>2
    <3>4. urb.length # 0 => count > 0
      <4>1. CASE n >= DataFrom
        BY <1>19, <3>1, <4>1
      <4>2. CASE n < DataFrom
        BY <1>2, <1>19, <3>1, <4>2
      <4> QED BY <1>2, <4>1, <4>2
    <3>5. qtds'[DataTo'].length = count
      BY <1>5, <1>13, <1>17
    <3>6. Ends(DataTo)' = Ends(n + 1)'
      BY <1>17 DEF Ends, Begins
    <3> QED BY <1>7, <1>14, <1>17, <1>18, <3>2, <3>3, <3>4, <3>5, <3>6
  <2>3. ASSUME Queued', Control' PROVE Ending(qtds[Len(qtds)])'
    <3>1. stage' = "start" /\ count = l /\ urb.length = 0 /\ Control
      BY <1>2, <1>6, <1>10, <1>14, <2>3 DEF Queued
    <3>2. toggle1 = 1 /\ n = 1
      <4>1. toggle1 = 1 /\ Len(qtds) = 1
        BY <1>1, <3>1 DEF DataInv
      <4> QED BY <1>0, <4>1
    <3>3. l = 0
      BY <1>2, <1>18, <1>19, <3>1, <3>2
    <3>4. pid = "in"
      BY <1>11, <3>1 DEF DataPid
    <3>5. q.toggle = 1 /\ q.length = 0 /\ q.pid = "in"
      BY <1>5, <3>1, <3>2, <3>3, <3>4
    <3>6. qtds'[Len(qtds')] = q /\ urb'.length = 0
      BY <1>7, <1>13, <3>1
    <3> QED BY <3>5, <3>6 DEF Ending
  <2> QED BY <1>6, <1>10, <2>1, <2>2, <2>3 DEF EndInv
<1>27. MoveInv'
  <2>1. cur' = 1 /\ moved' = 0
    BY <1>1, <1>7 DEF MoveInv
  <2>2. ASSUME NEW i \in Nat, 1 <= i, i <= n + 1 PROVE Unmoved(i)'
    <3>1. CASE i = n + 1
      BY <1>5, <1>13, <3>1 DEF Unmoved
    <3>2. CASE i # n + 1
      <4>1. i <= n
        BY <1>2, <2>2, <3>2
      <4>2. qtds'[i] = qtds[i] /\ Unmoved(i)
        BY <1>0, <1>1, <1>13, <2>2, <4>1 DEF MoveInv
      <4> QED BY <4>2 DEF Unmoved
    <3> QED BY <3>1, <3>2
  <2>3. stage' # "handshake"
    BY <1>6, <1>10
  <2> QED BY <1>13, <2>1, <2>2, <2>3 DEF MoveInv
<1>28. IntInv'
  <2>1. ~int'
    BY <1>1, <1>8 DEF IntInv
  <2>2. ASSUME NEW i \in Nat, 1 <= i, i <= n + 1 PROVE ~qtds'[i].ioc
    <3>1. CASE i = n + 1
      BY <1>5, <1>13, <3>1
    <3>2. CASE i # n + 1
      <4>1. i <= n
        BY <1>2, <2>2, <3>2
      <4>2. qtds'[i] = qtds[i] /\ ~qtds[i].ioc
        BY <1>0, <1>1, <1>13, <2>2, <4>1 DEF IntInv
      <4> QED BY <4>2
    <3> QED BY <3>1, <3>2
  <2>3. stage' # "handshake"
    BY <1>6, <1>10
  <2> QED BY <1>13, <2>1, <2>2, <2>3 DEF IntInv
<1> QED BY <1>15, <1>24, <1>25, <1>26, <1>27, <1>28 DEF TransferInv

LEMMA StatusKeeps ==
  ASSUME TransferInv, StatusStage
  PROVE  TransferInv'
<1> DEFINE pid == IF urb.input THEN "out" ELSE "in"
           q   == qtd_fill(pid, 1, 0, 0, 0)
<1>1. q \in Qtds /\ q.pid = pid /\ q.toggle = 1 /\ q.length = 0 /\ q.left = 0 /\ ~q.ioc
  <2>1. hw_buf(0, 0) \in Pages
    BY PagesAreTyped
  <2> QED BY <2>1 DEF qtd_fill, Qtds
<1>2. TransferTypes /\ ListInv /\ EndInv /\ MoveInv /\ IntInv /\ stage = "status"
  BY DEF TransferInv, StatusStage
<1>3. Control /\ urb.length > 0 /\ Len(qtds) = 2 /\ used = 2 /\ DataFrom = 2 /\ qtds \in Seq(Qtds)
  <2>1. Control /\ urb.length > 0 /\ Len(qtds) = 2
    BY <1>2 DEF EndInv
  <2>2. used = Len(qtds)
    BY <1>2 DEF ListInv
  <2>3. qtds \in Seq(Qtds)
    BY <1>2 DEF TransferTypes
  <2> QED BY <2>1, <2>2, <2>3 DEF DataFrom
<1>4. qtds' = Append(qtds, q) /\ used' = 3 /\ stage' = "start"
  BY <1>3 DEF StatusStage, Link, EHCI_MAX_QTD
<1>5. UNCHANGED <<urb, rest, toggle1, cur, moved, result>>
  BY DEF StatusStage
<1>6. int' = int
  BY DEF StatusStage
<1>7. pid = IF urb.input /\ urb.length > 0 THEN "out" ELSE "in"
  BY <1>3
<1> HIDE DEF q, pid
<1>8. /\ qtds' \in Seq(Qtds) /\ Len(qtds') = 3 /\ qtds'[3] = q
      /\ qtds'[1] = qtds[1] /\ qtds'[2] = qtds[2]
  <2>1. /\ Append(qtds, q) \in Seq(Qtds) /\ Len(Append(qtds, q)) = Len(qtds) + 1
        /\ \A i \in Nat : 1 <= i /\ i <= Len(qtds) => Append(qtds, q)[i] = qtds[i]
        /\ Append(qtds, q)[Len(qtds) + 1] = q
    BY <1>1, <1>3, Appended
  <2> QED BY <1>3, <1>4, <2>1
<1>9. TransferTypes'
  <2>1. stage' \in UrbStages /\ used' \in Nat
    BY <1>4 DEF UrbStages
  <2> QED BY <1>2, <1>5, <1>6, <1>8, <2>1, Zenon DEF TransferTypes
<1>10. Control' /\ DataFrom' = 2 /\ Limit' = Limit /\ urb'.length > 0 /\ urb'.length = urb.length
  BY <1>3, <1>5, SameUrb
<1>11. Queued' /\ ~Queued /\ DataTo' = 2 /\ DataTo = 2
  BY <1>2, <1>3, <1>4, <1>8, <1>10 DEF DataTo, Queued
<1>12. Placed(2)'
  <2>1. Placed(2)
    BY <1>2, <1>3, <1>11 DEF ListInv
  <2> QED BY <1>3, <1>5, <1>8, <2>1, PlacedStays DEF Alike
<1>13. ListInv'
  <2>1. \A i \in Nat : 2 <= i /\ i <= 2 => i = 2
    OBVIOUS
  <2>2. \A i \in Nat : ~(2 <= i /\ i < 2)
    OBVIOUS
  <2>3. urb.length <= 256 /\ urb.length <= 65535 /\ qtds[1].pid = "setup" /\ qtds[1].length = 8
    BY <1>2, <1>3 DEF ListInv
  <2> QED BY <1>4, <1>8, <1>10, <1>11, <1>12, <2>1, <2>2, <2>3 DEF ListInv
<1>14. DataInv'
  BY <1>4 DEF DataInv
<1>15. EndInv'
  <2>1. Ends(2) = Limit /\ qtds[2].length > 0
    BY <1>2, <1>3, <1>11 DEF EndInv
  <2>2. Ends(DataTo)' = Ends(2)
    BY <1>8, <1>11 DEF Ends, Begins
  <2>3. Ending(qtds[Len(qtds)])'
    BY <1>1, <1>5, <1>7, <1>8 DEF Ending
  <2>4. DataTo' >= DataFrom' /\ Ends(DataTo)' = Limit' /\ urb'.length # 0
    BY <1>10, <1>11, <2>1, <2>2
  <2>5. qtds'[DataTo'].length > 0
    BY <1>8, <1>11, <2>1
  <2> QED BY <1>4, <2>3, <2>4, <2>5 DEF EndInv
<1>16. \A i \in Nat : 1 <= i /\ i <= 3 => i = 1 \/ i = 2 \/ i = 3
  OBVIOUS
<1>17. MoveInv'
  <2>1. cur' = 1 /\ moved' = 0 /\ Unmoved(1) /\ Unmoved(2)
    BY <1>2, <1>3, <1>5 DEF MoveInv
  <2>2. Unmoved(1)' /\ Unmoved(2)' /\ Unmoved(3)'
    BY <1>1, <1>8, <2>1 DEF Unmoved
  <2> QED BY <1>4, <1>8, <1>16, <2>1, <2>2 DEF MoveInv
<1>18. IntInv'
  <2>1. ~int' /\ ~qtds[1].ioc /\ ~qtds[2].ioc
    BY <1>2, <1>3, <1>6 DEF IntInv
  <2>2. ~qtds'[1].ioc /\ ~qtds'[2].ioc /\ ~qtds'[3].ioc
    BY <1>1, <1>8, <2>1
  <2> QED BY <1>4, <1>8, <1>16, <2>1, <2>2 DEF IntInv
<1> QED BY <1>9, <1>13, <1>14, <1>15, <1>17, <1>18 DEF TransferInv

(* The qtds stay where they are once the queue head is linked.             *)
SameQtds ==
  /\ Len(qtds') = Len(qtds)
  /\ \A i \in Nat : 1 <= i /\ i <= Len(qtds) => Alike(qtds'[i], qtds[i])

LEMMA LayoutStays ==
  ASSUME TransferInv, stage \in {"start", "handshake"}, stage' = "handshake",
         urb' = urb, used' = used, SameQtds
  PROVE  /\ ListInv' /\ DataInv' /\ EndInv'
         /\ DataFrom' = DataFrom /\ DataTo' = DataTo /\ Len(qtds') = Len(qtds)
         /\ \A i \in Nat : DataFrom <= i /\ i <= DataTo => Begins(i)' = Begins(i)
<1>1. TransferTypes /\ ListInv /\ EndInv
  BY DEF TransferInv
<1>2. (Control' <=> Control) /\ DataFrom' = DataFrom /\ Limit' = Limit
  BY SameUrb
<1>3. /\ urb.length \in Nat /\ DataFrom \in Nat /\ DataFrom >= 1 /\ Len(qtds) \in Nat
      /\ (Control => DataFrom = 2)
  BY <1>1, Typed
<1>4. Queued /\ Queued' /\ DataTo' = DataTo /\ DataTo \in Int /\ DataTo <= Len(qtds)
  BY <1>2, <1>3 DEF Queued, DataTo, SameQtds
<1>5. DataTo >= DataFrom
  BY <1>1 DEF EndInv
<1>6. ASSUME NEW i \in Nat, DataFrom <= i, i <= DataTo PROVE Placed(i)'
  <2>1. Placed(i)
    BY <1>1, <1>6 DEF ListInv
  <2>2. Alike(qtds'[i], qtds[i])
    BY <1>3, <1>4, <1>6 DEF SameQtds
  <2>3. i # DataFrom => Alike(qtds'[i - 1], qtds[i - 1])
    <3>1. i # DataFrom => i - 1 \in Nat /\ 1 <= i - 1 /\ i - 1 <= Len(qtds)
      BY <1>3, <1>4, <1>6
    <3> QED BY <3>1 DEF SameQtds
  <2> QED BY <2>1, <2>2, <2>3, PlacedStays
<1>7. ASSUME NEW i \in Nat, DataFrom <= i, i < DataTo PROVE Full(i)'
  <2>1. Full(i)
    BY <1>1, <1>7 DEF ListInv
  <2>2. Alike(qtds'[i], qtds[i])
    BY <1>3, <1>4, <1>7 DEF SameQtds
  <2> QED BY <2>1, <2>2, FullStays
<1>8. ListInv'
  <2>1. Control => Len(qtds) >= 1 /\ qtds[1].pid = "setup" /\ qtds[1].length = 8
    BY <1>1 DEF ListInv
  <2>2. Control => qtds'[1].pid = "setup" /\ qtds'[1].length = 8
    <3>1. Control => Alike(qtds'[1], qtds[1])
      BY <1>3, <2>1 DEF SameQtds
    <3> QED BY <2>1, <3>1 DEF Alike
  <2>3. used = Len(qtds) /\ urb.length <= 65535 /\ (Control => urb.length <= 256)
    BY <1>1 DEF ListInv
  <2> QED BY <1>2, <1>4, <1>6, <1>7, <2>1, <2>2, <2>3 DEF ListInv, SameQtds
<1>9. DataInv'
  BY DEF DataInv
<1>10. Alike(qtds'[DataTo], qtds[DataTo])
  BY <1>3, <1>4, <1>5 DEF SameQtds
<1>11. EndInv'
  <2>1. /\ Ends(DataTo) = Limit
        /\ urb.length = 0 => DataTo = DataFrom
        /\ urb.length # 0 => qtds[DataTo].length > 0
    BY <1>1 DEF EndInv
  <2>2. Ends(DataTo)' = Ends(DataTo) /\ qtds'[DataTo'].length = qtds[DataTo].length
    BY <1>4, <1>10 DEF Ends, Begins, Alike
  <2>3. ASSUME Control PROVE Ending(qtds[Len(qtds)])'
    <3>1. Ending(qtds[Len(qtds)])
      BY <1>1, <1>4, <2>3 DEF EndInv
    <3>2. Alike(qtds'[Len(qtds)], qtds[Len(qtds)])
      BY <1>3, <1>4, <1>5 DEF SameQtds
    <3> QED BY <3>1, <3>2 DEF Ending, Alike, SameQtds
  <2> QED BY <1>2, <1>4, <1>5, <2>1, <2>2, <2>3 DEF EndInv
<1>12. ASSUME NEW i \in Nat, DataFrom <= i, i <= DataTo PROVE Begins(i)' = Begins(i)
  <2>1. Alike(qtds'[i], qtds[i])
    BY <1>3, <1>4, <1>12 DEF SameQtds
  <2> QED BY <2>1 DEF Begins, Alike
<1> QED BY <1>2, <1>4, <1>8, <1>9, <1>11, <1>12 DEF SameQtds

(* A qtd of the list is changed, but not in what it tells the controller.  *)
MarkAt(s, n) == [s EXCEPT ![n].ioc = TRUE]

LEMMA Marked ==
  ASSUME NEW s \in Seq(Qtds), NEW n \in Nat, 1 <= n, n <= Len(s)
  PROVE  /\ MarkAt(s, n) \in Seq(Qtds) /\ Len(MarkAt(s, n)) = Len(s)
         /\ \A i \in Nat : 1 <= i /\ i <= Len(s) =>
              /\ Alike(MarkAt(s, n)[i], s[i]) /\ MarkAt(s, n)[i].left = s[i].left
              /\ i # n => MarkAt(s, n)[i] = s[i]
<1> DEFINE r == MarkAt(s, n)
<1>1. n \in 1 .. Len(s) /\ s[n] \in Qtds /\ s \in [1 .. Len(s) -> Qtds]
  OBVIOUS
<1> DEFINE q == [s[n] EXCEPT !.ioc = TRUE]
<1>2. q \in Qtds /\ Alike(q, s[n]) /\ q.left = s[n].left
  BY <1>1 DEF Qtds, Alike
<1>3. r = [s EXCEPT ![n] = q]
  BY DEF MarkAt
<1> HIDE DEF q, r
<1>4. r \in Seq(Qtds) /\ Len(r) = Len(s) /\ r[n] = q
  <2>1. r \in [1 .. Len(s) -> Qtds] /\ r[n] = q
    BY <1>1, <1>2, <1>3
  <2> QED BY <2>1
<1>5. ASSUME NEW i \in Nat, 1 <= i, i <= Len(s), i # n PROVE r[i] = s[i]
  <2>1. i \in 1 .. Len(s)
    BY <1>5
  <2> QED BY <1>1, <1>3, <1>5, <2>1
<1>6. \A i : Alike(s[i], s[i])
  BY DEF Alike
<1>7. ASSUME NEW i \in Nat, 1 <= i, i <= Len(s) PROVE Alike(r[i], s[i]) /\ r[i].left = s[i].left
  BY <1>2, <1>4, <1>5, <1>6, <1>7
<1> QED BY <1>4, <1>5, <1>7 DEF r

LEMMA StartKeeps ==
  ASSUME TransferInv, StartUrb
  PROVE  TransferInv'
<1>1. TransferTypes /\ ListInv /\ EndInv /\ MoveInv /\ IntInv /\ stage = "start"
  BY DEF TransferInv, StartUrb
<1>2. /\ urb.length \in Nat /\ DataFrom \in Nat /\ DataFrom >= 1 /\ Len(qtds) \in Nat
      /\ urb.at \in Nat /\ qtds \in Seq(Qtds)
  BY <1>1, Typed DEF TransferTypes
<1>3. DataTo >= DataFrom /\ DataTo \in Int /\ DataTo <= Len(qtds)
  BY <1>1, <1>2 DEF EndInv, DataTo
<1>4. Len(qtds) >= 1
  BY <1>2, <1>3
<1>5. qtds' = [qtds EXCEPT ![Len(qtds)].ioc = TRUE] /\ stage' = "handshake"
  BY DEF StartUrb
<1>6. UNCHANGED <<urb, rest, toggle1, used, cur, moved, result>>
  BY DEF StartUrb
<1>7. int' = int
  BY DEF StartUrb
<1>8. /\ qtds' \in Seq(Qtds) /\ Len(qtds') = Len(qtds)
      /\ \A i \in Nat : 1 <= i /\ i <= Len(qtds) =>
           /\ Alike(qtds'[i], qtds[i]) /\ qtds'[i].left = qtds[i].left
           /\ i # Len(qtds) => qtds'[i] = qtds[i]
  <2>1. PICK n \in Nat : n = Len(qtds)
    BY <1>2
  <2>2. qtds \in Seq(Qtds) /\ 1 <= n /\ n <= Len(qtds)
    BY <1>2, <1>4, <2>1
  <2>3. qtds' = MarkAt(qtds, n)
    BY <1>5, <2>1 DEF MarkAt
  <2>4. /\ qtds' \in Seq(Qtds) /\ Len(qtds') = Len(qtds)
        /\ \A i \in Nat : 1 <= i /\ i <= Len(qtds) =>
             /\ Alike(qtds'[i], qtds[i]) /\ qtds'[i].left = qtds[i].left
             /\ i # n => qtds'[i] = qtds[i]
    BY <2>2, <2>3, Marked
  <2> QED BY <2>1, <2>4
<1>9. SameQtds
  BY <1>8 DEF SameQtds
<1>10. TransferTypes'
  <2>1. stage' \in UrbStages
    BY <1>5 DEF UrbStages
  <2> QED BY <1>1, <1>6, <1>7, <1>8, <2>1, Zenon DEF TransferTypes
<1>11. /\ ListInv' /\ DataInv' /\ EndInv'
       /\ DataFrom' = DataFrom /\ DataTo' = DataTo
       /\ \A i \in Nat : DataFrom <= i /\ i <= DataTo => Begins(i)' = Begins(i)
  BY <1>1, <1>5, <1>6, <1>9, LayoutStays
<1>12. cur = 1 /\ moved = 0 /\ \A i \in Nat : 1 <= i /\ i <= Len(qtds) => Unmoved(i)
  BY <1>1 DEF MoveInv
<1>13. MoveInv'
  <2>1. ASSUME NEW i \in Nat, 1 <= i, i <= Len(qtds) PROVE Unmoved(i)'
    BY <1>8, <1>12, <2>1 DEF Unmoved, Alike
  <2>2. actual_length(qtds') = 0
    <3>1. \A i \in 1 .. Len(qtds') : qtds'[i].left = qtds'[i].length
      BY <1>2, <1>8, <2>1 DEF Unmoved
    <3> QED BY <1>8, <3>1, SumOfNone
  <2>3. DataFrom' <= cur' => Begins(cur)' = urb'.at
    <3>1. SUFFICES ASSUME DataFrom <= 1 PROVE Begins(cur)' = urb'.at
      BY <1>6, <1>11, <1>12
    <3>2. DataFrom = 1
      BY <1>2, <3>1
    <3>3. Placed(1)
      BY <1>1, <1>3, <3>2 DEF ListInv
    <3>4. Begins(1) = urb.at /\ Begins(1)' = Begins(1)
      BY <1>3, <1>11, <3>2, <3>3 DEF Placed
    <3>5. Begins(cur)' = Begins(1)'
      BY <1>6, <1>12 DEF Begins
    <3> QED BY <1>6, <3>4, <3>5
  <2>4. cur' = 1 /\ moved' = 0 /\ urb'.length \in Nat /\ urb'.at \in Nat
    BY <1>2, <1>6, <1>12
  <2>5. ~(cur' > DataTo')
    BY <1>2, <1>3, <1>11, <2>4
  <2> QED BY <1>2, <1>5, <1>8, <2>1, <2>2, <2>3, <2>4, <2>5 DEF MoveInv
<1>14. IntInv'
  <2>1. ~int' /\ \A i \in Nat : 1 <= i /\ i <= Len(qtds) => ~qtds[i].ioc
    BY <1>1, <1>7 DEF IntInv
  <2>2. \A i \in Nat : 1 <= i /\ i < Len(qtds) => qtds'[i] = qtds[i]
    BY <1>2, <1>8
  <2>3. \A i \in Nat : 1 <= i /\ i < Len(qtds') => ~qtds'[i].ioc
    BY <1>2, <1>8, <2>1, <2>2
  <2> QED BY <1>5, <2>1, <2>3 DEF IntInv
<1> QED BY <1>10, <1>11, <1>13, <1>14 DEF TransferInv
-----------------------------------------------------------------------------
(* Then the list as the controller goes through it.                        *)
MovedAt(s, n, k) == [s EXCEPT ![n].left = @ - k]

LEMMA MovedIs ==
  ASSUME NEW s \in Seq(Qtds), NEW n \in Nat, 1 <= n, n <= Len(s), NEW k \in Nat, k <= s[n].left
  PROVE  /\ MovedAt(s, n, k) \in Seq(Qtds) /\ Len(MovedAt(s, n, k)) = Len(s)
         /\ MovedAt(s, n, k)[n].left = s[n].left - k
         /\ \A i \in Nat : 1 <= i /\ i <= Len(s) =>
              /\ Alike(MovedAt(s, n, k)[i], s[i]) /\ (MovedAt(s, n, k)[i].ioc <=> s[i].ioc)
              /\ i # n => MovedAt(s, n, k)[i] = s[i]
<1> DEFINE r == MovedAt(s, n, k)
<1>1. n \in 1 .. Len(s) /\ s[n] \in Qtds /\ s \in [1 .. Len(s) -> Qtds]
  OBVIOUS
<1> DEFINE q == [s[n] EXCEPT !.left = @ - k]
<1>2. q \in Qtds /\ Alike(q, s[n]) /\ (q.ioc <=> s[n].ioc) /\ q.left = s[n].left - k
  <2>1. s[n].left \in Nat /\ s[n].left - k \in Nat
    <3>1. s[n].left \in Nat
      BY <1>1, QtdTyped
    <3> QED BY <3>1
  <2>2. q \in Qtds
    BY <1>1, <2>1 DEF Qtds
  <2>3. Alike(q, s[n]) /\ (q.ioc <=> s[n].ioc) /\ q.left = s[n].left - k
    BY <1>1 DEF Qtds, Alike
  <2> QED BY <2>2, <2>3
<1>3. r = [s EXCEPT ![n] = q]
  BY DEF MovedAt
<1> HIDE DEF q, r
<1>4. r \in Seq(Qtds) /\ Len(r) = Len(s) /\ r[n] = q
  <2>1. r \in [1 .. Len(s) -> Qtds] /\ r[n] = q
    BY <1>1, <1>2, <1>3
  <2> QED BY <2>1
<1>5. ASSUME NEW i \in Nat, 1 <= i, i <= Len(s), i # n PROVE r[i] = s[i]
  <2>1. i \in 1 .. Len(s)
    BY <1>5
  <2> QED BY <1>1, <1>3, <1>5, <2>1
<1>6. \A i : Alike(s[i], s[i])
  BY DEF Alike
<1>7. ASSUME NEW i \in Nat, 1 <= i, i <= Len(s) PROVE Alike(r[i], s[i]) /\ (r[i].ioc <=> s[i].ioc)
  BY <1>2, <1>4, <1>5, <1>6, <1>7
<1> QED BY <1>2, <1>4, <1>5, <1>7 DEF r

(* Where the controller is, and what its qtd is for.                       *)
LEMMA AtQtd ==
  ASSUME TransferInv, stage = "handshake", cur <= Len(qtds)
  PROVE  /\ cur < DataFrom => Control /\ cur = 1 /\ qtds[cur].pid = "setup" /\ qtds[cur].length = 8
         /\ DataFrom <= cur /\ cur <= DataTo =>
              /\ Placed(cur) /\ moved = Begins(cur) - urb.at
              /\ Begins(cur) \in Nat /\ Ends(cur) = Begins(cur) + qtds[cur].length
         /\ cur > DataTo => cur = Len(qtds) /\ qtds[cur].length = 0 /\ qtds[cur].pid # "setup"
         /\ cur \in Nat /\ cur >= 1 /\ qtds[cur].length \in Nat /\ qtds[cur].left = qtds[cur].length
         /\ DataTo \in Int /\ DataTo >= DataFrom /\ DataTo <= Len(qtds) /\ Ends(DataTo) = Limit
<1>1. TransferTypes /\ ListInv /\ EndInv /\ MoveInv
  BY DEF TransferInv
<1>2. /\ urb.length \in Nat /\ DataFrom \in Nat /\ DataFrom >= 1 /\ Len(qtds) \in Nat
      /\ (Control => DataFrom = 2) /\ (~Control => DataFrom = 1)
  BY <1>1, Typed
<1>3. cur \in Nat /\ cur >= 1 /\ qtds \in Seq(Qtds)
  BY <1>1 DEF TransferTypes
<1>4. Queued
  BY DEF Queued
<1>5. DataTo \in Int /\ DataTo <= Len(qtds) /\ DataTo >= Len(qtds) - 1 /\ (DataTo # Len(qtds) => Control)
  BY <1>2 DEF DataTo
<1>6. DataTo >= DataFrom /\ Ends(DataTo) = Limit
  BY <1>1 DEF EndInv
<1>7. qtds[cur].length \in Nat
  BY <1>3, OneOf, QtdTyped
<1>8. Unmoved(cur)
  BY <1>1, <1>3 DEF MoveInv
<1>9. ASSUME cur < DataFrom
      PROVE  Control /\ cur = 1 /\ qtds[cur].pid = "setup" /\ qtds[cur].length = 8
  <2>1. Control /\ cur = 1
    BY <1>2, <1>3, <1>9
  <2> QED BY <1>1, <2>1 DEF ListInv
<1>10. ASSUME DataFrom <= cur, cur <= DataTo
       PROVE  /\ Placed(cur) /\ moved = Begins(cur) - urb.at
              /\ Begins(cur) \in Nat /\ Ends(cur) = Begins(cur) + qtds[cur].length
  <2>1. Placed(cur)
    BY <1>1, <1>3, <1>10 DEF ListInv
  <2>2. moved = Begins(cur) - urb.at
    BY <1>1, <1>10 DEF MoveInv
  <2>3. InPlace(qtds[cur])
    BY <2>1 DEF Placed
  <2> QED BY <1>3, <2>1, <2>2, <2>3, BeginsTyped
<1>11. ASSUME cur > DataTo
       PROVE  cur = Len(qtds) /\ qtds[cur].length = 0 /\ qtds[cur].pid # "setup"
  <2>1. cur = Len(qtds) /\ Control
    BY <1>2, <1>3, <1>5, <1>11
  <2>2. Ending(qtds[cur])
    BY <1>1, <1>4, <2>1 DEF EndInv
  <2> QED BY <2>1, <2>2 DEF Ending
<1> QED BY <1>3, <1>5, <1>6, <1>7, <1>8, <1>9, <1>10, <1>11 DEF Unmoved

(* k bytes of a qtd are moved, and the controller goes on: to the next qtd *)
(* behind a whole one, behind the data otherwise.                          *)
LEMMA MoveKeeps ==
  ASSUME TransferInv, stage = "handshake", cur <= Len(qtds),
         NEW k \in Nat, k <= qtds[cur].length, Move(k),
         cur' \in Nat, cur' > cur, cur' <= Len(qtds) + 1,
         cur' = cur + 1 \/ cur' > DataTo,
         k < qtds[cur].length => cur' > DataTo,
         k = qtds[cur].length => cur' = cur + 1 \/ k = 0,
         int' \in BOOLEAN, int' => cur' > DataTo
  PROVE  TransferInv'
<1>1. TransferTypes /\ ListInv /\ EndInv /\ MoveInv /\ IntInv
  BY DEF TransferInv
<1>2. /\ urb.length \in Nat /\ urb.at \in Nat /\ Limit = urb.at + urb.length
      /\ DataFrom \in Nat /\ DataFrom >= 1 /\ DataFrom <= 2 /\ Len(qtds) \in Nat
  BY <1>1, Typed
<1>3. qtds \in Seq(Qtds) /\ moved \in Nat
  BY <1>1 DEF TransferTypes
<1>4. /\ cur < DataFrom => Control /\ cur = 1 /\ qtds[cur].pid = "setup" /\ qtds[cur].length = 8
      /\ DataFrom <= cur /\ cur <= DataTo =>
           /\ Placed(cur) /\ moved = Begins(cur) - urb.at
           /\ Begins(cur) \in Nat /\ Ends(cur) = Begins(cur) + qtds[cur].length
      /\ cur > DataTo => cur = Len(qtds) /\ qtds[cur].length = 0 /\ qtds[cur].pid # "setup"
      /\ cur \in Nat /\ cur >= 1 /\ qtds[cur].length \in Nat /\ qtds[cur].left = qtds[cur].length
      /\ DataTo \in Int /\ DataTo >= DataFrom /\ DataTo <= Len(qtds) /\ Ends(DataTo) = Limit
  BY AtQtd
<1>5. PICK c \in Nat : c = cur
  BY <1>4
<1>6. /\ qtds' \in Seq(Qtds) /\ Len(qtds') = Len(qtds)
      /\ qtds'[c].left = qtds[c].left - k
      /\ \A i \in Nat : 1 <= i /\ i <= Len(qtds) =>
           /\ Alike(qtds'[i], qtds[i]) /\ (qtds'[i].ioc <=> qtds[i].ioc)
           /\ i # c => qtds'[i] = qtds[i]
  <2>1. qtds' = MovedAt(qtds, c, k)
    BY <1>5 DEF Move, MovedAt
  <2>2. 1 <= c /\ c <= Len(qtds) /\ k <= qtds[c].left
    BY <1>4, <1>5
  <2>3. /\ MovedAt(qtds, c, k) \in Seq(Qtds) /\ Len(MovedAt(qtds, c, k)) = Len(qtds)
        /\ MovedAt(qtds, c, k)[c].left = qtds[c].left - k
        /\ \A i \in Nat : 1 <= i /\ i <= Len(qtds) =>
             /\ Alike(MovedAt(qtds, c, k)[i], qtds[i]) /\ (MovedAt(qtds, c, k)[i].ioc <=> qtds[i].ioc)
             /\ i # c => MovedAt(qtds, c, k)[i] = qtds[i]
    BY <1>3, <2>2, MovedIs
  <2> QED BY <2>1, <2>3
<1>7. UNCHANGED <<urb, rest, toggle1, used, stage, result>>
  BY DEF Move
<1>8. moved' = IF qtds[c].pid = "setup" THEN moved ELSE moved + k
  BY <1>5 DEF Move
<1>9. SameQtds
  BY <1>6 DEF SameQtds
<1>10. /\ ListInv' /\ DataInv' /\ EndInv'
       /\ DataFrom' = DataFrom /\ DataTo' = DataTo
       /\ \A i \in Nat : DataFrom <= i /\ i <= DataTo => Begins(i)' = Begins(i)
  BY <1>7, <1>9, LayoutStays
<1>11. TransferTypes'
  <2>1. moved' \in Nat /\ cur' \in Nat \ {0}
    BY <1>3, <1>4, <1>8
  <2> QED BY <1>1, <1>6, <1>7, <2>1, Zenon DEF TransferTypes
<1>12. moved' = actual_length(qtds')
  <2>1. moved = actual_length(qtds)
    BY <1>1 DEF MoveInv
  <2>2. c \in 1 .. Len(qtds) /\ qtds \in Seq(Qtds) /\ qtds' \in Seq(Qtds) /\ Len(qtds') = Len(qtds)
    BY <1>3, <1>4, <1>5, <1>6
  <2>3. \A i \in 1 .. Len(qtds) : i # c => Counted(qtds'[i]) = Counted(qtds[i])
    <3>1. \A i \in 1 .. Len(qtds) : i # c => qtds'[i] = qtds[i]
      BY <1>6
    <3> QED BY <3>1
  <2>4. qtds'[c].pid = qtds[c].pid /\ qtds'[c].length = qtds[c].length
    BY <1>4, <1>5, <1>6 DEF Alike
  <2>5. qtds[c].length \in Nat /\ qtds[c].left = qtds[c].length
    BY <1>4, <1>5
  <2>6. CASE qtds[c].pid = "setup"
    <3>1. Counted(qtds'[c]) = Counted(qtds[c]) + 0
      BY <2>4, <2>6 DEF Counted
    <3>2. actual_length(qtds') = actual_length(qtds) + 0
      BY <2>2, <2>3, <3>1, SumGrows
    <3> QED BY <1>3, <1>8, <2>1, <2>6, <3>2
  <2>7. CASE qtds[c].pid # "setup"
    <3>1. Counted(qtds'[c]) = Counted(qtds[c]) + k
      BY <1>6, <2>4, <2>5, <2>7 DEF Counted
    <3>2. k \in Int
      OBVIOUS
    <3>3. actual_length(qtds') = actual_length(qtds) + k
      BY <2>2, <2>3, <3>1, <3>2, SumGrows
    <3> QED BY <1>8, <2>1, <2>7, <3>3
  <2> QED BY <2>6, <2>7
<1>13. moved' <= urb'.length
  <2>1. moved <= urb.length
    BY <1>1 DEF MoveInv
  <2>2. CASE cur < DataFrom
    BY <1>4, <1>5, <1>7, <1>8, <2>1, <2>2
  <2>3. CASE DataFrom <= cur /\ cur <= DataTo
    <3>1. Ends(cur) <= Limit /\ qtds[c].pid # "setup"
      BY <1>4, <1>5, <2>3 DEF Placed
    <3>2. Begins(cur) + qtds[cur].length <= urb.at + urb.length /\ moved' = Begins(cur) - urb.at + k
      BY <1>2, <1>4, <1>8, <2>3, <3>1
    <3>3. PICK b \in Nat, m \in Nat : b = Begins(cur) /\ m = qtds[cur].length
      BY <1>4, <2>3
    <3>4. b + m <= urb.at + urb.length /\ k <= m /\ moved' = b - urb.at + k
      BY <3>2, <3>3
    <3>5. b - urb.at + k <= urb.length
      BY <1>2, <3>4, WithinSum
    <3> QED BY <1>7, <3>4, <3>5
  <2>4. CASE cur > DataTo
    <3>1. k = 0
      BY <1>4, <2>4
    <3> QED BY <1>3, <1>7, <1>8, <2>1, <3>1
  <2> QED BY <1>2, <1>4, <2>2, <2>3, <2>4
<1>14. ASSUME DataFrom <= cur', cur' <= DataTo PROVE moved' = Begins(cur)' - urb'.at
  <2>1. cur' = c + 1 /\ ~(k < qtds[c].length) /\ k = qtds[c].length
    BY <1>4, <1>5, <1>14
  <2>2. Placed(c + 1) /\ c + 1 \in Nat
    <3>1. c + 1 \in Nat /\ DataFrom <= c + 1 /\ c + 1 <= DataTo
      BY <1>14, <2>1
    <3> QED BY <1>1, <3>1 DEF ListInv
  <2>3. Begins(cur)' = Begins(c + 1)
    <3>1. Begins(c + 1)' = Begins(c + 1)
      BY <1>10, <1>14, <2>1, <2>2
    <3> QED BY <2>1, <3>1 DEF Begins
  <2>4. CASE c < DataFrom
    <3>1. c + 1 = DataFrom /\ qtds[c].pid = "setup" /\ moved = 0
      <4>1. moved = 0
        BY <1>1, <1>5, <2>4 DEF MoveInv
      <4>2. c + 1 = DataFrom
        BY <1>2, <1>14, <2>1, <2>4
      <4> QED BY <1>4, <1>5, <2>4, <4>1, <4>2
    <3>2. Begins(c + 1) = urb.at /\ moved' = 0
      BY <1>8, <2>2, <3>1 DEF Placed
    <3> QED BY <1>2, <1>7, <2>3, <3>2
  <2>5. CASE DataFrom <= c
    <3>1. /\ Placed(c) /\ moved = Begins(c) - urb.at
          /\ Begins(c) \in Nat /\ Ends(c) = Begins(c) + qtds[c].length
      BY <1>4, <1>5, <1>14, <2>1, <2>5
    <3>2. Begins(c + 1) = Ends(c)
      <4>1. c + 1 # DataFrom /\ c + 1 - 1 = c
        BY <1>2, <2>5
      <4> QED BY <2>2, <4>1 DEF Placed
    <3>3. moved' = Begins(c) - urb.at + qtds[c].length
      BY <1>8, <2>1, <3>1 DEF Placed
    <3>4. Begins(c + 1) = Begins(c) + qtds[c].length /\ qtds[c].length \in Nat
      BY <1>4, <1>5, <3>1, <3>2
    <3>5. PICK a \in Nat, b \in Nat, m \in Nat : a = urb.at /\ b = Begins(c) /\ m = qtds[c].length
      BY <1>2, <3>1, <3>4
    <3>6. moved' = Begins(c + 1) - urb.at
      <4>1. moved' = b - a + m /\ Begins(c + 1) = b + m
        BY <3>3, <3>4, <3>5
      <4>2. b - a + m = (b + m) - a
        BY SumLessSame
      <4> QED BY <3>5, <4>1, <4>2
    <3> QED BY <1>7, <2>3, <3>6
  <2> QED BY <1>2, <2>4, <2>5
<1>15. ASSUME cur' > DataTo PROVE WholeOrShort'
  <2>1. 1 <= c /\ c <= Len(qtds') /\ qtds'[c].left = qtds[c].length - k
    BY <1>4, <1>5, <1>6
  <2>2. CASE k < qtds[c].length
    <3>1. qtds'[c].left > 0
      BY <1>4, <1>5, <2>1, <2>2
    <3> QED BY <2>1, <3>1 DEF WholeOrShort
  <2>3. CASE k = qtds[c].length /\ c > DataTo
    <3>1. WholeOrShort
      BY <1>1, <1>5, <2>3 DEF MoveInv
    <3>2. k = 0 /\ moved' = moved
      BY <1>3, <1>4, <1>5, <1>8, <2>3
    <3>3. \A i \in Nat : 1 <= i /\ i <= Len(qtds) => qtds'[i].left = qtds[i].left
      BY <1>4, <1>5, <1>6, <3>2
    <3> QED BY <1>6, <1>7, <3>1, <3>2, <3>3 DEF WholeOrShort
  <2>4. CASE k = qtds[c].length /\ DataFrom <= c /\ c <= DataTo
    <3>1. c = DataTo
      <4>1. SUFFICES ASSUME c < DataTo PROVE FALSE
        BY <1>4, <2>4
      <4>2. Full(c)
        BY <1>1, <2>4, <4>1 DEF ListInv
      <4>3. qtds[c].length >= 16384
        BY <4>2 DEF Full
      <4>4. k # 0 /\ cur' = c + 1
        BY <1>4, <1>5, <2>4, <4>3
      <4> QED BY <1>4, <1>15, <4>1, <4>4
    <3>2. /\ Placed(c) /\ moved = Begins(c) - urb.at
          /\ Begins(c) \in Nat /\ Ends(c) = Begins(c) + qtds[c].length /\ Ends(c) = Limit
      BY <1>4, <1>5, <2>4, <3>1
    <3>3. moved' = Begins(c) - urb.at + qtds[c].length
      BY <1>8, <2>4, <3>2 DEF Placed
    <3>4. PICK a \in Nat, b \in Nat, m \in Nat, l \in Nat :
            a = urb.at /\ b = Begins(c) /\ m = qtds[c].length /\ l = urb.length
      BY <1>2, <1>4, <1>5, <3>2
    <3>5. b + m = a + l /\ moved' = b - a + m /\ urb' = urb
      BY <1>2, <1>7, <3>2, <3>3, <3>4
    <3>6. b - a + m = l
      BY <3>5, ExactSum
    <3>7. moved' = urb'.length
      BY <3>4, <3>5, <3>6
    <3> QED BY <3>7 DEF WholeOrShort
  <2>5. CASE k = qtds[c].length /\ c < DataFrom
    <3>1. k = 8 /\ cur' = c + 1
      BY <1>4, <1>5, <2>5
    <3> QED BY <1>2, <1>4, <1>15, <2>5, <3>1
  <2>6. k < qtds[c].length \/ k = qtds[c].length
    BY <1>4, <1>5
  <2>7. c < DataFrom \/ (DataFrom <= c /\ c <= DataTo) \/ c > DataTo
    BY <1>2, <1>4
  <2> QED BY <2>2, <2>3, <2>4, <2>5, <2>6, <2>7
<1>16. MoveInv'
  <2>1. ASSUME NEW i \in Nat, cur' <= i, i <= Len(qtds') PROVE Unmoved(i)'
    <3>1. i # c /\ 1 <= i /\ i <= Len(qtds) /\ cur <= i
      BY <1>2, <1>4, <1>5, <1>6, <2>1
    <3>2. Unmoved(i) /\ qtds'[i] = qtds[i]
      BY <1>1, <1>6, <3>1 DEF MoveInv
    <3> QED BY <3>2 DEF Unmoved
  <2>2. ~(cur' < DataFrom')
    BY <1>2, <1>4, <1>10
  <2>3. stage' = "handshake" /\ cur' <= Len(qtds') + 1
    BY <1>6, <1>7
  <2>4. DataFrom' <= cur' /\ cur' <= DataTo' => moved' = Begins(cur)' - urb'.at
    BY <1>10, <1>14
  <2>5. cur' > DataTo' => WholeOrShort'
    BY <1>10, <1>15
  <2> QED BY <1>12, <1>13, <2>1, <2>2, <2>3, <2>4, <2>5 DEF MoveInv
<1>17. IntInv'
  <2>1. \A i \in Nat : 1 <= i /\ i < Len(qtds) => ~qtds[i].ioc
    BY <1>1 DEF IntInv
  <2>2. \A i \in Nat : 1 <= i /\ i < Len(qtds') => ~qtds'[i].ioc
    BY <1>2, <1>6, <2>1
  <2>3. stage' = "handshake" /\ (int' => cur' > DataTo')
    BY <1>7, <1>10
  <2> QED BY <2>2, <2>3 DEF IntInv
<1> QED BY <1>10, <1>11, <1>16, <1>17 DEF TransferInv

(* A transfer ends with whole qtds, a short one, or one that halts.        *)
LEMMA CompleteKeeps == TransferInv /\ Complete => TransferInv'
<1> SUFFICES ASSUME TransferInv, Complete PROVE TransferInv'
  OBVIOUS
<1>1. stage = "handshake" /\ cur <= Len(qtds) /\ Move(qtds[cur].length) /\ cur' = cur + 1
  BY DEF Complete, Running
<1>2. int' = (int \/ qtds[cur].ioc)
  BY DEF Complete
<1>3. /\ cur \in Nat /\ cur >= 1 /\ qtds[cur].length \in Nat
      /\ DataTo \in Int /\ DataTo >= DataFrom /\ DataTo <= Len(qtds)
  BY <1>1, AtQtd
<1>4. Len(qtds) \in Nat
  BY Typed DEF TransferInv
<1>5. int' \in BOOLEAN
  BY <1>2, Zenon
<1>6. int' => cur' > DataTo
  <2>1. int => cur > DataTo
    BY <1>1 DEF TransferInv, IntInv
  <2>2. qtds[cur].ioc => ~(cur < Len(qtds))
    BY <1>1, <1>3 DEF TransferInv, IntInv
  <2>3. int' => int \/ qtds[cur].ioc
    BY <1>2, Zenon
  <2>4. int => cur' > DataTo
    BY <1>1, <1>3, <2>1
  <2>5. qtds[cur].ioc => cur' > DataTo
    BY <1>1, <1>3, <1>4, <2>2
  <2> QED BY <2>3, <2>4, <2>5, Zenon
<1>7. PICK k \in Nat : k = qtds[cur].length
  BY <1>3
<1>8. Move(k) /\ k <= qtds[cur].length
  BY <1>1, <1>3, <1>7
<1>9. cur' \in Nat /\ cur' > cur /\ cur' <= Len(qtds) + 1
  BY <1>1, <1>3, <1>4
<1>10. ~(k < qtds[cur].length)
  BY <1>3, <1>7
<1> QED BY <1>1, <1>5, <1>6, <1>8, <1>9, <1>10, MoveKeeps

LEMMA ShortKeeps ==
  ASSUME TransferInv, NEW k \in Nat, ShortPacket(k)
  PROVE  TransferInv'
<1>1. /\ stage = "handshake" /\ cur <= Len(qtds) /\ qtds[cur].pid = "in" /\ k < qtds[cur].length
      /\ Move(k) /\ cur' = IF qtds[cur].alt = "zero" THEN Len(qtds) + 1 ELSE cur + 1
  BY DEF ShortPacket, Running
<1>2. int' = TRUE
  BY DEF ShortPacket
<1>3. /\ cur \in Nat /\ cur >= 1 /\ qtds[cur].length \in Nat
      /\ DataTo \in Int /\ DataTo >= DataFrom /\ DataTo <= Len(qtds)
      /\ cur < DataFrom => qtds[cur].pid = "setup"
  BY <1>1, AtQtd
<1>4. Len(qtds) \in Nat /\ DataFrom \in Nat
  BY Typed DEF TransferInv
<1>5. int' \in BOOLEAN
  BY <1>2, Zenon
<1>6. cur' > DataTo
  <2>1. cur < DataTo => qtds[cur].alt = "zero"
    <3>1. SUFFICES ASSUME cur < DataTo PROVE qtds[cur].alt = "zero"
      OBVIOUS
    <3>2. DataFrom <= cur
      BY <1>1, <1>3, <1>4
    <3>3. Full(cur)
      BY <1>1, <1>3, <3>1, <3>2 DEF TransferInv, ListInv
    <3> QED BY <1>1, <3>3 DEF Full
  <2> QED BY <1>1, <1>3, <1>4, <2>1
<1>7. cur' \in Nat /\ cur' > cur /\ cur' <= Len(qtds) + 1
  BY <1>1, <1>3, <1>4
<1>8. k <= qtds[cur].length /\ k # qtds[cur].length
  BY <1>1, <1>3
<1> QED BY <1>1, <1>5, <1>6, <1>7, <1>8, MoveKeeps

LEMMA HaltKeeps ==
  ASSUME TransferInv, NEW k \in Nat, Halt(k)
  PROVE  TransferInv'
<1>1. /\ stage = "handshake" /\ cur <= Len(qtds) /\ (k < qtds[cur].length \/ k = 0)
      /\ Move(k) /\ cur' = Len(qtds) + 1
  BY DEF Halt, Running
<1>2. int' = (int \/ qtds[cur].ioc)
  BY DEF Halt
<1>3. /\ cur \in Nat /\ cur >= 1 /\ qtds[cur].length \in Nat
      /\ DataTo \in Int /\ DataTo >= DataFrom /\ DataTo <= Len(qtds)
  BY <1>1, AtQtd
<1>4. Len(qtds) \in Nat
  BY Typed DEF TransferInv
<1>5. int' \in BOOLEAN
  BY <1>2, Zenon
<1>6. cur' > DataTo
  BY <1>1, <1>3, <1>4
<1>7. cur' \in Nat /\ cur' > cur /\ cur' <= Len(qtds) + 1
  BY <1>1, <1>3, <1>4
<1>8. k <= qtds[cur].length /\ (k = qtds[cur].length => k = 0)
  BY <1>1, <1>3
<1> QED BY <1>1, <1>5, <1>6, <1>7, <1>8, MoveKeeps

(* The end of a transfer; and that every step keeps the invariant.         *)
LEMMA SumIsInt ==
  ASSUME NEW s \in Seq(Qtds)
  PROVE  actual_length(s) \in Int
<1>1. Len(s) \in 0 .. Len(s)
  OBVIOUS
<1>2. PICK f : Sums(f, s, Len(s))
  BY <1>1, SumsExist
<1>3. actual_length(s) = f[Len(s)]
  BY <1>2, SumIs
<1> QED BY <1>1, <1>2, <1>3 DEF Sums

LEMMA EndKeeps == TransferInv /\ EndUrb => TransferInv'
<1> SUFFICES ASSUME TransferInv, EndUrb PROVE TransferInv'
  OBVIOUS
<1>1. TransferTypes /\ stage' = "idle" /\ used' = 0 /\ UNCHANGED <<urb, rest, toggle1, qtds, cur, moved>>
  BY DEF TransferInv, EndUrb
<1>2. int' = int
  BY DEF EndUrb
<1>3. result' \in Int
  <2>1. actual_length(qtds) \in Int
    BY <1>1, SumIsInt DEF TransferTypes
  <2> QED BY <2>1 DEF EndUrb, ETIMEDOUT
<1>4. TransferTypes'
  <2>1. stage' \in UrbStages /\ used' \in Nat
    BY <1>1 DEF UrbStages
  <2> QED BY <1>1, <1>2, <1>3, <2>1, Zenon DEF TransferTypes
<1>5. ListInv' /\ DataInv' /\ EndInv' /\ MoveInv' /\ IntInv'
  BY <1>1 DEF ListInv, DataInv, EndInv, MoveInv, IntInv, Queued
<1> QED BY <1>4, <1>5 DEF TransferInv

LEMMA TransferStutters == TransferInv /\ UNCHANGED transfer => TransferInv'
<1> SUFFICES ASSUME TransferInv, UNCHANGED transfer PROVE TransferInv'
  OBVIOUS
<1>1. /\ UNCHANGED <<urb, rest, toggle1, used, qtds, cur, int, moved, stage, result>>
  BY DEF transfer
<1> USE <1>1
<1>2. (Control' <=> Control) /\ DataFrom' = DataFrom /\ Limit' = Limit /\ (Queued' <=> Queued)
      /\ DataTo' = DataTo
  BY DEF Control, DataFrom, Limit, Queued, DataTo
<1>3. TransferTypes'
  BY Zenon DEF TransferInv, TransferTypes
<1>4. \A i : (Placed(i) => Placed(i)') /\ (Full(i) => Full(i)')
  <2>1. \A i : Alike(qtds'[i], qtds[i])
    BY DEF Alike
  <2> QED BY <2>1, PlacedStays, FullStays
<1>5. ListInv'
  BY <1>2, <1>4 DEF TransferInv, ListInv
<1>6. Ends(Len(qtds))' = Ends(Len(qtds)) /\ Ends(DataTo)' = Ends(DataTo) /\ Begins(cur)' = Begins(cur)
  BY <1>2 DEF Ends, Begins
<1>7. DataInv'
  <2>1. Full(Len(qtds)) => Full(Len(qtds))'
    BY <1>4
  <2> QED BY <1>2, <1>6, <2>1 DEF TransferInv, DataInv
<1>8. EndInv'
  BY <1>2, <1>6 DEF TransferInv, EndInv, Ending
<1>9. MoveInv'
  BY <1>2, <1>6 DEF TransferInv, MoveInv, Unmoved, WholeOrShort
<1>10. IntInv'
  BY <1>2 DEF TransferInv, IntInv
<1> QED BY <1>3, <1>5, <1>7, <1>8, <1>9, <1>10 DEF TransferInv

LEMMA TransferStep == TransferInv /\ [TransferNext]_transfer => TransferInv'
<1> SUFFICES ASSUME TransferInv, [TransferNext]_transfer PROVE TransferInv'
  OBVIOUS
<1>1. ASSUME NEW ep \in {"bulk", "control"}, NEW input \in BOOLEAN, NEW at \in Buffers,
             NEW len \in Lengths, ep = "control" => len <= 256, Submit(ep, input, at, len)
      PROVE  TransferInv'
  BY <1>1, SubmitKeeps
<1>2. ASSUME NEW k \in {0, 512, 13}, ShortPacket(k) \/ Halt(k) PROVE TransferInv'
  <2>1. k \in Nat
    OBVIOUS
  <2> QED BY <1>2, <2>1, ShortKeeps, HaltKeeps
<1>3. ASSUME SetupStage \/ DataStage \/ StatusStage \/ StartUrb PROVE TransferInv'
  BY <1>3, SetupKeeps, DataKeeps, StatusKeeps, StartKeeps
<1>4. ASSUME Complete \/ EndUrb PROVE TransferInv'
  BY <1>4, CompleteKeeps, EndKeeps
<1>5. ASSUME UNCHANGED transfer PROVE TransferInv'
  BY <1>5, TransferStutters
<1> QED BY <1>1, <1>2, <1>3, <1>4, <1>5 DEF TransferNext

LEMMA TransferInvAlways == TransferSpec => []TransferInv
  BY TransferStarts, TransferStep, PTL DEF TransferSpec
-----------------------------------------------------------------------------
(* The qtds that carry data are those of the data stage.                   *)
LEMMA CarriersAre ==
  ASSUME TransferInv, stage = "handshake"
  PROVE  /\ \A i \in Carriers : i \in Nat /\ DataFrom <= i /\ i <= DataTo /\ urb.length > 0
         /\ urb.length > 0 => \A i \in Nat : DataFrom <= i /\ i <= DataTo => i \in Carriers
         /\ DataTo \in Nat /\ DataTo <= Len(qtds) /\ DataFrom <= DataTo
<1>1. TransferTypes /\ ListInv /\ EndInv
  BY DEF TransferInv
<1>2. /\ urb.length \in Nat /\ urb.at \in Nat /\ Limit = urb.at + urb.length
      /\ DataFrom \in Nat /\ DataFrom >= 1 /\ Len(qtds) \in Nat
      /\ (Control => DataFrom = 2) /\ (~Control => DataFrom = 1)
  BY <1>1, Typed
<1>3. qtds \in Seq(Qtds) /\ DOMAIN qtds = 1 .. Len(qtds)
  BY <1>1 DEF TransferTypes
<1>4. /\ Control => Len(qtds) >= 1 /\ qtds[1].pid = "setup"
      /\ \A i \in Nat : DataFrom <= i /\ i <= DataTo => Placed(i)
      /\ \A i \in Nat : DataFrom <= i /\ i < DataTo => Full(i)
  BY <1>1 DEF ListInv
<1>5. /\ DataTo >= DataFrom
      /\ urb.length = 0 => DataTo = DataFrom
      /\ urb.length # 0 => qtds[DataTo].length > 0
      /\ Control => Ending(qtds[Len(qtds)])
  BY <1>1 DEF EndInv, Queued
<1>6. /\ Control /\ urb.length > 0 => DataTo = Len(qtds) - 1
      /\ ~(Control /\ urb.length > 0) => DataTo = Len(qtds)
  BY DEF DataTo, Queued
<1>7. DataTo \in Nat /\ DataTo <= Len(qtds)
  BY <1>2, <1>4, <1>6
<1>8. ASSUME NEW i \in Carriers
      PROVE  i \in Nat /\ DataFrom <= i /\ i <= DataTo /\ urb.length > 0
  <2>1. i \in Nat /\ 1 <= i /\ i <= Len(qtds) /\ qtds[i].pid # "setup" /\ qtds[i].length > 0
    BY <1>3, <1>8 DEF Carriers
  <2>2. DataFrom <= i
    BY <1>2, <1>4, <2>1
  <2>3. Control => i # Len(qtds)
    BY <1>5, <2>1 DEF Ending
  <2>4. i <= DataTo
    BY <1>2, <1>6, <2>1, <2>3
  <2>5. urb.length # 0
    <3> SUFFICES ASSUME urb.length = 0 PROVE FALSE
      OBVIOUS
    <3>1. i = DataFrom
      BY <1>2, <1>5, <2>1, <2>2, <2>4
    <3>2. Placed(i) /\ InPlace(qtds[i])
      BY <1>4, <2>1, <2>2, <2>4 DEF Placed
    <3>3. Begins(i) = urb.at /\ Ends(i) <= urb.at + 0
      BY <1>2, <3>1, <3>2 DEF Placed
    <3>4. Begins(i) \in Nat /\ Ends(i) = Begins(i) + qtds[i].length
      BY <1>3, <2>1, <3>2, BeginsTyped
    <3>5. qtds[i].length \in Nat
      BY <1>3, <2>1, OneOf, QtdTyped
    <3> QED BY <1>2, <2>1, <3>3, <3>4, <3>5
  <2> QED BY <1>2, <2>1, <2>2, <2>4, <2>5
<1>9. ASSUME urb.length > 0, NEW i \in Nat, DataFrom <= i, i <= DataTo
      PROVE  i \in Carriers
  <2>1. 1 <= i /\ i <= Len(qtds) /\ i \in DOMAIN qtds
    BY <1>2, <1>3, <1>7, <1>9
  <2>2. qtds[i].pid # "setup"
    BY <1>4, <1>9 DEF Placed
  <2>3. qtds[i].length > 0
    <3>1. qtds[i].length \in Nat
      BY <1>3, <2>1, OneOf, QtdTyped
    <3>2. CASE i < DataTo
      <4>1. Full(i)
        BY <1>4, <1>9, <3>2
      <4> QED BY <3>1, <4>1 DEF Full
    <3>3. CASE i = DataTo
      BY <1>2, <1>5, <1>9, <3>3
    <3> QED BY <1>7, <1>9, <3>2, <3>3
  <2> QED BY <2>1, <2>2, <2>3 DEF Carriers
<1> QED BY <1>5, <1>7, <1>8, <1>9

(* BufferIsCovered follows from the layout.                                *)
LEMMA LayoutCovers == TransferInv => BufferIsCovered
<1> SUFFICES ASSUME TransferInv PROVE BufferIsCovered
  OBVIOUS
<1>1. stage # "bug"
  BY DEF TransferInv, TransferTypes, UrbStages
<1> SUFFICES ASSUME stage = "handshake"
             PROVE  /\ Carriers = {} => urb.length = 0
                    /\ \A i \in Carriers :
                         /\ IF First(i) THEN Begins(i) = urb.at
                            ELSE i - 1 \in Carriers /\ Begins(i) = Ends(i - 1)
                         /\ Last(i) => Ends(i) = urb.at + urb.length
                         /\ Last(i) \/ qtds[i].length % maxpacket = 0
                         /\ qtds[i].length < 32768
                         /\ \A k \in Edges(qtds[i]) : Address(qtds[i], k) = Begins(i) + k
  BY <1>1 DEF BufferIsCovered
<1>2. /\ \A i \in Carriers : i \in Nat /\ DataFrom <= i /\ i <= DataTo /\ urb.length > 0
      /\ urb.length > 0 => \A i \in Nat : DataFrom <= i /\ i <= DataTo => i \in Carriers
      /\ DataTo \in Nat /\ DataTo <= Len(qtds) /\ DataFrom <= DataTo
  BY CarriersAre
<1>3. /\ urb.length \in Nat /\ Limit = urb.at + urb.length
      /\ DataFrom \in Nat /\ DataFrom >= 1 /\ Len(qtds) \in Nat
  BY Typed DEF TransferInv
<1>4. /\ \A i \in Nat : DataFrom <= i /\ i <= DataTo => Placed(i)
      /\ \A i \in Nat : DataFrom <= i /\ i < DataTo => Full(i)
  BY DEF TransferInv, ListInv
<1>5. Ends(DataTo) = Limit
  BY DEF TransferInv, EndInv
<1>6. Carriers = {} => urb.length = 0
  BY <1>2, <1>3
<1>7. ASSUME NEW i \in Carriers
      PROVE  /\ IF First(i) THEN Begins(i) = urb.at
                ELSE i - 1 \in Carriers /\ Begins(i) = Ends(i - 1)
             /\ Last(i) => Ends(i) = urb.at + urb.length
             /\ Last(i) \/ qtds[i].length % maxpacket = 0
             /\ qtds[i].length < 32768
             /\ \A k \in Edges(qtds[i]) : Address(qtds[i], k) = Begins(i) + k
  <2>1. i \in Nat /\ DataFrom <= i /\ i <= DataTo /\ Placed(i)
    BY <1>2, <1>4, <1>7
  <2>2. \A j \in Nat : DataFrom <= j /\ j <= DataTo => j \in Carriers
    BY <1>2, <1>7
  <2>3. DataFrom \in Carriers /\ DataTo \in Carriers
    BY <1>2, <1>3, <2>2
  <2>4. ASSUME First(i) PROVE Begins(i) = urb.at
    <3>1. i <= DataFrom
      BY <2>3, <2>4 DEF First
    <3>2. i = DataFrom
      BY <1>3, <2>1, <3>1
    <3> QED BY <2>1, <3>2 DEF Placed
  <2>5. ASSUME ~First(i) PROVE i - 1 \in Carriers /\ Begins(i) = Ends(i - 1)
    <3>1. i # DataFrom
      BY <1>2, <2>5 DEF First
    <3>2. i - 1 \in Nat /\ DataFrom <= i - 1 /\ i - 1 <= DataTo
      BY <1>2, <1>3, <2>1, <3>1
    <3> QED BY <2>1, <2>2, <3>1, <3>2 DEF Placed
  <2>6. ASSUME Last(i) PROVE Ends(i) = urb.at + urb.length
    <3>1. DataTo <= i
      BY <2>3, <2>6 DEF Last
    <3>2. i = DataTo
      BY <1>2, <2>1, <3>1
    <3> QED BY <1>3, <1>5, <3>2
  <2>7. ASSUME ~Last(i) PROVE qtds[i].length % maxpacket = 0
    <3>1. i # DataTo
      BY <1>2, <2>7 DEF Last
    <3>2. Full(i)
      BY <1>2, <1>4, <2>1, <3>1
    <3> QED BY <3>2 DEF Full
  <2>8. ASSUME NEW k \in Edges(qtds[i]) PROVE Address(qtds[i], k) = Begins(i) + k
    <3>1. qtds[i].length \in Nat
      <4>1. qtds \in Seq(Qtds) /\ 1 <= i /\ i <= Len(qtds)
        BY <1>2, <1>3, <2>1 DEF TransferInv, TransferTypes
      <4> QED BY <2>1, <4>1, OneOf, QtdTyped
    <3>2. k \in 0 .. qtds[i].length - 1
      BY <2>8 DEF Edges
    <3>3. k \in Nat /\ k < qtds[i].length
      BY <3>1, <3>2
    <3> QED BY <2>1, <3>3 DEF Placed, InPlace, Begins
  <2> QED BY <2>1, <2>4, <2>5, <2>6, <2>7, <2>8 DEF Placed
<1> QED BY <1>6, <1>7

(* A buffer of any length, at any address, is moved as a whole: the qtds   *)
(* that ehci_do_urb queues for it cover it without a gap, and each byte    *)
(* has its own address (ehci.c:226-262, 369-441).                          *)
THEOREM BufferCovered == TransferSpec => []BufferIsCovered
<1>1. TransferSpec => []TransferInv
  BY TransferInvAlways
<1> QED BY <1>1, LayoutCovers, PTL

LEMMA EndReturns ==
  ASSUME TransferInv, [TransferNext]_transfer, stage = "handshake", stage' = "idle"
  PROVE  result' # ETIMEDOUT =>
              /\ result' = moved /\ moved <= urb.length
              /\ int /\ (moved = urb.length \/ \E i \in DOMAIN qtds : qtds[i].left > 0)
              /\ urb.ep = "control" =>
                   LET s == qtds[Len(qtds)]
                   IN  s.toggle = 1 /\ s.length = 0
                       /\ s.pid = (IF urb.input /\ urb.length > 0 THEN "out" ELSE "in")
<1>1. EndUrb
  BY DEF TransferNext, transfer, Submit, SetupStage, DataStage, StatusStage, StartUrb,
         Complete, ShortPacket, Halt, Move, EndUrb
<1>2. /\ moved = actual_length(qtds) /\ moved <= urb.length
      /\ cur > DataTo => WholeOrShort
      /\ int => cur > DataTo
  BY DEF TransferInv, MoveInv, IntInv
<1>3. qtds \in Seq(Qtds)
  BY DEF TransferInv, TransferTypes
<1>4. ASSUME result' # ETIMEDOUT
      PROVE  int /\ result' = moved
  BY <1>1, <1>2, <1>4 DEF EndUrb
<1>5. ASSUME int
      PROVE  moved = urb.length \/ \E i \in DOMAIN qtds : qtds[i].left > 0
  <2>1. WholeOrShort
    BY <1>2, <1>5
  <2>2. \A i \in Nat : 1 <= i /\ i <= Len(qtds) => i \in DOMAIN qtds
    BY <1>3
  <2> QED BY <2>1, <2>2 DEF WholeOrShort
<1>6. ASSUME urb.ep = "control"
      PROVE  LET s == qtds[Len(qtds)]
             IN  s.toggle = 1 /\ s.length = 0
                 /\ s.pid = (IF urb.input /\ urb.length > 0 THEN "out" ELSE "in")
  BY <1>6 DEF TransferInv, EndInv, Queued, Control, Ending
<1> QED BY <1>2, <1>4, <1>5, <1>6, Zenon

(* What ehci_do_urb returns of a transfer that did not time out is what    *)
(* was moved (ehci.c:274-320, 419-436, 526-563).                           *)
THEOREM TransfersReturnWhatMoved == TransferSpec => ReturnsWhatMoved
<1>1. TransferInv /\ [TransferNext]_transfer =>
        [stage = "handshake" /\ stage' = "idle" /\ result' # ETIMEDOUT =>
           /\ result' = moved /\ moved <= urb.length
           /\ int /\ (moved = urb.length \/ \E i \in DOMAIN qtds : qtds[i].left > 0)
           /\ urb.ep = "control" =>
                LET s == qtds[Len(qtds)]
                IN  s.toggle = 1 /\ s.length = 0
                    /\ s.pid = (IF urb.input /\ urb.length > 0 THEN "out" ELSE "in")]_transfer
  BY EndReturns
<1> QED BY <1>1, TransferInvAlways, PTL DEF TransferSpec, ReturnsWhatMoved
=============================================================================
