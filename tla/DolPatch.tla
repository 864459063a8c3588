------------------------------ MODULE DolPatch ------------------------------
(***************************************************************************)
(* How the loader finds the executable to patch (DML/dip.c:141-254).       *)
(* DIUpdateRegisters sees only a stream of reads.  It takes one for the    *)
(* header of a DOL or for a part of an ELF file, counts the bytes or the   *)
(* sections of the reads that follow, and patches the range they were read *)
(* to when the count is reached; the console's own loaders are patched by  *)
(* their address.  DoPatches and DoCardPatches (Patches.c) replace the DVD *)
(* and the memory-card functions they find in that range.                  *)
(*                                                                         *)
(* Lengths and addresses are in words of an unnamed size; Block of them    *)
(* make the 32 bytes that a DVD read is rounded up to (dip.c:134).         *)
(***************************************************************************)
EXTENDS Integers, FiniteSets, FiniteSetsExt

CONSTANTS
  Execs,       \* the executables on the disc, see IsExec
  Files,       \* what else is read: [at, len]
  NMM,         \* DML_CFG_NMM
  Block,       \* 32 bytes
  Top,         \* the end of memory, 0x01800000
  MaxLoads     \* bound: how many executables are loaded

HDR      == 8 * Block   \* sizeof(dolhdr), 0x100
ELFHDR   == 12 * Block  \* 4096, the longest read taken for an ELF header
Base     == 2 * Top     \* 0x80000000
LOADER   == Top - 4 * Block  \* 0x01300000

RoundUp(n) == ((n + Block - 1) \div Block) * Block

Span(lo, hi) == lo .. hi - 1

(* An executable is read by a first read and one for each of rest, in any  *)
(* order.  hooks are the addresses of its DVD functions, cards those of    *)
(* its memory-card functions, all of them in its Code; size is that of the *)
(* file of an ELF, and phnum the number of sections its header tells.      *)
Code(e) == IF e.kind = "dol" THEN {s \in e.rest : s.text} ELSE e.rest \cup {e.first}

IsExec(e) ==
  /\ e.kind \in {"dol", "elf", "loader"}
  /\ \A s \in e.rest \cup {e.first} :
       s.at \in Nat /\ s.at % Block = 0 /\ s.len \in Nat \ {0} /\ s.at + s.len <= Top
  /\ IsFiniteSet(e.rest)
  /\ \A h \in e.hooks \cup {c.at : c \in e.cards} : \E s \in Code(e) : h \in Span(s.at, s.at + s.len)
  /\ e.kind = "loader" <=> e.first.at = LOADER
  /\ e.kind = "dol" => e.first.len = HDR /\ \E s \in e.rest : s.text
  /\ e.kind = "elf" => RoundUp(e.first.len) # HDR /\ e.size \in Nat /\ e.phnum \in Nat

ASSUME DolAssumption ==
  /\ Block \in Nat \ {0} /\ Top \in Nat /\ MaxLoads \in Nat
  /\ NMM \in BOOLEAN
  /\ \A e \in Execs : IsExec(e)
  /\ \A f \in Files : f.at \in 0 .. LOADER - 1 /\ f.len \in Nat \ {0, HDR}

VARIABLES
  PatchState,           \* 0: none, 1: a DOL, 2: an ELF is being read
  DOLSize, DOLReadSize,
  DOLMinOff, DOLMaxOff, \* the range to patch
  ELFNumberOfSections,
  Found,                \* the CPatterns whose Found is set
  raw,                  \* addresses of DVD functions in memory, not patched
  rawCards,             \* [at, pat]: the same for memory-card functions
  loading,              \* the executable that is loaded, or NoExec
  left,                 \* the sections of it that are still to be read
  disturbed,            \* whether other files were read meanwhile
  loads                 \* how many were loaded

dol  == <<PatchState, DOLSize, DOLReadSize, DOLMinOff, DOLMaxOff, ELFNumberOfSections>>
dolvars == <<dol, Found, raw, rawCards, loading, left, disturbed, loads>>

NoExec == [kind |-> "none", hooks |-> {}, cards |-> {}]

DolInit ==
  /\ PatchState = 0 /\ DOLSize = 0 /\ DOLReadSize = 0
  /\ DOLMinOff = 0 /\ DOLMaxOff = 0 /\ ELFNumberOfSections = 0
  /\ Found = {} /\ raw = {} /\ rawCards = {}
  /\ loading = NoExec /\ left = {} /\ disturbed = FALSE /\ loads = 0
-----------------------------------------------------------------------------
(* f_read of a part of e, then DoPatchesLoader for the loader's address.   *)
RawAfter(at, len, e) ==
  LET span == Span(at, at + len)
  IN  IF at = LOADER THEN raw \ span ELSE (raw \ span) \cup (e.hooks \cap span)

CardsAfter(at, len, e) ==
  LET span == Span(at, at + len)
  IN  {c \in rawCards : c.at \notin span} \cup {c \in e.cards : c.at \in span}

NoPatch(at, len, e) ==
  /\ raw' = RawAfter(at, len, e)
  /\ rawCards' = CardsAfter(at, len, e)
  /\ UNCHANGED Found

(* DoCardPatches: what is replaced are the patterns not found before, from *)
(* the place on where CARDFreeBlocks is found.                             *)
CardHits(cards, span) ==
  LET new == {c \in cards : c.at \in span /\ c.pat \notin Found}
  IN  {c \in new : \E s \in new : s.pat = "FreeBlocks" /\ s.at <= c.at}

DoPatches(at, len, e, span) ==
  LET cards == CardsAfter(at, len, e)
      hits  == IF NMM THEN CardHits(cards, span) ELSE {}
  IN  /\ raw' = RawAfter(at, len, e) \ span
      /\ rawCards' = cards \ hits
      /\ Found' = Found \cup {c.pat : c \in hits}
-----------------------------------------------------------------------------
(* One read, by what DIUpdateRegisters makes of it.  e is the executable   *)
(* that it is the first read of, or NoExec.                                *)

(* From the lowest to the highest address of the text sections, whose      *)
(* addresses in the header are effective ones.                             *)
TextRange(e) ==
  LET text == {s \in e.rest : s.text}
      lo   == Base + Min({s.at : s \in text})
      hi   == Base + Max({s.at + s.len : s \in text})
  IN  <<lo - Base, hi - Base>>

(* The bytes of sections, the sum of whose sizes is their number.          *)
Bytes(sections) == UNION {{s} \X Span(0, s.len) : s \in sections}

DolHeader(at, len, e) ==
  /\ PatchState = 0 /\ len = HDR /\ e.kind = "dol"
  /\ DOLSize' = Cardinality(Bytes(e.rest)) + HDR
  /\ DOLReadSize' = HDR
  /\ DOLMinOff' = TextRange(e)[1] /\ DOLMaxOff' = TextRange(e)[2]
  /\ PatchState' = 1
  /\ NoPatch(at, len, e)
  /\ UNCHANGED ELFNumberOfSections

(* The ELF file is read by this one read.                                  *)
ElfWhole(at, len, e) ==
  /\ PatchState = 0 /\ len # HDR /\ e.kind = "elf"
  /\ DOLSize' = e.size /\ DOLReadSize' = len
  /\ DOLReadSize' = DOLSize'
  /\ DoPatches(at, len, e, Span(at, at + len))
  /\ UNCHANGED <<PatchState, DOLMinOff, DOLMaxOff, ELFNumberOfSections>>

(* Its header is read, or the first part of the file.  Two of the sections *)
(* it counts are not read (.bss and .sbss).                                *)
ElfPart(at, len, e) ==
  /\ PatchState = 0 /\ len # HDR /\ e.kind = "elf"
  /\ DOLSize' = e.size /\ DOLReadSize' = len
  /\ DOLReadSize' # DOLSize'
  /\ PatchState' = 2
  /\ DOLMinOff' = at /\ DOLMaxOff' = at + len
  /\ ELFNumberOfSections' = IF len <= ELFHDR THEN e.phnum - 2 ELSE -1
  /\ NoPatch(at, len, e)

(* Anything else.                                                          *)
Ignored(at, len, e) ==
  /\ PatchState = 0
  /\ NoPatch(at, len, e)
  /\ UNCHANGED dol

(* Variant for a run: the range is not widened.                            *)
Widen_Not(at, len) == UNCHANGED <<DOLMinOff, DOLMaxOff>>

(* The range of an ELF is that of all its reads.                           *)
Widen(at, len) ==
  IF PatchState = 2
    THEN /\ DOLMinOff' = Min({DOLMinOff, at})
         /\ DOLMaxOff' = Max({DOLMaxOff, at + len})
    ELSE UNCHANGED <<DOLMinOff, DOLMaxOff>>

(* All bytes, or all sections of an ELF.                                   *)
AllRead ==
  \/ DOLReadSize' >= DOLSize
  \/ PatchState = 2 /\ ELFNumberOfSections' = 0

(* A read while an executable is awaited, whatever it is.                  *)
Count(at, len) ==
  /\ PatchState # 0
  /\ DOLReadSize' = DOLReadSize + len
  /\ ELFNumberOfSections' = IF PatchState = 2 THEN ELFNumberOfSections - 1 ELSE ELFNumberOfSections
  /\ Widen(at, len)
  /\ UNCHANGED DOLSize

CountMore(at, len, e) ==
  /\ Count(at, len)
  /\ ~AllRead
  /\ NoPatch(at, len, e)
  /\ UNCHANGED PatchState

CountLast(at, len, e) ==
  /\ Count(at, len)
  /\ AllRead
  /\ DoPatches(at, len, e, Span(DOLMinOff', DOLMaxOff'))
  /\ PatchState' = 0

(* first: whether the read starts with the header of e.                    *)
DIRead(at, len, e, first) ==
  \/ /\ first
     /\ \/ DolHeader(at, len, e)
        \/ ElfWhole(at, len, e)
        \/ ElfPart(at, len, e)
  \/ /\ first => e.kind = "loader"
     /\ Ignored(at, len, e)
  \/ CountMore(at, len, e)
  \/ CountLast(at, len, e)
-----------------------------------------------------------------------------
(* The programs on the PPC.  They ask for whole blocks.                    *)

Load(e) ==
  /\ loading = NoExec /\ loads < MaxLoads
  /\ loading' = e /\ left' = e.rest /\ disturbed' = FALSE /\ loads' = loads + 1
  /\ DIRead(e.first.at, RoundUp(e.first.len), e, TRUE)

LoadSection(s) ==
  /\ left' = left \ {s}
  /\ DIRead(s.at, RoundUp(s.len), loading, FALSE)
  /\ UNCHANGED <<loading, disturbed, loads>>

(* All of it is there: it runs.                                            *)
Run ==
  /\ loading # NoExec /\ left = {}
  /\ loading' = NoExec
  /\ UNCHANGED <<dol, Found, raw, rawCards, left, disturbed, loads>>

ReadFile(f) ==
  /\ disturbed' = (loading # NoExec)
  /\ DIRead(f.at, RoundUp(f.len), NoExec, FALSE)
  /\ UNCHANGED <<loading, left, loads>>

DolNext ==
  \/ \E e \in Execs : Load(e)
  \/ \E s \in left : LoadSection(s)
  \/ \E f \in Files : ReadFile(f)
  \/ Run

DolSpec == DolInit /\ [][DolNext]_dolvars
-----------------------------------------------------------------------------
Loaded == loading # NoExec /\ left = {}

(* What the count relies on: with lengths rounded up to whole blocks, the  *)
(* reads of an executable reach its size, or its number of sections, with  *)
(* the last one, and no sooner.                                            *)
Padded(sections) == Cardinality(UNION {{s} \X Span(0, RoundUp(s.len)) : s \in sections})
BytesRead(e, R)  == RoundUp(e.first.len) + Padded(R)
Size(e)     == IF e.kind = "dol" THEN Cardinality(Bytes(e.rest)) + HDR ELSE e.size
ByHeader(e) == e.kind = "elf" /\ RoundUp(e.first.len) <= ELFHDR

CountsOut(e) ==
  IF e.kind = "loader" THEN e.rest = {}
  ELSE /\ \A R \in SUBSET e.rest : R # e.rest => BytesRead(e, R) < Size(e)
       /\ e.kind = "elf" =>
            IF e.rest = {} THEN RoundUp(e.first.len) = e.size
            ELSE IF ByHeader(e) THEN e.phnum - 2 = Cardinality(e.rest)
            ELSE BytesRead(e, e.rest) >= e.size

(* And the search for the memory-card functions (Patches.c:401-420): the   *)
(* one that the library is recognised by comes first.                      *)
FreeBlocksFirst(e) ==
  /\ e.kind = "loader" => e.cards = {}
  /\ \A c \in e.cards : \E s \in e.cards : s.pat = "FreeBlocks" /\ s.at <= c.at

Regular(e) == CountsOut(e) /\ FreeBlocksFirst(e)

(* When a program has been read, with nothing else read in between, and is *)
(* about to run, all its DVD functions are patched (DoPatches, dip.c:251): *)
(* one that is not would talk to a drive that is not there.  Those of the  *)
(* memory card are, too, in the first program: what was found in it is not *)
(* searched for again (Patches.c:396, 626).  And even if other files were  *)
(* read in between the count has ended: the loader waits for the next      *)
(* program.                                                                *)
RunsPatched ==
  Loaded =>
    /\ PatchState = 0
    /\ ~disturbed =>
         /\ loading.hooks \cap raw = {}
         /\ NMM /\ loads = 1 => loading.cards \cap rawCards = {}
=============================================================================
