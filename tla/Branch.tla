------------------------------- MODULE Branch -------------------------------
(***************************************************************************)
(* The branch instructions the patcher writes and reads (DML/Patches.c):   *)
(* PatchB and PatchBL, and the search of DoCardPatches for a call of a     *)
(* function.  Addresses and instructions are 32-bit words; the displace-   *)
(* ment of a branch is a multiple of 4 in a field of 26 bits, and signed   *)
(* for the processor.                                                      *)
(***************************************************************************)
EXTENDS Integers

CONSTANTS
  Word,   \* 2^32
  Field,  \* 2^26
  B       \* 0x48000000, the primary opcode of b and bl

ASSUME BranchAssumption ==
  /\ Word \in Nat /\ Field \in Nat /\ B \in Nat
  /\ Field % 8 = 0 /\ Field > 0
  /\ Word % Field = 0 /\ B % Field = 0 /\ B + Field <= Word

Addresses == {a \in 0 .. Word - 1 : a % 4 = 0}

(* x & 0x03FFFFFC                                                          *)
Masked(x) == (x % Field) - (x % 4)

(* Variant for a run: the displacement is not masked.                      *)
PatchB_NoMask(dst, src) == (((dst - src) % Word) + B) % Word

(* The word written at src, and the one of PatchBL.                        *)
PatchB(dst, src)  == Masked((dst - src) % Word) + B
PatchBL(dst, src) == PatchB(dst, src) + 1

(* Where the processor goes from a branch at src: the field is extended by *)
(* its sign.                                                               *)
Target(w, src) ==
  LET d == Masked(w)
  IN  (src + (IF d >= Field \div 2 THEN d - Field ELSE d)) % Word

IsBranch(w) == w - (w % Field) = B

(* (word & 0xFC000003) == 0x48000001                                       *)
IsCall(w) == IsBranch(w) /\ w % 4 = 1

(* Variant for a run: the sum is not cut to the field again.               *)
Calls_NoWrap(w, at, f) == IsCall(w) /\ Masked(w) + at = f

(* DoCardPatches: the word w at address at is a call of the function at f. *)
Calls(w, at, f) == IsCall(w) /\ Masked((Masked(w) + at) % Word) = f
-----------------------------------------------------------------------------
VARIABLES
  from, to,  \* where an instruction is patched in, and where it is to branch
  word       \* the instruction there

branch == <<from, to, word>>

BranchInit ==
  /\ from \in Addresses /\ to \in Addresses
  /\ word = 0

WriteB  == word' = PatchB(to, from) /\ UNCHANGED <<from, to>>
WriteBL == word' = PatchBL(to, from) /\ UNCHANGED <<from, to>>

BranchNext == WriteB \/ WriteBL
BranchSpec == BranchInit /\ [][BranchNext]_branch
-----------------------------------------------------------------------------
(* The field reaches from the one address to the other.                    *)
Near == to - from < Field \div 2 /\ from - to <= Field \div 2

(* What was patched in is a branch whatever the distance, and goes to its  *)
(* destination if the field reaches that far, in either direction.         *)
Arrives == word # 0 => IsBranch(word) /\ (Near => Target(word, from) = to)

(* In memory below 2^26 the search of DoCardPatches takes a bl for a call  *)
(* of exactly the function it goes to, and a b for no call.                *)
FindsCalls ==
  to < Field /\ from < Field =>
    \A f \in Addresses : f < Field =>
      (Calls(word, from, f) <=> word = PatchBL(to, from) /\ f = to)
=============================================================================
