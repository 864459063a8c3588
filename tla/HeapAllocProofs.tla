--------------------------- MODULE HeapAllocProofs ---------------------------
(***************************************************************************)
(* Proofs about the allocator for every heap size, granule, table size and *)
(* set of request sizes allowed by HeapAssumption.                         *)
(*                                                                         *)
(* BlocksSound (with TypeOK) is inductive.  The argument of the step that  *)
(* matters, MallocOK, is in PlaceSound: a block put right after entry u    *)
(* stays below every entry above u, and every other entry ends at or below *)
(* u because blocks are disjoint; a block put right before u is bounded    *)
(* below by the end of the closest entry under u, which ends last of all   *)
(* the entries under u, again because blocks are disjoint.                 *)
(***************************************************************************)
EXTENDS HeapAlloc, WellFoundedInduction, TLAPS

IInv == TypeOK /\ BlocksSound
-----------------------------------------------------------------------------
(* Arithmetic of the granule.                                              *)

(* Division with remainder, in the form the proofs below use.              *)
LEMMA DivMod ==
  ASSUME NEW a \in Nat, NEW b \in Nat \ {0}
  PROVE  /\ a \div b \in Nat
         /\ a % b \in 0 .. b - 1
         /\ a = b * (a \div b) + (a % b)
  BY SMT

(* A remainder is zero exactly on the multiples.                           *)
LEMMA ModZero ==
  ASSUME NEW a \in Nat, NEW b \in Nat \ {0}
  PROVE  a % b = 0 <=> \E k \in Nat : a = k * b
<1>1. ASSUME a % b = 0 PROVE \E k \in Nat : a = k * b
  <2>1. a = (a \div b) * b BY <1>1, DivMod
  <2> QED BY <2>1, DivMod
<1>2. ASSUME NEW k \in Nat, a = k * b PROVE a % b = 0
  <2> DEFINE q == a \div b
             r == a % b
  <2>1. a = b * q + r /\ q \in Nat /\ r \in 0 .. b - 1 BY DivMod
  <2>2. (k - q) * b = r BY <1>2, <2>1
  <2>3. CASE k - q >= 1
    <3>1. (k - q) * b >= b BY <2>1, <2>3
    <3> QED BY <3>1, <2>1, <2>2
  <2>4. CASE k - q <= 0
    <3>1. (k - q) * b <= 0 BY <2>1, <2>4
    <3> QED BY <3>1, <2>1, <2>2
  <2> QED BY <2>1, <2>3, <2>4
<1> QED BY <1>1, <1>2

(* Sums and differences of multiples of the granule are multiples of it.   *)
LEMMA ModSum ==
  ASSUME NEW A \in Nat \ {0}, NEW x \in Nat, NEW y \in Nat, x % A = 0, y % A = 0
  PROVE  /\ (x + y) % A = 0
         /\ y <= x => (x - y) % A = 0
<1>1. PICK j \in Nat : x = j * A BY ModZero
<1>2. PICK k \in Nat : y = k * A BY ModZero
<1>3. (x + y) % A = 0
  <2>1. x + y = (j + k) * A BY <1>1, <1>2
  <2>2. j + k \in Nat /\ x + y \in Nat OBVIOUS
  <2> QED BY <2>1, <2>2, ModZero
<1>4. ASSUME y <= x PROVE (x - y) % A = 0
  <2>1. x - y = (j - k) * A BY <1>1, <1>2
  <2>2. CASE k >= j + 1
    <3>1. k * A >= (j + 1) * A BY <2>2
    <3>2. (j + 1) * A = j * A + A OBVIOUS
    <3> QED BY <3>1, <3>2, <1>1, <1>2, <1>4
  <2>3. CASE k <= j
    <3>1. j - k \in Nat /\ x - y \in Nat BY <2>3, <1>4
    <3> QED BY <2>1, <3>1, ModZero
  <2> QED BY <2>2, <2>3
<1> QED BY <1>3, <1>4

(* RoundUp returns the first multiple of the granule not below its input.  *)
LEMMA RoundUpBounds ==
  ASSUME NEW size \in Nat
  PROVE  /\ RoundUp(size) \in Nat
         /\ size <= RoundUp(size)
         /\ RoundUp(size) < size + Align
         /\ RoundUp(size) % Align = 0
<1> USE HeapAssumption
<1> DEFINE a == size + Align - 1
           q == a \div Align
<1>1. a \in Nat OBVIOUS
<1>2. /\ q \in Nat
      /\ a % Align \in 0 .. Align - 1
      /\ a = Align * q + (a % Align)
  BY <1>1, DivMod
<1>3. RoundUp(size) = q * Align BY DEF RoundUp
<1>4. q * Align \in Nat /\ Align * q = q * Align BY <1>2
<1> HIDE DEF q
<1>5. (q * Align) % Align = 0 BY <1>2, <1>4, ModZero
<1> QED BY <1>2, <1>3, <1>4, <1>5

(* Rounding never lifts an acceptable size above the heap: the guard tests *)
(* the size before it is rounded (alloc.c:29-33).                          *)
LEMMA RoundUpCap ==
  ASSUME NEW size \in Nat, size <= HeapBytes
  PROVE  RoundUp(size) <= HeapBytes
<1> USE HeapAssumption
<1> DEFINE R == RoundUp(size)
<1>1. PICK k \in Nat : HeapBytes = k * Align BY ModZero
<1>2. R \in Nat /\ R % Align = 0 /\ R < size + Align BY RoundUpBounds
<1> HIDE DEF R
<1>3. PICK q \in Nat : R = q * Align BY <1>2, ModZero
<1>4. ASSUME q - k >= 1 PROVE R <= HeapBytes
  <2>1. (q - k) * Align >= Align BY <1>4
  <2>2. (q - k) * Align = R - HeapBytes BY <1>1, <1>3
  <2> QED BY <2>1, <2>2, <1>2
<1>5. ASSUME q <= k PROVE R <= HeapBytes
  <2>1. q * Align <= k * Align BY <1>5
  <2> QED BY <2>1, <1>1, <1>3
<1>6. R <= HeapBytes BY <1>4, <1>5
<1> QED BY <1>6 DEF R
-----------------------------------------------------------------------------
(* The address malloc picks.                                               *)

(* Wherever the scan puts a block of n bytes (a multiple of the granule),  *)
(* it is in the heap, aligned, and clear of every block in use.            *)
LEMMA PlaceSound ==
  ASSUME IInv, NEW u \in Used, NEW n \in Nat, n > 0, n % Align = 0,
         NEW a \in Place(u, n)
  PROVE  /\ a \in Nat
         /\ RAM <= a
         /\ a + n <= RAM + HeapBytes
         /\ (a - RAM) % Align = 0
         /\ \A i \in Used : End(i) <= a \/ a + n <= Offset(i)
<1> USE HeapAssumption
<1>1. \A i \in Used : /\ i \in Slots
                      /\ Offset(i) \in Nat
                      /\ HeapInfoEntries[i].Size \in Nat \ {0}
                      /\ End(i) = Offset(i) + HeapInfoEntries[i].Size
                      /\ RAM <= Offset(i)
                      /\ End(i) <= RAM + HeapBytes
  BY DEF IInv, TypeOK, BlocksSound, InBounds, Used, Entry, Offset, End
<1>2. \A i, j \in Used : i # j => End(i) <= Offset(j) \/ End(j) <= Offset(i)
  BY DEF IInv, BlocksSound, NoOverlap
<1>3. \A i \in Used : (Offset(i) - RAM) % Align = 0 /\ (End(i) - RAM) % Align = 0
  <2> TAKE i \in Used
  <2>1. /\ (Offset(i) - RAM) % Align = 0
        /\ HeapInfoEntries[i].Size % Align = 0
    BY DEF IInv, BlocksSound, Aligned
  <2>2. /\ Offset(i) - RAM \in Nat
        /\ HeapInfoEntries[i].Size \in Nat
        /\ End(i) - RAM = (Offset(i) - RAM) + HeapInfoEntries[i].Size
    BY <1>1
  <2> QED BY <2>1, <2>2, ModSum
<1>4. CASE FitsAfter(u, n)
  <2>1. a = End(u) BY <1>4 DEF Place
  <2>2. a + n <= RAM + HeapBytes
    <3>1. CASE Above(u) = {} BY <1>1, <1>4, <2>1, <3>1 DEF FitsAfter
    <3>2. CASE Above(u) # {}
      <4>1. PICK m \in Above(u) : End(u) + n < Offset(m) BY <1>4, <3>2 DEF FitsAfter
      <4>2. m \in Used BY DEF Above
      <4> QED BY <1>1, <2>1, <4>1, <4>2
    <3> QED BY <3>1, <3>2
  <2>3. \A i \in Used : End(i) <= a \/ a + n <= Offset(i)
    <3> TAKE i \in Used
    <3>1. CASE i = u BY <1>1, <2>1, <3>1
    <3>2. CASE i # u /\ Offset(i) > Offset(u)
      <4>1. i \in Above(u) BY <3>2 DEF Above
      <4>2. End(u) + n < Offset(i) BY <1>4, <4>1 DEF FitsAfter
      <4> QED BY <1>1, <2>1, <4>2
    <3>3. CASE i # u /\ ~(Offset(i) > Offset(u)) BY <1>1, <1>2, <2>1, <3>3
    <3> QED BY <3>1, <3>2, <3>3
  <2> QED BY <1>1, <1>3, <2>1, <2>2, <2>3
<1>5. CASE ~FitsAfter(u, n) /\ Below(u) = {}
  <2>1. a = Offset(u) - n /\ Offset(u) - RAM >= n
    BY <1>5 DEF Place, PlaceBefore
  <2>2. (a - RAM) % Align = 0
    <3>1. a - RAM = (Offset(u) - RAM) - n BY <1>1, <2>1
    <3>2. Offset(u) - RAM \in Nat BY <1>1
    <3> QED BY <1>3, <2>1, <3>1, <3>2, ModSum
  <2>3. \A i \in Used : a + n <= Offset(i)
    BY <1>1, <1>5, <2>1 DEF Below
  <2> QED BY <1>1, <2>1, <2>2, <2>3
<1>6. CASE ~FitsAfter(u, n) /\ Below(u) # {}
  <2>1. PICK p \in Below(u) : a = End(p) /\ IsPrev(p, u) /\ End(p) + n < Offset(u)
    BY <1>6 DEF Place, PlaceBefore
  <2>2. p \in Used /\ Offset(p) < Offset(u) BY DEF Below
  <2>3. \A i \in Used : End(i) <= a \/ a + n <= Offset(i)
    <3> TAKE i \in Used
    <3>1. CASE i = p BY <1>1, <2>1, <2>2, <3>1
    <3>2. CASE i # p /\ i \in Below(u)
      <4>1. Offset(i) <= Offset(p) BY <2>1, <3>2 DEF IsPrev
      <4> QED BY <1>1, <1>2, <2>1, <2>2, <3>2, <4>1
    <3>3. CASE i \notin Below(u)
      <4>1. Offset(i) >= Offset(u) BY <1>1, <3>3 DEF Below
      <4> QED BY <1>1, <2>1, <2>2, <4>1
    <3> QED BY <3>1, <3>2, <3>3
  <2> QED BY <1>1, <1>3, <2>1, <2>2, <2>3
<1> QED BY <1>4, <1>5, <1>6

(* The same for the whole of malloc's search, the empty heap included.     *)
LEMMA FindSpaceSound ==
  ASSUME IInv, NEW size \in Nat, size # 0, size <= HeapBytes,
         NEW a \in FindSpace(RoundUp(size))
  PROVE  /\ a \in Nat
         /\ RAM <= a
         /\ a + RoundUp(size) <= RAM + HeapBytes
         /\ (a - RAM) % Align = 0
         /\ \A i \in Used : End(i) <= a \/ a + RoundUp(size) <= Offset(i)
<1> USE HeapAssumption
<1> DEFINE n == RoundUp(size)
<1>1. n \in Nat /\ n > 0 /\ n <= HeapBytes /\ n % Align = 0
  BY RoundUpBounds, RoundUpCap
<1> HIDE DEF n
<1>2. CASE Used = {}
  <2>1. a = RAM BY <1>2 DEF FindSpace, n
  <2>2. (a - RAM) % Align = 0 BY <2>1, ModZero
  <2> QED BY <1>1, <1>2, <2>1, <2>2 DEF n
<1>3. CASE Used # {}
  <2>1. PICK u \in Used : a \in Place(u, n) BY <1>3 DEF FindSpace, n
  <2> QED BY <1>1, <2>1, PlaceSound DEF n
<1> QED BY <1>2, <1>3
-----------------------------------------------------------------------------
(* The inductive invariant.                                                *)

LEMMA InitInv == HeapInit => IInv
  BY HeapAssumption DEF HeapInit, IInv, TypeOK, BlocksSound, NoOverlap, InBounds,
     Aligned, Used, Offset, End, Free0, Entry, NULL

(* A successful malloc adds one entry that FindSpaceSound places.          *)
LEMMA MallocOKInv ==
  ASSUME IInv, NEW size \in Sizes, MallocOK(size)
  PROVE  IInv'
<1> USE HeapAssumption
<1> DEFINE n == RoundUp(size)
<1>1. size \in Nat /\ size # 0 /\ size <= HeapBytes BY DEF MallocOK
<1>2. n \in Nat /\ n > 0 /\ n % Align = 0 BY <1>1, RoundUpBounds
<1>3. PICK e \in FreeEntry, a \in FindSpace(n) :
        /\ HeapInfoEntries' = [HeapInfoEntries EXCEPT ![e] = [Offset |-> a, Size |-> n]]
        /\ ret' = a
  BY DEF MallocOK
<1>4. /\ a \in Nat
      /\ RAM <= a
      /\ a + n <= RAM + HeapBytes
      /\ (a - RAM) % Align = 0
      /\ \A i \in Used : End(i) <= a \/ a + n <= Offset(i)
  BY <1>1, <1>3, FindSpaceSound
<1> HIDE DEF n
<1>5. e \in Slots /\ e \notin Used BY <1>3 DEF FreeEntry, Used
<1>6. TypeOK' BY <1>2, <1>3, <1>4, <1>5 DEF IInv, TypeOK, Entry
<1>7. /\ Offset(e)' = a
      /\ HeapInfoEntries'[e].Size = n
      /\ End(e)' = a + n
  BY <1>3, <1>5 DEF IInv, TypeOK, Offset, End
<1>8. \A i \in Slots : i # e => /\ HeapInfoEntries'[i] = HeapInfoEntries[i]
                                /\ Offset(i)' = Offset(i)
                                /\ End(i)' = End(i)
  BY <1>3, <1>5 DEF IInv, TypeOK, Offset, End
<1>9. Used' = Used \cup {e}
  BY <1>4, <1>5, <1>7, <1>8 DEF Used, NULL
<1>10. NoOverlap'
  <2> SUFFICES ASSUME NEW i \in Used', NEW j \in Used', i # j
               PROVE  End(i)' <= Offset(j)' \/ End(j)' <= Offset(i)'
    BY DEF NoOverlap
  <2>1. CASE i # e /\ j # e
    BY <1>8, <1>9, <2>1 DEF IInv, BlocksSound, NoOverlap, Used
  <2>2. CASE i = e BY <1>4, <1>7, <1>8, <1>9, <2>2 DEF Used
  <2>3. CASE j = e BY <1>4, <1>7, <1>8, <1>9, <2>3 DEF Used
  <2> QED BY <2>1, <2>2, <2>3
<1>11. InBounds'
  BY <1>2, <1>4, <1>7, <1>8, <1>9 DEF IInv, BlocksSound, InBounds, Used
<1>12. Aligned'
  BY <1>2, <1>4, <1>7, <1>8, <1>9 DEF IInv, BlocksSound, Aligned, Used
<1> QED BY <1>6, <1>10, <1>11, <1>12 DEF IInv, BlocksSound

(* free only takes an entry away.                                          *)
LEMMA FreeInv ==
  ASSUME IInv, NEW ptr, Free(ptr)
  PROVE  IInv'
<1>1. PICK e \in Slots : HeapInfoEntries' = [HeapInfoEntries EXCEPT ![e] = Free0]
  BY DEF Free
<1>2. TypeOK' BY <1>1 DEF Free, IInv, TypeOK, Entry, Free0, NULL
<1>3. \A i \in Used' : /\ i \in Used
                       /\ HeapInfoEntries'[i] = HeapInfoEntries[i]
                       /\ Offset(i)' = Offset(i)
                       /\ End(i)' = End(i)
  BY <1>1 DEF Used, IInv, TypeOK, Offset, End, Free0
<1>4. NoOverlap' BY <1>3 DEF IInv, BlocksSound, NoOverlap
<1>5. InBounds' BY <1>3 DEF IInv, BlocksSound, InBounds
<1>6. Aligned' BY <1>3 DEF IInv, BlocksSound, Aligned
<1> QED BY <1>2, <1>4, <1>5, <1>6 DEF IInv, BlocksSound

LEMMA NextInv == IInv /\ [Next]_vars => IInv'
<1> SUFFICES ASSUME IInv, [Next]_vars PROVE IInv'
  OBVIOUS
<1>1. ASSUME NEW size \in Sizes, MallocOK(size) PROVE IInv'
  BY <1>1, MallocOKInv
<1>2. ASSUME NEW size \in Sizes, MallocNull(size) PROVE IInv'
  <2>1. HeapInfoEntries' = HeapInfoEntries /\ ret' = 0 BY <1>2 DEF MallocNull, NULL
  <2> QED BY <2>1 DEF IInv, TypeOK, BlocksSound, NoOverlap, InBounds, Aligned, Used, Offset, End
<1>3. ASSUME NEW i \in Used, Free(Offset(i)) PROVE IInv'
  BY <1>3, FreeInv
<1>4. CASE UNCHANGED vars
  BY <1>4 DEF vars, IInv, TypeOK, BlocksSound, NoOverlap, InBounds, Aligned, Used, Offset, End
<1> QED BY <1>1, <1>2, <1>3, <1>4 DEF Next, Malloc

(* The table always holds well-formed entries, and the blocks it describes *)
(* are disjoint, aligned and inside the heap, for every sequence of malloc *)
(* and free (alloc.c:24-196).                                              *)
THEOREM HeapSafe == Spec => [](TypeOK /\ BlocksSound)
<1>1. IInv => TypeOK /\ BlocksSound BY DEF IInv
<1> QED BY InitInv, NextInv, <1>1, PTL DEF Spec
-----------------------------------------------------------------------------
(* Refinement.                                                             *)

(* A successful malloc hands out a block HeapSpec allows.                  *)
LEMMA MallocRefines ==
  ASSUME IInv, NEW size \in Sizes, MallocOK(size)
  PROVE  Abstract!Alloc
<1> USE HeapAssumption
<1> DEFINE n == RoundUp(size)
           B == {[ptr |-> Offset(i), size |-> HeapInfoEntries[i].Size] : i \in Used}
<1>1. size \in Nat /\ size # 0 /\ size <= HeapBytes BY DEF MallocOK
<1>2. n \in Nat /\ n > 0 /\ n <= HeapBytes /\ size <= n /\ n < size + Align
  BY <1>1, RoundUpBounds, RoundUpCap
<1>3. PICK e \in FreeEntry, a \in FindSpace(n) :
        /\ HeapInfoEntries' = [HeapInfoEntries EXCEPT ![e] = [Offset |-> a, Size |-> n]]
        /\ ret' = a
  BY DEF MallocOK
<1>4. /\ a \in Nat
      /\ RAM <= a
      /\ a + n <= RAM + HeapBytes
      /\ (a - RAM) % Align = 0
      /\ \A i \in Used : End(i) <= a \/ a + n <= Offset(i)
  BY <1>1, <1>3, FindSpaceSound
<1> HIDE DEF n
<1> DEFINE b == [ptr |-> a, size |-> n]
<1>5. e \in Slots /\ e \notin Used BY <1>3 DEF FreeEntry, Used
<1>6. b \in Abstract!Block BY <1>2, <1>4 DEF Abstract!Block
<1>7. \A c \in B : Abstract!Disjoint(b, c)
  <2> TAKE c \in B
  <2>1. PICK i \in Used : c = [ptr |-> Offset(i), size |-> HeapInfoEntries[i].Size]
    OBVIOUS
  <2>2. End(i) = Offset(i) + HeapInfoEntries[i].Size BY DEF End, Offset
  <2> QED BY <1>4, <2>1, <2>2 DEF Abstract!Disjoint
<1>8. /\ \A i \in Used : HeapInfoEntries'[i] = HeapInfoEntries[i] /\ Offset(i)' = Offset(i)
      /\ HeapInfoEntries'[e] = b \/ (HeapInfoEntries'[e].Size = n /\ Offset(e)' = a)
      /\ Used' = Used \cup {e}
  BY <1>3, <1>4, <1>5 DEF IInv, TypeOK, Used, Offset, NULL
<1>9. B' = B \cup {b}
  <2>1. HeapInfoEntries'[e].Size = n /\ Offset(e)' = a
    BY <1>3, <1>5 DEF IInv, TypeOK, Offset
  <2> QED BY <1>8, <2>1
<1> HIDE DEF b, B
<1>10. b.ptr = a /\ b.size = n BY DEF b
<1> QED BY <1>2, <1>3, <1>4, <1>6, <1>7, <1>9, <1>10 DEF Abstract!Alloc, B

(* free of a live block gives back that block only.                        *)
LEMMA FreeRefines ==
  ASSUME IInv, NEW k \in Used, Free(Offset(k))
  PROVE  Abstract!Release
<1> DEFINE Blk(i) == [ptr |-> Offset(i), size |-> HeapInfoEntries[i].Size]
           B == {Blk(i) : i \in Used}
<1>1. PICK e \in Slots : /\ Offset(e) = Offset(k)
                         /\ HeapInfoEntries' = [HeapInfoEntries EXCEPT ![e] = Free0]
  BY DEF Free
<1>2. e \in Used BY <1>1 DEF Used
<1>3. /\ Used' = Used \ {e}
      /\ \A i \in Used' : HeapInfoEntries'[i] = HeapInfoEntries[i] /\ Offset(i)' = Offset(i)
  BY <1>1, <1>2 DEF IInv, TypeOK, Used, Offset, Free0
<1>4. \A i \in Used : i # e => Offset(i) # Offset(e)
  <2> TAKE i \in Used
  <2> HAVE i # e
  <2>1. End(i) <= Offset(e) \/ End(e) <= Offset(i)
    BY <1>2 DEF IInv, BlocksSound, NoOverlap
  <2>2. /\ End(i) = Offset(i) + HeapInfoEntries[i].Size
        /\ End(e) = Offset(e) + HeapInfoEntries[e].Size
        /\ Offset(i) \in Nat /\ Offset(e) \in Nat
        /\ HeapInfoEntries[i].Size \in Nat \ {0} /\ HeapInfoEntries[e].Size \in Nat \ {0}
    BY <1>2 DEF IInv, TypeOK, BlocksSound, InBounds, Used, Entry, Offset, End
  <2> QED BY <2>1, <2>2
<1>5. B' = B \ {Blk(e)} BY <1>3, <1>4
<1>6. Blk(e) \in B BY <1>2
<1> QED BY <1>5, <1>6 DEF Abstract!Release, Free

(* The allocator keeps the promises HeapSpec makes to its callers, for     *)
(* every sequence of calls (alloc.c:24-196).                               *)
THEOREM HeapRefines == Spec => ImplementsHeapSpec
<1>1. HeapInit => Abstract!Init
  BY HeapAssumption DEF HeapInit, Abstract!Init, Abstract!NULL, NULL, Used, Offset, Free0, Slots
<1>2. IInv /\ [Next]_vars => [Abstract!Next]_(Abstract!vars)
  <2> SUFFICES ASSUME IInv, [Next]_vars PROVE [Abstract!Next]_(Abstract!vars)
    OBVIOUS
  <2>1. ASSUME NEW size \in Sizes, MallocOK(size) PROVE Abstract!Next
    BY <2>1, MallocRefines DEF Abstract!Next
  <2>2. ASSUME NEW size \in Sizes, MallocNull(size) PROVE Abstract!Next
    BY <2>2 DEF MallocNull, NULL, Abstract!Next, Abstract!Refuse, Abstract!NULL, Used, Offset
  <2>3. ASSUME NEW i \in Used, Free(Offset(i)) PROVE Abstract!Next
    BY <2>3, FreeRefines DEF Abstract!Next
  <2>4. CASE UNCHANGED vars
    BY <2>4 DEF vars, Abstract!vars, Used, Offset
  <2> QED BY <2>1, <2>2, <2>3, <2>4 DEF Next, Malloc
<1>3. IInv /\ [Next]_vars => IInv' BY NextInv
<1> QED BY <1>1, <1>2, <1>3, InitInv, PTL DEF Spec, ImplementsHeapSpec, Abstract!Spec
-----------------------------------------------------------------------------
(* When malloc may give up.                                                *)

Less == {ss \in Nat \X Nat : ss[1] < ss[2]}

(* A set of naturals has a least element.                                  *)
LEMMA LeastOf ==
  ASSUME NEW S, S \subseteq Nat, S # {}
  PROVE  \E x \in S : \A y \in S : x <= y
<1>1. IsWellFoundedOn(Less, Nat)
  BY NatLessThanWellFounded DEF OpToRel, Less
<1>2. \E x \in S : \A y \in S : ~ (<<y, x>> \in Less)
  BY <1>1, WFMin
<1>3. PICK x \in S : \A y \in S : ~ (<<y, x>> \in Less)
  BY <1>2
<1>4. ASSUME NEW y \in S PROVE x <= y
  <2>1. ~ (<<y, x>> \in Less)
    BY <1>3
  <2>2. x \in Nat /\ y \in Nat
    OBVIOUS
  <2> QED BY <2>1, <2>2 DEF Less
<1> QED BY <1>4

(* Of any entries in use, one is the lowest block and one the highest.     *)
LEMMA LowestOf ==
  ASSUME IInv, NEW U, U \subseteq Used, U # {}
  PROVE  \E u \in U : \A v \in U : Offset(u) <= Offset(v)
<1>1. \A v \in U : Offset(v) \in Nat
  BY DEF IInv, TypeOK, Used, Entry, Offset
<1>2. PICK x \in {Offset(v) : v \in U} : \A y \in {Offset(v) : v \in U} : x <= y
  BY <1>1, LeastOf
<1> QED BY <1>2

LEMMA HighestOf ==
  ASSUME IInv, NEW U, U \subseteq Used, U # {}
  PROVE  \E u \in U : \A v \in U : Offset(v) <= Offset(u)
<1> USE HeapAssumption
<1> DEFINE top == RAM + HeapBytes
           Gaps == {top - Offset(v) : v \in U}
<1>1. \A v \in U : Offset(v) \in Nat /\ top - Offset(v) \in Nat
  BY DEF IInv, TypeOK, BlocksSound, InBounds, Used, Entry, Offset, End
<1>2. Gaps \subseteq Nat /\ Gaps # {}
  BY <1>1
<1>3. PICK x \in Gaps : \A y \in Gaps : x <= y
  <2> HIDE DEF Gaps
  <2> QED BY <1>2, LeastOf
<1>4. PICK u \in U : x = top - Offset(u)
  BY <1>3
<1>5. ASSUME NEW v \in U PROVE Offset(v) <= Offset(u)
  <2>1. top - Offset(u) <= top - Offset(v)
    BY <1>3, <1>4
  <2> QED BY <1>1, <2>1
<1> QED BY <1>5

(* A table with a free entry has a first one, and a search that finds      *)
(* nothing was offered nothing by any block.                               *)
LEMMA FirstFree ==
  ASSUME NEW i \in Slots, Offset(i) = NULL
  PROVE  FreeEntry # {}
<1> DEFINE S == {j \in Slots : Offset(j) = NULL}
<1>1. S \subseteq Nat /\ i \in S
  BY DEF Slots
<1>2. PICK e \in S : \A j \in S : e <= j
  BY <1>1, LeastOf
<1>3. e \in FreeEntry
  BY <1>1, <1>2 DEF FreeEntry
<1> QED BY <1>3

LEMMA NothingOffered ==
  ASSUME NEW n, FindSpace(n) = {}, NEW u \in Used
  PROVE  Place(u, n) = {}
<1> SUFFICES ASSUME Place(u, n) # {} PROVE FALSE
  OBVIOUS
<1> DEFINE S == {v \in Used : Place(v, n) # {}}
<1>1. S \subseteq Nat /\ u \in S
  BY DEF Used, Slots
<1>2. PICK v \in S : \A w \in S : v <= w
  BY <1>1, LeastOf
<1>3. \A w \in Used : w < v => Place(w, n) = {}
  BY <1>1, <1>2 DEF Used, Slots
<1>4. PICK a : a \in Place(v, n)
  BY <1>2
<1>5. a \in FindSpace(n)
  BY <1>2, <1>3, <1>4 DEF FindSpace
<1> QED BY <1>5

(* If a run of free bytes can take the block, the highest block below the  *)
(* run offers the room after it, or the lowest block of all the room       *)
(* before it.                                                              *)
LEMMA RoomIsOffered ==
  ASSUME IInv, NEW n \in Nat, n > 0, NEW a \in RAM .. RAM + HeapBytes, NEW len \in {n, n + 1},
         a + len <= RAM + HeapBytes, FreeRun(a, len),
         len > n \/ a = RAM \/ a + len = RAM + HeapBytes,
         Used # {}
  PROVE  \E u \in Used : Place(u, n) # {}
<1> USE HeapAssumption
<1>1. \A i \in Used : /\ Offset(i) \in Nat /\ End(i) \in Nat
                      /\ Offset(i) < End(i)
                      /\ RAM <= Offset(i)
                      /\ End(i) <= RAM + HeapBytes
  BY DEF IInv, TypeOK, BlocksSound, InBounds, Used, Entry, Offset, End
<1>2. \A i \in Used : End(i) <= a \/ a + len <= Offset(i)
  BY DEF FreeRun
<1>3. CASE \E i \in Used : End(i) <= a
  <2> DEFINE U == {i \in Used : End(i) <= a}
  <2>1. PICK u \in U : \A v \in U : Offset(v) <= Offset(u)
    BY <1>3, HighestOf
  <2>2. u \in Used /\ End(u) <= a
    BY <2>1
  <2>3. ASSUME NEW m \in Above(u) PROVE End(u) + n < Offset(m)
    <3>1. m \in Used /\ Offset(m) > Offset(u)
      BY <2>3 DEF Above
    <3>2. a + len <= Offset(m)
      BY <1>1, <1>2, <2>1, <2>2, <3>1
    <3>3. CASE len = n + 1
      BY <1>1, <2>2, <3>1, <3>2, <3>3
    <3>4. CASE len = n
      <4>1. a = RAM \/ a + len = RAM + HeapBytes
        BY <3>4
      <4> QED BY <1>1, <2>2, <3>1, <3>2, <4>1
    <3> QED BY <3>3, <3>4
  <2>4. Above(u) = {} => End(u) - RAM + n <= HeapBytes
    BY <1>1, <2>2
  <2>5. FitsAfter(u, n)
    BY <2>3, <2>4 DEF FitsAfter
  <2> QED BY <2>2, <2>5 DEF Place
<1>4. CASE ~ \E i \in Used : End(i) <= a
  <2>1. PICK u \in Used : \A v \in Used : Offset(u) <= Offset(v)
    BY LowestOf
  <2>2. Below(u) = {}
    BY <1>1, <2>1 DEF Below
  <2>3. Offset(u) - RAM >= n
    <3>1. a + len <= Offset(u)
      BY <1>2, <1>4
    <3> QED BY <1>1, <3>1
  <2>4. PlaceBefore(u, n) # {}
    BY <2>2, <2>3 DEF PlaceBefore
  <2> QED BY <2>1, <2>4 DEF Place
<1> QED BY <1>3, <1>4

LEMMA RefusedHasNoRoom ==
  ASSUME IInv, NEW size \in Sizes, Refused(size)
  PROVE  ~HasRoom(size)
<1> USE HeapAssumption
<1> SUFFICES ASSUME HasRoom(size) PROVE FALSE
  OBVIOUS
<1>1. size \in Nat /\ 0 < size /\ size <= HeapBytes
  BY DEF HasRoom
<1>2. FreeEntry # {}
  BY FirstFree DEF HasRoom
<1>3. FindSpace(RoundUp(size)) = {}
  BY <1>1, <1>2 DEF Refused
<1>4. RoundUp(size) \in Nat /\ RoundUp(size) > 0
  BY <1>1, RoundUpBounds
<1>5. Used # {}
  BY <1>3 DEF FindSpace
<1>6. \E u \in Used : Place(u, RoundUp(size)) # {}
  BY <1>4, <1>5, RoomIsOffered DEF HasRoom
<1> QED BY <1>3, <1>6, NothingOffered

(* malloc returns NULL only when no run of free bytes can take the block   *)
(* (or the table is full), whatever was allocated and freed before and in  *)
(* whatever order the entries stand in the table (alloc.c:36-133).         *)
THEOREM RefusalsAreJust == Spec => NullOnlyWithoutRoom
<1>1. IInv /\ [Next]_vars =>
        [ret # NULL /\ ret' = NULL => \A size \in Sizes : MallocNull(size) => ~HasRoom(size)]_vars
  BY RefusedHasNoRoom DEF MallocNull
<1>2. IInv /\ [Next]_vars => IInv' BY NextInv
<1> QED BY <1>1, <1>2, InitInv, PTL DEF Spec, NullOnlyWithoutRoom
=============================================================================
