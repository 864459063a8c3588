------------------------------ MODULE HeapAlloc ------------------------------
(***************************************************************************)
(* DML/alloc.c: the first-fit allocator of the loader.  A fixed table of   *)
(* [Offset, Size] entries describes the blocks in use; Offset = 0 marks a  *)
(* free entry.  malloc looks at the used entries in table order and tries  *)
(* to put the new block right after each, then right before it.  (The      *)
(* allocator of ehci/alloc.c is the same code with another base and size.) *)
(***************************************************************************)
EXTENDS Integers

CONSTANTS
  RAM,        \* address of the heap
  HeapBytes,  \* _AHEAP_SIZE
  Align,      \* 32: malloc rounds every size up to a multiple of it
  NEntries,   \* entries of the table: _AHEAP_INFO_SIZE / sizeof(HeapInfoEntry)
  Sizes       \* the sizes callers ask for

ASSUME HeapAssumption ==
  /\ Align \in Nat \ {0}
  /\ RAM \in Nat \ {0}
  /\ HeapBytes \in Nat
  /\ HeapBytes % Align = 0
  /\ NEntries \in Nat \ {0}
  /\ Sizes \subseteq Nat

VARIABLES
  HeapInfoEntries,  \* the table
  ret               \* what the last malloc returned

vars == <<HeapInfoEntries, ret>>

NULL  == 0
Slots == 0 .. NEntries - 1
Entry == [Offset : Nat, Size : Nat]
Free0 == [Offset |-> NULL, Size |-> 0]

Offset(i) == HeapInfoEntries[i].Offset
End(i)    == HeapInfoEntries[i].Offset + HeapInfoEntries[i].Size
Used      == {i \in Slots : Offset(i) # NULL}
Above(u)  == {i \in Used : Offset(i) > Offset(u)}
Below(u)  == {i \in Used : Offset(i) < Offset(u)}

RoundUp_Down(size) == (size \div Align) * Align  \* variant for a run: rounds down

RoundUp(size) == ((size + Align - 1) \div Align) * Align

HeapInit == /\ HeapInfoEntries = [i \in Slots |-> Free0]
            /\ ret = NULL
-----------------------------------------------------------------------------
(* Variant for a run: looks at the end of the heap only.                   *)
FitsAfter_NoNext(u, size) == End(u) - RAM + size <= HeapBytes

(* Room right after entry u: up to the end of the heap when u is the last  *)
(* block (a perfect fit is taken), else up to the next block (a perfect    *)
(* fit is not: the comparison is strict).                                  *)
FitsAfter(u, size) ==
  \/ Above(u) = {} /\ End(u) - RAM + size <= HeapBytes
  \/ Above(u) # {} /\ \A n \in Above(u) : End(u) + size < Offset(n)

(* p is the closest entry below u.                                         *)
IsPrev(p, u) == p \in Below(u) /\ \A j \in Below(u) : Offset(j) <= Offset(p)

(* Where the block goes when there is room right before entry u: against u *)
(* when u is the first block, else against the entry below it.             *)
PlaceBefore(u, size) ==
  IF Below(u) = {}
  THEN {a \in {Offset(u) - size} : Offset(u) - RAM >= size}
  ELSE {End(p) : p \in {p \in Below(u) : /\ IsPrev(p, u)
                                         /\ End(p) + size < Offset(u)}}

(* The address entry u offers, as a set with at most one element.          *)
Place(u, size) ==
  IF FitsAfter(u, size) THEN {End(u)} ELSE PlaceBefore(u, size)

(* Variant for a run: gives up after the first used entry of the table.    *)
FindSpace_FirstOnly(size) ==
  IF Used = {}
  THEN {RAM}
  ELSE UNION {Place(u, size) : u \in {v \in Used : \A w \in Used : v <= w}}

(* The address malloc picks: that of the first entry that offers one.      *)
FindSpace(size) ==
  IF Used = {}
  THEN {RAM}
  ELSE UNION {Place(u, size) :
                u \in {v \in Used : \A w \in Used : w < v => Place(w, size) = {}}}

(* The first free entry of the table.                                      *)
FreeEntry == {e \in Slots : Offset(e) = NULL /\ \A i \in Slots : i < e => Offset(i) # NULL}

Refused(size) ==
  \/ size = 0
  \/ size > HeapBytes
  \/ FreeEntry = {}
  \/ FindSpace(RoundUp(size)) = {}

MallocOK(size) ==
  /\ size # 0
  /\ size <= HeapBytes
  /\ \E e \in FreeEntry, a \in FindSpace(RoundUp(size)) :
       /\ HeapInfoEntries' = [HeapInfoEntries EXCEPT
                                ![e] = [Offset |-> a, Size |-> RoundUp(size)]]
       /\ ret' = a

MallocNull(size) ==
  /\ Refused(size)
  /\ ret' = NULL
  /\ UNCHANGED HeapInfoEntries

Malloc(size) == MallocOK(size) \/ MallocNull(size)

(* free: the first entry whose Offset is ptr is cleared.                   *)
Free(ptr) ==
  /\ ptr # NULL
  /\ \E i \in Slots :
       /\ Offset(i) = ptr
       /\ \A j \in Slots : j < i => Offset(j) # ptr
       /\ HeapInfoEntries' = [HeapInfoEntries EXCEPT ![i] = Free0]
  /\ UNCHANGED ret

(* Callers free what they hold.  free(NULL), and free of a pointer no      *)
(* entry has, change nothing: those calls are stuttering steps.            *)
Next ==
  \/ \E size \in Sizes : Malloc(size)
  \/ \E i \in Used : Free(Offset(i))

Spec == HeapInit /\ [][Next]_vars
-----------------------------------------------------------------------------
TypeOK == /\ HeapInfoEntries \in [Slots -> Entry]
          /\ ret \in Nat

(* Two blocks in use never share a byte.                                   *)
NoOverlap ==
  \A i, j \in Used : i # j => End(i) <= Offset(j) \/ End(j) <= Offset(i)

(* Every block in use lies in the heap, is not empty and is aligned: what  *)
(* the comment "easy cheat to allow all allocs to be aligned easily"       *)
(* (alloc.c:32) counts on.                                                 *)
InBounds ==
  \A i \in Used : /\ RAM <= Offset(i)
                  /\ End(i) <= RAM + HeapBytes
                  /\ HeapInfoEntries[i].Size > 0
Aligned ==
  \A i \in Used : /\ (Offset(i) - RAM) % Align = 0
                  /\ HeapInfoEntries[i].Size % Align = 0

BlocksSound == NoOverlap /\ InBounds /\ Aligned

(* The reference for when malloc must succeed: the bytes a .. a + len - 1  *)
(* are free, and there is one more of them than asked for, or just enough  *)
(* at one end of the heap.                                                 *)
FreeRun(a, len) ==
  \A i \in Used : End(i) <= a \/ a + len <= Offset(i)

HasRoom(size) ==
  /\ 0 < size /\ size <= HeapBytes
  /\ \E i \in Slots : Offset(i) = NULL
  /\ \E a \in RAM .. RAM + HeapBytes, len \in {RoundUp(size), RoundUp(size) + 1} :
       /\ a + len <= RAM + HeapBytes
       /\ FreeRun(a, len)
       /\ len > RoundUp(size) \/ a = RAM \/ a + len = RAM + HeapBytes

(* malloc gives up only when no run of free bytes can take the block (a    *)
(* hole between two blocks that fits exactly counts as none): whatever the *)
(* order of the entries in the table, the scan visits every hole.          *)
NullOnlyWithoutRoom ==
  [][ret # NULL /\ ret' = NULL => \A size \in Sizes : MallocNull(size) => ~HasRoom(size)]_vars

(* The allocator keeps the promises of HeapSpec.                           *)
Abstract == INSTANCE HeapSpec WITH
  blocks <- {[ptr |-> Offset(i), size |-> HeapInfoEntries[i].Size] : i \in Used}
ImplementsHeapSpec == Abstract!Spec
=============================================================================
