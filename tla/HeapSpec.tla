------------------------------ MODULE HeapSpec ------------------------------
(***************************************************************************)
(* What the loader's heap promises its callers, whatever its table looks   *)
(* like: malloc returns NULL, or a block of at least the size asked for,   *)
(* aligned, inside the heap and disjoint from every block handed out and   *)
(* not freed yet; free gives back that block and touches no other.         *)
(* HeapAlloc, the model of DML/alloc.c, implements this specification.     *)
(***************************************************************************)
EXTENDS Integers

CONSTANTS
  RAM,        \* address of the first byte of the heap
  HeapBytes,  \* _AHEAP_SIZE: bytes that may be handed out
  Align,      \* the granule malloc rounds to
  Sizes       \* the sizes callers ask for

VARIABLES
  blocks,     \* the blocks handed out and not freed: [ptr, size]
  ret         \* what the last malloc returned; 0 is NULL

vars == <<blocks, ret>>

NULL == 0

Disjoint(b, c) == b.ptr + b.size <= c.ptr \/ c.ptr + c.size <= b.ptr

Block == [ptr : RAM .. RAM + HeapBytes, size : 1 .. HeapBytes]

Init == blocks = {} /\ ret = NULL

(* malloc succeeds: the new block is in the heap, aligned, big enough, and *)
(* shares no byte with a live one.                                         *)
Alloc ==
  \E s \in Sizes, b \in Block :
    /\ s <= b.size /\ b.size < s + Align
    /\ (b.ptr - RAM) % Align = 0
    /\ b.ptr + b.size <= RAM + HeapBytes
    /\ \A c \in blocks : Disjoint(b, c)
    /\ blocks' = blocks \cup {b}
    /\ ret' = b.ptr

(* malloc refuses.                                                         *)
Refuse == ret' = NULL /\ UNCHANGED blocks

(* free of a live block removes that block and no other.                   *)
Release ==
  \E b \in blocks :
    /\ blocks' = blocks \ {b}
    /\ UNCHANGED ret

Next == Refuse \/ Release \/ Alloc

Spec == Init /\ [][Next]_vars
=============================================================================
