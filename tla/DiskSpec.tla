------------------------------ MODULE DiskSpec ------------------------------
(***************************************************************************)
(* What disk_read and disk_write (diskio.c of both builds) promise to the  *)
(* file system: a call that goes well moves all of its sectors, one that   *)
(* fails moves what it likes of its own, and no other sector changes.      *)
(***************************************************************************)
EXTENDS Integers

CONSTANTS
  Sectors,     \* the sectors of the medium are 0 .. Sectors - 1
  Contents,    \* what a sector can hold
  New(_, _)    \* New(c, k): what the c-th call writes to its k-th sector

VARIABLES
  disk,        \* the medium
  request,     \* the call that is served: [id, op, at, n], or Idle
  failed,      \* whether it has gone wrong
  buffer       \* the caller's buffer

vars == <<disk, request, failed, buffer>>

Idle == [id |-> 0, op |-> "none", at |-> 0, n |-> 0]

Requests == [id : Nat, op : {"read", "write"}, at : 0 .. Sectors - 1, n : 1 .. Sectors]

Init == /\ disk \in [0 .. Sectors - 1 -> Contents]
        /\ request = Idle
        /\ failed = FALSE

(* The caller prepares its buffer and calls.                               *)
Call == /\ request = Idle
        /\ request' \in Requests /\ request'.at + request'.n <= Sectors
        /\ failed' = FALSE
        /\ UNCHANGED disk

(* Sectors of a pending write get their new contents.                      *)
Store == /\ request.op = "write"
         /\ \E K \in SUBSET (0 .. request.n - 1) :
              disk' = [s \in DOMAIN disk |-> IF s - request.at \in K
                                             THEN New(request.id, s - request.at)
                                             ELSE disk[s]]
         /\ UNCHANGED <<request, failed, buffer>>

(* A pending read, or one that fails, changes the buffer.                  *)
Fill == /\ request.op = "read"
        /\ UNCHANGED <<disk, request, failed>>

Fail == /\ request # Idle
        /\ failed' = TRUE
        /\ request.op = "write" => UNCHANGED buffer
        /\ UNCHANGED <<disk, request>>

Done == \A k \in 0 .. request.n - 1 :
          /\ request.op = "write" => disk[request.at + k] = New(request.id, k)
          /\ request.op = "read" => buffer[k] = disk[request.at + k]

Return == /\ request # Idle
          /\ ~failed => Done
          /\ request' = Idle
          /\ failed' = FALSE
          /\ UNCHANGED <<disk, buffer>>

Next == Call \/ Store \/ Fill \/ Fail \/ Return

Spec == Init /\ [][Next]_vars
=============================================================================
