----------------------------- MODULE MCSdDrive -----------------------------
(* A card of four sectors on a bus that fails twice; and, beside it, a heap *)
(* of six granules of two bytes and a table of four entries, which reach   *)
(* every arrangement of blocks and holes, with a table that fills before   *)
(* the heap and a heap that fills before the table.                        *)
EXTENDS SdDrive, HeapAlloc

MCRanges == {[at |-> 0, n |-> 1], [at |-> 1, n |-> 2], [at |-> 0, n |-> 4]}

(* The heap moves before the controller has been looked for.               *)
NoHeap == ret = NULL /\ Used = {}
NoSd   == pc = "found" /\ ~high /\ state = "off"

MCInit == SdInit /\ HeapInit

MCNext ==
  \/ NoHeap /\ SdNext /\ UNCHANGED vars
  \/ NoSd /\ Next /\ UNCHANGED sd

(* The heap may stand still, and with it the rest.                         *)
Runs(step) == NoHeap /\ step /\ UNCHANGED vars

MCSpec ==
  /\ MCInit /\ [][MCNext]_<<sd, vars>>
  /\ WF_<<sd, vars>>(Runs(Controller)) /\ WF_<<sd, vars>>(Runs(Driver))
  /\ WF_<<sd, vars>>(Runs(Discovery))
  /\ WF_<<sd, vars>>(Runs(Begin \/ Selected \/ PieceOver \/ Return))
=============================================================================
