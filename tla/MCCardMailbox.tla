---------------------------- MODULE MCCardMailbox ----------------------------
(* The mailbox with three commands in a row: two are enough for a command  *)
(* to be disturbed by what its predecessor left behind, and the third shows *)
(* what a disturbed command leaves to its successor.                       *)
EXTENDS CardMailbox

(* Every command of the card library.                                      *)
EveryKind == AllKinds
=============================================================================
