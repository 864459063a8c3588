----------------------------- MODULE MCDIMailbox -----------------------------
(* The DVD mailbox with a few reads in a row, by loaders and games in turn. *)
EXTENDS DIMailbox
=============================================================================
