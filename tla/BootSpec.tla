------------------------------ MODULE BootSpec ------------------------------
(***************************************************************************)
(* What boot.bin promises the programs that write it (DML/DVD.c:81-97): a  *)
(* request for a game.  The next program to be started by request is the   *)
(* game asked for last, and a request is served once: the discs put in     *)
(* later are booted again.  A request may get lost, when the power is cut  *)
(* or the game is not there; on a card that cannot be written it stays.    *)
(***************************************************************************)
CONSTANTS
  Games,   \* games that may be asked for
  NoGame,  \* no request
  Off,     \* nothing runs
  Others   \* whatever else may be started: the disc, homebrew, ...

Asked(g) == <<"asked", g>>

VARIABLES
  request,   \* the game asked for, or NoGame
  runs,      \* the program that runs, or Off
  protected  \* the card cannot be written

vars == <<request, runs, protected>>

Init ==
  /\ request \in Games \cup {NoGame}
  /\ runs = Off
  /\ protected \in BOOLEAN

(* A loader writes boot.bin and reboots.                                   *)
Ask(g) ==
  /\ runs = Off /\ ~protected
  /\ request' = g
  /\ UNCHANGED <<runs, protected>>

Serve ==
  /\ runs = Off /\ request # NoGame
  /\ runs' = Asked(request)
  /\ request' = IF protected THEN request ELSE NoGame
  /\ UNCHANGED protected

StartOther ==
  /\ runs = Off
  /\ runs' \in Others
  /\ UNCHANGED <<request, protected>>

Stop == runs' = Off /\ UNCHANGED <<request, protected>>

Lose ==
  /\ runs = Off /\ ~protected
  /\ request' = NoGame
  /\ UNCHANGED <<runs, protected>>

Next == (\E g \in Games : Ask(g)) \/ Serve \/ StartOther \/ Stop \/ Lose

Spec == Init /\ [][Next]_vars
=============================================================================
