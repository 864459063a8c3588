------------------------------- MODULE SaveSpec -------------------------------
(***************************************************************************)
(* What a game may expect of the emulated memory card (DML/Card.c): a map  *)
(* from file names to saves, one call at a time, in which the loss of      *)
(* power spoils nothing but the save of the call it interrupts.            *)
(*                                                                         *)
(* A name is damaged when the entry table and the directory of the SD card *)
(* disagree about it after a loss of power: it has no save, and cannot be  *)
(* created either until it has been deleted.                               *)
(***************************************************************************)
CONSTANTS
  Names,   \* the file names the game uses
  Data,    \* what a game may write to a save, and what a new save holds
  Stats,   \* what a game may set with CARDSetStatus
  Zero,    \* the data and the status of a new save
  Torn,    \* the data of a save while it is being written
  Absent,  \* no save
  NoName   \* the name of a call by file number when the entry is free

VARIABLES saves, damaged, call

vars == <<saves, damaged, call>>

Idle == [op |-> "none", name |-> NoName, res |-> "none"]
Save(d, s) == [data |-> d, stats |-> s]
Done(r)   == call' = [call EXCEPT !.res = r]
Asked(op) == call.op = op /\ call.res = "pending"
Doing(op) == call.op = op /\ call.res = "doing"
n == call.name
Exists  == n # NoName /\ saves[n] # Absent
Spoiled == n \in damaged
-----------------------------------------------------------------------------
Init == saves = [m \in Names |-> Absent] /\ damaged = {} /\ call = Idle

Ask ==
  /\ call = Idle
  /\ \E op \in {"Create", "Open", "Delete", "FastOpen", "Read", "Write", "GetStats", "SetStats"},
        m \in Names \cup {NoName} :
       call' = [op |-> op, name |-> m, res |-> "pending"]
  /\ UNCHANGED <<saves, damaged>>

Create ==
  /\ Asked("Create")
  /\ IF Exists \/ Spoiled
       THEN Done("exists") /\ UNCHANGED saves
       ELSE Done("success") /\ saves' = [saves EXCEPT ![n] = Save(Zero, Zero)]
  /\ UNCHANGED damaged

Delete ==
  /\ Asked("Delete")
  /\ \/ Exists /\ Done("doing") /\ saves' = [saves EXCEPT ![n] = Absent] /\ UNCHANGED damaged
     \/ ~Exists /\ Done("nofile") /\ UNCHANGED <<saves, damaged>>
     \/ Spoiled /\ Done("doing") /\ damaged' = damaged \ {n} /\ UNCHANGED saves

(* A call that only asks whether the save is there.                        *)
Look ==
  /\ call.op \in {"Open", "FastOpen", "GetStats"} /\ call.res = "pending"
  /\ \/ Exists /\ Done("success")
     \/ ~Exists /\ Done("nofile")
     \/ Spoiled /\ call.op = "GetStats" /\ Done("success")
  /\ UNCHANGED <<saves, damaged>>

Read ==
  /\ Asked("Read") /\ Exists
  /\ Done(saves[n].data)
  /\ UNCHANGED <<saves, damaged>>

(* While a write is under way the data is neither the old nor the new.     *)
Write ==
  /\ Asked("Write") /\ Exists
  /\ saves' = [saves EXCEPT ![n].data = Torn]
  /\ Done("doing")
  /\ UNCHANGED damaged

Written ==
  /\ Doing("Write") /\ Exists
  /\ \E d \in Data : saves' = [saves EXCEPT ![n].data = d]
  /\ Done("success")
  /\ UNCHANGED damaged

SetStats ==
  /\ Asked("SetStats") /\ Exists
  /\ \E s \in Stats : saves' = [saves EXCEPT ![n].stats = s]
  /\ Done("doing")
  /\ UNCHANGED damaged

Finished ==
  /\ Doing("Delete") \/ Doing("SetStats")
  /\ Done("success")
  /\ UNCHANGED <<saves, damaged>>

Answer ==
  /\ call # Idle /\ call.res \notin {"pending", "doing"}
  /\ call' = Idle
  /\ UNCHANGED <<saves, damaged>>

(* Power is lost and the loader starts again: every save is as the game    *)
(* knows it, but for the one of a call that had no answer yet.             *)
Crash ==
  /\ call' = Idle
  /\ DOMAIN saves' = Names
  /\ \A m \in Names :
       saves'[m] = saves[m] \/ (m = n /\ call.res \in {"pending", "doing"})
  /\ damaged' \subseteq {m \in Names : saves'[m] = Absent}

Next ==
  \/ Ask \/ Create \/ Delete \/ Look \/ Read \/ Write \/ Written \/ SetStats
  \/ Finished \/ Answer \/ Crash

Spec == Init /\ [][Next]_vars
=============================================================================
