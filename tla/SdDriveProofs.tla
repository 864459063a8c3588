--------------------------- MODULE SdDriveProofs ---------------------------
(***************************************************************************)
(* Proofs about SdDrive, for a card of any size, any ranges, any number of *)
(* calls and of faults on the bus.                                         *)
(*                                                                         *)
(* SdInv has three parts.  BitsInv says whose the bits of the status       *)
(* registers are, and of what was read from them, at every place of a      *)
(* wait: this makes a command reported as good the card's own (OkIsOwn).   *)
(* CallInv says what the blocks moved so far hold, and that the command    *)
(* under way is the one for the next blocks of the call: this makes every  *)
(* step of the driver one of DiskSpec.                                     *)
(***************************************************************************)
EXTENDS SdDrive, TLAPS

(* Where the driver waits for the controller, and where it does not.       *)
Flights == {"command", "command_ack", "command_error", "command_woken",
            "transfer", "transfer_ack", "transfer_error", "transfer_woken"}
Places  == {"found", "attach", "ready", "start", "done"}

Ops    == {"none", "GO_IDLE", "IF_COND", "APP_CMD", "OP_COND", "ALL_CID", "RCA", "CSD",
           "SELECT", "BLOCKLEN", "READ", "WRITE"}
Phases == {"idle", "cmd", "data", "paused", "stuck"}
Errors == {"CMDTO", "DATTO", "CRC"}
Calls  == [id : Nat, op : {"none", "read", "write"}, at : Nat, n : Nat,
           bounce : BOOLEAN, i : Nat, bad : BOOLEAN]

SdTypes ==
  /\ hw \in [phase : Phases, moved : Nat, crossed : BOOLEAN, answered : BOOLEAN]
  /\ nintr \subseteq WAITED /\ eintr \subseteq Errors
  /\ status \subseteq WAITED \cup {"ERR"} /\ intr \subseteq WAITED \cup {"ERR"}
  /\ cmd \in [op : Ops, arg : Nat, n : Nat, error : BOOLEAN]
  /\ pc \in Flights \cup Places
  /\ high \in BOOLEAN /\ mounted \in BOOLEAN /\ calls \in 0 .. MaxCalls
  /\ card \in [inserted : BOOLEAN, selected : BOOLEAN, new_card : BOOLEAN,
               blockmode : BOOLEAN]
  /\ call \in Calls
  /\ disk \in [0 .. Sectors - 1 -> Contents]
  /\ mem \in [bounce : [0 .. 2 -> Contents], buff : [0 .. Sectors - 1 -> Contents]]

(* No status is left over when the controller takes a new command.         *)
Clean == nintr = {} /\ eintr = {}
Away  == /\ hw.phase \in {"idle", "paused", "stuck"}
         /\ hw.phase = "idle" => Clean

(* All the data of the command were moved.                                 *)
Moved == hw.phase = "idle" /\ hw.answered /\ hw.moved = cmd.n /\ cmd.n > 0

(* What the controller's registers say of the command it works on.         *)
Working ==
  /\ "CC" \in nintr => hw.answered
  /\ "TC" \in nintr => Moved
  /\ "DMA" \in nintr => hw.phase = "paused"
  /\ eintr # {} => hw.phase = "stuck"
  /\ hw.phase = "cmd" => ~hw.answered /\ hw.moved = 0
  /\ hw.phase \in {"data", "paused"} => hw.answered /\ cmd.n > 0
  /\ cmd.n = 0 /\ hw.answered => hw.phase = "idle"
  /\ hw.moved <= cmd.n
  /\ ~cmd.error

(* Bits that were read are of this command, and no other one follows.      *)
Own(bits) ==
  /\ "CC" \in bits => hw.answered
  /\ "TC" \in bits => Moved /\ nintr \subseteq bits
  /\ "DMA" \in bits => hw.phase = "paused" /\ nintr \subseteq bits

(* The second wait follows the answer.                                     *)
Follows(w) == w = "transfer" => hw.answered /\ cmd.n > 0

Waiting(w) ==
  /\ Follows(w)
  /\ w = "command" => /\ intr = {}
                      /\ nintr # {} \/ hw.phase = "data" => "CC" \in nintr
  /\ w = "transfer" => /\ "CC" \notin nintr \cup intr /\ "ERR" \notin intr
                       /\ Own(intr)
                       /\ intr # {} => Clean

Acked(w) ==
  /\ Follows(w)
  /\ intr = {} /\ status # {}
  /\ Own(status)
  /\ "ERR" \in status => hw.phase = "stuck" /\ nintr \subseteq status
  /\ w = "command" => "CC" \in status \/ "ERR" \in status
  /\ w = "transfer" => "CC" \notin status \cup nintr

Erred(w) ==
  /\ Follows(w)
  /\ intr = {} /\ "ERR" \in status /\ hw.phase = "stuck"
  /\ w = "transfer" => "CC" \notin status

Woke(w) ==
  /\ Follows(w)
  /\ (intr = {} \/ "ERR" \in intr) => hw.phase = "idle" /\ Clean
  /\ "ERR" \notin intr => /\ Own(intr)
                          /\ ("TC" \in intr \/ "DMA" \in intr) => nintr = {}
                          /\ "CC" \notin nintr
                          /\ (w = "command" /\ intr # {}) => "CC" \in intr
  /\ w = "transfer" => "CC" \notin intr

At(w) ==
  /\ pc = w => Waiting(w)
  /\ pc = Acking(w) => Acked(w)
  /\ pc = Failing(w) => Erred(w)
  /\ pc = Awake(w) => Woke(w)

BitsInv ==
  /\ pc \in Places => Away /\ OkIsOwn
  /\ pc = "start" => ~cmd.error
  /\ pc \in Flights => Working /\ At("command") /\ At("transfer")

(* Only a mounted card is called, and the driver knows its kind.           *)
MountInv ==
  /\ card.inserted => card.blockmode = high
  /\ mounted => card.inserted /\ pc \notin {"found", "attach"}
  /\ cmd.op \in {"ALL_CID", "RCA"} => card.blockmode = high

(* The call, and the command that is for its next blocks.                  *)
RequestInv ==
  /\ call # Idle => /\ mounted
                    /\ call.op \in {"read", "write"}
                    /\ call.id > 0 /\ call.id <= MaxCalls
                    /\ call.n > 0 /\ call.at + call.n <= Sectors
                    /\ call.i <= call.n
                    /\ call.bounce \/ call.i \in {0, call.n}
  /\ mounted /\ pc # "ready" => call.i < call.n

CommandInv ==
  /\ cmd.op \in {"READ", "WRITE"} <=> cmd.n > 0
  /\ cmd.n > 0 => mounted
  /\ mounted /\ pc # "ready" => cmd.op = "SELECT" \/ cmd.n > 0
  /\ pc # "ready" /\ cmd.n > 0 =>
       /\ cmd.op = (IF call.op = "read" THEN "READ" ELSE "WRITE")
       /\ cmd.n = Piece
       /\ cmd.arg = Address

(* A block of the call that is done; and one the command has moved.        *)
Served(k)  == IF call.op = "write" THEN disk[call.at + k] = <<call.id, k>>
                                   ELSE mem.buff[k] = disk[call.at + k]
Arrived(k) == IF call.op = "write"
              THEN disk[call.at + call.i + k] = <<call.id, call.i + k>>
              ELSE mem[Where][k] = disk[call.at + call.i + k]

Underway == pc \in Flights \/ (pc = "done" /\ ~cmd.error)

DataInv ==
  /\ call.op = "write" => mem.buff = [k \in 0 .. Sectors - 1 |-> <<call.id, k>>]
  /\ ~call.bad => \A k \in 0 .. call.i - 1 : Served(k)
  /\ mounted /\ pc # "ready" /\ call.bounce /\ call.op = "write" =>
       mem.bounce[0] = <<call.id, call.i>>
  /\ cmd.n > 0 /\ Underway => \A k \in 0 .. hw.moved - 1 : Arrived(k)

CallInv == MountInv /\ RequestInv /\ CommandInv /\ DataInv

SdInv == SdTypes /\ BitsInv /\ CallInv

USE SdAssumption

-----------------------------------------------------------------------------
(* The bits, step by step.                                                 *)

LEMMA BitsInit == SdInit => BitsInv
BY DEF SdInit, BitsInv, Away, Clean, Ready, OkIsOwn, Places, Flights

(* Outside a wait the registers stand still, or are reset.                 *)
LEMMA BitsQuiet ==
  ASSUME BitsInv, pc \in Places, pc' \in Places \ {"done"},
         pc' = "start" => ~cmd.error', UNCHANGED <<hw, nintr, eintr>>
  PROVE  BitsInv'
BY DEF BitsInv, Away, Clean, OkIsOwn, Places, Flights

LEMMA BitsReset ==
  ASSUME HostReset, pc' \in Places \ {"done"}, pc' = "start" => ~cmd.error'
  PROVE  BitsInv'
BY DEF BitsInv, Away, Clean, OkIsOwn, Places, Flights, HostReset, Ready

LEMMA BitsSame ==
  ASSUME BitsInv, UNCHANGED <<hw, nintr, eintr, cmd, pc, status, intr>>
  PROVE  BitsInv'
BY DEF BitsInv, Away, Clean, OkIsOwn, Working, At, Waiting, Acked, Erred, Woke,
       Own, Moved, Follows

(* The controller.                                                         *)
LEMMA NoneRead ==
  ASSUME SdTypes, BitsInv, hw.phase = "data", pc = "transfer"
  PROVE  intr = {} /\ "CC" \notin nintr /\ hw.answered /\ cmd.n > 0
<1>1. Waiting("transfer")
  BY DEF BitsInv, Flights, At
<1>2. intr \subseteq {"CC", "TC", "DMA", "ERR"}
  BY DEF SdTypes, WAITED
<1>3. "TC" \notin intr /\ "DMA" \notin intr
  BY <1>1 DEF Waiting, Own, Moved
<1> QED
  BY <1>1, <1>2, <1>3 DEF Waiting, Follows

LEMMA BitsController ==
  ASSUME SdTypes, BitsInv, Controller
  PROVE  BitsInv'
<1> USE DEF SdTypes, BitsInv, Places, Flights, Phases, WAITED, Errors, driver, caller,
            Waits, Acking, Failing, Awake
<1>0. UNCHANGED <<cmd, pc, status, intr>>
  BY DEF Controller, Answer, NoAnswer, MoveSector, Boundary, TransferDone, TransferFails
<1>1. hw.phase \in {"cmd", "data"}
  BY DEF Controller, Answer, NoAnswer, MoveSector, Boundary, TransferDone, TransferFails
<1>2. pc \in Flights
  BY <1>1 DEF Away
<1>3. CASE Answer
  BY <1>0, <1>2, <1>3 DEF Answer, Working, Moved, At, Waiting, Acked, Erred, Woke, Own, Follows, Clean
<1>4. CASE NoAnswer
  BY <1>0, <1>2, <1>4 DEF NoAnswer, Working, Moved, At, Waiting, Acked, Erred, Woke, Own, Follows, Clean
<1>5. CASE MoveSector
  BY <1>0, <1>2, <1>5 DEF MoveSector, Working, Moved, At, Waiting, Acked, Erred, Woke, Own, Follows, Clean
<1>6. CASE Boundary
  <2>0. Working'
    BY <1>0, <1>2, <1>6 DEF Boundary, Working, Moved
  <2>1. pc = "command" => Waiting("command")'
    BY <1>0, <1>2, <1>6 DEF Boundary, Working, Moved, At, Waiting, Own, Follows, Clean
  <2>2. pc = "command_ack" => Acked("command")'
    BY <1>0, <1>2, <1>6 DEF Boundary, Working, Moved, At, Acked, Own, Follows, Clean
  <2>3. pc = "command_error" => Erred("command")'
    BY <1>0, <1>2, <1>6 DEF Boundary, Working, Moved, At, Erred, Follows, Clean
  <2>4. pc = "command_woken" => Woke("command")'
    BY <1>0, <1>2, <1>6 DEF Boundary, Working, Moved, At, Woke, Own, Follows, Clean
  <2>5. pc = "transfer" => Waiting("transfer")'
    BY <1>0, <1>6, NoneRead DEF Boundary, Waiting, Own, Follows
  <2>6. pc = "transfer_ack" => Acked("transfer")'
    BY <1>0, <1>2, <1>6 DEF Boundary, Working, Moved, At, Acked, Own, Follows, Clean
  <2>7. pc = "transfer_error" => Erred("transfer")'
    BY <1>0, <1>2, <1>6 DEF Boundary, Working, Moved, At, Erred, Follows, Clean
  <2>8. pc = "transfer_woken" => Woke("transfer")'
    BY <1>0, <1>2, <1>6 DEF Boundary, Working, Moved, At, Woke, Own, Follows, Clean
  <2> QED
    BY <1>0, <1>2, <2>0, <2>1, <2>2, <2>3, <2>4, <2>5, <2>6, <2>7, <2>8 DEF At
<1>7. CASE TransferDone
  <2>0. Working'
    BY <1>0, <1>2, <1>7 DEF TransferDone, Working, Moved
  <2>1. pc = "command" => Waiting("command")'
    BY <1>0, <1>2, <1>7 DEF TransferDone, Working, Moved, At, Waiting, Own, Follows, Clean
  <2>2. pc = "command_ack" => Acked("command")'
    BY <1>0, <1>2, <1>7 DEF TransferDone, Working, Moved, At, Acked, Own, Follows, Clean
  <2>3. pc = "command_error" => Erred("command")'
    BY <1>0, <1>2, <1>7 DEF TransferDone, Working, Moved, At, Erred, Follows, Clean
  <2>4. pc = "command_woken" => Woke("command")'
    BY <1>0, <1>2, <1>7 DEF TransferDone, Working, Moved, At, Woke, Own, Follows, Clean
  <2>5. pc = "transfer" => Waiting("transfer")'
    BY <1>0, <1>7, NoneRead DEF TransferDone, Waiting, Own, Follows
  <2>6. pc = "transfer_ack" => Acked("transfer")'
    BY <1>0, <1>2, <1>7 DEF TransferDone, Working, Moved, At, Acked, Own, Follows, Clean
  <2>7. pc = "transfer_error" => Erred("transfer")'
    BY <1>0, <1>2, <1>7 DEF TransferDone, Working, Moved, At, Erred, Follows, Clean
  <2>8. pc = "transfer_woken" => Woke("transfer")'
    BY <1>0, <1>2, <1>7 DEF TransferDone, Working, Moved, At, Woke, Own, Follows, Clean
  <2> QED
    BY <1>0, <1>2, <2>0, <2>1, <2>2, <2>3, <2>4, <2>5, <2>6, <2>7, <2>8 DEF At
<1>8. CASE TransferFails
  <2>0. Working'
    BY <1>0, <1>2, <1>8 DEF TransferFails, Working, Moved
  <2>1. pc = "command" => Waiting("command")'
    BY <1>0, <1>2, <1>8 DEF TransferFails, Working, Moved, At, Waiting, Own, Follows, Clean
  <2>2. pc = "command_ack" => Acked("command")'
    BY <1>0, <1>2, <1>8 DEF TransferFails, Working, Moved, At, Acked, Own, Follows, Clean
  <2>3. pc = "command_error" => Erred("command")'
    BY <1>0, <1>2, <1>8 DEF TransferFails, Working, Moved, At, Erred, Follows, Clean
  <2>4. pc = "command_woken" => Woke("command")'
    BY <1>0, <1>2, <1>8 DEF TransferFails, Working, Moved, At, Woke, Own, Follows, Clean
  <2>5. pc = "transfer" => Waiting("transfer")'
    BY <1>0, <1>8, NoneRead DEF TransferFails, Waiting, Own, Follows
  <2>6. pc = "transfer_ack" => Acked("transfer")'
    BY <1>0, <1>2, <1>8 DEF TransferFails, Working, Moved, At, Acked, Own, Follows, Clean
  <2>7. pc = "transfer_error" => Erred("transfer")'
    BY <1>0, <1>2, <1>8 DEF TransferFails, Working, Moved, At, Erred, Follows, Clean
  <2>8. pc = "transfer_woken" => Woke("transfer")'
    BY <1>0, <1>2, <1>8 DEF TransferFails, Working, Moved, At, Woke, Own, Follows, Clean
  <2> QED
    BY <1>0, <1>2, <2>0, <2>1, <2>2, <2>3, <2>4, <2>5, <2>6, <2>7, <2>8 DEF At
<1> QED
  BY <1>3, <1>4, <1>5, <1>6, <1>7, <1>8 DEF Controller

(* The card is taken out: the driver does not see it.                      *)
LEMMA BitsRemove == ASSUME BitsInv, Remove PROVE BitsInv'
BY BitsSame DEF Remove, driver

(* One command on the controller.                                          *)
LEMMA BitsStart ==
  ASSUME SdTypes, BitsInv, StartCommand
  PROVE  BitsInv'
BY DEF SdTypes, BitsInv, StartCommand, Places, Flights, Away, Clean, Ready, Working,
       At, Waiting, Own, Follows, Acking, Failing, Awake

LEMMA BitsInhibited == ASSUME SdTypes, BitsInv, Inhibited PROVE BitsInv'
BY DEF SdTypes, BitsInv, Inhibited, Fail, controller, Places, Flights, Away, OkIsOwn

LEMMA BitsRead ==
  ASSUME SdTypes, BitsInv, NEW w \in Waits, ReadStatus(w)
  PROVE  BitsInv'
<1> USE DEF SdTypes, BitsInv, Places, Flights, WAITED, Errors, Acking, Failing, Awake
<1>1. UNCHANGED <<hw, nintr, eintr, cmd, intr>> /\ pc = w /\ pc' = Acking(w)
  BY DEF ReadStatus, controller
<1>2. Working'
  BY <1>1 DEF Working, Moved, Waits
<1>3. intr = {}
  BY DEF ReadStatus, Pending, Waits, At, Waiting, Clean
<1>4. Acked(w)'
  BY <1>1, <1>3 DEF ReadStatus, Pending, Waits, Working, Moved, At, Waiting, Acked, Own, Follows
<1> QED
  BY <1>1, <1>2, <1>4 DEF Waits, At

LEMMA BitsLeftover ==
  ASSUME SdTypes, BitsInv, NEW w \in Waits, Leftover(w)
  PROVE  BitsInv'
<1> USE DEF SdTypes, BitsInv, Places, Flights, WAITED, Errors, Acking, Failing, Awake
<1>1. UNCHANGED <<hw, nintr, eintr, cmd, intr>> /\ pc = w /\ pc' = Awake(w)
  BY DEF Leftover, controller
<1>2. Working'
  BY <1>1 DEF Working, Moved, Waits
<1>3. w = "transfer"
  BY DEF Leftover, Waits, At, Waiting
<1>4. Woke(w)'
  BY <1>1, <1>3 DEF Leftover, Pending, Waits, Moved, At, Waiting, Woke, Own, Follows, Clean
<1> QED
  BY <1>1, <1>2, <1>3, <1>4 DEF At

LEMMA BitsAcknowledge ==
  ASSUME SdTypes, BitsInv, NEW w \in Waits, Acknowledge(w)
  PROVE  BitsInv'
<1>1. /\ UNCHANGED <<hw, cmd, status>> /\ pc = Acking(w)
      /\ nintr' = nintr \ status /\ eintr' = {}
  BY DEF Acknowledge, WriteNintr
<1>2. Acked(w) /\ Working
  BY <1>1 DEF BitsInv, Waits, At, Acking, Flights
<1>3. Working'
  BY <1>1, <1>2 DEF Working, Moved
<1>4. CASE "ERR" \in status
  <2>1. pc' = Failing(w) /\ intr' = intr
    BY <1>4 DEF Acknowledge
  <2>2. Erred(w)'
    BY <1>1, <1>2, <1>4, <2>1 DEF Acked, Erred, Own, Follows
  <2>3. At("command")' /\ At("transfer")' /\ pc' \in Flights /\ pc' \notin Places
    BY <2>1, <2>2 DEF Waits, At, Acking, Failing, Awake, Flights, Places
  <2> QED
    BY <1>3, <2>1, <2>3 DEF BitsInv, Waits, Failing
<1>5. CASE "ERR" \notin status
  <2>1. intr = {} /\ Own(status) /\ status # {} /\ Follows(w)
        /\ (w = "command" => "CC" \in status) /\ (w = "transfer" => "CC" \notin status \cup nintr)
    BY <1>2, <1>5 DEF Acked
  <2>2. pc' = Awake(w) /\ intr' = status
    BY <1>5, <2>1 DEF Acknowledge
  <2>3. Own(intr)' /\ Follows(w)'
    BY <1>1, <2>1, <2>2 DEF Own, Moved, Follows
  <2>4. ("TC" \in status \/ "DMA" \in status => nintr' = {}) /\ "CC" \notin nintr'
    BY <1>1, <2>1 DEF Own, Waits
  <2>5. Woke(w)'
    BY <1>5, <2>1, <2>2, <2>3, <2>4 DEF Woke
  <2>6. At("command")' /\ At("transfer")' /\ pc' \in Flights /\ pc' \notin Places
    BY <2>2, <2>5 DEF Waits, At, Acking, Failing, Awake, Flights, Places
  <2> QED
    BY <1>3, <2>2, <2>6 DEF BitsInv, Waits, Awake
<1> QED
  BY <1>4, <1>5

LEMMA BitsServiceError ==
  ASSUME SdTypes, BitsInv, NEW w \in Waits, ServiceError(w)
  PROVE  BitsInv'
<1> USE DEF SdTypes, BitsInv, Places, Flights, Phases, WAITED, Errors, Acking, Failing, Awake
<1>1. /\ UNCHANGED <<cmd, status>> /\ pc = Failing(w) /\ pc' = Awake(w)
      /\ nintr' = {} /\ eintr' = {} /\ hw' = [hw EXCEPT !.phase = "idle"]
      /\ intr' \in {intr, intr \cup status}
  BY DEF ServiceError, WriteEintr, SoftReset
<1>2. Erred(w) /\ Working
  BY <1>1 DEF Waits, At
<1>3. Working'
  BY <1>1, <1>2 DEF Working
<1>4. Woke(w)'
  BY <1>1, <1>2 DEF Erred, Woke, Own, Clean, Follows
<1> QED
  BY <1>1, <1>3, <1>4 DEF Waits, At

LEMMA BitsKeepWaiting ==
  ASSUME SdTypes, BitsInv, NEW w \in Waits, KeepWaiting(w)
  PROVE  BitsInv'
<1> USE DEF SdTypes, BitsInv, Places, Flights, WAITED, Errors, Acking, Failing, Awake
<1>1. UNCHANGED <<hw, nintr, eintr, cmd, intr>> /\ pc = Awake(w) /\ pc' = w /\ intr = {}
  BY DEF KeepWaiting, controller
<1>2. Woke(w) /\ Working
  BY <1>1 DEF Waits, At
<1>3. Working'
  BY <1>1, <1>2 DEF Working, Moved
<1>4. Waiting(w)'
  BY <1>1, <1>2 DEF Woke, Waiting, Own, Clean, Follows
<1> QED
  BY <1>1, <1>3, <1>4 DEF Waits, At

LEMMA BitsExpire ==
  ASSUME SdTypes, BitsInv, NEW w \in Waits, Expire(w)
  PROVE  BitsInv'
<1>1. UNCHANGED <<hw, nintr, eintr>> /\ pc' = "done" /\ cmd'.error
  BY DEF SdTypes, Expire, Fail, controller
<1>2. Away'
  BY <1>1 DEF Expire, Pending, Away, Clean
<1> QED
  BY <1>1, <1>2 DEF BitsInv, OkIsOwn, Flights

LEMMA BitsAtDone == ASSUME pc' = "done", Away', OkIsOwn' PROVE BitsInv'
BY DEF BitsInv, Places, Flights

LEMMA BitsAtTransfer ==
  ASSUME pc' = "transfer", Working', Waiting("transfer")'
  PROVE  BitsInv'
BY DEF BitsInv, Places, Flights, At, Acking, Failing, Awake

(* A wait that ends: with an error, with what it was for, or with an       *)
(* interruption only.                                                      *)
LEMMA BitsWoken ==
  ASSUME SdTypes, BitsInv, NEW w \in Waits, Woken(w)
  PROVE  BitsInv'
<1>0. /\ hw \in [phase : Phases, moved : Nat, crossed : BOOLEAN, answered : BOOLEAN]
      /\ cmd.n \in Nat
      /\ nintr \subseteq {"CC", "TC", "DMA"} /\ intr \subseteq {"CC", "TC", "DMA", "ERR"}
  BY DEF SdTypes, WAITED
<1>1. pc = Awake(w) /\ intr # {} /\ eintr' = eintr
  BY DEF Woken
<1>2. Woke(w) /\ Working
  <2>1. pc \in Flights
    BY <1>1 DEF Waits, Awake, Flights
  <2>2. Working /\ At("command") /\ At("transfer")
    BY <2>1 DEF BitsInv
  <2> QED
    BY <1>1, <2>2 DEF At, Waits
<1>3. CASE "ERR" \in intr
  <2>1. hw'.phase = "idle" /\ nintr' = {} /\ pc' = "done" /\ cmd'.error
    <3>1. cmd \in [op : Ops, arg : Nat, n : Nat, error : BOOLEAN]
      BY DEF SdTypes
    <3> QED
      BY <1>0, <1>3, <3>1 DEF Woken, SoftReset, Fail
  <2>2. eintr = {}
    BY <1>2, <1>3 DEF Woke, Clean
  <2>3. Away' /\ OkIsOwn'
    BY <1>1, <2>1, <2>2 DEF Away, Clean, OkIsOwn
  <2> QED
    BY <2>1, <2>3, BitsAtDone
<1>4. CASE "ERR" \notin intr /\ w = "command"
  <2>0. "CC" \in intr /\ Own(intr) /\ "CC" \notin nintr
        /\ ("TC" \in intr \/ "DMA" \in intr => nintr = {})
    BY <1>1, <1>2, <1>4 DEF Woke
  <2>1. /\ pc' = (IF cmd.n > 0 THEN "transfer" ELSE "done")
        /\ cmd' = cmd /\ hw' = hw /\ nintr' = nintr /\ intr' = intr \ {"CC", "ERR"}
    BY <1>4, <2>0 DEF Woken, Result, Wanted
  <2>2. hw.answered
    BY <2>0 DEF Own
  <2>3. CASE cmd.n > 0
    <3>1. Working'
      BY <1>1, <1>2, <2>1 DEF Working, Moved
    <3>2. Own(intr')
      BY <2>0, <2>1 DEF Own
    <3>3. ASSUME intr' # {} PROVE Clean
      <4>1. "TC" \in intr \/ "DMA" \in intr
        BY <1>0, <2>1, <3>3
      <4>2. hw.phase # "stuck"
        BY <2>0, <4>1 DEF Own, Moved
      <4>3. nintr = {} /\ eintr = {}
        BY <1>2, <2>0, <4>1, <4>2 DEF Working
      <4> QED
        BY <4>3 DEF Clean
    <3>4. Own(intr)'
      BY <2>1, <3>2 DEF Own, Moved
    <3>5. intr' # {} => Clean'
      BY <1>1, <2>1, <3>3 DEF Clean
    <3>6. Waiting("transfer")'
      BY <2>0, <2>1, <2>2, <2>3, <3>4, <3>5, <1>4 DEF Waiting, Follows
    <3> QED
      BY <2>1, <2>3, <3>1, <3>6, BitsAtTransfer
  <2>4. CASE cmd.n = 0
    <3>1. hw.phase = "idle"
      BY <1>2, <2>2, <2>4 DEF Working
    <3>2. hw.moved = 0
      <4>1. hw.moved \in Nat /\ hw.moved <= cmd.n
        BY <1>0, <1>2 DEF Working
      <4> QED
        BY <2>4, <4>1
    <3>3. eintr = {} /\ "TC" \notin nintr /\ "DMA" \notin nintr
      BY <1>2, <2>4, <3>1 DEF Working, Moved
    <3>4. nintr = {}
      BY <1>0, <2>0, <3>3
    <3>5. pc' = "done"
      BY <2>1, <2>4
    <3>6. Away'
      BY <1>1, <2>1, <3>1, <3>3, <3>4 DEF Away, Clean
    <3>7. OkIsOwn'
      BY <2>1, <2>2, <2>4, <3>1, <3>2 DEF OkIsOwn
    <3> QED
      BY <3>5, <3>6, <3>7, BitsAtDone
  <2> QED
    BY <1>0, <2>3, <2>4
<1>5. CASE "ERR" \notin intr /\ w = "transfer"
  <2>0. intr \subseteq {"TC", "DMA"} /\ Own(intr) /\ nintr = {} /\ hw.answered /\ cmd.n > 0
    <3>1. "CC" \notin intr /\ hw.answered /\ cmd.n > 0 /\ Own(intr)
          /\ ("TC" \in intr \/ "DMA" \in intr => nintr = {})
      BY <1>2, <1>5 DEF Woke, Follows
    <3>2. intr \subseteq {"TC", "DMA"}
      BY <1>0, <1>5, <3>1
    <3> QED
      BY <1>1, <3>1, <3>2
  <2>1. /\ pc' = IF "TC" \in intr THEN "done" ELSE "transfer"
        /\ hw' = IF "TC" \notin intr /\ hw.phase = "paused"
                 THEN [hw EXCEPT !.phase = "data"] ELSE hw
        /\ cmd' = cmd /\ nintr' = nintr /\ intr' = {}
    <3>1. intr \cap {"TC", "DMA"} = intr /\ intr \ ({"TC", "DMA"} \cup {"ERR"}) = {}
      BY <2>0
    <3> QED
      BY <1>1, <1>5, <3>1 DEF Woken, Result, Wanted
  <2>2. CASE "TC" \in intr
    <3>1. Moved
      BY <2>0, <2>2 DEF Own
    <3>2. eintr = {}
      BY <1>2, <3>1 DEF Moved, Working
    <3>3. Away' /\ OkIsOwn'
      BY <1>1, <2>0, <2>1, <2>2, <3>1, <3>2 DEF Away, Clean, OkIsOwn, Moved
    <3> QED
      BY <2>1, <2>2, <3>3, BitsAtDone
  <2>3. CASE "TC" \notin intr
    <3>1. hw.phase = "paused"
      BY <1>1, <2>0, <2>3 DEF Own
    <3>2. hw' = [hw EXCEPT !.phase = "data"] /\ pc' = "transfer" /\ intr' = {} /\ nintr' = {}
      BY <2>0, <2>1, <2>3, <3>1
    <3>3. /\ hw'.phase = "data" /\ hw'.moved = hw.moved /\ hw'.answered = hw.answered
      BY <1>0, <3>2
    <3>4. eintr = {}
      BY <1>2, <3>1 DEF Working
    <3>5. Working'
      BY <1>1, <1>2, <2>0, <2>1, <3>2, <3>3, <3>4 DEF Working
    <3>6. Waiting("transfer")'
      BY <2>0, <2>1, <3>2, <3>3 DEF Waiting, Own, Follows
    <3> QED
      BY <3>2, <3>5, <3>6, BitsAtTransfer
  <2> QED
    BY <2>2, <2>3
<1> QED
  BY <1>3, <1>4, <1>5 DEF Waits

(* The discovery of a card before it is mounted: what it leaves alone.     *)
LEMMA DiscoveryFrame ==
  ASSUME Discovery
  PROVE  /\ UNCHANGED <<high, disk, status, intr, mounted, call, calls, mem>>
         /\ pc \in {"found", "attach"} \/ Discovering
<1>1. CASE Found
  BY <1>1 DEF Found, caller
<1>2. CASE Attach
  BY <1>2 DEF Attach, Exec, Rest
<1>3. CASE AttachNoCard
  BY <1>3 DEF AttachNoCard, Rest, controller, caller
<1>4. CASE Identified
  <2>1. UNCHANGED <<status, intr>>
    BY <1>4 DEF Identified, Exec, Select, Rest
  <2>2. UNCHANGED <<controller, mounted, call, calls, mem>> /\ Discovering
    BY <1>4 DEF Identified
  <2> QED
    BY <2>1, <2>2 DEF controller
<1>5. CASE AskAgain
  BY <1>5 DEF AskAgain, Exec, controller
<1>6. CASE GoOn
  <2>1. UNCHANGED <<status, intr>>
    BY <1>6 DEF GoOn, Exec
  <2>2. UNCHANGED <<controller, mounted, call, calls, mem>> /\ Discovering
    BY <1>6 DEF GoOn
  <2> QED
    BY <2>1, <2>2 DEF controller
<1>7. CASE GiveUp
  BY <1>7 DEF GiveUp, PowerOff, Rest
<1> QED
  BY <1>1, <1>2, <1>3, <1>4, <1>5, <1>6, <1>7 DEF Discovery

(* What is left changes the registers only by a reset.                     *)
LEMMA BitsOthers ==
  ASSUME SdTypes, BitsInv, Discovery \/ DiskIO
  PROVE  BitsInv'
<1> DEFINE Goes == pc' \in Places \ {"done"} /\ (pc' = "start" => ~cmd.error')
<1>2. ASSUME Discovery PROVE BitsInv'
  <2>1. CASE Found
    <3>1. Goes
      BY <2>1 DEF Found, Places
    <3> QED
      BY <2>1, <3>1, BitsReset DEF Found
  <2>2. CASE Attach
    <3>1. Goes
      BY <2>2 DEF Attach, Rest, Exec, Places
    <3> QED
      BY <2>2, <3>1, BitsReset DEF Attach
  <2>3. CASE AttachNoCard \/ AskAgain \/ GoOn \/ Identified
    <3>1. pc \in Places /\ UNCHANGED <<hw, nintr, eintr>>
      BY <2>3 DEF AttachNoCard, AskAgain, GoOn, Identified, Discovering, Places, controller
    <3>2. Goes
      <4>1. CASE AttachNoCard
        BY <4>1 DEF AttachNoCard, Rest, Places
      <4>2. CASE AskAgain
        BY <4>2 DEF AskAgain, Exec, Places
      <4>3. CASE GoOn
        BY <4>3 DEF GoOn, Exec, Places
      <4>4. CASE Identified
        BY <4>4 DEF Identified, Select, Exec, Rest, Places
      <4> QED
        BY <2>3, <4>1, <4>2, <4>3, <4>4
    <3> QED
      BY <3>1, <3>2, BitsQuiet
  <2>4. CASE GiveUp
    <3>1. HostReset /\ Goes
      BY <2>4 DEF GiveUp, PowerOff, Rest, Places
    <3> QED
      BY <3>1, BitsReset
  <2> QED
    BY <1>2, <2>1, <2>2, <2>3, <2>4 DEF Discovery
<1>3. CASE Initialize
  BY <1>3, BitsSame DEF Initialize, controller, driver
<1>4. CASE Return
  BY <1>4, BitsSame DEF Return, controller, driver
<1>5. ASSUME NEW op \in {"read", "write"}, NEW r \in Ranges, NEW bounce \in BOOLEAN,
             Call(op, r.at, r.n, bounce)
      PROVE  BitsInv'
  BY <1>5, BitsSame DEF Call, controller, driver
<1>6. CASE Begin
  <2>1. pc \in Places /\ UNCHANGED <<hw, nintr, eintr>>
    BY <1>6 DEF Begin, Places, controller
  <2>2. Goes
    BY <1>6 DEF Begin, Select, Transfer, Exec, Places
  <2> QED
    BY <2>1, <2>2, BitsQuiet
<1>7. CASE Selected
  <2>1. pc \in Places /\ UNCHANGED <<hw, nintr, eintr>>
    BY <1>7 DEF Selected, Places, controller
  <2>2. Goes
    BY <1>7 DEF Selected, Transfer, Exec, Places
  <2> QED
    BY <2>1, <2>2, BitsQuiet
<1>8. CASE PieceOver
  <2>1. pc \in Places /\ UNCHANGED <<hw, nintr, eintr>>
    BY <1>8 DEF PieceOver, Places, controller
  <2>2. Goes
    BY <1>8 DEF PieceOver, Rest, Places
  <2> QED
    BY <2>1, <2>2, BitsQuiet
<1> QED
  BY <1>2, <1>3, <1>4, <1>5, <1>6, <1>7, <1>8 DEF DiskIO

LEMMA BitsStep ==
  ASSUME SdTypes, BitsInv, [SdNext]_sd
  PROVE  BitsInv'
<1>1. CASE Controller
  BY <1>1, BitsController
<1>2. CASE Remove
  BY <1>2, BitsRemove
<1>3. CASE Driver
  BY <1>3, BitsStart, BitsInhibited, BitsRead, BitsLeftover, BitsAcknowledge,
     BitsServiceError, BitsKeepWaiting, BitsWoken, BitsExpire DEF Driver
<1>4. CASE Discovery \/ DiskIO
  BY <1>4, BitsOthers
<1>5. CASE UNCHANGED sd
  BY <1>5, BitsSame DEF sd, controller, driver
<1> QED
  BY <1>1, <1>2, <1>3, <1>4, <1>5 DEF SdNext

-----------------------------------------------------------------------------
(* The pieces of a call.                                                   *)

LEMMA MinOfTwo ==
  ASSUME NEW a \in Int, NEW b \in Int
  PROVE  Min({a, b}) = IF a <= b THEN a ELSE b
BY DEF Min

LEMMA PieceIs ==
  ASSUME call \in Calls, call.i < call.n
  PROVE  /\ Piece \in Nat /\ Piece > 0 /\ call.i + Piece <= call.n
         /\ ~call.bounce => Piece = call.n - call.i
         /\ call.bounce => Piece <= 3
         /\ call.bounce /\ call.op # "read" => Piece = 1
<1> DEFINE all == call.n - call.i
           most == IF ~call.bounce THEN all ELSE IF call.op = "read" THEN 3 ELSE 1
<1>1. all \in Nat /\ all > 0
  BY DEF Calls
<1>2. Piece = IF all <= most THEN all ELSE most
  <2>1. most \in Int
    BY <1>1
  <2> HIDE DEF most
  <2>2. Min({all, most}) = IF all <= most THEN all ELSE most
    BY <1>1, <2>1, MinOfTwo
  <2> QED
    BY <2>2 DEF Piece, most
<1> QED
  BY <1>1, <1>2 DEF Calls

LEMMA Sectored ==
  ASSUME NEW x \in Nat
  PROVE  x * 1 = x /\ (x * SDMMC_BLOCKLEN) \div SDMMC_BLOCKLEN = x
         /\ x * SDMMC_BLOCKLEN \in Nat
BY DEF SDMMC_BLOCKLEN

(* The command of a transfer is for the next blocks of the call.           *)
LEMMA InTransfer ==
  ASSUME SdTypes, CallInv, pc # "ready", cmd.n > 0
  PROVE  /\ mounted /\ call # Idle /\ call.i < call.n
         /\ call.at \in Nat /\ call.i \in Nat /\ call.n \in Nat
         /\ call.op \in {"read", "write"}
         /\ cmd.op = IF call.op = "read" THEN "READ" ELSE "WRITE"
         /\ cmd.n = Piece /\ call.i + cmd.n <= call.n
         /\ call.at + call.n <= Sectors
         /\ SectorOf(cmd.arg) = call.at + call.i
         /\ ~call.bounce => call.i = 0
         /\ call.bounce => cmd.n <= 3
         /\ call.bounce /\ call.op = "write" => cmd.n = 1
<1>1. mounted /\ call.i < call.n /\ call \in Calls
  BY DEF SdTypes, CallInv, CommandInv, RequestInv
<1>2. call # Idle
  BY <1>1 DEF Idle
<1>3. card.blockmode = high /\ high \in BOOLEAN
  BY <1>1 DEF SdTypes, CallInv, MountInv
<1>4. SectorOf(cmd.arg) = call.at + call.i
  <2>1. cmd.arg = (call.at + call.i) * (IF high THEN 1 ELSE SDMMC_BLOCKLEN)
    BY <1>3 DEF CallInv, CommandInv, Address
  <2>2. call.at + call.i \in Nat
    BY <1>1 DEF Calls
  <2> QED
    BY <1>3, <2>1, <2>2, Sectored DEF SectorOf
<1>5. /\ call.op \in {"read", "write"} /\ call.at + call.n <= Sectors
      /\ call.bounce \/ call.i \in {0, call.n}
  BY <1>2 DEF CallInv, RequestInv
<1>6. /\ cmd.op = IF call.op = "read" THEN "READ" ELSE "WRITE"
      /\ cmd.n = Piece
  BY DEF CallInv, CommandInv
<1>7. /\ call.i + Piece <= call.n
      /\ call.bounce => Piece <= 3
      /\ call.bounce /\ call.op # "read" => Piece = 1
  BY <1>1, PieceIs
<1> QED
  BY <1>1, <1>2, <1>4, <1>5, <1>6, <1>7 DEF Calls

-----------------------------------------------------------------------------
(* The calls, step by step.                                                *)

LEMMA CallsInit == SdInit => SdTypes /\ CallInv
<1> SUFFICES ASSUME SdInit PROVE SdTypes /\ CallInv
  OBVIOUS
<1> USE DEF SdInit
<1>1. SdTypes
  <2>1. /\ disk \in [0 .. Sectors - 1 -> Contents]
        /\ mem \in [bounce : [0 .. 2 -> Contents], buff : [0 .. Sectors - 1 -> Contents]]
    BY DEF Empty, Contents
  <2>2. call \in Calls /\ cmd \in [op : Ops, arg : Nat, n : Nat, error : BOOLEAN]
    BY DEF Idle, NoCmd, Calls, Ops
  <2>3. /\ hw \in [phase : Phases, moved : Nat, crossed : BOOLEAN, answered : BOOLEAN]
        /\ card \in [inserted : BOOLEAN, selected : BOOLEAN, new_card : BOOLEAN,
                     blockmode : BOOLEAN]
    BY DEF Ready, Phases
  <2>4. calls \in 0 .. MaxCalls
    OBVIOUS
  <2> QED
    BY <2>1, <2>2, <2>3, <2>4 DEF SdTypes, Places
<1>2. MountInv /\ RequestInv /\ CommandInv
  BY DEF MountInv, RequestInv, CommandInv, NoCmd, Idle
<1>3. DataInv
  BY DEF DataInv, NoCmd, Idle
<1> QED
  BY <1>1, <1>2, <1>3 DEF CallInv

(* Steps of a command that move nothing.                                   *)
LEMMA CallsKept ==
  ASSUME CallInv, SdTypes,
         UNCHANGED <<high, disk, card, mounted, call, mem>>,
         cmd' \in {cmd, [cmd EXCEPT !.error = TRUE]},
         \/ pc' = pc /\ cmd' = cmd
         \/ pc \in Flights \cup {"start"} /\ pc' \in Flights \cup {"done"},
         \/ hw'.moved = 0
         \/ pc' = "done" /\ cmd'.error
         \/ hw'.moved = hw.moved /\ (pc' = pc \/ pc \in Flights)
  PROVE  CallInv'
<1> USE DEF CallInv, Flights
<1>1. cmd'.op = cmd.op /\ cmd'.n = cmd.n /\ cmd'.arg = cmd.arg
  BY DEF SdTypes
<1>2. MountInv'
  BY <1>1 DEF MountInv
<1>3. RequestInv'
  BY DEF RequestInv
<1>4. CommandInv'
  BY <1>1 DEF CommandInv, Piece, Address
<1>5. DataInv'
  <2>1. \A k : Served(k)' <=> Served(k)
    BY DEF Served
  <2>2. \A k : Arrived(k)' <=> Arrived(k)
    BY DEF Arrived, Where
  <2>3. hw'.moved = 0 \/ (Underway' => Underway /\ hw'.moved = hw.moved)
    BY DEF Underway
  <2> QED
    BY <1>1, <2>1, <2>2, <2>3 DEF DataInv
<1> QED
  BY <1>2, <1>3, <1>4, <1>5

(* A block is moved: the next one, from or to its own sector.              *)
LEMMA CallsMove ==
  ASSUME SdTypes, BitsInv, CallInv, MoveSector
  PROVE  SdTypes' /\ CallInv'
<1> DEFINE s == call.at + call.i + hw.moved
<1>1. /\ hw.phase = "data" /\ hw.moved < cmd.n
      /\ hw' = [hw EXCEPT !.moved = @ + 1]
      /\ UNCHANGED <<cmd, pc, status, intr, high, nintr, eintr, card, mounted, call, calls>>
  BY DEF MoveSector, driver, caller
<1>2. pc \in Flights /\ cmd.n > 0
  BY <1>1 DEF BitsInv, Away, SdTypes, Working
<1>3. /\ mounted /\ call # Idle /\ call.i < call.n
      /\ call.at \in Nat /\ call.i \in Nat /\ call.n \in Nat
      /\ call.op \in {"read", "write"}
      /\ cmd.op = IF call.op = "read" THEN "READ" ELSE "WRITE"
      /\ cmd.n = Piece /\ call.i + cmd.n <= call.n
      /\ call.at + call.n <= Sectors
      /\ SectorOf(cmd.arg) = call.at + call.i
      /\ ~call.bounce => call.i = 0
      /\ call.bounce => cmd.n <= 3
      /\ call.bounce /\ call.op = "write" => cmd.n = 1
  BY <1>2, InTransfer DEF Flights
<1>4. hw.moved \in Nat /\ cmd.n \in Nat /\ call \in Calls /\ pc # "ready" /\ Underway
  BY <1>2 DEF SdTypes, Flights, Underway
<1>5. s \in 0 .. Sectors - 1 /\ hw.moved \in 0 .. Sectors - 1
  BY <1>1, <1>3, <1>4
<1>6. ASSUME call.bounce PROVE hw.moved \in 0 .. 2
  <2>1. cmd.n <= 3
    BY <1>3, <1>6
  <2> QED
    BY <1>1, <1>4, <2>1
<1>7. hw'.moved = hw.moved + 1
  BY <1>1 DEF SdTypes
<1>8. MountInv' /\ RequestInv' /\ CommandInv'
  BY <1>1 DEF CallInv, MountInv, RequestInv, CommandInv, Piece, Address
<1>9. \A k \in 0 .. hw.moved - 1 : Arrived(k)
  BY <1>2, <1>4 DEF CallInv, DataInv
<1>10. CASE call.op = "read"
  <2>1. mem' = [mem EXCEPT ![Where][hw.moved] = disk[s]] /\ disk' = disk
    BY <1>3, <1>10 DEF MoveSector
  <2>2. SdTypes'
    <3>1. disk[s] \in Contents
      BY <1>5 DEF SdTypes
    <3>2. mem' \in [bounce : [0 .. 2 -> Contents], buff : [0 .. Sectors - 1 -> Contents]]
      BY <2>1, <3>1 DEF SdTypes, Where
    <3>3. hw' \in [phase : Phases, moved : Nat, crossed : BOOLEAN, answered : BOOLEAN]
      <4>1. hw \in [phase : Phases, moved : Nat, crossed : BOOLEAN, answered : BOOLEAN]
        BY DEF SdTypes
      <4> QED
        BY <1>1, <1>4, <4>1
    <3> QED
      BY <1>1, <2>1, <3>2, <3>3 DEF SdTypes
  <2>3. ASSUME ~call.bad, NEW k \in 0 .. call.i - 1 PROVE Served(k)'
    <3>1. call.bounce
      BY <1>3
    <3>2. mem'.buff = mem.buff
      BY <2>1, <3>1 DEF SdTypes, Where
    <3>3. Served(k)
      BY <2>3 DEF CallInv, DataInv
    <3> QED
      BY <1>1, <1>10, <2>1, <3>2, <3>3 DEF Served
  <2>4. ASSUME NEW k \in 0 .. hw'.moved - 1 PROVE Arrived(k)'
    <3>1. Where \in {"bounce", "buff"} /\ Where' = Where /\ hw.moved \in DOMAIN mem[Where]
      BY <1>1, <1>5, <1>6 DEF Where, SdTypes
    <3>2. mem'[Where] = [mem[Where] EXCEPT ![hw.moved] = disk[s]]
      BY <2>1, <3>1 DEF SdTypes, Where
    <3>3. CASE k = hw.moved
      BY <1>1, <1>10, <2>1, <3>1, <3>2, <3>3 DEF Arrived
    <3>4. CASE k # hw.moved
      <4>1. Arrived(k)
        BY <1>4, <1>7, <1>9, <3>4
      <4> QED
        BY <1>1, <1>10, <2>1, <3>1, <3>2, <3>4, <4>1 DEF Arrived, SdTypes
    <3> QED
      BY <3>3, <3>4
  <2>5. DataInv'
    BY <1>1, <1>10, <2>3, <2>4 DEF DataInv
  <2> QED
    BY <1>8, <2>2, <2>5 DEF CallInv
<1>11. CASE call.op = "write"
  <2>1. disk' = [disk EXCEPT ![s] = mem[Where][hw.moved]] /\ mem' = mem
    BY <1>3, <1>11 DEF MoveSector
  <2>2. mem[Where][hw.moved] = <<call.id, call.i + hw.moved>>
    <3>1. CASE call.bounce
      <4>1. hw.moved = 0
        BY <1>1, <1>3, <1>4, <1>11, <3>1
      <4> QED
        BY <1>3, <1>4, <1>11, <3>1, <4>1 DEF CallInv, DataInv, Where
    <3>2. CASE ~call.bounce
      <4>1. call.i = 0 /\ mem.buff = [k \in 0 .. Sectors - 1 |-> <<call.id, k>>]
        BY <1>3, <1>11, <3>2 DEF CallInv, DataInv
      <4> QED
        BY <1>4, <1>5, <3>2, <4>1 DEF Where
    <3> QED
      BY <3>1, <3>2
  <2>3. mem[Where][hw.moved] \in Contents
    BY <1>5, <1>6 DEF SdTypes, Where
  <2>4. SdTypes'
    <3>1. disk' \in [0 .. Sectors - 1 -> Contents]
      <4>1. disk \in [0 .. Sectors - 1 -> Contents]
        BY DEF SdTypes
      <4> QED
        BY <2>1, <2>3, <4>1
    <3>2. hw' \in [phase : Phases, moved : Nat, crossed : BOOLEAN, answered : BOOLEAN]
      <4>1. hw \in [phase : Phases, moved : Nat, crossed : BOOLEAN, answered : BOOLEAN]
        BY DEF SdTypes
      <4> QED
        BY <1>1, <1>4, <4>1
    <3> QED
      BY <1>1, <2>1, <3>1, <3>2 DEF SdTypes
  <2>5. ASSUME ~call.bad, NEW k \in 0 .. call.i - 1 PROVE Served(k)'
    <3>1. Served(k)
      BY <2>5 DEF CallInv, DataInv
    <3>2. call.at + k # s
      BY <1>3, <1>4
    <3> QED
      BY <1>1, <1>11, <2>1, <3>1, <3>2 DEF Served, SdTypes
  <2>6. ASSUME NEW k \in 0 .. hw'.moved - 1 PROVE Arrived(k)'
    <3>1. CASE k = hw.moved
      BY <1>1, <1>5, <1>11, <2>1, <2>2, <3>1 DEF Arrived, SdTypes
    <3>2. CASE k # hw.moved
      <4>1. Arrived(k) /\ call.at + call.i + k # s
        BY <1>3, <1>4, <1>7, <1>9, <3>2
      <4> QED
        BY <1>1, <1>11, <2>1, <4>1 DEF Arrived, SdTypes
    <3> QED
      BY <3>1, <3>2
  <2>7. DataInv'
    BY <1>1, <1>11, <2>1, <2>5, <2>6 DEF DataInv, CallInv
  <2> QED
    BY <1>8, <2>4, <2>7 DEF CallInv
<1> QED
  BY <1>3, <1>10, <1>11

LEMMA CallsController ==
  ASSUME SdTypes, BitsInv, CallInv, Controller
  PROVE  SdTypes' /\ CallInv'
<1>1. CASE MoveSector
  BY <1>1, CallsMove
<1>2. CASE Answer \/ NoAnswer \/ Boundary \/ TransferDone \/ TransferFails
  <2>1. /\ UNCHANGED <<high, disk, card, mounted, call, calls, mem, cmd, pc, status, intr>>
        /\ nintr' \subseteq nintr \cup WAITED /\ eintr' \subseteq eintr \cup Errors
    BY <1>2 DEF Answer, NoAnswer, Boundary, TransferDone, TransferFails, driver, caller,
                WAITED, Errors
  <2>2. /\ hw' \in [phase : Phases, moved : Nat, crossed : BOOLEAN, answered : BOOLEAN]
        /\ hw'.moved = hw.moved
    <3>1. hw \in [phase : Phases, moved : Nat, crossed : BOOLEAN, answered : BOOLEAN]
      BY DEF SdTypes
    <3> QED
      BY <1>2, <3>1 DEF Answer, NoAnswer, Boundary, TransferDone, TransferFails, Phases
  <2>3. SdTypes'
    BY <2>1, <2>2 DEF SdTypes
  <2>4. CallInv'
    BY <2>1, <2>2, CallsKept
  <2> QED
    BY <2>3, <2>4
<1> QED
  BY <1>1, <1>2 DEF Controller

LEMMA CallsRemove ==
  ASSUME SdTypes, CallInv, Remove
  PROVE  SdTypes' /\ CallInv'
<1>1. UNCHANGED <<hw, nintr, eintr, high, disk, card, mounted, call, calls, mem,
                  cmd, pc, status, intr>>
  BY DEF Remove, driver, caller
<1>2. CallInv'
  BY <1>1, CallsKept
<1> QED
  BY <1>1, <1>2 DEF SdTypes

(* One command on the controller.                                          *)
LEMMA CallsDriver ==
  ASSUME SdTypes, CallInv, Driver
  PROVE  SdTypes' /\ CallInv'
<1> DEFINE Hw == [phase : Phases, moved : Nat, crossed : BOOLEAN, answered : BOOLEAN]
           Cmd == [op : Ops, arg : Nat, n : Nat, error : BOOLEAN]
           Failed == [cmd EXCEPT !.error = TRUE]
           Bits == WAITED \cup {"ERR"}
<1>0. hw \in Hw /\ cmd \in Cmd /\ Failed \in Cmd /\ Failed.error
  BY DEF SdTypes
<1>1. UNCHANGED <<high, disk, card, mounted, call, calls, mem>>
  BY DEF Driver, StartCommand, Inhibited, ReadStatus, Leftover, Acknowledge, ServiceError,
         KeepWaiting, Woken, Expire, controller, caller
<1>2. CASE StartCommand
  <2>1. /\ hw' \in Hw /\ hw'.moved = 0 /\ UNCHANGED <<nintr, eintr, cmd, status>>
        /\ intr' = {} /\ pc = "start" /\ pc' = "command"
    BY <1>2 DEF StartCommand, Ready, Phases
  <2> QED
    BY <1>1, <2>1, CallsKept DEF SdTypes, Flights
<1>3. CASE Inhibited
  <2>1. /\ UNCHANGED <<hw, nintr, eintr, status>> /\ cmd' = Failed
        /\ intr' = {} /\ pc = "start" /\ pc' = "done"
    BY <1>3 DEF Inhibited, Fail, controller
  <2> QED
    BY <1>0, <1>1, <2>1, CallsKept DEF SdTypes, Places
<1>4. ASSUME NEW w \in Waits,
             ReadStatus(w) \/ Leftover(w) \/ Acknowledge(w) \/ ServiceError(w) \/ KeepWaiting(w)
      PROVE  SdTypes' /\ CallInv'
  <2>1. /\ hw' \in {hw, [hw EXCEPT !.phase = "idle"]} /\ UNCHANGED cmd
        /\ nintr' \subseteq nintr /\ eintr' \subseteq eintr
        /\ pc \in Flights /\ pc' \in Flights
    BY <1>4 DEF ReadStatus, Leftover, Acknowledge, ServiceError, KeepWaiting, SoftReset,
                WriteNintr, WriteEintr, controller, Waits, Acking, Failing, Awake, Flights
  <2>2. hw' \in Hw /\ hw'.moved = hw.moved
    BY <1>0, <2>1 DEF Phases
  <2>3. status' \subseteq Bits /\ intr' \subseteq Bits
    BY <1>4 DEF SdTypes, ReadStatus, Leftover, Acknowledge, ServiceError, KeepWaiting,
                Pending, Waits
  <2>4. SdTypes'
    BY <1>1, <2>1, <2>2, <2>3 DEF SdTypes
  <2>5. CallInv'
    BY <1>1, <2>1, <2>2, CallsKept
  <2> QED
    BY <2>4, <2>5
<1>5. ASSUME NEW w \in Waits, Woken(w) \/ Expire(w)
      PROVE  SdTypes' /\ CallInv'
  <2>1. /\ hw' \in {hw, [hw EXCEPT !.phase = "idle"], [hw EXCEPT !.phase = "data"]}
        /\ cmd' \in {cmd, Failed}
        /\ nintr' \subseteq nintr /\ eintr' \subseteq eintr
        /\ pc \in Flights /\ pc' \in Flights \cup {"done"}
        /\ status' = status /\ intr' \subseteq intr
    BY <1>5 DEF Woken, Expire, Result, Fail, SoftReset, controller, Waits, Awake, Flights
  <2>2. hw' \in Hw /\ hw'.moved = hw.moved
    BY <1>0, <2>1 DEF Phases
  <2>3. SdTypes'
    BY <1>0, <1>1, <2>1, <2>2 DEF SdTypes, Places
  <2>4. CallInv'
    BY <1>1, <2>1, <2>2, CallsKept
  <2> QED
    BY <2>3, <2>4
<1> QED
  BY <1>2, <1>3, <1>4, <1>5 DEF Driver

(* Before the card is mounted nothing is called and nothing is moved.      *)
LEMMA CallsBefore ==
  ASSUME SdTypes, CallInv, ~mounted,
         UNCHANGED <<high, disk, status, intr, mounted, call, calls, mem>>,
         cmd' \in [op : Ops \ {"READ", "WRITE"}, arg : Nat, n : {0}, error : BOOLEAN],
         hw' \in [phase : Phases, moved : Nat, crossed : BOOLEAN, answered : BOOLEAN],
         nintr' \subseteq nintr, eintr' \subseteq eintr,
         pc' \in Places,
         card' \in [inserted : BOOLEAN, selected : BOOLEAN, new_card : BOOLEAN,
                    blockmode : BOOLEAN],
         card'.inserted \/ cmd'.op \in {"ALL_CID", "RCA"} => card'.blockmode = high
  PROVE  SdTypes' /\ CallInv'
<1>1. SdTypes'
  BY DEF SdTypes
<1>2. MountInv' /\ RequestInv' /\ CommandInv'
  BY DEF CallInv, MountInv, RequestInv, CommandInv
<1>3. DataInv'
  BY DEF CallInv, RequestInv, DataInv, Idle, Served
<1> QED
  BY <1>1, <1>2, <1>3 DEF CallInv

LEMMA HighIsBoolean == SdTypes => high \in BOOLEAN
BY DEF SdTypes

LEMMA CallsDiscovery ==
  ASSUME SdTypes, CallInv, Discovery
  PROVE  SdTypes' /\ CallInv'
<1> DEFINE Hw == [phase : Phases, moved : Nat, crossed : BOOLEAN, answered : BOOLEAN]
           Card == [inserted : BOOLEAN, selected : BOOLEAN, new_card : BOOLEAN,
                    blockmode : BOOLEAN]
           Cmd == [op : Ops \ {"READ", "WRITE"}, arg : Nat, n : {0}, error : BOOLEAN]
<1>0. hw \in Hw /\ card \in Card
  BY DEF SdTypes
<1>1. ~mounted
  BY DiscoveryFrame DEF Discovering, CallInv, MountInv
<1>2. cmd \in Cmd
  <2>1. cmd.n = 0 /\ cmd.op \notin {"READ", "WRITE"}
    BY <1>1 DEF CallInv, CommandInv, SdTypes
  <2> QED
    BY <2>1 DEF SdTypes
<1>3. /\ card.inserted => card.blockmode = high
      /\ cmd.op \in {"ALL_CID", "RCA"} => card.blockmode = high
  BY DEF CallInv, MountInv
<1>4. \A op \in Ops \ {"READ", "WRITE"}, arg \in Nat :
        [op |-> op, arg |-> arg, n |-> 0, error |-> FALSE] \in Cmd
  OBVIOUS
<1> HIDE DEF Hw, Cmd
<1>5. UNCHANGED <<high, disk, status, intr, mounted, call, calls, mem>>
  BY DiscoveryFrame
<1>6. nintr' \subseteq nintr /\ eintr' \subseteq eintr /\ hw' \in {hw, Ready}
  <2>1. CASE Found \/ Attach \/ GiveUp
    <3>1. HostReset
      BY <2>1 DEF Found, Attach, GiveUp, PowerOff
    <3> QED
      BY <3>1 DEF HostReset
  <2>2. CASE Identified \/ AskAgain \/ GoOn \/ AttachNoCard
    <3>1. UNCHANGED controller
      BY <2>2 DEF Identified, AskAgain, GoOn, AttachNoCard
    <3> QED
      BY <3>1 DEF controller
  <2> QED
    BY <2>1, <2>2 DEF Discovery
<1>7. hw' \in Hw
  <2>1. Ready \in Hw
    BY DEF Hw, Ready, Phases
  <2> QED
    BY <1>0, <1>6, <2>1
<1>8. CASE Found
  <2>1. UNCHANGED <<cmd, card>> /\ pc' \in Places
    BY <1>8 DEF Found, caller, Places
  <2> QED
    BY <1>0, <1>1, <1>2, <1>3, <1>5, <1>6, <1>7, <2>1, CallsBefore DEF Hw, Cmd
<1>9. CASE AttachNoCard
  <2>1. UNCHANGED <<cmd, card>> /\ pc' \in Places
    BY <1>9 DEF AttachNoCard, Rest, caller, Places
  <2> QED
    BY <1>0, <1>1, <1>2, <1>3, <1>5, <1>6, <1>7, <2>1, CallsBefore DEF Hw, Cmd
<1>10. CASE Attach
  <2>1. /\ cmd' \in {cmd, [op |-> "GO_IDLE", arg |-> 0, n |-> 0, error |-> FALSE]}
        /\ card' = [card EXCEPT !.new_card = TRUE] /\ pc' \in Places
    BY <1>10 DEF Attach, Exec, Rest, Places
  <2>2. cmd' \in Cmd
    <3>1. "GO_IDLE" \in Ops \ {"READ", "WRITE"}
      BY DEF Ops
    <3> QED
      BY <1>2, <1>4, <2>1, <3>1
  <2>3. /\ card' \in Card
        /\ card'.inserted = card.inserted /\ card'.blockmode = card.blockmode
    BY <1>0, <2>1
  <2>4. cmd'.op \in {cmd.op, "GO_IDLE"}
    BY <2>1
  <2>5. card'.inserted \/ cmd'.op \in {"ALL_CID", "RCA"} => card'.blockmode = high
    BY <1>3, <2>3, <2>4
  <2> QED
    BY <1>1, <1>5, <1>6, <1>7, <2>1, <2>2, <2>3, <2>5, CallsBefore DEF Hw, Cmd
<1>11. CASE Identified
  <2>1. /\ pc' \in Places /\ UNCHANGED hw
        /\ \/ cmd' = cmd
           \/ cmd' \in {[op |-> o, arg |-> 0, n |-> 0, error |-> FALSE] :
                          o \in Ops \ {"READ", "WRITE"}}
           \/ cmd' = [op |-> "BLOCKLEN", arg |-> SDMMC_BLOCKLEN, n |-> 0, error |-> FALSE]
    BY <1>11 DEF Identified, Exec, Select, Rest, Places, controller, Ops
  <2>2. cmd' \in Cmd
    <3>1. "BLOCKLEN" \in Ops \ {"READ", "WRITE"} /\ SDMMC_BLOCKLEN \in Nat
      BY DEF Ops, SDMMC_BLOCKLEN
    <3> QED
      BY <1>2, <1>4, <2>1, <3>1
  <2>3. card' \in Card
    <3>1. card' \in {card, [card EXCEPT !.blockmode = high],
                     [card EXCEPT !.selected = FALSE, !.inserted = TRUE],
                     [card EXCEPT !.selected = TRUE]}
      BY <1>11 DEF Identified
    <3> QED
      BY <1>0, <3>1, HighIsBoolean
  <2>4. card'.inserted \/ cmd'.op \in {"ALL_CID", "RCA"} => card'.blockmode = high
    <3>1. CASE cmd.op = "OP_COND"
      BY <1>0, <1>11, <3>1 DEF Identified
    <3>2. CASE cmd.op \in {"ALL_CID", "RCA"}
      BY <1>0, <1>3, <1>11, <3>2 DEF Identified
    <3>3. CASE cmd.op \notin {"OP_COND", "ALL_CID", "RCA"}
      BY <1>0, <1>3, <1>11, <3>3 DEF Identified, Exec, Select, Rest
    <3> QED
      BY <3>1, <3>2, <3>3
  <2> QED
    BY <1>1, <1>5, <1>6, <1>7, <2>1, <2>2, <2>3, <2>4, CallsBefore DEF Hw, Cmd
<1>12. CASE AskAgain \/ GoOn
  <2>1. /\ pc' \in Places /\ UNCHANGED card
        /\ \/ cmd' = [op |-> "APP_CMD", arg |-> 0, n |-> 0, error |-> FALSE]
           \/ cmd' = [op |-> "BLOCKLEN", arg |-> SDMMC_BLOCKLEN, n |-> 0, error |-> FALSE]
    BY <1>12 DEF AskAgain, GoOn, Exec, Places
  <2>2. cmd' \in Cmd /\ cmd'.op \notin {"ALL_CID", "RCA"}
    <3>1. {"APP_CMD", "BLOCKLEN"} \subseteq Ops \ {"READ", "WRITE"} /\ SDMMC_BLOCKLEN \in Nat
      BY DEF Ops, SDMMC_BLOCKLEN
    <3> QED
      BY <1>4, <2>1, <3>1
  <2> QED
    BY <1>0, <1>1, <1>3, <1>5, <1>6, <1>7, <2>1, <2>2, CallsBefore DEF Hw, Cmd
<1>13. CASE GiveUp
  <2>1. /\ pc' \in Places /\ UNCHANGED cmd
        /\ card' \in {card, [card EXCEPT !.inserted = FALSE, !.selected = FALSE]}
    BY <1>13 DEF GiveUp, Rest, Places
  <2>2. /\ card' \in Card
        /\ card'.inserted \/ cmd'.op \in {"ALL_CID", "RCA"} => card'.blockmode = high
    BY <1>0, <1>3, <2>1
  <2> QED
    BY <1>1, <1>2, <1>5, <1>6, <1>7, <2>1, <2>2, CallsBefore DEF Hw, Cmd
<1> QED
  BY <1>8, <1>9, <1>10, <1>11, <1>12, <1>13 DEF Discovery

LEMMA CallsInitialize ==
  ASSUME SdTypes, CallInv, Initialize
  PROVE  SdTypes' /\ CallInv'
<1>1. /\ UNCHANGED <<hw, nintr, eintr, high, disk, cmd, pc, status, intr, call, calls, mem>>
      /\ pc = "ready" /\ ~mounted /\ mounted' = TRUE
      /\ card' = [card EXCEPT !.new_card = FALSE]
      /\ card.inserted
  BY DEF Initialize, AckCard, CheckCard, controller, driver
<1>2. SdTypes'
  BY <1>1 DEF SdTypes
<1>3. call = Idle /\ cmd.n = 0
  BY <1>1 DEF SdTypes, CallInv, RequestInv, CommandInv
<1>4. MountInv' /\ RequestInv' /\ CommandInv'
  BY <1>1, <1>3 DEF CallInv, MountInv, RequestInv, CommandInv, SdTypes
<1>5. DataInv'
  BY <1>1, <1>3 DEF CallInv, DataInv, Served, Idle, SdTypes
<1> QED
  BY <1>2, <1>4, <1>5 DEF CallInv

LEMMA CallsCall ==
  ASSUME SdTypes, CallInv, NEW op \in {"read", "write"}, NEW r \in Ranges,
         NEW bounce \in BOOLEAN, Call(op, r.at, r.n, bounce)
  PROVE  SdTypes' /\ CallInv'
<1>1. /\ UNCHANGED <<hw, nintr, eintr, high, disk, cmd, pc, status, intr, card, mounted>>
      /\ mounted /\ pc = "ready" /\ call = Idle /\ calls < MaxCalls
      /\ calls' = calls + 1
      /\ call' = [id |-> calls', op |-> op, at |-> r.at, n |-> r.n,
                  bounce |-> bounce, i |-> 0, bad |-> FALSE]
      /\ mem' = IF op = "write"
                THEN [mem EXCEPT !.buff = [k \in DOMAIN @ |-> <<calls', k>>]] ELSE mem
  BY DEF Call, controller, driver
<1>2. r.at \in Nat /\ r.n \in Nat /\ r.n > 0 /\ r.at + r.n <= Sectors
  BY DEF SdAssumption
<1>3. calls' \in 0 .. MaxCalls /\ calls' > 0
  <2>1. calls \in 0 .. MaxCalls
    BY DEF SdTypes
  <2>2. calls < MaxCalls /\ calls' = calls + 1
    BY <1>1
  <2> QED
    BY <2>1, <2>2
<1>4. call' \in Calls
  BY <1>1, <1>2, <1>3 DEF Calls
<1>5. op = "write" => mem'.buff = [k \in 0 .. Sectors - 1 |-> <<calls', k>>]
  BY <1>1 DEF SdTypes
<1>6. mem' \in [bounce : [0 .. 2 -> Contents], buff : [0 .. Sectors - 1 -> Contents]]
  <2>1. CASE op = "write"
    <3>1. mem'.bounce = mem.bounce /\ mem' = [bounce |-> mem'.bounce, buff |-> mem'.buff]
      BY <1>1, <2>1 DEF SdTypes
    <3>2. \A k \in 0 .. Sectors - 1 : <<calls', k>> \in Contents
      BY <1>3 DEF Contents
    <3>3. mem'.buff \in [0 .. Sectors - 1 -> Contents]
      BY <1>5, <2>1, <3>2
    <3> QED
      BY <3>1, <3>3 DEF SdTypes
  <2>2. CASE op # "write"
    BY <1>1, <2>2 DEF SdTypes
  <2> QED
    BY <2>1, <2>2
<1>7. SdTypes'
  BY <1>1, <1>3, <1>4, <1>6 DEF SdTypes
<1>8. MountInv' /\ RequestInv' /\ CommandInv'
  BY <1>1, <1>2, <1>3 DEF CallInv, MountInv, RequestInv, CommandInv
<1>9. DataInv'
  BY <1>1, <1>5 DEF DataInv, Underway, Flights
<1> QED
  BY <1>7, <1>8, <1>9 DEF CallInv

(* A command for the next blocks: the call stays as it is.                 *)
LEMMA CallsSent ==
  ASSUME SdTypes, CallInv, mounted, call.i < call.n,
         \/ Transfer
         \/ Select,
         pc' = "start",
         UNCHANGED <<hw, nintr, eintr, high, disk, mounted, call, calls>>,
         card' \in {card, [card EXCEPT !.selected = TRUE]},
         mem' \in [bounce : [0 .. 2 -> Contents], buff : [0 .. Sectors - 1 -> Contents]],
         mem'.buff = mem.buff,
         call.bounce /\ call.op = "write" => mem'.bounce[0] = <<call.id, call.i>>
  PROVE  SdTypes' /\ CallInv'
<1>1. call \in Calls /\ call # Idle /\ call.op \in {"read", "write"}
  BY DEF SdTypes, CallInv, RequestInv, Idle
<1>2. /\ card' \in [inserted : BOOLEAN, selected : BOOLEAN, new_card : BOOLEAN,
                    blockmode : BOOLEAN]
      /\ card'.inserted = card.inserted /\ card'.blockmode = card.blockmode
  <2>1. card \in [inserted : BOOLEAN, selected : BOOLEAN, new_card : BOOLEAN,
                  blockmode : BOOLEAN]
    BY DEF SdTypes
  <2> QED
    BY <2>1
<1>3. Piece \in Nat /\ Piece > 0
  BY <1>1, PieceIs
<1>4. Address \in Nat
  <2>1. call.at + call.i \in Nat
    BY <1>1 DEF Calls
  <2> QED
    BY <2>1, Sectored DEF Address
<1>5. UNCHANGED <<status, intr>>
  BY DEF Transfer, Select, Exec
<1>6. \/ /\ cmd' = [op |-> IF call.op = "read" THEN "READ" ELSE "WRITE",
                    arg |-> Address, n |-> Piece, error |-> FALSE]
      \/ cmd' = [op |-> "SELECT", arg |-> 0, n |-> 0, error |-> FALSE]
  BY DEF Transfer, Select, Exec
<1>7. cmd' \in [op : Ops, arg : Nat, n : Nat, error : BOOLEAN]
  <2>1. {"READ", "WRITE", "SELECT"} \subseteq Ops
    BY DEF Ops
  <2>2. CASE cmd' = [op |-> "SELECT", arg |-> 0, n |-> 0, error |-> FALSE]
    BY <2>1, <2>2
  <2>3. CASE cmd' = [op |-> IF call.op = "read" THEN "READ" ELSE "WRITE",
                     arg |-> Address, n |-> Piece, error |-> FALSE]
    <3>1. (IF call.op = "read" THEN "READ" ELSE "WRITE") \in Ops
      BY <2>1
    <3> QED
      BY <1>3, <1>4, <2>3, <3>1
  <2> QED
    BY <1>6, <2>2, <2>3
<1>8. SdTypes'
  BY <1>2, <1>5, <1>7 DEF SdTypes, Places
<1>9. MountInv' /\ RequestInv'
  BY <1>2, <1>6 DEF CallInv, MountInv, RequestInv
<1>10. CommandInv'
  <2>1. Piece' = Piece /\ Address' = Address
    BY <1>2 DEF Piece, Address
  <2> QED
    BY <1>1, <1>3, <1>6, <2>1 DEF CommandInv
<1>11. DataInv'
  BY DEF CallInv, DataInv, Served, Underway, Flights
<1> QED
  BY <1>8, <1>9, <1>10, <1>11 DEF CallInv

LEMMA CallsBegin ==
  ASSUME SdTypes, CallInv, Begin
  PROVE  SdTypes' /\ CallInv'
<1>1. /\ UNCHANGED <<hw, nintr, eintr, high, disk, card, mounted, call, calls>>
      /\ call.i < call.n /\ mem' = CopyIn /\ pc' = "start" /\ (Transfer \/ Select)
  BY DEF Begin, controller, caller, Transfer, Select, Exec
<1>2. call \in Calls /\ call # Idle /\ mounted /\ call.at + call.n <= Sectors
  BY <1>1 DEF SdTypes, CallInv, RequestInv, Idle
<1>3. CASE call.bounce /\ call.op = "write"
  <2>1. call.i \in 0 .. Sectors - 1
    BY <1>1, <1>2 DEF Calls
  <2>2. mem.buff[call.i] = <<call.id, call.i>> /\ mem.buff[call.i] \in Contents
    BY <1>3, <2>1 DEF CallInv, DataInv, SdTypes
  <2>3. mem' = [mem EXCEPT !.bounce[0] = mem.buff[call.i]]
    BY <1>1, <1>3 DEF CopyIn
  <2>4. /\ mem' \in [bounce : [0 .. 2 -> Contents], buff : [0 .. Sectors - 1 -> Contents]]
        /\ mem'.buff = mem.buff /\ mem'.bounce[0] = <<call.id, call.i>>
    <3>1. mem \in [bounce : [0 .. 2 -> Contents], buff : [0 .. Sectors - 1 -> Contents]]
      BY DEF SdTypes
    <3>2. mem' = [mem EXCEPT !.bounce = [mem.bounce EXCEPT ![0] = mem.buff[call.i]]]
      BY <2>3, <3>1
    <3>3. [mem.bounce EXCEPT ![0] = mem.buff[call.i]] \in [0 .. 2 -> Contents]
      BY <2>2, <3>1
    <3>4. mem'.bounce = [mem.bounce EXCEPT ![0] = mem.buff[call.i]] /\ mem'.buff = mem.buff
      BY <3>1, <3>2
    <3>5. 0 \in DOMAIN mem.bounce
      BY <3>1
    <3> QED
      BY <2>2, <3>1, <3>2, <3>3, <3>4, <3>5
  <2> QED
    BY <1>1, <1>2, <2>4, CallsSent
<1>4. CASE ~(call.bounce /\ call.op = "write")
  <2>1. mem' = mem /\ mem \in [bounce : [0 .. 2 -> Contents],
                               buff : [0 .. Sectors - 1 -> Contents]]
    BY <1>1, <1>4 DEF CopyIn, SdTypes
  <2> QED
    BY <1>1, <1>2, <1>4, <2>1, CallsSent
<1> QED
  BY <1>3, <1>4

LEMMA CallsSelected ==
  ASSUME SdTypes, CallInv, Selected
  PROVE  SdTypes' /\ CallInv'
<1>1. /\ UNCHANGED <<hw, nintr, eintr, high, disk, mounted, call, calls, mem>>
      /\ mounted /\ pc = "done" /\ pc' = "start" /\ Transfer
      /\ card' = [card EXCEPT !.selected = TRUE]
  BY DEF Selected, controller, Transfer, Exec
<1>2. /\ call.i < call.n
      /\ call.bounce /\ call.op = "write" => mem.bounce[0] = <<call.id, call.i>>
  BY <1>1 DEF CallInv, RequestInv, DataInv
<1>3. mem \in [bounce : [0 .. 2 -> Contents], buff : [0 .. Sectors - 1 -> Contents]]
  BY DEF SdTypes
<1> QED
  BY <1>1, <1>2, <1>3, CallsSent

(* A piece is over.  If it went well, its blocks are where they belong.    *)
LEMMA CallsPieceOver ==
  ASSUME SdTypes, BitsInv, CallInv, PieceOver
  PROVE  SdTypes' /\ CallInv'
<1>1. /\ UNCHANGED <<hw, nintr, eintr, high, disk, card, mounted, calls, cmd, status, intr>>
      /\ mounted /\ pc = "done" /\ pc' = "ready"
      /\ cmd.op = "SELECT" => cmd.error
      /\ mem' = CopyOut
      /\ call' = [call EXCEPT !.i = @ + Piece, !.bad = @ \/ cmd.error]
  BY DEF PieceOver, Rest, controller
<1>2. call.i < call.n /\ call \in Calls /\ cmd.error \in BOOLEAN
  BY <1>1 DEF SdTypes, CallInv, RequestInv
<1>3. /\ call # Idle /\ call.op \in {"read", "write"} /\ call.at + call.n <= Sectors
      /\ call.bounce \/ call.i \in {0, call.n}
      /\ call.id > 0 /\ call.id <= MaxCalls
  BY <1>2 DEF CallInv, RequestInv, Idle
<1>4. /\ Piece \in Nat /\ Piece > 0 /\ call.i + Piece <= call.n
      /\ ~call.bounce => Piece = call.n - call.i
      /\ call.bounce => Piece <= 3
      /\ call.bounce /\ call.op # "read" => Piece = 1
  BY <1>2, PieceIs
<1>5. /\ call' \in Calls /\ call'.i = call.i + Piece /\ call'.bad = (call.bad \/ cmd.error)
      /\ call'.id = call.id /\ call'.op = call.op /\ call'.at = call.at
      /\ call'.n = call.n /\ call'.bounce = call.bounce
  <2>1. call.i + Piece \in Nat /\ (call.bad \/ cmd.error) \in BOOLEAN
    BY <1>2, <1>4 DEF Calls
  <2>2. call' = [call EXCEPT !.i = call.i + Piece, !.bad = call.bad \/ cmd.error]
    BY <1>1
  <2> QED
    BY <1>2, <2>1, <2>2 DEF Calls
<1>6. CASE call.bounce /\ call.op = "read"
  <2>1. mem' = [mem EXCEPT !.buff = [k \in DOMAIN @ |->
                  IF k \in call.i .. call.i + Piece - 1 THEN mem.bounce[k - call.i] ELSE @[k]]]
    BY <1>1, <1>6 DEF CopyOut
  <2>2. /\ mem'.bounce = mem.bounce
        /\ mem'.buff = [k \in 0 .. Sectors - 1 |->
             IF k \in call.i .. call.i + Piece - 1 THEN mem.bounce[k - call.i] ELSE mem.buff[k]]
        /\ mem' = [bounce |-> mem'.bounce, buff |-> mem'.buff]
    BY <2>1 DEF SdTypes
  <2>3. mem'.buff \in [0 .. Sectors - 1 -> Contents]
    <3>1. ASSUME NEW k \in 0 .. Sectors - 1, k \in call.i .. call.i + Piece - 1
          PROVE  mem.bounce[k - call.i] \in Contents
      <4>1. k - call.i \in 0 .. 2
        BY <1>2, <1>4, <1>6, <3>1 DEF Calls
      <4> QED
        BY <4>1 DEF SdTypes
    <3>2. \A k \in 0 .. Sectors - 1 : mem.buff[k] \in Contents
      BY DEF SdTypes
    <3> QED
      BY <2>2, <3>1, <3>2
  <2>4. SdTypes'
    BY <1>1, <1>5, <2>2, <2>3 DEF SdTypes, Places
  <2>5. ASSUME ~call'.bad, NEW k \in 0 .. call'.i - 1 PROVE Served(k)'
    <3>1. ~cmd.error /\ ~call.bad
      BY <1>5, <2>5
    <3>2. cmd.n = Piece /\ hw.moved = Piece /\ Underway
      BY <1>1, <3>1 DEF CallInv, CommandInv, BitsInv, OkIsOwn, Places, Underway
    <3>3. k \in 0 .. Sectors - 1
      BY <1>2, <1>3, <1>4, <1>5 DEF Calls
    <3>4. CASE k \in call.i .. call.i + Piece - 1
      <4>1. k - call.i \in 0 .. hw.moved - 1 /\ call.at + call.i + (k - call.i) = call.at + k
        BY <1>2, <1>4, <3>2, <3>4 DEF Calls
      <4>2. Arrived(k - call.i)
        BY <1>4, <3>2, <4>1 DEF CallInv, DataInv
      <4>3. mem.bounce[k - call.i] = disk[call.at + k]
        BY <1>6, <4>1, <4>2 DEF Arrived, Where
      <4> QED
        BY <1>1, <1>5, <1>6, <2>2, <3>3, <3>4, <4>3 DEF Served
    <3>5. CASE k \notin call.i .. call.i + Piece - 1
      <4>1. Served(k)
        BY <1>2, <1>4, <1>5, <3>1, <3>5 DEF CallInv, DataInv, Calls
      <4> QED
        BY <1>1, <1>5, <1>6, <2>2, <3>3, <3>5, <4>1 DEF Served
    <3> QED
      BY <3>4, <3>5
  <2>6. DataInv'
    BY <1>1, <1>5, <1>6, <2>5 DEF DataInv, Underway, Flights
  <2> HIDE DEF Served
  <2> QED
    BY <1>1, <1>2, <1>3, <1>4, <1>5, <2>4, <2>6
       DEF CallInv, MountInv, RequestInv, CommandInv, Calls
<1>7. CASE ~(call.bounce /\ call.op = "read")
  <2>1. mem' = mem
    BY <1>1, <1>7 DEF CopyOut
  <2>2. SdTypes'
    BY <1>1, <1>5, <2>1 DEF SdTypes, Places
  <2>3. ASSUME ~call'.bad, NEW k \in 0 .. call'.i - 1 PROVE Served(k)'
    <3>1. ~cmd.error /\ ~call.bad
      BY <1>5, <2>3
    <3>2. cmd.n = Piece /\ hw.moved = Piece /\ Underway
      BY <1>1, <3>1 DEF CallInv, CommandInv, BitsInv, OkIsOwn, Places, Underway
    <3>3. Served(k)
      <4>1. CASE k \in call.i .. call.i + Piece - 1
        <5>1. k - call.i \in 0 .. hw.moved - 1 /\ call.at + call.i + (k - call.i) = call.at + k
              /\ call.i + (k - call.i) = k
          BY <1>2, <1>4, <3>2, <4>1 DEF Calls
        <5>2. Arrived(k - call.i)
          BY <1>4, <3>2, <5>1 DEF CallInv, DataInv
        <5>3. call.op # "write" => Where = "buff" /\ k - call.i = k
          BY <1>2, <1>3, <1>7, <4>1 DEF Where, Calls
        <5> QED
          BY <5>1, <5>2, <5>3 DEF Arrived, Served
      <4>2. CASE k \notin call.i .. call.i + Piece - 1
        BY <1>2, <1>4, <1>5, <3>1, <4>2 DEF CallInv, DataInv, Calls
      <4> QED
        BY <4>1, <4>2
    <3> QED
      BY <1>1, <1>5, <2>1, <3>3 DEF Served
  <2>4. DataInv'
    BY <1>1, <1>5, <2>1, <2>3 DEF CallInv, DataInv, Underway, Flights
  <2> QED
    BY <1>1, <1>2, <1>3, <1>4, <1>5, <2>2, <2>4
       DEF CallInv, MountInv, RequestInv, CommandInv, Calls
<1> QED
  BY <1>6, <1>7

LEMMA CallsReturn ==
  ASSUME SdTypes, CallInv, Return
  PROVE  SdTypes' /\ CallInv'
<1>1. /\ UNCHANGED <<hw, nintr, eintr, high, disk, cmd, pc, status, intr, card, mounted,
                     calls, mem>>
      /\ pc = "ready" /\ call' = Idle
  BY DEF Return, controller, driver
<1>2. SdTypes'
  BY <1>1 DEF SdTypes, Idle, Calls
<1>3. MountInv' /\ RequestInv' /\ CommandInv'
  BY <1>1 DEF CallInv, MountInv, RequestInv, CommandInv
<1>4. DataInv'
  BY <1>1 DEF DataInv, Idle, Underway, Flights
<1> QED
  BY <1>2, <1>3, <1>4 DEF CallInv

-----------------------------------------------------------------------------
(* The invariant.                                                          *)

LEMMA SdInvInit == SdInit => SdInv
BY CallsInit, BitsInit DEF SdInv

LEMMA SdInvStep ==
  ASSUME SdInv, [SdNext]_sd
  PROVE  SdInv'
<1> USE DEF SdInv
<1>0. BitsInv'
  BY BitsStep
<1>1. CASE Controller
  BY <1>0, <1>1, CallsController
<1>2. CASE Remove
  BY <1>0, <1>2, CallsRemove
<1>3. CASE Driver
  BY <1>0, <1>3, CallsDriver
<1>4. CASE Discovery
  BY <1>0, <1>4, CallsDiscovery
<1>5. CASE DiskIO
  BY <1>0, <1>5, CallsInitialize, CallsBegin, CallsSelected, CallsPieceOver, CallsReturn,
     CallsCall DEF DiskIO
<1>6. CASE UNCHANGED sd
  <2>1. UNCHANGED <<hw, nintr, eintr, high, disk, card, mounted, call, calls, mem,
                    cmd, pc, status, intr>>
    BY <1>6 DEF sd, controller, driver, caller
  <2>2. CallInv'
    BY <2>1, CallsKept
  <2> QED
    BY <1>0, <2>1, <2>2 DEF SdTypes
<1> QED
  BY <1>1, <1>2, <1>3, <1>4, <1>5, <1>6 DEF SdNext

LEMMA SdInvAlways == SdSpec => []SdInv
<1>1. SdInit => SdInv
  BY SdInvInit
<1>2. SdInv /\ [SdNext]_sd => SdInv'
  BY SdInvStep
<1> QED
  BY <1>1, <1>2, PTL DEF SdSpec

(* The registers of the controller, the card, the command, the call and    *)
(* both buffers keep their types.                                          *)
THEOREM SdDriveTypes == SdSpec => []SdTypes
<1>1. SdInv => SdTypes
  BY DEF SdInv
<1> QED
  BY <1>1, SdInvAlways, PTL

(* Whatever fails on the bus and whenever the driver reads and clears the  *)
(* status registers, a command that sdhc_exec_command reports as good was  *)
(* answered by the card and moved all of its data.                         *)
THEOREM CommandsAreOwn == SdSpec => []OkIsOwn
<1>1. SdInv => OkIsOwn
  BY DEF SdInv, BitsInv, OkIsOwn, Places
<1> QED
  BY <1>1, SdInvAlways, PTL

-----------------------------------------------------------------------------
(* Every step of the driver is one of DiskSpec.                            *)

LEMMA StartsAsDisk == SdInit => Disk!Init
<1>1. SdInit => disk \in [0 .. Sectors - 1 -> Contents]
  BY CallsInit DEF SdTypes
<1>2. SdInit => Request = Disk!Idle /\ call.bad = FALSE
  BY DEF SdInit, Disk!Idle, Idle, Request
<1> QED
  BY <1>1, <1>2 DEF Disk!Init

(* A block that is moved is one of the call's own.                         *)
LEMMA MoveIsDisk ==
  ASSUME SdInv, SdInv', MoveSector
  PROVE  [Disk!Next]_Disk!vars
<1> DEFINE k == call.i + hw.moved
<1>1. /\ hw.phase = "data" /\ hw.moved < cmd.n
      /\ hw' = [hw EXCEPT !.moved = @ + 1]
      /\ UNCHANGED <<cmd, pc, call>>
  BY DEF MoveSector, driver, caller
<1>2. pc \in Flights /\ cmd.n > 0
  BY <1>1 DEF SdInv, BitsInv, Away, SdTypes, Working
<1>3. /\ call # Idle
      /\ call.at \in Nat /\ call.i \in Nat /\ call.n \in Nat
      /\ call.op \in {"read", "write"}
      /\ cmd.op = IF call.op = "read" THEN "READ" ELSE "WRITE"
      /\ call.i + cmd.n <= call.n
      /\ call.at + call.n <= Sectors
      /\ SectorOf(cmd.arg) = call.at + call.i
  BY <1>2, InTransfer DEF SdInv, Flights
<1>4. hw.moved \in Nat /\ cmd.n \in Nat /\ hw'.moved = hw.moved + 1
  BY <1>1 DEF SdInv, SdTypes
<1>5. k \in 0 .. call.n - 1 /\ call.at + k \in 0 .. Sectors - 1
  BY <1>1, <1>3, <1>4
<1>6. Request.op = call.op /\ Request.at = call.at /\ Request.n = call.n /\ Request.id = call.id
  BY <1>3 DEF Request
<1>7. CASE call.op = "read"
  <2>1. disk' = disk
    BY <1>3, <1>7 DEF MoveSector
  <2>2. Disk!Fill
    BY <1>1, <1>6, <1>7, <2>1 DEF Disk!Fill, Request
  <2> QED
    BY <2>2 DEF Disk!Next
<1>8. CASE call.op = "write"
  <2>1. mem' = mem /\ disk' = [disk EXCEPT ![call.at + k] = mem[Where][hw.moved]]
    BY <1>3, <1>4, <1>8 DEF MoveSector
  <2>2. disk'[call.at + k] = <<call.id, k>>
    <3>1. Underway' /\ cmd'.n > 0
      BY <1>1, <1>2 DEF Underway
    <3>2. \A j \in 0 .. hw'.moved - 1 : Arrived(j)'
      BY <3>1 DEF SdInv, CallInv, DataInv
    <3>3. \A j \in 0 .. hw'.moved - 1 :
            disk'[call.at + call.i + j] = <<call.id, call.i + j>>
      BY <1>1, <1>8, <3>2 DEF Arrived
    <3>4. call.at + call.i + hw.moved = call.at + k
      BY <1>3, <1>4
    <3> QED
      BY <1>4, <3>3, <3>4
  <2>3. disk' = [s \in DOMAIN disk |-> IF s - call.at \in {k}
                                       THEN <<call.id, s - call.at>> ELSE disk[s]]
    <3>1. disk' \in [DOMAIN disk -> Contents] /\ DOMAIN disk = 0 .. Sectors - 1
      BY DEF SdInv, SdTypes
    <3>2. ASSUME NEW s \in DOMAIN disk
          PROVE  disk'[s] = IF s - call.at \in {k} THEN <<call.id, s - call.at>> ELSE disk[s]
      <4>1. CASE s = call.at + k
        BY <1>3, <1>5, <2>2, <4>1
      <4>2. CASE s # call.at + k
        <5>1. s - call.at # k /\ s \in Int
          BY <1>3, <1>4, <3>1, <4>2
        <5>2. disk'[s] = disk[s]
          BY <2>1, <3>2, <4>2
        <5> QED
          BY <5>1, <5>2
      <4> QED
        BY <4>1, <4>2
    <3> QED
      BY <3>1, <3>2
  <2>4. {k} \in SUBSET (0 .. Request.n - 1)
    BY <1>5, <1>6
  <2>5. UNCHANGED <<Request, call.bad, mem.buff>>
    BY <1>1, <2>1 DEF Request
  <2>6. Disk!Store
    BY <1>6, <1>8, <2>3, <2>4, <2>5 DEF Disk!Store, Written
  <2> QED
    BY <2>6 DEF Disk!Next
<1> QED
  BY <1>3, <1>7, <1>8

LEMMA Stutters ==
  ASSUME UNCHANGED <<disk, call>>, mem'.buff = mem.buff
  PROVE  [Disk!Next]_Disk!vars
BY DEF Disk!vars, Request

LEMMA CallIsDisk ==
  ASSUME SdInv, SdInv', NEW op \in {"read", "write"}, NEW r \in Ranges,
         NEW bounce \in BOOLEAN, Call(op, r.at, r.n, bounce)
  PROVE  [Disk!Next]_Disk!vars
<1>1. /\ disk' = disk /\ call = Idle /\ calls' = calls + 1
      /\ call' = [id |-> calls', op |-> op, at |-> r.at, n |-> r.n,
                  bounce |-> bounce, i |-> 0, bad |-> FALSE]
  BY DEF Call, controller
<1>2. r.at \in Nat /\ r.n \in Nat /\ r.n > 0 /\ r.at + r.n <= Sectors
  BY DEF SdAssumption
<1>3. call' # Idle /\ calls' \in Nat
  BY <1>1, <1>2 DEF Idle, SdInv, SdTypes
<1>4. Request = Disk!Idle
  BY <1>1 DEF Request, Disk!Idle
<1>5. Request' = [id |-> calls', op |-> op, at |-> r.at, n |-> r.n]
  BY <1>1, <1>3 DEF Request
<1>6. Request' \in Disk!Requests /\ Request'.at + Request'.n <= Sectors
  <2>1. r.at \in 0 .. Sectors - 1 /\ r.n \in 1 .. Sectors
    BY <1>2
  <2> QED
    BY <1>2, <1>3, <1>5, <2>1 DEF Disk!Requests
<1>7. call'.bad = FALSE
  BY <1>1
<1>8. Disk!Call
  BY <1>1, <1>4, <1>6, <1>7 DEF Disk!Call
<1> QED
  BY <1>8 DEF Disk!Next

(* What a piece left in the bounce buffer reaches the caller's buffer; a   *)
(* piece that went wrong makes the call one that failed.                   *)
LEMMA PieceOverIsDisk ==
  ASSUME SdInv, SdInv', PieceOver
  PROVE  [Disk!Next]_Disk!vars
<1>1. /\ UNCHANGED disk /\ mounted /\ pc = "done" /\ mem' = CopyOut
      /\ call' = [call EXCEPT !.i = @ + Piece, !.bad = @ \/ cmd.error]
  BY DEF PieceOver, controller
<1>2. call \in Calls /\ cmd.error \in BOOLEAN /\ call.i < call.n
  BY <1>1 DEF SdInv, SdTypes, CallInv, RequestInv
<1>3. call # Idle /\ call.op \in {"read", "write"}
  BY <1>2 DEF SdInv, CallInv, RequestInv, Idle
<1>4. call'.id = call.id /\ call'.op = call.op /\ call'.at = call.at /\ call'.n = call.n
  BY <1>1, <1>2 DEF Calls
<1>5. call'.bad = (call.bad \/ cmd.error)
  BY <1>1, <1>2 DEF Calls
<1>6. call' # Idle
  BY <1>2, <1>3, <1>4 DEF Idle
<1>7. Request' = Request /\ Request.op = call.op /\ Request # Disk!Idle
  BY <1>3, <1>4, <1>6 DEF Request, Disk!Idle
<1>8. call.op = "write" => mem'.buff = mem.buff
  BY <1>1 DEF CopyOut
<1>9. CASE call'.bad = call.bad
  <2>1. CASE call.op = "read"
    <3>1. Disk!Fill
      BY <1>1, <1>7, <1>9, <2>1 DEF Disk!Fill
    <3> QED
      BY <3>1 DEF Disk!Next
  <2>2. CASE call.op = "write"
    BY <1>1, <1>7, <1>8, <1>9, <2>2 DEF Disk!vars
  <2> QED
    BY <1>3, <2>1, <2>2
<1>10. CASE call'.bad # call.bad
  <2>1. call'.bad = TRUE
    BY <1>2, <1>5, <1>10 DEF Calls
  <2>2. Disk!Fail
    BY <1>1, <1>7, <1>8, <2>1 DEF Disk!Fail
  <2> QED
    BY <2>2 DEF Disk!Next
<1> QED
  BY <1>9, <1>10

(* When a call returns and none of its pieces went wrong, all its blocks   *)
(* were moved.                                                             *)
LEMMA ReturnIsDisk ==
  ASSUME SdInv, SdInv', Return
  PROVE  [Disk!Next]_Disk!vars
<1>1. UNCHANGED <<disk, mem>> /\ call # Idle /\ call.i = call.n /\ call' = Idle
  BY DEF Return, controller
<1>2. /\ Request.op = call.op /\ Request.at = call.at /\ Request.n = call.n
      /\ Request.id = call.id /\ Request # Disk!Idle
  BY <1>1 DEF Request, Disk!Idle, SdInv, CallInv, RequestInv
<1>3. Request' = Disk!Idle /\ call'.bad = FALSE
  BY <1>1 DEF Request, Disk!Idle, Idle
<1>4. ASSUME ~call.bad PROVE Disk!Done
  <2>1. \A k \in 0 .. call.n - 1 : Served(k)
    BY <1>1, <1>4 DEF SdInv, CallInv, DataInv
  <2> QED
    BY <1>2, <2>1 DEF Disk!Done, Served, Written
<1>5. Disk!Return
  BY <1>1, <1>2, <1>3, <1>4 DEF Disk!Return
<1> QED
  BY <1>5 DEF Disk!Next

LEMMA StepsAsDisk ==
  ASSUME SdInv, SdInv', [SdNext]_sd
  PROVE  [Disk!Next]_Disk!vars
<1>1. CASE MoveSector
  BY <1>1, MoveIsDisk
<1>2. CASE \/ Answer \/ NoAnswer \/ Boundary \/ TransferDone \/ TransferFails
           \/ Remove \/ Driver \/ Discovery \/ Initialize \/ Selected \/ UNCHANGED sd
  <2>1. UNCHANGED <<disk, call, mem>>
    <3>1. CASE Answer \/ NoAnswer \/ Boundary \/ TransferDone \/ TransferFails \/ Remove
      BY <3>1 DEF Answer, NoAnswer, Boundary, TransferDone, TransferFails, Remove, caller
    <3>2. CASE Driver
      BY <3>2 DEF Driver, StartCommand, Inhibited, ReadStatus, Leftover, Acknowledge,
                  ServiceError, KeepWaiting, Woken, Expire, controller, caller
    <3>3. CASE Discovery
      BY <3>3, DiscoveryFrame
    <3>4. CASE Initialize \/ Selected \/ UNCHANGED sd
      BY <3>4 DEF Initialize, Selected, sd, controller, caller
    <3> QED
      BY <1>2, <3>1, <3>2, <3>3, <3>4
  <2> QED
    BY <2>1, Stutters
<1>3. CASE Begin
  <2>1. UNCHANGED <<disk, call>> /\ mem' = CopyIn
    BY <1>3 DEF Begin, controller, caller
  <2>2. mem \in [bounce : [0 .. 2 -> Contents], buff : [0 .. Sectors - 1 -> Contents]]
    BY DEF SdInv, SdTypes
  <2>3. CopyIn.buff = mem.buff
    BY <2>2 DEF CopyIn
  <2> QED
    BY <2>1, <2>3, Stutters
<1>4. CASE PieceOver \/ Return \/ \E op \in {"read", "write"}, r \in Ranges, bounce \in BOOLEAN :
                                    Call(op, r.at, r.n, bounce)
  BY <1>4, PieceOverIsDisk, ReturnIsDisk, CallIsDisk
<1> QED
  BY <1>1, <1>2, <1>3, <1>4 DEF SdNext, Controller, DiskIO

(* Every run of the driver, the controller and the card is one of the      *)
(* abstract disk: a call that goes well moves all of its sectors, one that *)
(* fails moves what it likes of its own, and no other sector changes.      *)
THEOREM DriverKeepsSectors == SdSpec => ImplementsDiskSpec
<1>1. SdInit => Disk!Init
  BY StartsAsDisk
<1>2. SdInv /\ SdInv' /\ [SdNext]_sd => [Disk!Next]_Disk!vars
  BY StepsAsDisk
<1> QED
  BY <1>1, <1>2, SdInvAlways, PTL DEF SdSpec, ImplementsDiskSpec, Disk!Spec
=============================================================================
