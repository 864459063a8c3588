------------------------------ MODULE SdDrive ------------------------------
(***************************************************************************)
(* The SD card behind the DML build's FatFs: disk_read and disk_write      *)
(* (DML/diskio.c), the card's identification and its block commands        *)
(* (sdmmc.c), one command on the host controller (sdhc.c), and outside     *)
(* src/ the controller and the card.  The processor polls the controller   *)
(* that works meanwhile: the driver's reads and writes of the status       *)
(* registers are steps of their own.                                       *)
(*                                                                         *)
(* A sector holds <<c, k>>: the k-th sector of what call c wrote, call 0   *)
(* being the one that filled the card.                                     *)
(***************************************************************************)
EXTENDS Integers, Sequences, FiniteSets, FiniteSetsExt

CONSTANTS
  Sectors,       \* the card has the sectors 0 .. Sectors - 1
  Ranges,        \* the sectors that are read and written: [at, n]
  ClkBase,       \* the clock of the controller, in kHz
  Tries,         \* how often the card is asked whether it is ready, 100
  MaxCalls,      \* bound: calls of disk_read and disk_write
  MaxFaults      \* bound: answers or data that go wrong on the bus

ASSUME SdAssumption ==
  /\ Sectors \in Nat \ {0} /\ Tries \in Nat \ {0}
  /\ \A r \in Ranges : r.at \in Nat /\ r.n \in Nat \ {0} /\ r.at + r.n <= Sectors
  /\ ClkBase \in Nat
  /\ MaxCalls \in Nat /\ MaxFaults \in Nat

VARIABLES
  hw,        \* the controller: [phase, moved, crossed, answered]
  nintr,     \* NINTR_STATUS, the bits the driver enables
  eintr,     \* EINTR_STATUS
  high,      \* the kind of card: of high capacity, it counts sectors, not bytes
  state,     \* the card's state in the SD protocol, "off" without power
  disk,      \* what the card holds
  faults,    \* faults so far, of MaxFaults
  cmd,       \* the sdmmc_command: [op, arg, n, error]
  pc,        \* where sdhc_exec_command is
  status,    \* what sdhc_intr read from NINTR_STATUS
  intr,      \* hp->intr_status
  card,      \* sdmmc.c's card: [inserted, selected, new_card, blockmode]
  hcs,       \* the capacity bit in the ocr that sdmmc_needs_discover sends
  tries,     \* what is left of Tries
  mounted,   \* disk_initialize did not answer STA_NOINIT
  call,      \* the pending call: [id, op, at, n, bounce, i, bad], or Idle
  mem,       \* [bounce, buff]: the buffer at 0x1000, the caller's buffer
  calls      \* calls so far, of MaxCalls

controller == <<hw, nintr, eintr, high, state, disk, faults>>
driver     == <<cmd, pc, status, intr>>
caller     == <<card, hcs, tries, mounted, call, calls>>
sd         == <<controller, driver, caller, mem>>

SDMMC_BLOCKLEN == 512
SDMMC_DEFAULT_CLOCK == 25000
WAITED == {"CC", "TC", "DMA"}   \* the bits of NINTR_STATUS a wait is for
Idle   == [id |-> 0, op |-> "none", at |-> 0, n |-> 0,
           bounce |-> FALSE, i |-> 0, bad |-> FALSE]
Ready  == [phase |-> "idle", moved |-> 0, crossed |-> FALSE, answered |-> FALSE]
NoCmd  == [op |-> "none", arg |-> 0, n |-> 0, error |-> FALSE]

(* The buffers.  A write's data is known from the call.                    *)
Empty  == [bounce |-> [k \in 0 .. 2 |-> <<0, 0>>],
           buff   |-> [k \in 0 .. Sectors - 1 |-> <<0, 0>>]]

-----------------------------------------------------------------------------
(* The card.  A command that is not legal in its state gets no answer.     *)

Legal(op) == CASE op = "GO_IDLE"  -> TRUE        \* has no answer
               [] op = "IF_COND"  -> state = "idle"
               [] op = "APP_CMD"  -> state \notin {"off", "removed"}
               [] op = "OP_COND"  -> state = "idle"
               [] op = "ALL_CID"  -> state = "ready"
               [] op = "RCA"      -> state = "ident"
               [] op = "CSD"      -> state = "stby"
               [] op = "SELECT"   -> state = "stby"
               [] OTHER           -> state = "tran"

(* A card of high capacity never gets ready for a host that does not say   *)
(* that it knows such cards.                                               *)
MayGetReady == high => hcs

NextState(op) ==
  CASE op = "GO_IDLE" -> {IF state = "removed" THEN state ELSE "idle"}
    [] op = "OP_COND" -> {"idle"} \cup (IF MayGetReady THEN {"ready"} ELSE {})
    [] op = "ALL_CID" -> {"ident"}
    [] op = "RCA"     -> {"stby"}
    [] op = "SELECT"  -> {"tran"}
    [] OTHER          -> {state}

(* The sector a command's argument names.                                  *)
SectorOf(arg) == IF high THEN arg ELSE arg \div SDMMC_BLOCKLEN

(* The controller.  After an error it takes no command until it is reset.  *)

Answer ==
  /\ hw.phase = "cmd"
  /\ Legal(cmd.op)
  /\ state' \in NextState(cmd.op)
  /\ nintr' = nintr \cup {"CC"}
  /\ hw' = [hw EXCEPT !.phase = IF cmd.n > 0 THEN "data" ELSE "idle", !.answered = TRUE]
  /\ UNCHANGED <<high, eintr, disk, faults, driver, caller, mem>>

(* No command waits for an answer to GO_IDLE_STATE.                        *)
NoAnswer ==
  /\ hw.phase = "cmd"
  /\ cmd.op # "GO_IDLE"
  /\ \/ ~Legal(cmd.op) /\ UNCHANGED <<faults, state>>
     \/ /\ faults < MaxFaults
        /\ faults' = faults + 1
        /\ \/ UNCHANGED state    \* the command is lost, or the answer is
           \/ Legal(cmd.op) /\ state' \in NextState(cmd.op)
  /\ \E e \in {"CMDTO", "CRC"} : eintr' = eintr \cup {e}
  /\ hw' = [hw EXCEPT !.phase = "stuck"]
  /\ UNCHANGED <<high, nintr, disk, driver, caller, mem>>

(* A sector is moved by DMA, from or to the buffer the driver named.       *)
Where == IF call.bounce THEN "bounce" ELSE "buff"

MoveSector ==
  /\ hw.phase = "data"
  /\ state = "tran" /\ hw.moved < cmd.n
  /\ hw' = [hw EXCEPT !.moved = @ + 1]
  /\ LET s == SectorOf(cmd.arg) + hw.moved
     IN  IF cmd.op = "READ"
         THEN /\ mem' = [mem EXCEPT ![Where][hw.moved] = disk[s]]
              /\ UNCHANGED disk
         ELSE /\ disk' = [disk EXCEPT ![s] = mem[Where][hw.moved]]
              /\ UNCHANGED mem
  /\ UNCHANGED <<high, nintr, eintr, state, faults, driver, caller>>

(* The buffer crosses a multiple of 512 KiB: the controller waits for the  *)
(* driver.  255 sectors cross one at most.                                 *)
Boundary ==
  /\ hw.phase = "data"
  /\ hw.moved \in 1 .. cmd.n - 1
  /\ ~hw.crossed
  /\ hw' = [hw EXCEPT !.phase = "paused", !.crossed = TRUE]
  /\ nintr' = nintr \cup {"DMA"}
  /\ UNCHANGED <<high, eintr, state, disk, faults, driver, caller, mem>>

TransferDone ==
  /\ hw.phase = "data"
  /\ hw.moved = cmd.n
  /\ nintr' = nintr \cup {"TC"}
  /\ hw' = [hw EXCEPT !.phase = "idle"]
  /\ UNCHANGED <<high, eintr, state, disk, faults, driver, caller, mem>>

TransferFails ==
  /\ hw.phase = "data"
  /\ hw.moved < cmd.n
  /\ \/ state # "tran" /\ UNCHANGED faults
     \/ faults < MaxFaults /\ faults' = faults + 1
  /\ \E e \in {"DATTO", "CRC"} : eintr' = eintr \cup {e}
  /\ hw' = [hw EXCEPT !.phase = "stuck"]
  /\ UNCHANGED <<high, nintr, state, disk, driver, caller, mem>>

Remove ==
  /\ state # "removed"
  /\ faults < MaxFaults
  /\ faults' = faults + 1
  /\ state' = "removed"
  /\ UNCHANGED <<high, hw, nintr, eintr, disk, driver, caller, mem>>

Controller == Answer \/ NoAnswer \/ MoveSector \/ Boundary \/ TransferDone \/ TransferFails

-----------------------------------------------------------------------------
(* sdhc.c: one command.  sdhc_soft_reset of the command and data lines.    *)

SoftReset == hw' = [hw EXCEPT !.phase = "idle"]

(* sdhc_start_command waits until the controller takes a command.          *)
StartCommand ==
  /\ pc = "start"
  /\ hw.phase = "idle"
  /\ hw' = [Ready EXCEPT !.phase = "cmd"]
  /\ intr' = {}
  /\ pc' = "command"
  /\ UNCHANGED <<high, nintr, eintr, state, disk, faults, cmd, status, caller, mem>>

Fail == cmd' = [cmd EXCEPT !.error = TRUE] /\ pc' = "done"

Inhibited ==
  /\ pc = "start"
  /\ hw.phase \in {"paused", "stuck"}
  /\ intr' = {}
  /\ Fail
  /\ UNCHANGED <<controller, status, caller, mem>>

(* sdhc_wait_intr.  pc is the wait and, behind it, the step of sdhc_intr.  *)
Waits     == {"command", "transfer"}
Wanted(w) == IF w = "command" THEN {"CC"} ELSE {"TC", "DMA"}
Acking(w)  == IF w = "command" THEN "command_ack" ELSE "transfer_ack"
Failing(w) == IF w = "command" THEN "command_error" ELSE "transfer_error"
Awake(w)   == IF w = "command" THEN "command_woken" ELSE "transfer_woken"
Pending   == nintr \cup (IF eintr # {} THEN {"ERR"} ELSE {})

ReadStatus(w) ==
  /\ pc = w
  /\ Pending # {}
  /\ status' = Pending
  /\ pc' = Acking(w)
  /\ UNCHANGED <<controller, cmd, intr, caller, mem>>

(* Bits an earlier wait was not for end this one at once.                  *)
Leftover(w) ==
  /\ pc = w
  /\ Pending = {} /\ intr # {}
  /\ pc' = Awake(w)
  /\ UNCHANGED <<controller, cmd, status, intr, caller, mem>>

(* The two status registers are halves of one word, and a bit is cleared   *)
(* by writing it.  HWRITE2 reads the word and writes it back: clearing     *)
(* bits of one half it clears all of the other.                            *)
WriteNintr(bits) == nintr' = nintr \ bits /\ eintr' = {}
WriteEintr(bits) == eintr' = eintr \ bits /\ nintr' = {}

Acknowledge(w) ==
  /\ pc = Acking(w)
  /\ WriteNintr(status)
  /\ IF "ERR" \in status
     THEN pc' = Failing(w) /\ UNCHANGED intr
     ELSE pc' = Awake(w) /\ intr' = intr \cup status
  /\ UNCHANGED <<high, hw, state, disk, faults, cmd, status, caller, mem>>

ServiceError(w) ==
  /\ pc = Failing(w)
  /\ SoftReset
  /\ WriteEintr(eintr)
  /\ intr' = IF eintr \cap {"CMDTO", "DATTO"} # {} \/ status \cap WAITED # {}
             THEN intr \cup status ELSE intr
  /\ pc' = Awake(w)
  /\ UNCHANGED <<high, state, disk, faults, cmd, status, caller, mem>>

(* The wait goes on while intr_status is 0, and ends with the bits it is   *)
(* for; with none of them it has failed.                                   *)
KeepWaiting(w) ==
  /\ pc = Awake(w)
  /\ intr = {}
  /\ pc' = w
  /\ UNCHANGED <<controller, cmd, status, intr, caller, mem>>

(* Variant for a run: a transfer that was interrupted is over.             *)
Result_DmaDone(w, got) ==
  IF w = "command"
  THEN /\ IF "CC" \notin got THEN Fail
          ELSE pc' = (IF cmd.n > 0 THEN "transfer" ELSE "done") /\ UNCHANGED cmd
       /\ UNCHANGED <<hw, nintr>>
  ELSE IF got = {} THEN Fail /\ UNCHANGED <<hw, nintr>>
  ELSE pc' = "done" /\ UNCHANGED <<hw, nintr, cmd>>

Result(w, got) ==
  IF w = "command"
  THEN /\ IF "CC" \notin got THEN Fail
          ELSE pc' = (IF cmd.n > 0 THEN "transfer" ELSE "done") /\ UNCHANGED cmd
       /\ UNCHANGED <<hw, nintr>>
  ELSE IF got = {} THEN Fail /\ UNCHANGED <<hw, nintr>>
  ELSE /\ pc' = IF "TC" \in got THEN "done" ELSE "transfer"
       /\ hw' = IF "TC" \notin got /\ hw.phase = "paused"
                THEN [hw EXCEPT !.phase = "data"] ELSE hw
       /\ UNCHANGED <<nintr, cmd>>

Woken(w) ==
  /\ pc = Awake(w)
  /\ intr # {}
  /\ IF "ERR" \in intr
     THEN /\ SoftReset
          /\ nintr' = {}
          /\ Fail
     ELSE Result(w, intr \cap Wanted(w))
  /\ intr' = intr \ (Wanted(w) \cup {"ERR"})
  /\ UNCHANGED <<high, eintr, state, disk, faults, status, caller, mem>>

(* Variant for a run: a wait without a limit.                              *)
Expire_Never(w) == w \notin Waits /\ UNCHANGED sd

(* The driver waits longer than the controller: the time is up when        *)
(* nothing can happen any more.                                            *)
Expire(w) ==
  /\ pc = w
  /\ Pending = {} /\ intr = {}
  /\ hw.phase \in {"idle", "paused", "stuck"}
  /\ Fail
  /\ UNCHANGED <<controller, status, intr, caller, mem>>

Driver == \/ StartCommand \/ Inhibited
          \/ \E w \in Waits : \/ ReadStatus(w) \/ Leftover(w) \/ Acknowledge(w)
                              \/ ServiceError(w) \/ KeepWaiting(w)
                              \/ Woken(w) \/ Expire(w)

-----------------------------------------------------------------------------
(* sdmmc.c.  A command is handed to sdhc_exec_command (pc "start"); when   *)
(* it is done its caller goes on.                                          *)

Exec(op, arg, n) ==
  /\ cmd' = [op |-> op, arg |-> arg, n |-> n, error |-> FALSE]
  /\ pc' = "start"
  /\ UNCHANGED <<status, intr>>

(* sdmmc_needs_discover is done, with the card on or off.                  *)
Rest == pc' = "ready" /\ UNCHANGED <<cmd, status, intr>>

(* sdhc_host_reset, and sdhc_bus_power(0), which ends with it.             *)
HostReset == hw' = Ready /\ nintr' = {} /\ eintr' = {}
PowerOff  == HostReset /\ state' = IF state = "removed" THEN state ELSE "off"

(* The smallest divisor that brings the clock down to freq.                *)
ClockDivisor(base, freq) ==
  LET fit == {d \in {2 ^ i : i \in 0 .. 8} : base \div d <= freq}
  IN  IF fit = {} THEN -1 ELSE Min(fit) \div 2

(* sdhc_host_found: a controller with a clock of 10 to 63 MHz is reset and *)
(* attached.                                                               *)
Found ==
  /\ pc = "found"
  /\ HostReset
  /\ pc' = IF 10000 <= ClkBase /\ ClkBase <= 63000 THEN "attach" ELSE "ready"
  /\ UNCHANGED <<high, state, disk, faults, cmd, status, intr, caller, mem>>

(* sdmmc_attach looks for a card.                                          *)
AttachNoCard ==
  /\ pc = "attach"
  /\ Rest
  /\ UNCHANGED <<controller, caller, mem>>

(* One that is there is powered, clocked and told to be idle.              *)
Attach ==
  /\ pc = "attach"
  /\ HostReset
  /\ card' = [card EXCEPT !.new_card = TRUE]
  /\ \/ /\ ClockDivisor(ClkBase, SDMMC_DEFAULT_CLOCK) >= 0
        /\ Exec("GO_IDLE", 0, 0)
        /\ state' = IF state = "off" THEN "idle" ELSE state
     \/ Rest /\ UNCHANGED state            \* no power, or no stable clock
  /\ UNCHANGED <<high, disk, faults, hcs, tries, mounted, call, calls, mem>>

(* sdmmc_select sets selected when the command went well.                  *)
Select == Exec("SELECT", 0, 0)

Discovering == ~mounted /\ pc = "done"

Identified ==
  /\ Discovering /\ ~cmd.error
  /\ \/ /\ cmd.op = "GO_IDLE"
        /\ Exec("IF_COND", 0, 0)
        /\ UNCHANGED <<card, hcs, tries>>
     \/ /\ cmd.op = "IF_COND"
        /\ Exec("APP_CMD", 0, 0)
        /\ hcs' = TRUE /\ UNCHANGED <<card, tries>>
     \/ /\ cmd.op = "APP_CMD"
        /\ Exec("OP_COND", 0, 0)
        /\ UNCHANGED <<card, hcs, tries>>
     \/ /\ cmd.op = "OP_COND" /\ state = "ready"
        /\ Exec("ALL_CID", 0, 0)
        /\ card' = [card EXCEPT !.blockmode = high]
        /\ UNCHANGED <<hcs, tries>>
     \/ /\ cmd.op = "ALL_CID"
        /\ Exec("RCA", 0, 0)
        /\ UNCHANGED <<card, hcs, tries>>
     \/ /\ cmd.op = "RCA"
        /\ Exec("CSD", 0, 0)
        /\ card' = [card EXCEPT !.selected = FALSE, !.inserted = TRUE]
        /\ UNCHANGED <<hcs, tries>>
     \/ /\ cmd.op = "CSD"
        /\ Select
        /\ UNCHANGED <<card, hcs, tries>>
     \/ /\ cmd.op = "SELECT"
        /\ Exec("BLOCKLEN", SDMMC_BLOCKLEN, 0)
        /\ card' = [card EXCEPT !.selected = TRUE]
        /\ UNCHANGED <<hcs, tries>>
     \/ /\ cmd.op = "BLOCKLEN"
        /\ Rest
        /\ UNCHANGED <<card, hcs, tries>>
  /\ UNCHANGED <<controller, mounted, call, calls, mem>>

(* The card is not ready yet, or one of the two commands went wrong.       *)
NotReady ==
  /\ cmd.op \in {"APP_CMD", "OP_COND"}
  /\ cmd.op = "APP_CMD" => cmd.error
  /\ cmd.op = "OP_COND" => cmd.error \/ state # "ready"

AskAgain ==
  /\ Discovering /\ NotReady
  /\ tries > 1
  /\ tries' = tries - 1
  /\ Exec("APP_CMD", 0, 0)
  /\ UNCHANGED <<controller, card, hcs, mounted, call, calls, mem>>

(* sdmmc_needs_discover goes on without the answers to IF_COND and SELECT. *)
GoOn ==
  /\ Discovering /\ cmd.error
  /\ \/ cmd.op = "IF_COND" /\ hcs' = FALSE /\ Exec("APP_CMD", 0, 0)
     \/ cmd.op = "SELECT" /\ UNCHANGED hcs /\ Exec("BLOCKLEN", SDMMC_BLOCKLEN, 0)
  /\ UNCHANGED <<controller, card, tries, mounted, call, calls, mem>>

GiveUp ==
  /\ Discovering
  /\ \/ NotReady /\ tries <= 1
     \/ cmd.error /\ cmd.op \in {"GO_IDLE", "ALL_CID", "RCA", "CSD", "BLOCKLEN"}
  /\ card' = IF cmd.op = "BLOCKLEN"
             THEN [card EXCEPT !.inserted = FALSE, !.selected = FALSE] ELSE card
  /\ PowerOff
  /\ Rest
  /\ UNCHANGED <<high, disk, faults, hcs, tries, mounted, call, calls, mem>>

Discovery == Found \/ Attach \/ AttachNoCard \/ Identified \/ AskAgain \/ GoOn \/ GiveUp

-----------------------------------------------------------------------------
(* diskio.c                                                                *)

CheckCard == CASE ~card.inserted -> "SDMMC_NO_CARD"
               [] card.inserted /\ card.new_card -> "SDMMC_NEW_CARD"
               [] OTHER -> "SDMMC_INSERTED"
AckCard   == card' = [card EXCEPT !.new_card = FALSE]

(* disk_initialize, from FatFs' mount.                                     *)
Initialize ==
  /\ pc = "ready" /\ ~mounted
  /\ CheckCard # "SDMMC_NO_CARD"
  /\ AckCard
  /\ mounted' = TRUE
  /\ UNCHANGED <<controller, driver, hcs, tries, call, calls, mem>>

(* disk_read and disk_write: a buffer in virtual memory (0xF0000000) is    *)
(* copied through the one at 0x1000.                                       *)
Call(op, at, n, bounce) ==
  /\ mounted /\ pc = "ready" /\ call = Idle
  /\ calls < MaxCalls
  /\ calls' = calls + 1
  /\ call' = [id |-> calls', op |-> op, at |-> at, n |-> n,
              bounce |-> bounce, i |-> 0, bad |-> FALSE]
  /\ mem' = IF op = "write"
            THEN [mem EXCEPT !.buff = [k \in DOMAIN @ |-> <<calls', k>>]] ELSE mem
  /\ UNCHANGED <<controller, driver, card, hcs, tries, mounted>>

(* The blocks of the next sdmmc_read or sdmmc_write.                       *)
Piece == LET all == call.n - call.i
             most == IF ~call.bounce THEN all ELSE IF call.op = "read" THEN 3 ELSE 1
         IN  Min({all, most})

Address == (call.at + call.i) * (IF card.blockmode THEN 1 ELSE SDMMC_BLOCKLEN)
CopyIn  == IF call.bounce /\ call.op = "write"
           THEN [mem EXCEPT !.bounce[0] = mem.buff[call.i]] ELSE mem
Transfer == Exec(IF call.op = "read" THEN "READ" ELSE "WRITE", Address, Piece)

(* sdmmc_read, sdmmc_write: a card that is not selected is selected first. *)
Begin ==
  /\ call.i < call.n /\ pc = "ready"
  /\ CheckCard = "SDMMC_INSERTED"
  /\ mem' = CopyIn
  /\ IF card.selected THEN Transfer ELSE Select
  /\ UNCHANGED <<controller, caller>>

Selected ==
  /\ mounted /\ pc = "done"
  /\ cmd.op = "SELECT" /\ ~cmd.error
  /\ card' = [card EXCEPT !.selected = TRUE]
  /\ Transfer
  /\ UNCHANGED <<controller, hcs, tries, mounted, call, calls, mem>>

(* Variant for a run: every piece is copied to the start of the buffer.    *)
CopyOut_First ==
  IF call.bounce /\ call.op = "read"
  THEN [mem EXCEPT !.buff = [k \in DOMAIN @ |->
          IF k \in 0 .. Piece - 1 THEN mem.bounce[k] ELSE @[k]]]
  ELSE mem

(* A piece is over, well or not: what sdmmc_read left in the bounce buffer *)
(* is copied, and the result is not looked at.                             *)
CopyOut ==
  IF call.bounce /\ call.op = "read"
  THEN [mem EXCEPT !.buff = [k \in DOMAIN @ |->
          IF k \in call.i .. call.i + Piece - 1 THEN mem.bounce[k - call.i] ELSE @[k]]]
  ELSE mem

PieceOver ==
  /\ mounted /\ pc = "done"
  /\ cmd.op = "SELECT" => cmd.error
  /\ mem' = CopyOut
  /\ call' = [call EXCEPT !.i = @ + Piece, !.bad = @ \/ cmd.error]
  /\ Rest
  /\ UNCHANGED <<controller, card, hcs, tries, mounted, calls>>

(* Both return RES_OK.                                                     *)
Return ==
  /\ call # Idle
  /\ pc = "ready" /\ call.i = call.n
  /\ call' = Idle
  /\ UNCHANGED <<controller, driver, card, hcs, tries, mounted, calls, mem>>

DiskIO ==
  \/ Initialize \/ Begin \/ Selected \/ PieceOver \/ Return
  \/ \E op \in {"read", "write"}, r \in Ranges, bounce \in BOOLEAN :
       Call(op, r.at, r.n, bounce)

-----------------------------------------------------------------------------
SdInit ==
  /\ hw = Ready /\ nintr = {} /\ eintr = {}
  /\ high \in BOOLEAN /\ state = "off" /\ faults = 0
  /\ disk = [s \in 0 .. Sectors - 1 |-> <<0, s>>]
  /\ cmd = NoCmd /\ pc = "found" /\ status = {} /\ intr = {}
  /\ card = [inserted |-> FALSE, selected |-> FALSE, new_card |-> FALSE, blockmode |-> FALSE]
  /\ hcs = FALSE /\ tries = Tries
  /\ mounted = FALSE /\ call = Idle /\ calls = 0
  /\ mem = Empty

SdNext == Controller \/ Remove \/ Driver \/ Discovery \/ DiskIO

(* The processor does not stop, nor does the controller.                   *)
Fairness == WF_sd(Controller) /\ WF_sd(Driver) /\ WF_sd(Discovery)
            /\ WF_sd(Begin \/ Selected \/ PieceOver \/ Return)

SdSpec == SdInit /\ [][SdNext]_sd /\ Fairness

-----------------------------------------------------------------------------
Contents == (0 .. MaxCalls) \X (0 .. Sectors)

(* A command that sdhc_exec_command reports as good was answered by the    *)
(* card, and all of its data were moved: no status of an earlier command   *)
(* or of an earlier wait is taken for its own (sdhc.c:439-508, 690-740).   *)
OkIsOwn ==
  pc = "done" /\ ~cmd.error => hw.phase = "idle" /\ hw.answered /\ hw.moved = cmd.n

(* A call of disk_read or disk_write returns, whatever the bus does.       *)
EveryCallReturns == call # Idle ~> call = Idle

(* disk_read and disk_write as the file system may take them; "ok" is      *)
(* what sdmmc_read and sdmmc_write returned.                               *)
Written(c, k) == <<c, k>>
Request == IF call = Idle THEN [id |-> 0, op |-> "none", at |-> 0, n |-> 0]
           ELSE [id |-> call.id, op |-> call.op, at |-> call.at, n |-> call.n]
Disk == INSTANCE DiskSpec
  WITH Contents <- Contents,
       New <- Written,
       request <- Request,
       failed <- call.bad,
       buffer <- mem.buff
ImplementsDiskSpec == Disk!Spec

=============================================================================
