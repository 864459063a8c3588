------------------------------ MODULE DIMailbox ------------------------------
(***************************************************************************)
(* The DVD mailbox at DI_BASE (DML/dip.h): DIUpdateRegisters on the ARM    *)
(* against the two kinds of program that read from the disc on the PPC.    *)
(*                                                                         *)
(* The console's own menu and the disc's loader use stubs (DML/asm) that   *)
(* post a read and spin, as those of the memory card do.  A game uses its  *)
(* own DVD library, patched to post its reads here with command 0xA7 and   *)
(* to go on; an interrupt tells it that the read is done.                  *)
(*                                                                         *)
(* The EHCI build (ehci/dip.c) serves the same mailbox, but gives          *)
(* DI_CONTROL back before it clears the old status.                        *)
(***************************************************************************)
EXTENDS Naturals

CONSTANTS
  Build,   \* "DML" or "EHCI"
  MaxReq   \* bound: how many reads are posted

ASSUME DIAssumption == Build \in {"DML", "EHCI"} /\ MaxReq \in Nat \ {0}

VARIABLES
  regs,     \* DI_CMD_0 .. DI_DMA_LEN: the read posted, or EMPTY (0xdeadbeef)
  control,  \* DI_CONTROL: "empty" (0xdeadbeef) or "go" (3)
  sregs,    \* DI_SCMD_0 .. DI_SDMA_LEN
  sstatus,  \* bit 0x10 of DI_SSTATUS
  irq,      \* the IPC interrupt is pending on the PPC
  nodisc,   \* DML_CFG_NODISC
  arm,      \* where the ARM is in DIUpdateRegisters
  program,  \* what runs on the PPC: "loader" or "game"
  ppc,      \* where it is in its read
  cur,      \* the read it waits for, or waited for last
  reads,    \* ghost: how often f_read fetched the data of each read
  ended     \* ghost: the reads reported done to their caller

mailbox == <<regs, control>>
client  == <<program, ppc, cur, ended>>
vars    == <<regs, control, sregs, sstatus, irq, nodisc, arm, program, ppc,
             cur, reads, ended>>

EMPTY    == 0
Requests == 1 .. MaxReq

(* DIInit                                                                  *)
Init ==
  /\ regs = EMPTY /\ control = "empty"
  /\ sregs = EMPTY /\ sstatus = FALSE
  /\ irq = FALSE
  /\ nodisc \in (IF Build = "DML" THEN BOOLEAN ELSE {FALSE})
  /\ arm = "poll"
  /\ program = "loader" /\ ppc = "idle" /\ cur = EMPTY
  /\ reads = [r \in Requests |-> 0]
  /\ ended = {}
-----------------------------------------------------------------------------
(* The PPC.                                                                *)

(* A read is posted: all registers before DI_CONTROL.                      *)
Post ==
  /\ ppc = "idle"
  /\ cur < MaxReq
  /\ cur' = cur + 1
  /\ regs' = cur'
  /\ ppc' = "posted"
  /\ UNCHANGED <<control, sregs, sstatus, irq, nodisc, arm, program, reads, ended>>

(* stw 3, DI_CONTROL.  The game goes on, the stub starts to spin.          *)
Ring ==
  /\ ppc = "posted"
  /\ control' = "go"
  /\ ppc' = IF program = "game" THEN "flight" ELSE "ready"
  /\ UNCHANGED <<regs, sregs, sstatus, irq, nodisc, arm, program, cur, reads, ended>>

(* ready_loop                                                              *)
Ready ==
  /\ ppc = "ready" /\ control # "go"
  /\ ppc' = "wait"
  /\ UNCHANGED <<mailbox, sregs, sstatus, irq, nodisc, arm, program, cur, reads, ended>>

(* wait_loop; the stub then fills in the caller's structure as done.       *)
Take ==
  /\ ppc = "wait" /\ sstatus
  /\ ended' = ended \cup {cur}
  /\ ppc' = "idle"
  /\ UNCHANGED <<mailbox, sregs, sstatus, irq, nodisc, arm, program, cur, reads>>

(* The game's interrupt handler, patched to look for the cause in          *)
(* DI_SSTATUS.  Without a read under way it has no callback to call.       *)
Interrupt ==
  /\ program = "game" /\ irq
  /\ irq' = FALSE
  /\ IF ppc = "flight" /\ sstatus
       THEN ended' = ended \cup {cur} /\ ppc' = "idle"
       ELSE UNCHANGED <<ended, ppc>>
  /\ UNCHANGED <<mailbox, sregs, sstatus, nodisc, arm, program, cur, reads>>

(* The loader starts a game, or a game starts another loader.  That takes  *)
(* so long that the main loop is back at its poll, and an interrupt that   *)
(* the loader had masked is over before the game's first read.             *)
Switch ==
  /\ ppc = "idle" /\ arm = "poll" /\ control = "empty"
  /\ irq => program = "loader"
  /\ program' = IF program = "loader" /\ Build = "DML" THEN "game" ELSE "loader"
  /\ irq' = FALSE
  /\ UNCHANGED <<mailbox, sregs, sstatus, nodisc, arm, ppc, cur, reads, ended>>
-----------------------------------------------------------------------------
(* The ARM.                                                                *)

(* Variant for a run: the EHCI build's order.                              *)
StatusFirst_Never == FALSE

(* Whether clear32( DI_SSTATUS, 0x14 ) comes before                        *)
(* write32( DI_CONTROL, 0xdeadbeef ).                                      *)
StatusFirst == Build = "DML"

Poll ==
  /\ arm = "poll" /\ control # "empty"
  /\ arm' = IF StatusFirst THEN "status" ELSE "ack"
  /\ UNCHANGED <<mailbox, sregs, sstatus, irq, nodisc, reads, client>>

ClearStatus ==
  /\ arm = "status"
  /\ sstatus' = FALSE
  /\ arm' = IF StatusFirst THEN "ack" ELSE "fetch"
  /\ UNCHANGED <<mailbox, sregs, irq, nodisc, reads, client>>

Ack ==
  /\ arm = "ack"
  /\ control' = "empty"
  /\ arm' = IF StatusFirst THEN "fetch" ELSE "status"
  /\ UNCHANGED <<regs, sregs, sstatus, irq, nodisc, reads, client>>

(* DML copies the registers that are not 0xdeadbeef, EHCI waits for each.  *)
Fetch ==
  /\ arm = "fetch"
  /\ Build = "EHCI" => regs # EMPTY
  /\ sregs' = IF regs # EMPTY THEN regs ELSE sregs
  /\ regs' = EMPTY
  /\ arm' = "read"
  /\ UNCHANGED <<control, sstatus, irq, nodisc, reads, client>>

(* f_lseek and f_read of the game's file.                                  *)
Read ==
  /\ arm = "read"
  /\ reads' = [reads EXCEPT ![sregs] = @ + 1]
  /\ arm' = "complete"
  /\ UNCHANGED <<mailbox, sregs, sstatus, irq, nodisc, client>>

(* One of them fails: DML stops for good; EHCI returns to its main loop    *)
(* and reports nothing.                                                    *)
ReadFails ==
  /\ arm = "read"
  /\ arm' = IF Build = "DML" THEN "hang" ELSE "poll"
  /\ UNCHANGED <<mailbox, sregs, sstatus, irq, nodisc, reads, client>>

(* set32( DI_SSTATUS, 0x3A ); 0x10 in EHCI                                 *)
Complete ==
  /\ arm = "complete"
  /\ sstatus' = TRUE
  /\ arm' = IF Build = "DML" THEN "raise" ELSE "poll"
  /\ UNCHANGED <<mailbox, sregs, irq, nodisc, reads, client>>

(* Variant for a run: only with DML_CFG_NODISC.                            *)
Raise_NoDisc ==
  /\ arm = "raise"
  /\ irq' = (irq \/ nodisc)
  /\ arm' = "poll"
  /\ UNCHANGED <<mailbox, sregs, sstatus, nodisc, reads, client>>

(* Variant for a run: for every command.                                   *)
Raise_Always ==
  /\ arm = "raise"
  /\ irq' = TRUE
  /\ arm' = "poll"
  /\ UNCHANGED <<mailbox, sregs, sstatus, nodisc, reads, client>>

(* The IPC interrupt: for every command with DML_CFG_NODISC, else for 0xA7 *)
(* only, which is the command of a game.                                   *)
Raise ==
  /\ arm = "raise"
  /\ irq' = (irq \/ nodisc \/ program = "game")
  /\ arm' = "poll"
  /\ UNCHANGED <<mailbox, sregs, sstatus, nodisc, reads, client>>

ArmStep == Poll \/ ClearStatus \/ Ack \/ Fetch \/ Read \/ ReadFails \/ Complete \/ Raise
PpcStep == Ring \/ Ready \/ Take \/ Interrupt

Next == Post \/ PpcStep \/ Switch \/ ArmStep

(* The main loop runs for ever, a stub in progress is not abandoned, and   *)
(* the game takes its interrupts.                                          *)
Spec == Init /\ [][Next]_vars /\ WF_vars(ArmStep) /\ WF_vars(PpcStep)
-----------------------------------------------------------------------------
TypeOK ==
  /\ regs \in 0 .. MaxReq /\ sregs \in 0 .. MaxReq /\ cur \in 0 .. MaxReq
  /\ control \in {"empty", "go"}
  /\ sstatus \in BOOLEAN /\ irq \in BOOLEAN /\ nodisc \in BOOLEAN
  /\ arm \in {"poll", "status", "ack", "fetch", "read", "complete", "raise", "hang"}
  /\ program \in {"loader", "game"}
  /\ ppc \in {"idle", "posted", "ready", "wait", "flight"}
  /\ reads \in [Requests -> Nat]
  /\ ended \subseteq Requests

(* A program is told that a read is done only when the data is in its      *)
(* buffer, and f_read runs for it no second time (it would overwrite what  *)
(* the program made of the buffer): neither the status nor the interrupt   *)
(* of an earlier read is taken for that of the one under way.              *)
ReadIsComplete ==
  \A r \in Requests : reads[r] <= 1 /\ (r \in ended => reads[r] = 1)

(* Without DML_CFG_NODISC an interrupt is pending only for a game's read   *)
(* that is still under way and whose data is there: the stubs' reads,      *)
(* which are polled for, raise none (dip.c:272).                           *)
NoStrayInterrupt ==
  irq /\ ~nodisc => program = "game" /\ ppc = "flight" /\ sstatus /\ reads[cur] = 1

(* Every read ends, by the stub's spin loops or by the interrupt, unless   *)
(* the loader stopped because FatFs failed.                                *)
EveryReadReturns == ppc # "idle" ~> ppc = "idle" \/ arm = "hang"
=============================================================================
