----------------------------- MODULE CardMailbox -----------------------------
(***************************************************************************)
(* The memory-card mailbox at CARD_BASE (DML/Card.h): the game's patched   *)
(* CARD functions (the stubs of DML/asm/CARD*.S, run by the PPC) write a   *)
(* command, its arguments and CARD_CONTROL = 3, then spin; the loader's    *)
(* main loop (run by the ARM) polls CARD_CONTROL in CARDUpdateRegisters,   *)
(* copies the command into the shadow registers, serves it and raises bit  *)
(* 0x10 of CARD_SSTATUS.                                                   *)
(*                                                                         *)
(* The two processors share no lock.  Every access to a register the other *)
(* side may touch at that moment is a step of its own.  A register holds   *)
(* EMPTY (0xdeadbeef) or a word tagged with the request it belongs to, so  *)
(* that a stale word can be told from a fresh one.                         *)
(***************************************************************************)
EXTENDS Naturals, FiniteSets

CONSTANTS
  Kinds,       \* the CARD commands the game uses
  MaxReq,      \* bound: how many commands the game sends
  TableFills   \* whether all CARD_MAX_FILES entries of the table may be in use

AllKinds == {"Open", "FastOpen", "Close", "Create", "Delete",
             "Read", "Write", "GetStats", "SetStats"}

ASSUME MailboxAssumption ==
  /\ Kinds \subseteq AllKinds
  /\ MaxReq \in Nat \ {0}
  /\ TableFills \in BOOLEAN

VARIABLES
  cmd,      \* CARD_CMD: the kind of the request posted, or EMPTY
  args,     \* CARD_CMD_1 .. CARD_CMD_4
  control,  \* CARD_CONTROL: "empty" 0xdeadbeef, "cleared" 0xdeadbeee, "go" 3
  fname,    \* the file name area at 0x17E0
  scmd,     \* CARD_SCMD
  sargs,    \* CARD_SCMD_1 .. CARD_SCMD_4; the last one carries a file number back
  sreturn,  \* CARD_SRETURN
  sstatus,  \* bit 0x10 of CARD_SSTATUS
  arm,      \* where the ARM is in CARDUpdateRegisters
  ppc,      \* where the PPC is in the stub
  cur,      \* the request of the stub that runs, or ran last
  outer,    \* the request whose callback called the stub that runs, or NoCmd
  kindOf,   \* ghost: the kind of each request sent so far
  runs,     \* ghost: how often each request was served
  taken     \* ghost: what the last stub to finish handed to its caller

mailbox == <<cmd, args, control, fname>>
shadow  == <<scmd, sargs, sreturn, sstatus>>
stub    == <<ppc, cur, outer, taken>>
vars    == <<cmd, args, control, fname, scmd, sargs, sreturn, sstatus,
             arm, ppc, cur, outer, kindOf, runs, taken>>

Requests == 1 .. MaxReq
Args     == 1 .. 4
Word     == [src : {"none", "arg", "result", "garbage"}, req : 0 .. MaxReq]
EMPTY    == [src |-> "none", req |-> 0]
Arg(r)   == [src |-> "arg", req |-> r]
Result(r) == [src |-> "result", req |-> r]
Garbage  == [src |-> "garbage", req |-> 0]
Posted   == [kind : Kinds \cup {"none"}, req : 0 .. MaxReq]
NoCmd    == [kind |-> "none", req |-> 0]
-----------------------------------------------------------------------------
(* The stubs: which argument registers each writes, whether it copies a    *)
(* file name to 0x17E0, what it reads back (CARD_SRETURN; CARD_SCMD_4 as   *)
(* the file number), and whether it calls the callback it is given.        *)
CARDOpen     == [args |-> {1, 2}, name |-> TRUE, ret |-> TRUE, fileNo |-> TRUE, cb |-> FALSE]
CARDFastOpen == [args |-> {1, 2}, name |-> FALSE, ret |-> TRUE, fileNo |-> FALSE, cb |-> FALSE]
CARDClose    == [args |-> {1}, name |-> FALSE, ret |-> TRUE, fileNo |-> FALSE, cb |-> FALSE]
CARDCreate   == [args |-> {1, 2, 3}, name |-> TRUE, ret |-> TRUE, fileNo |-> TRUE, cb |-> TRUE]
CARDDelete   == [args |-> {1}, name |-> TRUE, ret |-> TRUE, fileNo |-> TRUE, cb |-> TRUE]
CARDRead_NoFileNo ==  \* variant for a run: the file number is not sent
                [args |-> 1 .. 3, name |-> FALSE, ret |-> FALSE, fileNo |-> FALSE, cb |-> TRUE]
CARDRead     == [args |-> 1 .. 4, name |-> FALSE, ret |-> FALSE, fileNo |-> FALSE, cb |-> TRUE]
CARDWrite    == [args |-> 1 .. 4, name |-> FALSE, ret |-> FALSE, fileNo |-> FALSE, cb |-> TRUE]
CARDGetStats == [args |-> {1, 2}, name |-> FALSE, ret |-> TRUE, fileNo |-> FALSE, cb |-> FALSE]
CARDSetStats == [args |-> {1, 2}, name |-> FALSE, ret |-> FALSE, fileNo |-> FALSE, cb |-> TRUE]

Stub(k) ==
  CASE k = "Open"     -> CARDOpen
    [] k = "FastOpen" -> CARDFastOpen
    [] k = "Close"    -> CARDClose
    [] k = "Create"   -> CARDCreate
    [] k = "Delete"   -> CARDDelete
    [] k = "Read"     -> CARDRead
    [] k = "Write"    -> CARDWrite
    [] k = "GetStats" -> CARDGetStats
    [] k = "SetStats" -> CARDSetStats

(* The shadow registers the ARM's handler of a command looks at.           *)
HandlerReads(k) ==
  CASE k = "Open"     -> {2}
    [] k = "FastOpen" -> {1, 2}
    [] k = "Close"    -> {1}
    [] k = "Create"   -> {2, 3}
    [] k = "Delete"   -> {}
    [] k \in {"Read", "Write"} -> 1 .. 4
    [] k \in {"GetStats", "SetStats"} -> {1, 2}

(* The commands whose handler ends by clearing bit 0 of CARD_CONTROL; every *)
(* other handler clears it in CARD_SCONTROL.                               *)
ClearsControl == {"Open", "FastOpen"}

(* CardInit: the registers hold 0xdeadbeef, their shadows 0.               *)
Init ==
  /\ cmd = NoCmd /\ args = [i \in Args |-> EMPTY] /\ control = "empty"
  /\ fname = 0
  /\ scmd = NoCmd /\ sargs = [i \in Args |-> EMPTY]
  /\ sreturn = EMPTY /\ sstatus = FALSE
  /\ arm = "poll" /\ ppc = "idle" /\ cur = NoCmd /\ outer = NoCmd
  /\ kindOf = [r \in Requests |-> "none"]
  /\ runs = [r \in Requests |-> 0]
  /\ taken = [req |-> 0, ret |-> EMPTY, file |-> EMPTY, cb |-> FALSE]
-----------------------------------------------------------------------------
(* The PPC.                                                                *)

(* The game calls a stub, from its own code or from the callback of        *)
(* another stub (bound: one deep).  The stub writes the command, its       *)
(* arguments and the file name: the ARM looks at none of them before       *)
(* CARD_CONTROL is set.                                                    *)
IsNext(r) == \A q \in Requests : kindOf[q] = "none" <=> q >= r

Post(k) ==
  /\ \/ ppc = "idle" /\ outer' = NoCmd
     \/ ppc = "callback" /\ outer = NoCmd /\ outer' = cur
  /\ \E r \in Requests :
       /\ IsNext(r)
       /\ cur' = [kind |-> k, req |-> r]
       /\ kindOf' = [kindOf EXCEPT ![r] = k]
       /\ cmd' = [kind |-> k, req |-> r]
       /\ args' = [i \in Args |-> IF i \in Stub(k).args THEN Arg(r) ELSE args[i]]
       /\ fname' = IF Stub(k).name THEN r ELSE fname
  /\ ppc' = "posted"
  /\ UNCHANGED <<control, shadow, arm, runs, taken>>

(* stw 3, CARD_CONTROL                                                     *)
Ring ==
  /\ ppc = "posted"
  /\ control' = "go"
  /\ ppc' = "ready"
  /\ UNCHANGED <<cmd, args, fname, shadow, arm, cur, outer, kindOf, runs, taken>>

(* ready_loop ends once CARD_CONTROL is not 3 any more.                    *)
Ready ==
  /\ ppc = "ready" /\ control # "go"
  /\ ppc' = "wait"
  /\ UNCHANGED <<mailbox, shadow, arm, cur, outer, kindOf, runs, taken>>

(* The stub returns to its caller: the game's code, or the callback that   *)
(* called it.                                                              *)
Return ==
  /\ ppc' = IF outer = NoCmd THEN "idle" ELSE "callback"
  /\ cur' = IF outer = NoCmd THEN cur ELSE outer
  /\ outer' = NoCmd

(* wait_loop ends on bits 0x14 of CARD_SSTATUS (nobody sets 0x04 here).    *)
(* Then the stub reads the file number, and runs the callback if it is one *)
(* that does and the game gave it one; else it reads the result.           *)
Take ==
  /\ ppc = "wait" /\ sstatus
  /\ \E cb \in BOOLEAN :
       /\ cb => Stub(cur.kind).cb
       /\ taken' = [req  |-> cur.req,
                    ret  |-> IF Stub(cur.kind).ret /\ ~cb THEN sreturn ELSE EMPTY,
                    file |-> IF Stub(cur.kind).fileNo THEN sargs[4] ELSE EMPTY,
                    cb   |-> cb]
       /\ IF cb THEN ppc' = "callback" /\ UNCHANGED <<cur, outer>> ELSE Return
  /\ UNCHANGED <<mailbox, shadow, arm, kindOf, runs>>

(* The callback returns.  CARDCreate and CARDDelete then read CARD_SRETURN *)
(* through r7, which the callback was free to overwrite.                   *)
CallbackReturns ==
  /\ ppc = "callback"
  /\ \E w \in {sreturn, Garbage} :
       taken' = [req  |-> cur.req,
                 ret  |-> IF Stub(cur.kind).ret THEN w ELSE EMPTY,
                 file |-> IF taken.req = cur.req THEN taken.file ELSE EMPTY,
                 cb   |-> TRUE]
  /\ Return
  /\ UNCHANGED <<mailbox, shadow, arm, kindOf, runs>>
-----------------------------------------------------------------------------
(* The ARM: one call of CARDUpdateRegisters from the main loop.            *)

ArmOnly == UNCHANGED <<fname, stub, kindOf>>

(* if( read32(CARD_CONTROL) != 0xdeadbeef )                                *)
Poll ==
  /\ arm = "poll" /\ control # "empty"
  /\ arm' = "check"
  /\ UNCHANGED <<cmd, args, control, shadow, runs>> /\ ArmOnly

(* if( read32( CARD_CONTROL ) & (~3) ): a second read of the register.     *)
Check ==
  /\ arm = "check"
  /\ arm' = IF control = "go" THEN "accept" ELSE "drop"
  /\ UNCHANGED <<cmd, args, control, shadow, runs>> /\ ArmOnly

(* write32( CARD_CONTROL, 0xdeadbeef ); return;                            *)
Drop ==
  /\ arm = "drop"
  /\ control' = "empty"
  /\ arm' = "poll"
  /\ UNCHANGED <<cmd, args, shadow, runs>> /\ ArmOnly

(* Variant for a run: the old status survives.                             *)
Accept_KeepsStatus ==
  /\ arm = "accept"
  /\ arm' = "ack"
  /\ UNCHANGED <<cmd, args, control, shadow, runs>> /\ ArmOnly

(* clear32( CARD_SSTATUS, 0x14 ), before CARD_CONTROL is given back: the   *)
(* PPC leaves its first loop only after the old status is gone.            *)
Accept ==
  /\ arm = "accept"
  /\ sstatus' = FALSE
  /\ arm' = "ack"
  /\ UNCHANGED <<cmd, args, control, scmd, sargs, sreturn, runs>> /\ ArmOnly

(* write32( CARD_CONTROL, 0xdeadbeef )                                     *)
Ack ==
  /\ arm = "ack"
  /\ control' = "empty"
  /\ arm' = "fetch"
  /\ UNCHANGED <<cmd, args, shadow, runs>> /\ ArmOnly

(* The command and the first argument are waited for; the other arguments  *)
(* are copied if they are there, else their shadows keep the old word.     *)
(* What is copied is reset to 0xdeadbeef.                                  *)
Fetch ==
  /\ arm = "fetch"
  /\ cmd # NoCmd /\ args[1] # EMPTY
  /\ scmd' = cmd
  /\ cmd' = NoCmd
  /\ sargs' = [i \in Args |-> IF args[i] # EMPTY THEN args[i] ELSE sargs[i]]
  /\ args' = [i \in Args |-> EMPTY]
  /\ arm' = "serve"
  /\ UNCHANGED <<control, sreturn, sstatus, runs>> /\ ArmOnly

(* What a handler leaves in CARD_SRETURN and, as a file number, in         *)
(* CARD_SCMD_4.  CardOpenFile writes both whatever happens; CardCreateFile *)
(* writes only the result when the name is in the table already, both when *)
(* it creates the file or finds an orphan of that name, and nothing at all *)
(* when the table is full.                                                 *)
Outcomes(k) ==
  CASE k = "Open"   -> {[ret |-> TRUE, fileNo |-> TRUE]}
    [] k = "Create" -> {[ret |-> TRUE, fileNo |-> FALSE], [ret |-> TRUE, fileNo |-> TRUE]}
                         \cup {o \in {[ret |-> FALSE, fileNo |-> FALSE]} : TableFills}
    [] OTHER        -> {[ret |-> TRUE, fileNo |-> FALSE]}

Serve ==
  /\ arm = "serve"
  /\ \E o \in Outcomes(scmd.kind) :
       /\ sreturn' = IF o.ret THEN Result(scmd.req) ELSE sreturn
       /\ sargs' = [sargs EXCEPT ![4] = IF o.fileNo THEN Result(scmd.req) ELSE @]
  /\ runs' = [runs EXCEPT ![scmd.req] = @ + 1]
  /\ arm' = "clear"
  /\ UNCHANGED <<cmd, args, control, scmd, sstatus>> /\ ArmOnly

(* Variant for a run: every handler clears CARD_CONTROL.                   *)
ClearGo_Always ==
  /\ arm = "clear"
  /\ control' = "cleared"
  /\ arm' = "finish"
  /\ UNCHANGED <<cmd, args, shadow, runs>> /\ ArmOnly

(* CARDOpen and CARDFastOpen: while( read32(CARD_CONTROL) & 1 )            *)
(* clear32( CARD_CONTROL, 1 ), which turns 0xdeadbeef into 0xdeadbeee.     *)
(* The other handlers do it to CARD_SCONTROL, which nobody reads.          *)
ClearGo ==
  /\ arm = "clear"
  /\ control' = IF scmd.kind \in ClearsControl THEN "cleared" ELSE control
  /\ arm' = "finish"
  /\ UNCHANGED <<cmd, args, shadow, runs>> /\ ArmOnly

(* Variant for a run: the handler reports nothing, as that of 0x00.        *)
Finish_Silent ==
  /\ arm = "finish"
  /\ arm' = "poll"
  /\ UNCHANGED <<cmd, args, control, shadow, runs>> /\ ArmOnly

(* set32( CARD_SSTATUS, 0x10 )                                             *)
Finish ==
  /\ arm = "finish"
  /\ sstatus' = TRUE
  /\ arm' = "poll"
  /\ UNCHANGED <<cmd, args, control, scmd, sargs, sreturn, runs>> /\ ArmOnly

ArmStep == Poll \/ Check \/ Drop \/ Accept \/ Ack \/ Fetch \/ Serve \/ ClearGo \/ Finish
StubStep == Ring \/ Ready \/ Take \/ CallbackReturns

Next == (\E k \in Kinds : Post(k)) \/ StubStep \/ ArmStep

(* The main loop runs for ever, a stub in progress is never abandoned and  *)
(* a callback ends; the game need not call another stub.                   *)
Spec == Init /\ [][Next]_vars /\ WF_vars(ArmStep) /\ WF_vars(StubStep)
-----------------------------------------------------------------------------
TypeOK ==
  /\ cmd \in Posted /\ scmd \in Posted /\ cur \in Posted /\ outer \in Posted
  /\ args \in [Args -> Word] /\ sargs \in [Args -> Word]
  /\ sreturn \in Word
  /\ control \in {"empty", "cleared", "go"}
  /\ fname \in 0 .. MaxReq
  /\ sstatus \in BOOLEAN
  /\ arm \in {"poll", "check", "drop", "accept", "ack", "fetch", "serve", "clear", "finish"}
  /\ ppc \in {"idle", "posted", "ready", "wait", "callback"}
  /\ kindOf \in [Requests -> Kinds \cup {"none"}]
  /\ runs \in [Requests -> Nat]
  /\ taken \in [req : 0 .. MaxReq, ret : Word, file : Word, cb : BOOLEAN]

(* When a handler starts, the command and every shadow register it looks   *)
(* at come from the stub that is waiting for it, and so does the file      *)
(* name: no argument is left over from an earlier command, although        *)
(* registers that hold 0xdeadbeef are not copied (Card.c:448-472).         *)
ServedAsSent ==
  arm = "serve" =>
    /\ scmd = cur
    /\ \A i \in HandlerReads(scmd.kind) : sargs[i] = Arg(cur.req)
    /\ Stub(scmd.kind).name => fname = cur.req

(* The way back: the file number CARDOpen hands to the game was written by *)
(* CardOpenFile for this very call; it is never the number a Read or a     *)
(* Write left in the same register.  Only a lost Open has neither its      *)
(* number nor its result.                                                  *)
OpenFileNo ==
  ppc = "idle" /\ cur.kind = "Open" =>
    \/ taken.file = Result(cur.req)
    \/ runs[cur.req] = 0 /\ taken.ret # Result(cur.req)

(* Both ways no register that the two sides share shows the other side     *)
(* what another command left in it (Card.c:427-749, asm/CARDOpen.S).       *)
RegistersAreOwn == ServedAsSent /\ OpenFileNo

(* A request whose stub is past its spin loops.                            *)
Answered(r) ==
  kindOf[r] # "none" /\ ~(r = cur.req /\ ppc \in {"posted", "ready", "wait"})

(* No command is served twice, and one that its stub stopped waiting for   *)
(* was served, unless it came right behind an Open or a FastOpen, whose    *)
(* handler leaves 0xdeadbeee in CARD_CONTROL (Card.c:499-500, 670-671):    *)
(* the poll that tidies this up may erase the next command's 3.            *)
ServedOnce ==
  \A r \in Requests :
    /\ runs[r] <= 1
    /\ Answered(r) /\ runs[r] = 0 => r > 1 /\ kindOf[r - 1] \in ClearsControl

(* The stub a game calls returns the outcome of that call: its command was *)
(* served exactly once, and the result it read was written for it.  (A     *)
(* stub that ran a callback promises only the first: the callback may send *)
(* commands of its own, or spoil the address the result is read through.)  *)
ResultsOwn ==
  /\ \A r \in Requests : Answered(r) => runs[r] = 1
  /\ ppc = "idle" /\ cur # NoCmd =>
       /\ taken.req = cur.req
       /\ ~taken.cb =>
            /\ sreturn = Result(cur.req)
            /\ Stub(cur.kind).ret => taken.ret = Result(cur.req)

(* So it is as long as no Open or FastOpen was sent, whose handlers leave  *)
(* 0xdeadbeee in CARD_CONTROL, and no Create may have found the table      *)
(* full, which it does not report (Card.c:230).                            *)
ResultIsOwn ==
  (\A r \in Requests : kindOf[r] \notin ClearsControl /\ (TableFills => kindOf[r] # "Create"))
    => ResultsOwn

(* What the stubs' comment "#send cmd to DM" (CARDWrite.S:16) says of a    *)
(* command: that the loader gets it.  Checked on its own, with Open in     *)
(* play: the loader may never see the command behind an Open.              *)
EverySentCommandIsServed == \A r \in Requests : Answered(r) => runs[r] = 1

(* Both of a stub's spin loops end.                                        *)
EveryCallReturns == ppc # "idle" ~> ppc = "idle"
=============================================================================
