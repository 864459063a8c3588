--------------------------- MODULE DIMailboxProofs ---------------------------
(***************************************************************************)
(* Proofs about the DVD mailbox, for any number of reads, by loaders and   *)
(* games in turn.  They are about the DML build: in the EHCI build         *)
(* ReadIsComplete is false, as the DIMailbox_ehci run shows.               *)
(*                                                                         *)
(* ReadIsComplete alone is not inductive.  Phase says where the ARM can be *)
(* while the program on the PPC is at a given place of its read; Progress  *)
(* what that read has been through by then; Counted that later reads are   *)
(* untouched.  What carries the argument is that ARM clears the status     *)
(* before DI_CONTROL: a program that sees DI_CONTROL go sees no old        *)
(* status.                                                                 *)
(***************************************************************************)
EXTENDS DIMailbox, TLAPS

(* A read under way has a number: without it TypeOK is not inductive, for  *)
(* Take adds the number to the reads reported.                             *)
Typed == TypeOK /\ (ppc # "idle" => cur # EMPTY)

(* DIInit leaves every register in its type.                               *)
LEMMA TypeInit == Init => Typed
<1> SUFFICES ASSUME Init PROVE Typed OBVIOUS
<1> USE DIAssumption DEF Init, EMPTY, Requests
<1>1. nodisc \in BOOLEAN OBVIOUS
<1>2. regs \in 0 .. MaxReq /\ sregs \in 0 .. MaxReq /\ cur \in 0 .. MaxReq OBVIOUS
<1>3. reads \in [Requests -> Nat] OBVIOUS
<1> QED BY <1>1, <1>2, <1>3 DEF TypeOK, Typed

(* No step of either processor takes a register out of its type.           *)
LEMMA TypeNext == Typed /\ [Next]_vars => Typed'
<1> SUFFICES ASSUME Typed, [Next]_vars PROVE Typed' OBVIOUS
<1> USE DIAssumption DEF Typed, TypeOK, mailbox, client
<1>1. CASE Post BY <1>1 DEF Post, EMPTY
<1>2. CASE Ring BY <1>2 DEF Ring
<1>3. CASE Ready BY <1>3 DEF Ready
<1>4. CASE Take
  <2>1. ended' \subseteq Requests
    BY <1>4 DEF Take, Requests, EMPTY
  <2> QED BY <1>4, <2>1 DEF Take
<1>5. CASE Interrupt
  <2>1. \/ ppc = "flight" /\ ended' = ended \cup {cur} /\ ppc' = "idle"
        \/ ended' = ended /\ ppc' = ppc
    BY <1>5 DEF Interrupt
  <2>2. cur \in 1 .. MaxReq \/ ppc = "idle"
    BY DEF EMPTY
  <2>3. ended' \subseteq Requests
    BY <2>1, <2>2 DEF Requests, EMPTY
  <2> QED BY <1>5, <2>1, <2>3 DEF Interrupt
<1>6. CASE Switch BY <1>6 DEF Switch
<1>7. CASE Poll BY <1>7 DEF Poll
<1>8. CASE ClearStatus BY <1>8 DEF ClearStatus
<1>9. CASE Ack BY <1>9 DEF Ack
<1>10. CASE Fetch BY <1>10 DEF Fetch, EMPTY
<1>11. CASE Read
  <2>1. reads' \in [Requests -> Nat]
    <3>1. reads' = [reads EXCEPT ![sregs] = @ + 1] BY <1>11 DEF Read
    <3>2. \A r \in Requests : reads[r] + 1 \in Nat OBVIOUS
    <3> QED BY <3>1, <3>2
  <2> QED BY <1>11, <2>1 DEF Read
<1>12. CASE ReadFails BY <1>12 DEF ReadFails
<1>13. CASE Complete BY <1>13 DEF Complete
<1>14. CASE Raise BY <1>14 DEF Raise
<1>15. CASE UNCHANGED vars BY <1>15 DEF vars
<1> QED
  BY <1>1, <1>2, <1>3, <1>4, <1>5, <1>6, <1>7, <1>8, <1>9, <1>10, <1>11, <1>12,
     <1>13, <1>14, <1>15
  DEF Next, PpcStep, ArmStep

(* The registers at DI_BASE and every program counter keep their types.    *)
THEOREM DITypes == Spec => []TypeOK
<1>1. Typed => TypeOK BY DEF Typed
<1> QED BY TypeInit, TypeNext, <1>1, PTL DEF Spec
-----------------------------------------------------------------------------
(* Where each processor can be while the other is at a given place.        *)
Phase ==
  /\ control = "go" => ppc \in {"ready", "flight"}
  /\ arm \in {"status", "ack"} => control = "go"
  /\ arm \in {"fetch", "read", "complete", "hang"} =>
       control = "empty" /\ ppc \in {"ready", "wait", "flight"}
  /\ arm \in {"ack", "fetch", "read", "complete", "hang"} => ~sstatus
  /\ ppc = "wait" => control = "empty"
  /\ ppc \in {"ready", "wait"} => program = "loader"
  /\ ppc = "flight" => program = "game"

(* The read under way has been answered.                                   *)
Answered ==
  /\ ppc \in {"ready", "wait", "flight"} /\ control = "empty"
  /\ arm \in {"poll", "raise"}

(* What the read under way has been through by then.                       *)
Progress ==
  /\ ppc = "posted" \/ control = "go" \/ arm = "fetch" => regs = cur
  /\ ppc = "posted" \/ control = "go" \/ arm \in {"fetch", "read"} => reads[cur] = 0
  /\ arm = "read" => sregs = cur
  /\ arm = "complete" => reads[cur] = 1
  /\ Answered => reads[cur] = 1 /\ sstatus

(* The reads not yet posted.                                               *)
Counted == \A r \in Requests : r > cur => reads[r] = 0 /\ r \notin ended

(* When the interrupt can be pending, and when it can still come.          *)
Pending ==
  /\ program = "game" /\ irq => ppc = "flight" /\ control = "empty" /\ arm = "poll"
  /\ program = "loader" /\ irq => nodisc
  /\ program = "game" /\ arm = "raise" => ppc = "flight" /\ control = "empty"

Order == Phase /\ Progress /\ Counted /\ Pending /\ ReadIsComplete

(* The order holds after DIInit.                                           *)
LEMMA OrderInit == Init => Order
<1> SUFFICES ASSUME Init PROVE Order OBVIOUS
<1> USE DIAssumption DEF Init, Requests, EMPTY
<1>1. Phase BY DEF Phase
<1>2. Progress BY DEF Progress, Answered
<1>3. Counted BY DEF Counted
<1>4. Pending BY DEF Pending
<1>5. ReadIsComplete BY DEF ReadIsComplete
<1> QED BY <1>1, <1>2, <1>3, <1>4, <1>5 DEF Order

(* Every step of the two processors keeps it.                              *)
LEMMA OrderNext == Build = "DML" /\ Typed /\ Order /\ [Next]_vars => Order'
<1> SUFFICES ASSUME Build = "DML", Typed, Order, [Next]_vars PROVE Order'
  OBVIOUS
<1> USE DIAssumption DEF Order, Typed, TypeOK, mailbox, client, Requests, EMPTY, StatusFirst
<1>1. CASE Post
  <2> USE <1>1 DEF Post
  <2>1. Phase' BY DEF Phase
  <2>2. Progress' BY DEF Progress, Answered, Phase, Counted
  <2>3. Counted' BY DEF Counted, Progress, Phase
  <2>4. Pending' BY DEF Pending, Phase
  <2>5. ReadIsComplete' BY DEF ReadIsComplete, Progress, Answered, Phase
  <2> QED BY <2>1, <2>2, <2>3, <2>4, <2>5
<1>2. CASE Ring
  <2> USE <1>2 DEF Ring
  <2>1. Phase' BY DEF Phase
  <2>2. Progress' BY DEF Progress, Answered, Phase, Counted
  <2>3. Counted' BY DEF Counted, Progress, Phase
  <2>4. Pending' BY DEF Pending, Phase
  <2>5. ReadIsComplete' BY DEF ReadIsComplete, Progress, Answered, Phase
  <2> QED BY <2>1, <2>2, <2>3, <2>4, <2>5
<1>3. CASE Ready
  <2> USE <1>3 DEF Ready
  <2>1. Phase' BY DEF Phase
  <2>2. Progress' BY DEF Progress, Answered, Phase, Counted
  <2>3. Counted' BY DEF Counted, Progress, Phase
  <2>4. Pending' BY DEF Pending, Phase
  <2>5. ReadIsComplete' BY DEF ReadIsComplete, Progress, Answered, Phase
  <2> QED BY <2>1, <2>2, <2>3, <2>4, <2>5
<1>4. CASE Take
  <2> USE <1>4 DEF Take
  <2>1. Phase' BY DEF Phase
  <2>2. Progress' BY DEF Progress, Answered, Phase, Counted
  <2>3. Counted' BY DEF Counted, Progress, Phase
  <2>4. Pending' BY DEF Pending, Phase
  <2>5. ReadIsComplete' BY DEF ReadIsComplete, Progress, Answered, Phase
  <2> QED BY <2>1, <2>2, <2>3, <2>4, <2>5
<1>5. CASE Interrupt
  <2>1. /\ program = "game" /\ irq /\ ~irq'
        /\ UNCHANGED <<mailbox, sregs, sstatus, nodisc, arm, program, cur, reads>>
    BY <1>5 DEF Interrupt
  <2>2. ppc = "flight" /\ control = "empty" /\ arm = "poll"
    BY <2>1 DEF Pending
  <2>3. reads[cur] = 1 /\ sstatus
    BY <2>2 DEF Progress, Answered
  <2>4. ended' = ended \cup {cur} /\ ppc' = "idle"
    BY <1>5, <2>2, <2>3 DEF Interrupt
  <2>5. Phase' BY <2>1, <2>2, <2>4 DEF Phase
  <2>6. Progress' BY <2>1, <2>2, <2>4 DEF Progress, Answered
  <2>7. Counted' BY <2>1, <2>4 DEF Counted
  <2>8. Pending' BY <2>1, <2>2 DEF Pending
  <2>9. ReadIsComplete' BY <2>1, <2>3, <2>4 DEF ReadIsComplete
  <2> QED BY <2>5, <2>6, <2>7, <2>8, <2>9
<1>6. CASE Switch
  <2> USE <1>6 DEF Switch
  <2>1. Phase' BY DEF Phase
  <2>2. Progress' BY DEF Progress, Answered, Phase, Counted
  <2>3. Counted' BY DEF Counted, Progress, Phase
  <2>4. Pending' BY DEF Pending, Phase
  <2>5. ReadIsComplete' BY DEF ReadIsComplete, Progress, Answered, Phase
  <2> QED BY <2>1, <2>2, <2>3, <2>4, <2>5
<1>7. CASE Poll
  <2> USE <1>7 DEF Poll
  <2>1. Phase' BY DEF Phase
  <2>2. Progress' BY DEF Progress, Answered, Phase, Counted
  <2>3. Counted' BY DEF Counted, Progress, Phase
  <2>4. Pending' BY DEF Pending, Phase
  <2>5. ReadIsComplete' BY DEF ReadIsComplete, Progress, Answered, Phase
  <2> QED BY <2>1, <2>2, <2>3, <2>4, <2>5
<1>8. CASE ClearStatus
  <2> USE <1>8 DEF ClearStatus
  <2>1. Phase' BY DEF Phase
  <2>2. Progress' BY DEF Progress, Answered, Phase, Counted
  <2>3. Counted' BY DEF Counted, Progress, Phase
  <2>4. Pending' BY DEF Pending, Phase
  <2>5. ReadIsComplete' BY DEF ReadIsComplete, Progress, Answered, Phase
  <2> QED BY <2>1, <2>2, <2>3, <2>4, <2>5
<1>9. CASE Ack
  <2> USE <1>9 DEF Ack
  <2>1. Phase' BY DEF Phase
  <2>2. Progress' BY DEF Progress, Answered, Phase, Counted
  <2>3. Counted' BY DEF Counted, Progress, Phase
  <2>4. Pending' BY DEF Pending, Phase
  <2>5. ReadIsComplete' BY DEF ReadIsComplete, Progress, Answered, Phase
  <2> QED BY <2>1, <2>2, <2>3, <2>4, <2>5
<1>10. CASE Fetch
  <2> USE <1>10 DEF Fetch
  <2>1. Phase' BY DEF Phase
  <2>2. Progress' BY DEF Progress, Answered, Phase, Counted
  <2>3. Counted' BY DEF Counted, Progress, Phase
  <2>4. Pending' BY DEF Pending, Phase
  <2>5. ReadIsComplete' BY DEF ReadIsComplete, Progress, Answered, Phase
  <2> QED BY <2>1, <2>2, <2>3, <2>4, <2>5
<1>11. CASE Read
  <2> USE <1>11 DEF Read
  <2>1. Phase' BY DEF Phase
  <2>2. Progress' BY DEF Progress, Answered, Phase, Counted
  <2>3. Counted' BY DEF Counted, Progress, Phase
  <2>4. Pending' BY DEF Pending, Phase
  <2>5. ReadIsComplete' BY DEF ReadIsComplete, Progress, Answered, Phase
  <2> QED BY <2>1, <2>2, <2>3, <2>4, <2>5
<1>12. CASE ReadFails
  <2> USE <1>12 DEF ReadFails
  <2>1. Phase' BY DEF Phase
  <2>2. Progress' BY DEF Progress, Answered, Phase, Counted
  <2>3. Counted' BY DEF Counted, Progress, Phase
  <2>4. Pending' BY DEF Pending, Phase
  <2>5. ReadIsComplete' BY DEF ReadIsComplete, Progress, Answered, Phase
  <2> QED BY <2>1, <2>2, <2>3, <2>4, <2>5
<1>13. CASE Complete
  <2> USE <1>13 DEF Complete
  <2>1. Phase' BY DEF Phase
  <2>2. Progress' BY DEF Progress, Answered, Phase, Counted
  <2>3. Counted' BY DEF Counted, Progress, Phase
  <2>4. Pending' BY DEF Pending, Phase
  <2>5. ReadIsComplete' BY DEF ReadIsComplete, Progress, Answered, Phase
  <2> QED BY <2>1, <2>2, <2>3, <2>4, <2>5
<1>14. CASE Raise
  <2> USE <1>14 DEF Raise
  <2>1. Phase' BY DEF Phase
  <2>2. Progress' BY DEF Progress, Answered, Phase, Counted
  <2>3. Counted' BY DEF Counted, Progress, Phase
  <2>4. Pending' BY DEF Pending, Phase
  <2>5. ReadIsComplete' BY DEF ReadIsComplete, Progress, Answered, Phase
  <2> QED BY <2>1, <2>2, <2>3, <2>4, <2>5
<1>15. CASE UNCHANGED vars
  BY <1>15 DEF vars, Phase, Progress, Answered, Counted, Pending, ReadIsComplete
<1> QED
  BY <1>1, <1>2, <1>3, <1>4, <1>5, <1>6, <1>7, <1>8, <1>9, <1>10, <1>11, <1>12,
     <1>13, <1>14, <1>15
  DEF Next, PpcStep, ArmStep

(* In the DML build a program is told that its read is done only when the  *)
(* data is there, and DIUpdateRegisters serves no read twice.              *)
THEOREM ReadsAreComplete == Build = "DML" => (Spec => []ReadIsComplete)
<1> SUFFICES ASSUME Build = "DML" PROVE Spec => []ReadIsComplete
  OBVIOUS
<1>1. Typed /\ Order => ReadIsComplete BY DEF Order
<1>2. Typed /\ Order /\ [Next]_vars => (Typed /\ Order)'
  BY TypeNext, OrderNext
<1> QED BY TypeInit, OrderInit, <1>1, <1>2, PTL DEF Spec

(* In the DML build, without DML_CFG_NODISC, the IPC interrupt is pending  *)
(* only for a game's read that is under way and whose data is there.       *)
THEOREM NoInterruptIsStray == Build = "DML" => (Spec => []NoStrayInterrupt)
<1> SUFFICES ASSUME Build = "DML" PROVE Spec => []NoStrayInterrupt
  OBVIOUS
<1>1. Typed /\ Order => NoStrayInterrupt
  BY DEF Order, Typed, TypeOK, Pending, Progress, Answered, NoStrayInterrupt
<1>2. Typed /\ Order /\ [Next]_vars => (Typed /\ Order)'
  BY TypeNext, OrderNext
<1> QED BY TypeInit, OrderInit, <1>1, <1>2, PTL DEF Spec
=============================================================================
