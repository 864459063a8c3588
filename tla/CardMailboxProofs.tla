-------------------------- MODULE CardMailboxProofs --------------------------
(***************************************************************************)
(* Proofs about the card mailbox, for any number of requests and any set   *)
(* of commands, CARDOpen and CARDFastOpen and a full table included.       *)
(*                                                                         *)
(* The argument is a rendezvous: Phase says where each processor can be    *)
(* while the other is at a given place, Registers that the registers hold  *)
(* the running stub's words until its handler has ended, Through what its  *)
(* request has been through by then.  CARD_CONTROL = 3 is seen only by a   *)
(* stub in its first loop, so that Accept lowers the status before the     *)
(* stub can look at it, and the status rises again only after the handler  *)
(* has written the result.  The one way round the rendezvous is the word   *)
(* 0xdeadbeee an Open leaves in CARD_CONTROL: while it is there, the last  *)
(* command sent is an Open that was served, or the one right behind it.    *)
(***************************************************************************)
EXTENDS CardMailbox, TLAPS

(* The values registers, commands and requests range over.                 *)
LEMMA Values ==
  /\ EMPTY \in Word /\ Garbage \in Word
  /\ \A r \in 0 .. MaxReq : Arg(r) \in Word /\ Result(r) \in Word
  /\ NoCmd \in Posted
  /\ \A k \in Kinds, r \in 0 .. MaxReq : [kind |-> k, req |-> r] \in Posted
  /\ Requests \subseteq 0 .. MaxReq
  /\ \A c \in Posted : c.req \in 0 .. MaxReq /\ c.kind \in Kinds \cup {"none"}
<1> USE MailboxAssumption
<1>1. EMPTY \in Word /\ Garbage \in Word BY DEF EMPTY, Garbage, Word
<1>2. \A r \in 0 .. MaxReq : Arg(r) \in Word /\ Result(r) \in Word BY DEF Arg, Result, Word
<1>3. NoCmd \in Posted BY DEF NoCmd, Posted
<1>4. \A k \in Kinds, r \in 0 .. MaxReq : [kind |-> k, req |-> r] \in Posted BY DEF Posted
<1>5. Requests \subseteq 0 .. MaxReq BY DEF Requests
<1>6. \A c \in Posted : c.req \in 0 .. MaxReq /\ c.kind \in Kinds \cup {"none"} BY DEF Posted
<1> QED BY <1>1, <1>2, <1>3, <1>4, <1>5, <1>6

(* CardInit leaves every register in its type.                             *)
LEMMA TypeInit == Init => TypeOK
<1> SUFFICES ASSUME Init PROVE TypeOK OBVIOUS
<1> USE MailboxAssumption, Values DEF Init
<1>1. cmd \in Posted /\ scmd \in Posted /\ cur \in Posted /\ outer \in Posted OBVIOUS
<1>2. args \in [Args -> Word] /\ sargs \in [Args -> Word] OBVIOUS
<1>3. taken \in [req : 0 .. MaxReq, ret : Word, file : Word, cb : BOOLEAN] OBVIOUS
<1>4. runs \in [Requests -> Nat] /\ kindOf \in [Requests -> Kinds \cup {"none"}] OBVIOUS
<1> QED BY <1>1, <1>2, <1>3, <1>4 DEF TypeOK

(* No step of either processor takes a register out of its type.           *)
LEMMA TypeNext == TypeOK /\ [Next]_vars => TypeOK'
<1> SUFFICES ASSUME TypeOK, [Next]_vars PROVE TypeOK'
  OBVIOUS
<1> USE MailboxAssumption, Values DEF TypeOK, mailbox, shadow, stub
<1>1. ASSUME NEW k \in Kinds, Post(k) PROVE TypeOK'
  BY <1>1 DEF Post
<1>2. CASE Ring BY <1>2 DEF Ring
<1>3. CASE Ready BY <1>3 DEF Ready
<1>4. CASE Take
  <2> PICK cb \in BOOLEAN :
       /\ taken' = [req  |-> cur.req,
                    ret  |-> IF Stub(cur.kind).ret /\ ~cb THEN sreturn ELSE EMPTY,
                    file |-> IF Stub(cur.kind).fileNo THEN sargs[4] ELSE EMPTY,
                    cb   |-> cb]
       /\ IF cb THEN ppc' = "callback" /\ UNCHANGED <<cur, outer>> ELSE Return
    BY <1>4 DEF Take
  <2>1. sargs[4] \in Word BY DEF Args
  <2>2. taken' \in [req : 0 .. MaxReq, ret : Word, file : Word, cb : BOOLEAN]
    BY <2>1
  <2>3. cur' \in Posted /\ outer' \in Posted
    BY DEF Return
  <2>4. ppc' \in {"idle", "callback"}
    BY DEF Return
  <2> QED BY <1>4, <2>2, <2>3, <2>4 DEF Take
<1>5. CASE CallbackReturns
  <2> PICK w \in {sreturn, Garbage} :
       taken' = [req  |-> cur.req,
                 ret  |-> IF Stub(cur.kind).ret THEN w ELSE EMPTY,
                 file |-> IF taken.req = cur.req THEN taken.file ELSE EMPTY,
                 cb   |-> TRUE]
    BY <1>5 DEF CallbackReturns
  <2>1. taken' \in [req : 0 .. MaxReq, ret : Word, file : Word, cb : BOOLEAN]
    OBVIOUS
  <2> QED BY <1>5, <2>1 DEF CallbackReturns, Return
<1>6. CASE Poll BY <1>6 DEF Poll, ArmOnly
<1>7. CASE Check BY <1>7 DEF Check, ArmOnly
<1>8. CASE Drop BY <1>8 DEF Drop, ArmOnly
<1>9. CASE Accept BY <1>9 DEF Accept, ArmOnly
<1>10. CASE Ack BY <1>10 DEF Ack, ArmOnly
<1>11. CASE Fetch BY <1>11 DEF Fetch, ArmOnly
<1>12. CASE Serve
  <2>1. Result(scmd.req) \in Word
    OBVIOUS
  <2> PICK o \in Outcomes(scmd.kind) :
       /\ sreturn' = IF o.ret THEN Result(scmd.req) ELSE sreturn
       /\ sargs' = [sargs EXCEPT ![4] = IF o.fileNo THEN Result(scmd.req) ELSE @]
    BY <1>12 DEF Serve
  <2>2. sreturn' \in Word
    BY <2>1
  <2>3. sargs' \in [Args -> Word]
    BY <2>1 DEF Args
  <2>4. runs' = [runs EXCEPT ![scmd.req] = @ + 1]
    BY <1>12 DEF Serve
  <2>5. runs' \in [Requests -> Nat]
    <3>1. ASSUME NEW r \in Requests PROVE runs'[r] \in Nat
      BY <2>4
    <3> QED BY <2>4, <3>1
  <2> QED BY <1>12, <2>2, <2>3, <2>5 DEF Serve, ArmOnly
<1>13. CASE ClearGo BY <1>13 DEF ClearGo, ArmOnly
<1>14. CASE Finish BY <1>14 DEF Finish, ArmOnly
<1>15. CASE UNCHANGED vars BY <1>15 DEF vars
<1> QED
  BY <1>1, <1>2, <1>3, <1>4, <1>5, <1>6, <1>7, <1>8, <1>9, <1>10, <1>11, <1>12,
     <1>13, <1>14, <1>15
  DEF Next, StubStep, ArmStep

(* Every register and every program counter keeps its type.                *)
THEOREM MailboxTypes == Spec => []TypeOK
  BY TypeInit, TypeNext, PTL DEF Spec
-----------------------------------------------------------------------------
(* A stub that posted its command and did not get its answer yet.          *)
Waiting == ppc \in {"posted", "ready", "wait"}

(* Request r came right behind one whose handler clears bit 0.             *)
Behind(r) == r > 1 /\ kindOf[r - 1] \in ClearsControl

(* No request was sent after r.                                            *)
SentLast(r) == kindOf[r] # "none" /\ \A q \in Requests : q > r => kindOf[q] = "none"

(* Where each processor can be while the other is at a given place.        *)
Phase ==
  /\ arm \in {"accept", "ack"} => control = "go"
  /\ arm \in {"fetch", "serve", "clear"} => control = "empty"
  /\ arm = "finish" => control \in {"empty", "cleared"}
  /\ arm \in {"check", "drop"} => control # "empty"
  /\ control = "go" => ppc = "ready"
  /\ arm \in {"fetch", "serve", "clear", "finish"} => ppc \in {"ready", "wait"}
  /\ arm \in {"ack", "fetch", "serve", "clear", "finish"} => ~sstatus

(* The ghosts: the requests sent, and the one whose callback runs a stub.  *)
Sent ==
  /\ \A r \in Requests : kindOf[r] = "none" => runs[r] = 0
  /\ cur # NoCmd => cur.req \in Requests /\ cur.kind \in Kinds /\ kindOf[cur.req] = cur.kind
  /\ outer # NoCmd =>
       /\ outer.req \in Requests /\ outer.kind \in Kinds /\ kindOf[outer.req] = outer.kind
       /\ outer.req # cur.req /\ Stub(outer.kind).cb
  /\ ppc # "idle" => cur # NoCmd
  /\ ppc = "callback" => Stub(cur.kind).cb
  /\ Waiting => SentLast(cur.req)
  /\ cur # NoCmd /\ ppc = "idle" => taken.req = cur.req

(* The registers belong to the running stub from its stores to the end of  *)
(* its handler.                                                            *)
Registers ==
  /\ ppc = "posted" \/ control = "go" \/ arm = "fetch" =>
       /\ cmd = cur /\ runs[cur.req] = 0
       /\ \A i \in Stub(cur.kind).args : args[i] = Arg(cur.req)
       /\ Stub(cur.kind).name => fname = cur.req
  /\ arm = "serve" => ServedAsSent /\ runs[cur.req] = 0
  /\ arm \in {"clear", "finish"} => scmd = cur /\ runs[cur.req] = 1

(* What has been through: results are of commands that ran, a stub whose   *)
(* 3 is gone was served or lost it to the poll behind an Open.             *)
Through ==
  /\ ServedOnce
  /\ ppc \in {"ready", "wait"} /\ control # "go" /\ arm \notin {"fetch", "serve"} =>
       runs[cur.req] = 1 \/ Behind(cur.req)
  /\ sreturn.src = "result" => sreturn.req \in Requests /\ runs[sreturn.req] = 1
  /\ ppc \in {"ready", "wait"} /\ cur.kind = "Open" /\ runs[cur.req] = 1 =>
       sargs[4] = Result(cur.req)
  /\ control = "cleared" \/ arm = "drop" =>
       \/ (ppc = "posted" \/ control = "go") /\ Behind(cur.req)
       \/ \E r \in Requests : SentLast(r) /\ kindOf[r] \in ClearsControl /\ runs[r] = 1

(* The hypothesis of ResultIsOwn.                                          *)
Quiet == \A r \in Requests :
  kindOf[r] \notin ClearsControl /\ (TableFills => kindOf[r] # "Create")

(* While it holds, the result in CARD_SRETURN is the running stub's.       *)
OwnResult ==
  /\ ppc \in {"ready", "wait"} /\ control # "go" /\ arm \notin {"fetch", "serve"} =>
       sreturn = Result(cur.req)
  /\ ppc = "idle" /\ cur # NoCmd /\ ~taken.cb =>
       /\ sreturn = Result(cur.req)
       /\ Stub(cur.kind).ret => taken.ret = Result(cur.req)

Rendezvous == /\ TypeOK /\ Phase /\ Sent /\ Registers /\ Through /\ OpenFileNo
              /\ (Quiet => OwnResult)

(* Every stub writes the arguments its handler reads, and always the first *)
(* one, for which the loader waits.                                        *)
LEMMA StubFacts ==
  ASSUME NEW k \in Kinds
  PROVE  /\ HandlerReads(k) \subseteq Stub(k).args /\ Stub(k).args \subseteq Args
         /\ 1 \in Stub(k).args
         /\ k # "none" /\ k \in AllKinds
<1> USE MailboxAssumption
<1>1. k \in AllKinds /\ k # "none"
  BY DEF AllKinds
<1>2. CASE k = "Open"
  <2>1. Stub(k) = CARDOpen BY <1>2 DEF Stub
  <2>2. HandlerReads(k) = {2} BY <1>2 DEF HandlerReads
  <2> QED BY <1>1, <1>2, <2>1, <2>2 DEF Args, CARDOpen
<1>3. CASE k = "FastOpen"
  <2>1. Stub(k) = CARDFastOpen BY <1>3 DEF Stub
  <2>2. HandlerReads(k) = {1, 2} BY <1>3 DEF HandlerReads
  <2> QED BY <1>1, <1>3, <2>1, <2>2 DEF Args, CARDFastOpen
<1>4. CASE k = "Close"
  <2>1. Stub(k) = CARDClose BY <1>4 DEF Stub
  <2>2. HandlerReads(k) = {1} BY <1>4 DEF HandlerReads
  <2> QED BY <1>1, <1>4, <2>1, <2>2 DEF Args, CARDClose
<1>5. CASE k = "Create"
  <2>1. Stub(k) = CARDCreate BY <1>5 DEF Stub
  <2>2. HandlerReads(k) = {2, 3} BY <1>5 DEF HandlerReads
  <2> QED BY <1>1, <1>5, <2>1, <2>2 DEF Args, CARDCreate
<1>6. CASE k = "Delete"
  <2>1. Stub(k) = CARDDelete BY <1>6 DEF Stub
  <2>2. HandlerReads(k) = {} BY <1>6 DEF HandlerReads
  <2> QED BY <1>1, <1>6, <2>1, <2>2 DEF Args, CARDDelete
<1>7. CASE k = "Read"
  <2>1. Stub(k) = CARDRead BY <1>7 DEF Stub
  <2>2. HandlerReads(k) = 1 .. 4 BY <1>7 DEF HandlerReads
  <2> QED BY <1>1, <1>7, <2>1, <2>2 DEF Args, CARDRead
<1>8. CASE k = "Write"
  <2>1. Stub(k) = CARDWrite BY <1>8 DEF Stub
  <2>2. HandlerReads(k) = 1 .. 4 BY <1>8 DEF HandlerReads
  <2> QED BY <1>1, <1>8, <2>1, <2>2 DEF Args, CARDWrite
<1>9. CASE k = "GetStats"
  <2>1. Stub(k) = CARDGetStats BY <1>9 DEF Stub
  <2>2. HandlerReads(k) = {1, 2} BY <1>9 DEF HandlerReads
  <2> QED BY <1>1, <1>9, <2>1, <2>2 DEF Args, CARDGetStats
<1>10. CASE k = "SetStats"
  <2>1. Stub(k) = CARDSetStats BY <1>10 DEF Stub
  <2>2. HandlerReads(k) = {1, 2} BY <1>10 DEF HandlerReads
  <2> QED BY <1>1, <1>10, <2>1, <2>2 DEF Args, CARDSetStats
<1> QED BY <1>1, <1>2, <1>3, <1>4, <1>5, <1>6, <1>7, <1>8, <1>9, <1>10 DEF AllKinds

(* CARDOpen reads the file number and calls no callback.                   *)
LEMMA OpenStub == ~Stub("Open").cb /\ Stub("Open").fileNo
<1>1. Stub("Open") = CARDOpen BY DEF Stub
<1>2. ~CARDOpen.cb /\ CARDOpen.fileNo BY DEF CARDOpen
<1> QED BY <1>1, <1>2

(* Everything holds after CardInit.                                        *)
LEMMA RendezvousInit == Init => Rendezvous
<1> SUFFICES ASSUME Init PROVE Rendezvous
  OBVIOUS
<1>1. TypeOK BY TypeInit
<1>2. Phase BY DEF Init, Phase
<1>3. Sent BY DEF Init, Sent, Waiting
<1>4. Registers BY DEF Init, Registers
<1>5. Through BY DEF Init, Through, ServedOnce, Answered, EMPTY
<1>6. OpenFileNo BY DEF Init, OpenFileNo, NoCmd
<1>7. OwnResult BY DEF Init, OwnResult
<1> QED BY <1>1, <1>2, <1>3, <1>4, <1>5, <1>6, <1>7 DEF Rendezvous

(* What a request that is posted takes the place of: it is the one after   *)
(* the last that was sent.                                                 *)
LEMMA Posting ==
  ASSUME Rendezvous, NEW k \in Kinds, Post(k)
  PROVE  \E r \in Requests :
           /\ cur' = [kind |-> k, req |-> r] /\ cmd' = cur'
           /\ kindOf' = [kindOf EXCEPT ![r] = k]
           /\ args' = [i \in Args |-> IF i \in Stub(k).args THEN Arg(r) ELSE args[i]]
           /\ fname' = IF Stub(k).name THEN r ELSE fname
           /\ kindOf[r] = "none" /\ runs[r] = 0
           /\ \A q \in Requests : q > r => kindOf[q] = "none"
           /\ \A q \in Requests : q < r => kindOf[q] # "none"
           /\ cur # NoCmd => cur.req # r
<1>1. PICK r \in Requests :
        /\ IsNext(r)
        /\ cur' = [kind |-> k, req |-> r]
        /\ kindOf' = [kindOf EXCEPT ![r] = k]
        /\ cmd' = [kind |-> k, req |-> r]
        /\ args' = [i \in Args |-> IF i \in Stub(k).args THEN Arg(r) ELSE args[i]]
        /\ fname' = IF Stub(k).name THEN r ELSE fname
  BY DEF Post
<1>2. /\ kindOf[r] = "none"
      /\ \A q \in Requests : q > r => kindOf[q] = "none"
      /\ \A q \in Requests : q < r => kindOf[q] # "none"
  BY <1>1, MailboxAssumption DEF IsNext, Requests
<1>3. runs[r] = 0
  BY <1>2 DEF Rendezvous, Sent
<1>4. cur # NoCmd => cur.req # r
  BY <1>2, StubFacts DEF Rendezvous, Sent
<1> QED BY <1>1, <1>2, <1>3, <1>4

(* How a stub that ends gives way to its caller, or to its callback.       *)
LEMMA Returning ==
  ASSUME Rendezvous, Take \/ CallbackReturns
  PROVE  /\ \/ cur' = cur /\ outer' = outer /\ ppc' = "callback" /\ taken'.cb /\ Stub(cur.kind).cb
            \/ cur' = cur /\ outer' = NoCmd /\ ppc' = "idle"
            \/ cur' = outer /\ outer # NoCmd /\ outer' = NoCmd /\ ppc' = "callback"
         /\ taken'.req = cur.req
         /\ UNCHANGED <<cmd, args, control, fname, scmd, sargs, sreturn, sstatus, arm, kindOf, runs>>
<1>1. CASE Take
  <2>1. PICK cb \in BOOLEAN :
       /\ cb => Stub(cur.kind).cb
       /\ taken' = [req  |-> cur.req,
                    ret  |-> IF Stub(cur.kind).ret /\ ~cb THEN sreturn ELSE EMPTY,
                    file |-> IF Stub(cur.kind).fileNo THEN sargs[4] ELSE EMPTY,
                    cb   |-> cb]
       /\ IF cb THEN ppc' = "callback" /\ UNCHANGED <<cur, outer>> ELSE Return
    BY <1>1 DEF Take
  <2>2. CASE cb BY <1>1, <2>1, <2>2 DEF Take, mailbox, shadow
  <2>3. CASE ~cb BY <1>1, <2>1, <2>3 DEF Take, Return, mailbox, shadow
  <2> QED BY <2>2, <2>3
<1>2. CASE CallbackReturns BY <1>2 DEF CallbackReturns, Return, mailbox, shadow
<1> QED BY <1>1, <1>2

(* Accept, Ack and the handler run only while the stub spins.               *)
LEMMA PhaseNext ==
  ASSUME Rendezvous, [Next]_vars PROVE Phase'
<1> USE DEF Rendezvous, mailbox, shadow, stub, ArmOnly
<1>1. ASSUME NEW k \in Kinds, Post(k) PROVE Phase'
  BY <1>1 DEF Post, Phase, TypeOK
<1>2. CASE Ring BY <1>2 DEF Ring, Phase
<1>3. CASE Ready BY <1>3 DEF Ready, Phase
<1>4. CASE Take \/ CallbackReturns
  <2>1. (ppc = "wait" /\ sstatus) \/ ppc = "callback"
    BY <1>4 DEF Take, CallbackReturns
  <2>2. arm \notin {"accept", "ack", "fetch", "serve", "clear", "finish"} /\ control # "go"
    BY <2>1 DEF Phase
  <2> QED BY <1>4, <2>2, Returning DEF Phase
<1>6. CASE Poll BY <1>6 DEF Poll, Phase
<1>7. CASE Check BY <1>7 DEF Check, Phase
<1>8. CASE Drop BY <1>8 DEF Drop, Phase
<1>9. CASE Accept BY <1>9 DEF Accept, Phase
<1>10. CASE Ack BY <1>10 DEF Ack, Phase
<1>11. CASE Fetch BY <1>11 DEF Fetch, Phase
<1>12. CASE Serve BY <1>12 DEF Serve, Phase
<1>13. CASE ClearGo BY <1>13 DEF ClearGo, Phase
<1>14. CASE Finish BY <1>14 DEF Finish, Phase
<1>15. CASE UNCHANGED vars BY <1>15 DEF vars, Phase
<1> QED
  BY <1>1, <1>2, <1>3, <1>4, <1>6, <1>7, <1>8, <1>9, <1>10, <1>11, <1>12,
     <1>13, <1>14, <1>15
  DEF Next, StubStep, ArmStep

(* Serving concerns only the running stub's request.                       *)
LEMMA Serving ==
  ASSUME Rendezvous, Serve
  PROVE  /\ scmd = cur /\ cur.req \in Requests /\ cur.kind \in Kinds /\ kindOf[cur.req] = cur.kind
         /\ ppc \in {"ready", "wait"} /\ control = "empty" /\ arm = "serve" /\ arm' = "clear"
         /\ runs[cur.req] = 0 /\ runs'[cur.req] = 1
         /\ \A q \in Requests : q # cur.req => runs'[q] = runs[q]
         /\ UNCHANGED <<cmd, args, control, fname, scmd, sstatus, stub, kindOf>>
<1>1. /\ arm = "serve" /\ runs' = [runs EXCEPT ![scmd.req] = @ + 1] /\ arm' = "clear"
      /\ UNCHANGED <<cmd, args, control, fname, scmd, sstatus, stub, kindOf>>
  BY DEF Serve, ArmOnly
<1>2. scmd = cur /\ runs[cur.req] = 0
  BY <1>1 DEF Rendezvous, Registers, ServedAsSent
<1>3. ppc \in {"ready", "wait"} /\ control = "empty"
  BY <1>1 DEF Rendezvous, Phase
<1>4. cur.req \in Requests /\ cur.kind \in Kinds /\ kindOf[cur.req] = cur.kind
  BY <1>3 DEF Rendezvous, Sent
<1>5. runs'[cur.req] = 1 /\ \A q \in Requests : q # cur.req => runs'[q] = runs[q]
  BY <1>1, <1>2, <1>4 DEF Rendezvous, TypeOK
<1> QED BY <1>1, <1>2, <1>3, <1>4, <1>5

(* The ghosts follow the requests.                                         *)
LEMMA SentNext ==
  ASSUME Rendezvous, [Next]_vars PROVE Sent'
<1> USE DEF Rendezvous, stub, ArmOnly, Waiting
<1>0. NoCmd.req = 0 /\ 0 \notin Requests /\ NoCmd.kind = "none"
  BY DEF NoCmd, Requests
<1>1. ASSUME NEW k \in Kinds, Post(k) PROVE Sent'
  <2>1. PICK r \in Requests :
           /\ cur' = [kind |-> k, req |-> r]
           /\ kindOf' = [kindOf EXCEPT ![r] = k]
           /\ kindOf[r] = "none" /\ runs[r] = 0
           /\ \A q \in Requests : q > r => kindOf[q] = "none"
           /\ cur # NoCmd => cur.req # r
    BY <1>1, Posting
  <2>2. ppc' = "posted" /\ UNCHANGED <<runs, taken>>
    BY <1>1 DEF Post
  <2>3. \/ ppc = "idle" /\ outer' = NoCmd
        \/ ppc = "callback" /\ outer = NoCmd /\ outer' = cur
    BY <1>1 DEF Post
  <2>4. k # "none" BY StubFacts
  <2>5. \A q \in Requests : q # r => kindOf'[q] = kindOf[q]
    BY <2>1 DEF TypeOK
  <2>6. kindOf'[r] = k
    BY <2>1 DEF TypeOK
  <2>7. cur' # NoCmd /\ cur'.req = r /\ cur'.kind = k
    BY <2>1, <2>4 DEF NoCmd
  <2>8. \A q \in Requests : kindOf'[q] = "none" => runs'[q] = 0
    BY <2>2, <2>4, <2>5, <2>6 DEF Sent
  <2>9. outer' # NoCmd =>
          /\ outer'.req \in Requests /\ outer'.kind \in Kinds /\ kindOf'[outer'.req] = outer'.kind
          /\ outer'.req # cur'.req /\ Stub(outer'.kind).cb
    BY <2>1, <2>3, <2>5, <2>7 DEF Sent
  <2>10. SentLast(r)'
    BY <2>1, <2>4, <2>5, <2>6 DEF SentLast, Requests
  <2> QED BY <2>2, <2>6, <2>7, <2>8, <2>9, <2>10 DEF Sent
<1>2. CASE Ring BY <1>2 DEF Ring, Sent, SentLast
<1>3. CASE Ready BY <1>3 DEF Ready, Sent, SentLast
<1>4. CASE Take \/ CallbackReturns
  <2>1. UNCHANGED <<kindOf, runs>> /\ taken'.req = cur.req /\ ppc' \in {"idle", "callback"}
    BY <1>4, Returning
  <2>2. cur # NoCmd
    BY <1>4 DEF Sent, Take, CallbackReturns
  <2>3. CASE cur' = cur /\ outer' = outer /\ ppc' = "callback" /\ Stub(cur.kind).cb
    BY <2>1, <2>2, <2>3 DEF Sent
  <2>4. CASE cur' = cur /\ outer' = NoCmd /\ ppc' = "idle"
    BY <2>1, <2>2, <2>4 DEF Sent
  <2>5. CASE cur' = outer /\ outer # NoCmd /\ outer' = NoCmd /\ ppc' = "callback"
    BY <2>1, <2>2, <2>5 DEF Sent
  <2> QED BY <1>4, <2>3, <2>4, <2>5, Returning
<1>6. CASE Poll BY <1>6 DEF Poll, Sent, SentLast
<1>7. CASE Check BY <1>7 DEF Check, Sent, SentLast
<1>8. CASE Drop BY <1>8 DEF Drop, Sent, SentLast
<1>9. CASE Accept BY <1>9 DEF Accept, Sent, SentLast
<1>10. CASE Ack BY <1>10 DEF Ack, Sent, SentLast
<1>11. CASE Fetch BY <1>11 DEF Fetch, Sent, SentLast
<1>12. CASE Serve
  <2>1. \A q \in Requests : kindOf'[q] = "none" => runs'[q] = 0
    BY <1>12, Serving, StubFacts DEF Sent
  <2> QED BY <1>12, <2>1, Serving DEF Sent, SentLast
<1>13. CASE ClearGo BY <1>13 DEF ClearGo, Sent, SentLast
<1>14. CASE Finish BY <1>14 DEF Finish, Sent, SentLast
<1>15. CASE UNCHANGED vars BY <1>15 DEF vars, Sent, SentLast
<1> QED
  BY <1>1, <1>2, <1>3, <1>4, <1>6, <1>7, <1>8, <1>9, <1>10, <1>11, <1>12,
     <1>13, <1>14, <1>15
  DEF Next, StubStep, ArmStep

(* Nobody touches a posted command, its arguments or the file name before  *)
(* the handler has ended.                                                  *)
LEMMA RegistersNext ==
  ASSUME Rendezvous, [Next]_vars PROVE Registers'
<1> USE DEF Rendezvous, shadow, stub, ArmOnly
<1>1. ASSUME NEW k \in Kinds, Post(k) PROVE Registers'
  <2>1. PICK r \in Requests :
           /\ cur' = [kind |-> k, req |-> r] /\ cmd' = cur'
           /\ args' = [i \in Args |-> IF i \in Stub(k).args THEN Arg(r) ELSE args[i]]
           /\ fname' = IF Stub(k).name THEN r ELSE fname
           /\ runs[r] = 0
    BY <1>1, Posting
  <2>2. /\ ppc' = "posted" /\ ppc \in {"idle", "callback"}
        /\ UNCHANGED <<control, scmd, sargs, sstatus, arm, runs>>
    BY <1>1 DEF Post
  <2>3. arm \notin {"fetch", "serve", "clear", "finish"}
    BY <2>2 DEF Phase
  <2>4. cur'.req = r /\ cur'.kind = k
    BY <2>1
  <2>5. \A i \in Stub(k).args : args'[i] = Arg(r)
    BY <2>1, StubFacts
  <2> QED BY <2>1, <2>2, <2>3, <2>4, <2>5 DEF Registers
<1>2. CASE Ring BY <1>2 DEF Ring, Registers, ServedAsSent
<1>3. CASE Ready BY <1>3 DEF Ready, Registers, ServedAsSent, mailbox
<1>4. CASE Take \/ CallbackReturns
  <2>1. (ppc = "wait" /\ sstatus) \/ ppc = "callback"
    BY <1>4 DEF Take, CallbackReturns
  <2>2. arm \notin {"fetch", "serve", "clear", "finish"} /\ control # "go"
    BY <2>1 DEF Phase
  <2> QED BY <1>4, <2>2, Returning DEF Registers
<1>6. CASE Poll BY <1>6 DEF Poll, Registers
<1>7. CASE Check BY <1>7 DEF Check, Registers
<1>8. CASE Drop BY <1>8 DEF Drop, Registers
<1>9. CASE Accept BY <1>9 DEF Accept, Registers
<1>10. CASE Ack
  <2>1. control = "go" /\ control' = "empty" /\ arm' = "fetch"
    BY <1>10 DEF Ack, Phase
  <2> QED BY <1>10, <2>1 DEF Ack, Registers
<1>11. CASE Fetch
  <2>1. /\ arm = "fetch" /\ scmd' = cmd /\ arm' = "serve"
        /\ sargs' = [i \in Args |-> IF args[i] # EMPTY THEN args[i] ELSE sargs[i]]
        /\ UNCHANGED <<control, fname, sreturn, sstatus, runs, ppc, cur, kindOf>>
    BY <1>11 DEF Fetch
  <2>2. ppc \in {"ready", "wait"} /\ control = "empty"
    BY <2>1 DEF Phase
  <2>3. cur.kind \in Kinds
    BY <2>2 DEF Sent
  <2>4. /\ cmd = cur /\ runs[cur.req] = 0
        /\ \A i \in Stub(cur.kind).args : args[i] = Arg(cur.req)
        /\ Stub(cur.kind).name => fname = cur.req
    BY <2>1 DEF Registers
  <2>5. ASSUME NEW i \in HandlerReads(cur.kind) PROVE sargs'[i] = Arg(cur.req)
    <3>1. i \in Stub(cur.kind).args /\ i \in Args
      BY <2>3, StubFacts
    <3>2. Arg(cur.req) # EMPTY
      BY DEF Arg, EMPTY
    <3> QED BY <2>1, <2>4, <3>1, <3>2
  <2>6. ServedAsSent'
    BY <2>1, <2>4, <2>5 DEF ServedAsSent
  <2> QED BY <2>1, <2>2, <2>4, <2>6 DEF Registers
<1>12. CASE Serve BY <1>12, Serving DEF Registers
<1>13. CASE ClearGo
  <2>1. /\ arm = "clear" /\ arm' = "finish" /\ control' # "go"
        /\ UNCHANGED <<ppc, cur, scmd, runs>>
    BY <1>13 DEF ClearGo, Phase
  <2>2. ppc' # "posted"
    BY <2>1 DEF Phase
  <2> QED BY <2>1, <2>2 DEF Registers
<1>14. CASE Finish BY <1>14 DEF Finish, Registers
<1>15. CASE UNCHANGED vars BY <1>15 DEF vars, Registers, ServedAsSent
<1> QED
  BY <1>1, <1>2, <1>3, <1>4, <1>6, <1>7, <1>8, <1>9, <1>10, <1>11, <1>12,
     <1>13, <1>14, <1>15
  DEF Next, StubStep, ArmStep

(* The last command sent before a stub posts is the one it comes behind.   *)
LEMMA LastIsBefore ==
  ASSUME NEW r \in Requests, NEW d \in Requests, SentLast(d),
         \A q \in Requests : q >= r => kindOf[q] = "none",
         \A q \in Requests : q < r => kindOf[q] # "none"
  PROVE  d = r - 1
<1> USE MailboxAssumption DEF Requests, SentLast
<1>1. ~(d < r - 1)
  <2> SUFFICES ASSUME d < r - 1 PROVE FALSE
    OBVIOUS
  <2>1. r - 1 \in Requests /\ r - 1 > d /\ r - 1 < r
    OBVIOUS
  <2> QED BY <2>1
<1>2. ~(d >= r)
  BY DEF SentLast
<1> QED BY <1>1, <1>2

(* Only the poll behind an Open takes a command away (Drop).               *)
LEMMA ThroughNext ==
  ASSUME Rendezvous, [Next]_vars PROVE Through'
<1> USE DEF Rendezvous, stub, ArmOnly
<1>1. ASSUME NEW k \in Kinds, Post(k) PROVE Through'
  <2>1. PICK r \in Requests :
           /\ cur' = [kind |-> k, req |-> r]
           /\ kindOf' = [kindOf EXCEPT ![r] = k]
           /\ kindOf[r] = "none" /\ runs[r] = 0
           /\ \A q \in Requests : q > r => kindOf[q] = "none"
           /\ \A q \in Requests : q < r => kindOf[q] # "none"
           /\ cur # NoCmd => cur.req # r
    BY <1>1, Posting
  <2>2. /\ ppc' = "posted" /\ ppc \in {"idle", "callback"}
        /\ UNCHANGED <<control, sreturn, arm, runs>>
    BY <1>1 DEF Post, shadow
  <2>3. cur'.req = r /\ \A q \in Requests : q # r => kindOf'[q] = kindOf[q]
    BY <2>1 DEF TypeOK
  <2>4. ASSUME NEW q \in Requests, Behind(q) PROVE Behind(q)'
    <3>1. q - 1 \in Requests /\ kindOf[q - 1] \in ClearsControl
      BY <2>4, MailboxAssumption DEF Behind, Requests
    <3>2. q - 1 # r
      BY <3>1, <2>1 DEF ClearsControl
    <3> QED BY <2>3, <2>4, <3>1, <3>2 DEF Behind
  <2>5. ServedOnce'
    <3> SUFFICES ASSUME NEW q \in Requests
                 PROVE  runs'[q] <= 1 /\ (Answered(q)' /\ runs'[q] = 0 => Behind(q)')
      BY DEF ServedOnce, Behind
    <3>1. runs'[q] <= 1
      BY <2>2 DEF Through, ServedOnce
    <3>2. ASSUME Answered(q)', runs'[q] = 0 PROVE Behind(q)'
      <4>1. q # r /\ kindOf[q] # "none" BY <3>2, <2>2, <2>3 DEF Answered
      <4>2. Answered(q) BY <2>2, <4>1 DEF Answered
      <4> QED BY <4>2, <3>2, <2>2, <2>4 DEF Through, ServedOnce, Behind
    <3> QED BY <3>1, <3>2
  <2>6. (control = "cleared" \/ arm = "drop") => Behind(r)'
    <3> SUFFICES ASSUME control = "cleared" \/ arm = "drop" PROVE Behind(r)'
      OBVIOUS
    <3>1. control # "go"
      BY <2>2 DEF Phase
    <3>2. PICK d \in Requests : SentLast(d) /\ kindOf[d] \in ClearsControl
      BY <2>2, <3>1 DEF Through
    <3>3. d = r - 1
      <4>1. \A q \in Requests : q >= r => kindOf[q] = "none"
        BY <2>1 DEF Requests
      <4> QED BY <2>1, <3>2, <4>1, LastIsBefore
    <3>4. r > 1 /\ d # r
      BY <3>3 DEF Requests
    <3> QED BY <2>3, <3>2, <3>3, <3>4 DEF Behind
  <2> QED BY <2>2, <2>3, <2>5, <2>6 DEF Through
<1>2. CASE Ring
  <2> USE <1>2 DEF Ring, shadow
  <2>1. ServedOnce' BY DEF Through, ServedOnce, Answered
  <2>2. arm = "drop" => Behind(cur.req)
    <3> SUFFICES ASSUME arm = "drop" PROVE Behind(cur.req)
      OBVIOUS
    <3>1. SentLast(cur.req) /\ cur.req \in Requests /\ runs[cur.req] = 0
      BY DEF Sent, Waiting, Registers
    <3>2. CASE Behind(cur.req) BY <3>2
    <3>3. ASSUME NEW r \in Requests, SentLast(r), runs[r] = 1 PROVE FALSE
      <4>1. r = cur.req BY <3>1, <3>3 DEF SentLast, Requests
      <4> QED BY <4>1, <3>1, <3>3
    <3> QED BY <3>2, <3>3 DEF Through
  <2>3. runs[cur.req] = 0 BY DEF Registers
  <2> QED BY <2>1, <2>2, <2>3 DEF Through, Behind
<1>3. CASE Ready
  <2> USE <1>3 DEF Ready, mailbox, shadow
  <2>1. ServedOnce' BY DEF Through, ServedOnce, Answered
  <2> QED BY <2>1 DEF Through, Behind, SentLast
<1>4. CASE Take \/ CallbackReturns
  <2>1. /\ UNCHANGED <<control, sargs, sreturn, arm, kindOf, runs>>
        /\ ppc' \in {"idle", "callback"}
    BY <1>4, Returning
  <2>2. (ppc = "wait" /\ sstatus) \/ ppc = "callback"
    BY <1>4 DEF Take, CallbackReturns
  <2>3. arm \notin {"fetch", "serve"} /\ control # "go"
    BY <2>2 DEF Phase
  <2>4. ASSUME NEW q \in Requests, Answered(q)', runs[q] = 0 PROVE Behind(q)
    <3>1. CASE ppc = "wait" /\ q = cur.req
      BY <2>3, <2>4, <3>1 DEF Through
    <3>2. CASE ~(ppc = "wait" /\ q = cur.req)
      <4>1. Answered(q) BY <2>1, <2>2, <2>4, <3>2 DEF Answered
      <4> QED BY <4>1, <2>4 DEF Through, ServedOnce, Behind
    <3> QED BY <3>1, <3>2
  <2>5. ServedOnce'
    BY <2>1, <2>4 DEF Through, ServedOnce, Behind
  <2>6. ppc # "posted"
    BY <2>2
  <2> QED BY <2>1, <2>3, <2>5, <2>6 DEF Through, SentLast
<1>6. CASE Poll
  <2>1. ServedOnce' BY <1>6 DEF Poll, Through, ServedOnce, Answered
  <2> QED BY <1>6, <2>1 DEF Poll, Through, Behind, SentLast, shadow
<1>7. CASE Check
  <2>1. ServedOnce' BY <1>7 DEF Check, Through, ServedOnce, Answered
  <2>2. /\ arm = "check" /\ control' = control
        /\ UNCHANGED <<sargs, sreturn, runs, ppc, cur, kindOf>>
        /\ arm' = IF control = "go" THEN "accept" ELSE "drop"
    BY <1>7 DEF Check, shadow
  <2>3. arm' = "drop" => control = "cleared"
    BY <2>2 DEF Phase, TypeOK
  <2> QED BY <2>1, <2>2, <2>3 DEF Through, Behind, SentLast
<1>8. CASE Drop
  <2>1. ServedOnce' BY <1>8 DEF Drop, Through, ServedOnce, Answered
  <2>2. /\ arm = "drop" /\ arm' = "poll" /\ control' = "empty"
        /\ UNCHANGED <<sargs, sreturn, runs, ppc, cur, kindOf>>
    BY <1>8 DEF Drop, shadow
  <2>3. control = "go" => Behind(cur.req)
    <3> SUFFICES ASSUME control = "go" PROVE Behind(cur.req)
      OBVIOUS
    <3>1. ppc = "ready" /\ runs[cur.req] = 0
      BY DEF Phase, Registers
    <3>2. SentLast(cur.req) /\ cur.req \in Requests
      BY <3>1 DEF Sent, Waiting
    <3>3. ASSUME NEW r \in Requests, SentLast(r), runs[r] = 1 PROVE FALSE
      <4>1. r = cur.req BY <3>2, <3>3 DEF SentLast, Requests
      <4> QED BY <4>1, <3>1, <3>3
    <3> QED BY <2>2, <3>3 DEF Through
  <2> QED BY <2>1, <2>2, <2>3 DEF Through, Behind
<1>9. CASE Accept
  <2>1. ServedOnce' BY <1>9 DEF Accept, Through, ServedOnce, Answered
  <2> QED BY <1>9, <2>1 DEF Accept, Through, Behind, SentLast
<1>10. CASE Ack
  <2>1. ServedOnce' BY <1>10 DEF Ack, Through, ServedOnce, Answered
  <2> QED BY <1>10, <2>1 DEF Ack, Through, Behind, SentLast, shadow
<1>11. CASE Fetch
  <2>1. ServedOnce' BY <1>11 DEF Fetch, Through, ServedOnce, Answered
  <2>2. /\ arm = "fetch" /\ arm' = "serve" /\ control = "empty"
        /\ UNCHANGED <<control, sreturn, runs, ppc, cur, kindOf>>
    BY <1>11 DEF Fetch, Phase
  <2>3. runs[cur.req] = 0
    BY <2>2 DEF Registers
  <2> QED BY <2>1, <2>2, <2>3 DEF Through, Behind
<1>12. CASE Serve
  <2>1. PICK o \in Outcomes(scmd.kind) :
       /\ sreturn' = IF o.ret THEN Result(scmd.req) ELSE sreturn
       /\ sargs' = [sargs EXCEPT ![4] = IF o.fileNo THEN Result(scmd.req) ELSE @]
    BY <1>12 DEF Serve
  <2>2. /\ scmd = cur /\ cur.req \in Requests /\ ppc \in {"ready", "wait"}
        /\ control' = "empty" /\ arm' = "clear"
        /\ runs'[cur.req] = 1 /\ \A q \in Requests : q # cur.req => runs'[q] = runs[q]
        /\ UNCHANGED <<ppc, cur, kindOf>>
    BY <1>12, Serving
  <2>3. ServedOnce'
    BY <2>2 DEF Through, ServedOnce, Answered
  <2>4. sreturn'.src = "result" => sreturn'.req \in Requests /\ runs'[sreturn'.req] = 1
    BY <2>1, <2>2 DEF Through, Result
  <2>5. cur.kind = "Open" => sargs'[4] = Result(cur.req)
    <3> SUFFICES ASSUME cur.kind = "Open" PROVE sargs'[4] = Result(cur.req)
      OBVIOUS
    <3>1. Outcomes(scmd.kind) = {[ret |-> TRUE, fileNo |-> TRUE]}
      BY <2>2 DEF Outcomes
    <3>2. o.fileNo = TRUE
      BY <2>1, <3>1
    <3> QED BY <2>1, <2>2, <3>2 DEF TypeOK, Args
  <2> QED BY <2>2, <2>3, <2>4, <2>5 DEF Through
<1>13. CASE ClearGo
  <2>1. ServedOnce' BY <1>13 DEF ClearGo, Through, ServedOnce, Answered
  <2>2. /\ arm = "clear" /\ arm' = "finish" /\ control = "empty"
        /\ control' = IF scmd.kind \in ClearsControl THEN "cleared" ELSE control
        /\ UNCHANGED <<sargs, sreturn, runs, ppc, cur, kindOf>>
    BY <1>13 DEF ClearGo, Phase, shadow
  <2>3. scmd = cur /\ runs[cur.req] = 1
    BY <2>2 DEF Registers
  <2>4. SentLast(cur.req) /\ cur.req \in Requests /\ kindOf[cur.req] = cur.kind
    BY <2>2 DEF Phase, Sent, Waiting
  <2> QED BY <2>1, <2>2, <2>3, <2>4 DEF Through, Behind, SentLast
<1>14. CASE Finish
  <2>1. ServedOnce' BY <1>14 DEF Finish, Through, ServedOnce, Answered
  <2> QED BY <1>14, <2>1 DEF Finish, Through, Behind, SentLast
<1>15. CASE UNCHANGED vars
  <2>1. ServedOnce' BY <1>15 DEF vars, Through, ServedOnce, Answered
  <2> QED BY <1>15, <2>1 DEF vars, Through, Behind, SentLast
<1> QED
  BY <1>1, <1>2, <1>3, <1>4, <1>6, <1>7, <1>8, <1>9, <1>10, <1>11, <1>12,
     <1>13, <1>14, <1>15
  DEF Next, StubStep, ArmStep

(* CARDOpen reads CARD_SCMD_4 after its own handler wrote it.              *)
LEMMA OpenFileNoNext ==
  ASSUME Rendezvous, [Next]_vars PROVE OpenFileNo'
<1> USE DEF Rendezvous, stub, ArmOnly
<1>1. ASSUME NEW k \in Kinds, Post(k) PROVE OpenFileNo'
  BY <1>1 DEF Post, OpenFileNo
<1>2. CASE Ring BY <1>2 DEF Ring, OpenFileNo
<1>3. CASE Ready BY <1>3 DEF Ready, OpenFileNo
<1>4. CASE Take
  <2> SUFFICES ASSUME ppc' = "idle", cur'.kind = "Open"
               PROVE  \/ taken'.file = Result(cur'.req)
                      \/ runs'[cur'.req] = 0 /\ taken'.ret # Result(cur'.req)
    BY DEF OpenFileNo
  <2>1. cur' = cur /\ UNCHANGED <<runs, sargs, sreturn>>
    BY <1>4, Returning
  <2>2. PICK cb \in BOOLEAN :
       /\ cb => Stub(cur.kind).cb
       /\ taken' = [req  |-> cur.req,
                    ret  |-> IF Stub(cur.kind).ret /\ ~cb THEN sreturn ELSE EMPTY,
                    file |-> IF Stub(cur.kind).fileNo THEN sargs[4] ELSE EMPTY,
                    cb   |-> cb]
    BY <1>4 DEF Take
  <2>3. taken'.file = sargs[4] /\ taken'.ret \in {sreturn, EMPTY}
    <3>1. cur.kind = "Open" BY <2>1
    <3>2. Stub(cur.kind).fileNo BY <3>1, OpenStub
    <3>3. taken'.file = sargs[4] BY <2>2, <3>2
    <3>4. taken'.ret \in {sreturn, EMPTY} BY <2>2
    <3> QED BY <3>3, <3>4
  <2>4. ppc = "wait" /\ cur.req \in Requests
    BY <1>4 DEF Take, Sent
  <2>5. CASE runs[cur.req] = 1
    <3>1. cur.kind = "Open" BY <2>1
    <3> QED BY <2>1, <2>3, <2>4, <2>5, <3>1 DEF Through
  <2>6. CASE runs[cur.req] # 1
    <3>1. runs[cur.req] = 0
      BY <2>4, <2>6 DEF Through, ServedOnce, TypeOK
    <3>2. sreturn # Result(cur.req)
      BY <2>6 DEF Through, Result
    <3>3. EMPTY # Result(cur.req)
      BY DEF EMPTY, Result
    <3> QED BY <2>1, <2>3, <3>1, <3>2, <3>3
  <2> QED BY <2>5, <2>6
<1>5. CASE CallbackReturns
  <2>1. ppc = "callback" BY <1>5 DEF CallbackReturns
  <2>2. ppc' = "idle" => cur' = cur BY <1>5, Returning
  <2>3. cur.kind # "Open" BY <2>1, OpenStub DEF Sent
  <2> QED BY <2>2, <2>3 DEF OpenFileNo
<1>6. CASE Poll BY <1>6 DEF Poll, OpenFileNo
<1>7. CASE Check BY <1>7 DEF Check, OpenFileNo
<1>8. CASE Drop BY <1>8 DEF Drop, OpenFileNo
<1>9. CASE Accept BY <1>9 DEF Accept, OpenFileNo
<1>10. CASE Ack BY <1>10 DEF Ack, OpenFileNo
<1>11. CASE Fetch BY <1>11 DEF Fetch, OpenFileNo
<1>12. CASE Serve BY <1>12, Serving DEF OpenFileNo
<1>13. CASE ClearGo BY <1>13 DEF ClearGo, OpenFileNo
<1>14. CASE Finish BY <1>14 DEF Finish, OpenFileNo
<1>15. CASE UNCHANGED vars BY <1>15 DEF vars, OpenFileNo
<1> QED
  BY <1>1, <1>2, <1>3, <1>4, <1>5, <1>6, <1>7, <1>8, <1>9, <1>10, <1>11, <1>12,
     <1>13, <1>14, <1>15
  DEF Next, StubStep, ArmStep

(* A history without Open and so on had none at any earlier point.         *)
LEMMA QuietBefore ==
  ASSUME Rendezvous, [Next]_vars, Quiet' PROVE Quiet
<1> USE DEF Rendezvous, stub, ArmOnly
<1>1. ASSUME NEW k \in Kinds, Post(k) PROVE Quiet
  <2>1. PICK r \in Requests : kindOf' = [kindOf EXCEPT ![r] = k] /\ kindOf[r] = "none"
    BY <1>1, Posting
  <2>2. \A q \in Requests : kindOf[q] \in {kindOf'[q], "none"}
    BY <2>1 DEF TypeOK
  <2> QED BY <2>2 DEF Quiet, ClearsControl
<1>2. ASSUME kindOf' = kindOf PROVE Quiet
  BY <1>2 DEF Quiet
<1>3. CASE StubStep
  BY <1>2, <1>3, Returning DEF StubStep, Ring, Ready
<1>4. CASE ArmStep
  BY <1>2, <1>4
  DEF ArmStep, Poll, Check, Drop, Accept, Ack, Fetch, Serve, ClearGo, Finish
<1> QED BY <1>1, <1>2, <1>3, <1>4 DEF Next, vars

(* Without an Open, Drop never happens and Serve always writes a result.   *)
LEMMA OwnResultNext ==
  ASSUME Rendezvous, [Next]_vars, Quiet' PROVE OwnResult'
<1>0. Quiet BY QuietBefore
<1> USE <1>0 DEF Rendezvous, stub, ArmOnly
<1>00. ASSUME NEW r \in Requests PROVE ~Behind(r)
  BY MailboxAssumption DEF Behind, Quiet, Requests
<1>1. ASSUME NEW k \in Kinds, Post(k) PROVE OwnResult'
  BY <1>1 DEF Post, OwnResult
<1>2. CASE Ring BY <1>2 DEF Ring, OwnResult
<1>3. CASE Ready BY <1>3 DEF Ready, OwnResult, shadow
<1>4. CASE Take
  <2> SUFFICES ASSUME ppc' = "idle", ~taken'.cb
               PROVE  /\ sreturn' = Result(cur'.req)
                      /\ Stub(cur'.kind).ret => taken'.ret = Result(cur'.req)
    BY <1>4, Returning DEF OwnResult
  <2>1. cur' = cur /\ UNCHANGED <<runs, sargs, sreturn>>
    BY <1>4, Returning
  <2>2. ppc = "wait" /\ sstatus
    BY <1>4 DEF Take
  <2>3. sreturn = Result(cur.req)
    BY <2>2 DEF Phase, OwnResult
  <2>4. PICK cb \in BOOLEAN :
       taken' = [req  |-> cur.req,
                 ret  |-> IF Stub(cur.kind).ret /\ ~cb THEN sreturn ELSE EMPTY,
                 file |-> IF Stub(cur.kind).fileNo THEN sargs[4] ELSE EMPTY,
                 cb   |-> cb]
    BY <1>4 DEF Take
  <2>5. Stub(cur.kind).ret => taken'.ret = sreturn
    BY <2>4
  <2> QED BY <2>1, <2>3, <2>5
<1>5. CASE CallbackReturns
  <2>1. taken'.cb BY <1>5 DEF CallbackReturns
  <2>2. ppc' \in {"idle", "callback"} BY <1>5, Returning
  <2> QED BY <2>1, <2>2 DEF OwnResult
<1>6. CASE Poll BY <1>6 DEF Poll, OwnResult, shadow
<1>7. CASE Check BY <1>7 DEF Check, OwnResult, shadow
<1>8. CASE Drop
  <2>1. /\ arm = "drop" /\ arm' = "poll" /\ UNCHANGED <<sreturn, ppc, cur, taken>>
    BY <1>8 DEF Drop, shadow
  <2>2. control # "go"
    <3> SUFFICES ASSUME control = "go" PROVE FALSE
      OBVIOUS
    <3>1. PICK r \in Requests : Behind(r) \/ kindOf[r] \in ClearsControl
      BY <2>1 DEF Through, Phase, Sent
    <3> QED BY <3>1, <1>00 DEF Quiet
  <2> QED BY <2>1, <2>2 DEF OwnResult
<1>9. CASE Accept BY <1>9 DEF Accept, OwnResult
<1>10. CASE Ack BY <1>10 DEF Ack, OwnResult, shadow
<1>11. CASE Fetch BY <1>11 DEF Fetch, OwnResult, Phase
<1>12. CASE Serve
  <2>1. /\ scmd = cur /\ cur.req \in Requests /\ kindOf[cur.req] = cur.kind
        /\ ppc' \in {"ready", "wait"} /\ cur' = cur
    BY <1>12, Serving
  <2>2. \A o \in Outcomes(scmd.kind) : o.ret = TRUE
    <3>1. CASE scmd.kind = "Create"
      BY <2>1, <3>1 DEF Outcomes, Quiet
    <3>2. CASE scmd.kind # "Create"
      BY <3>2 DEF Outcomes
    <3> QED BY <3>1, <3>2
  <2>3. sreturn' = Result(cur.req)
    BY <1>12, <2>1, <2>2 DEF Serve
  <2> QED BY <2>1, <2>3 DEF OwnResult
<1>13. CASE ClearGo BY <1>13 DEF ClearGo, OwnResult, Phase, shadow
<1>14. CASE Finish BY <1>14 DEF Finish, OwnResult
<1>15. CASE UNCHANGED vars BY <1>15 DEF vars, OwnResult
<1> QED
  BY <1>1, <1>2, <1>3, <1>4, <1>5, <1>6, <1>7, <1>8, <1>9, <1>10, <1>11, <1>12,
     <1>13, <1>14, <1>15
  DEF Next, StubStep, ArmStep

(* Every step of the two processors keeps the rendezvous.                  *)
LEMMA RendezvousNext == Rendezvous /\ [Next]_vars => Rendezvous'
<1> SUFFICES ASSUME Rendezvous, [Next]_vars PROVE Rendezvous'
  OBVIOUS
<1>1. TypeOK' BY TypeNext DEF Rendezvous
<1> QED
  BY <1>1, PhaseNext, SentNext, RegistersNext, ThroughNext, OpenFileNoNext, OwnResultNext
  DEF Rendezvous

(* The rendezvous is an invariant.                                         *)
LEMMA RendezvousAlways == Spec => []Rendezvous
  BY RendezvousInit, RendezvousNext, PTL DEF Spec

(* Whatever commands the game sends: a handler works on the command, the   *)
(* arguments and the file name of the stub that waits for it, and CARDOpen *)
(* hands out the file number CardOpenFile wrote for it (Card.c:448-472,    *)
(* asm/CARDOpen.S).                                                        *)
THEOREM RegistersOwn == Spec => []RegistersAreOwn
<1>1. Rendezvous => RegistersAreOwn
  BY DEF Rendezvous, Registers, RegistersAreOwn, ServedAsSent
<1> QED BY <1>1, RendezvousAlways, PTL

(* No command is served twice, and none is lost but the one right behind   *)
(* an Open or a FastOpen (Card.c:437-445, 499-500, 670-671).               *)
THEOREM ServedAtMostOnce == Spec => []ServedOnce
<1>1. Rendezvous => ServedOnce
  BY DEF Rendezvous, Through
<1> QED BY <1>1, RendezvousAlways, PTL

(* As long as no Open was sent, and no Create may have met a full table:   *)
(* every stub that is past its spin loops had its command served exactly   *)
(* once, and the result it hands to the game was written for this call.    *)
THEOREM ResultsAreOwn == Spec => []ResultIsOwn
<1>1. Rendezvous => ResultIsOwn
  <2> SUFFICES ASSUME Rendezvous, Quiet PROVE ResultsOwn
    BY DEF ResultIsOwn, Quiet
  <2>1. ASSUME NEW r \in Requests, Answered(r) PROVE runs[r] = 1
    <3>1. ~(r > 1 /\ kindOf[r - 1] \in ClearsControl)
      BY MailboxAssumption DEF Quiet, Requests
    <3>2. runs[r] <= 1 /\ runs[r] # 0 /\ runs[r] \in Nat
      BY <2>1, <3>1 DEF Rendezvous, Through, ServedOnce, TypeOK
    <3> QED BY <3>2
  <2> QED BY <2>1 DEF ResultsOwn, Rendezvous, OwnResult, Sent
<1> QED BY <1>1, RendezvousAlways, PTL
=============================================================================
