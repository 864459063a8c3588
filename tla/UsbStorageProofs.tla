-------------------------- MODULE UsbStorageProofs --------------------------
(***************************************************************************)
(* Proofs about the USB drive and its driver, for any number of sectors,   *)
(* units, ports and retries, whatever goes wrong with the messages and as  *)
(* often as it does: the driver leaves the drive in step, the right unit   *)
(* is mounted, and disk_read and disk_write keep the promise of DiskSpec.  *)
(*                                                                         *)
(* The inductive invariant has one part for each thing that a later step   *)
(* goes by: the types (UsbTypes), whether a drive is mounted (MountInv)    *)
(* and a call pending (CallInv), what the drive is ready to move           *)
(* (DataInv), in which phase it is once the driver goes on (StepInv), what *)
(* a good status stands for (DoneInv), and the units while nothing goes    *)
(* wrong (UnitInv).                                                        *)
(***************************************************************************)
EXTENDS UsbStorage, TLAPS

(* Where the driver can be: in a command, in its recovery, in the opening  *)
(* of the drive; and what a command can be.                                *)
CyclePlaces == {"cbw", "data", "csw", "ended"}
ResetPlaces == {"reset", "clear_in", "clear_out"}
OpenPlaces  == {"open", "max_lun", "open_in", "open_out"}
Blocks      == {"read", "write"}
Queries     == {"tur", "sense", "inquiry", "capacity"}

(* The values of the variables that hold a record or a function.           *)
Drives  == [phase : {"cbw", "in", "out", "csw", "lost"}, at : Nat, left : Nat, moved : Nat,
            tag : Nat, status : 0 .. 2]
Handles == [tag : Nat, max_lun : 0 .. Luns, size : 0 .. 1]
Cycles  == [op : {"none"} \cup Queries \cup Blocks, at : Nat, n : Nat, len : Nat, done : Nat,
            retries : Nat, status : 0 .. 2]
Calls   == [id : 0 .. MaxCalls, op : {"none"} \cup Blocks, at : Nat, n : Nat, answer : BOOLEAN]
Media   == [0 .. Sectors - 1 -> Contents]
Bits    == [Endpoints -> 0 .. 1]
Places  == {"off", "discover", "ready", "called", "return"} \cup OpenPlaces \cup CyclePlaces
             \cup ResetPlaces

(* The types, of the drive with what the user did to it, of the driver,    *)
(* and of the sectors.                                                     *)
DriveTypes ==
  /\ usb \in Drives
  /\ halted \subseteq Endpoints
  /\ toggle \in Bits /\ toggles \in Bits
  /\ media \subseteq 0 .. Luns - 1
  /\ port \in -1 .. Ports - 1
  /\ faults \in Nat /\ refusals \in Nat
DriverTypes ==
  /\ scan \in 0 .. Ports - 1 /\ released \subseteq 0 .. Ports - 1
  /\ dev \in Handles
  /\ cycle \in Cycles
  /\ pc \in Places
  /\ from \in {"open", "close", "retry", "timeout", "last"}
  /\ retval \in {"ok", "timeout", "error"}
  /\ lun \in 0 .. Luns - 1
  /\ mounted \in BOOLEAN
  /\ call \in Calls
  /\ calls \in 0 .. MaxCalls
DataTypes == disk \in Media /\ mem \in Media

UsbTypes == DriveTypes /\ DriverTypes /\ DataTypes

(* The drive waits for a command, and both of its endpoints are open.      *)
Quiet == usb.phase = "cbw" /\ halted = {}

(* The driver does not wait on a drive in another phase. A command that    *)
(* did not time out ended with the drive waiting; a halt of the OUT        *)
(* endpoint without one of the IN endpoint is met before the status is     *)
(* read; and a reset that was not refused lifts them in turn.              *)
StepInv ==
  Plugged /\ refusals = 0 =>
    /\ pc \in {"ready", "called", "return"} /\ mounted => Quiet
    /\ pc = "ended" /\ retval # "timeout" => Quiet
    /\ pc = "data" => "out" \notin halted
    /\ pc = "csw" => ("out" \in halted => "in" \in halted)
    /\ pc \in {"clear_in", "clear_out"} => usb.phase = "cbw"
    /\ pc = "clear_out" => "in" \notin halted

(* The drive is mounted while commands of calls are served, and only then; *)
(* and not while it is opened.                                             *)
MountInv ==
  /\ mounted => pc \in {"ready", "called", "return"} \cup CyclePlaces \cup ResetPlaces
  /\ pc \in CyclePlaces \cup ResetPlaces => (mounted <=> cycle.op \in Blocks)
  /\ pc \in ResetPlaces /\ mounted => from \in {"retry", "timeout", "last"}
  /\ pc \in {"off", "discover"} \cup OpenPlaces => cycle.op \notin Blocks

(* A command of a call is under way.                                       *)
Serving == pc \in CyclePlaces \cup ResetPlaces /\ cycle.op \in Blocks

(* A call is pending from Call to Return, the command under way is its     *)
(* own, and a write still has its buffer.                                  *)
CallInv ==
  /\ call = Idle <=> ~(Serving \/ pc \in {"called", "return"})
  /\ call # Idle =>
       /\ call.id > 0 /\ call.op \in Blocks /\ call.n > 0 /\ call.at + call.n <= Sectors
       /\ call.op = "write" => \A k \in 0 .. Sectors - 1 : mem[k] = <<call.id, k>>
       /\ pc # "return" => ~call.answer
  /\ Serving =>
       /\ cycle.op = call.op /\ cycle.at = call.at /\ cycle.n = call.n
       /\ call.op = "read" => cycle.len + cycle.done = cycle.n

(* The data the drive is ready to move lie within what the command asked   *)
(* for and the driver expects; they are the whole of it unless the status  *)
(* will tell.                                                              *)
DataInv ==
  pc = "data" /\ usb.phase \in {"in", "out"} =>
    /\ usb.at = cycle.at /\ usb.moved = 0
    /\ usb.left <= cycle.n /\ usb.left <= cycle.len
    /\ usb.status = 0 => usb.left = cycle.n /\ cycle.n = cycle.len

(* All sectors of the call were moved.                                     *)
Moved ==
  \A k \in 0 .. call.n - 1 :
    IF call.op = "write" THEN disk[call.at + k] = <<call.id, k>> ELSE mem[k] = disk[call.at + k]

(* A good status stands for a transfer that moved them: as long as the     *)
(* drive holds it, after the driver read it, and when the call returns.    *)
DoneInv ==
  /\ pc = "csw" /\ Serving /\ usb.phase = "csw" /\ "in" \notin halted /\ usb.status = 0 => Moved
  /\ pc = "ended" /\ Serving /\ retval = "ok" /\ cycle.status = 0 => Moved
  /\ pc = "return" /\ call.answer /\ cycle.status = 0 => Moved

(* Nothing went wrong, and nothing was called yet.                         *)
Smooth == faults = 0 /\ refusals = 0 /\ Plugged /\ calls = 0

(* The units before l have no medium.                                      *)
Empty(l) == \A m \in media \cap Tried : m >= l

(* dev.max_lun of a drive that answers.                                    *)
Last == IF Luns = 1 THEN 1 ELSE Luns - 1

(* The unit serves the command.                                            *)
Fits == cycle.op # "tur" \/ lun \in media

(* The drive as the opening leaves it.                                     *)
Opened == lun = 0 /\ ~mounted /\ toggle = Zeroes /\ toggles = Zeroes /\ Quiet

(* A unit is tried: those before it have no medium.                        *)
Trying ==
  /\ cycle.op \in Queries /\ cycle.n = IF cycle.op = "tur" THEN 0 ELSE 1
  /\ cycle.op \in {"inquiry", "capacity"} => lun \in media
  /\ cycle.op = "sense" => lun \notin media
  /\ toggle = toggles /\ halted = {}
  /\ dev.max_lun = Last /\ lun < Last /\ Empty(lun)

(* The messages of a query, each with what it tells.                       *)
Told ==
  /\ pc \in {"cbw", "data"} => cycle.len = cycle.n /\ cycle.done = 0
  /\ pc \in {"csw", "ended"} => cycle.done = cycle.n
  /\ pc \in {"cbw", "ended"} => usb.phase = "cbw"
  /\ pc = "data" => usb.phase = "in" /\ usb.left = 1 /\ cycle.op # "tur"
  /\ pc = "csw" => usb.phase = "csw"
  /\ pc \in {"data", "csw"} => usb.tag = dev.tag /\ (usb.status = 0 <=> Fits)
  /\ pc = "ended" => retval = "ok" /\ (cycle.status = 0 <=> Fits)

(* The unit that is mounted is the first of those tried with a medium.     *)
Found == lun \in media /\ lun < Last /\ Empty(lun) /\ dev.size = 1

(* The opening and the units, when nothing goes wrong.                     *)
UnitInv ==
  /\ pc \in {"off", "discover"} => lun = 0
  /\ Smooth =>
       /\ pc \in OpenPlaces \cup ResetPlaces => Opened
       /\ pc \in ResetPlaces => from = "open"
       /\ pc \in {"open_in", "open_out"} => dev.max_lun = Last
       /\ pc \in CyclePlaces => Trying /\ Told
       /\ pc = "ready" => (mounted => Found) /\ (~mounted => media \cap Tried = {})
       /\ pc \notin {"called", "return"}

-----------------------------------------------------------------------------
(* Remainder by Wrap, and what Min and Max choose of two numbers.          *)
LEMMA Remainder ==
  ASSUME NEW a \in Nat
  PROVE  a % Wrap \in Nat /\ a % Wrap < Wrap
BY UsbAssumption

LEMMA MinOfTwo ==
  ASSUME NEW a \in Int, NEW b \in Int
  PROVE  Min({a, b}) = IF a <= b THEN a ELSE b
BY DEF Min

LEMMA MaxOfTwo ==
  ASSUME NEW a \in Int, NEW b \in Int
  PROVE  Max({a, b}) = IF a >= b THEN a ELSE b
BY DEF Max

(* The initial state has the types.                                        *)
LEMMA StartTypes == Init => UsbTypes
<1> SUFFICES ASSUME Init PROVE UsbTypes
  OBVIOUS
<1> USE UsbAssumption
<1>1. DataTypes
  BY DEF Init, Contents, Fresh, Garbage, DataTypes, Media
<1>2. usb \in Drives /\ cycle \in Cycles /\ call \in Calls /\ dev \in Handles
  BY DEF Init, Waiting, NoCycle, Idle, Closed, Drives, Cycles, Calls, Handles
<1>3. DriveTypes
  BY <1>2 DEF Init, Zeroes, Endpoints, DriveTypes, Bits
<1>4. pc \in Places
  BY DEF Init, Places
<1>5. /\ scan \in 0 .. Ports - 1 /\ released \subseteq 0 .. Ports - 1
      /\ lun \in 0 .. Luns - 1 /\ calls \in 0 .. MaxCalls
  BY DEF Init
<1>6. /\ from \in {"open", "close", "retry", "timeout", "last"}
      /\ retval \in {"ok", "timeout", "error"}
      /\ mounted \in BOOLEAN
  BY DEF Init
<1>7. DriverTypes
  BY <1>2, <1>4, <1>5, <1>6 DEF DriverTypes
<1> QED BY <1>1, <1>3, <1>7 DEF UsbTypes

-----------------------------------------------------------------------------
(* What the parts of an action do.                                         *)

(* ResetReturns, its cases written out.                                    *)
Recovers(r) ==
  \/ /\ from = "open" /\ r = ETIMEDOUT
     /\ pc' = "ready" /\ dev' = Closed /\ UNCHANGED <<from, retval, cycle>>
  \/ /\ from = "open" /\ r # ETIMEDOUT
     /\ pc' = "max_lun" /\ UNCHANGED <<dev, from, retval, cycle>>
  \/ /\ from = "close"
     /\ pc' = "ready" /\ dev' = Closed /\ UNCHANGED <<from, retval, cycle>>
  \/ /\ from = "retry" /\ r = ETIMEDOUT
     /\ pc' = "ended" /\ retval' = "timeout" /\ UNCHANGED <<dev, from, cycle>>
  \/ /\ from = "retry" /\ r # ETIMEDOUT /\ cycle.retries = 0
     /\ pc' = "reset" /\ from' = "last" /\ UNCHANGED <<dev, retval, cycle>>
  \/ /\ from = "retry" /\ r # ETIMEDOUT /\ cycle.retries # 0
     /\ pc' = "cbw" /\ cycle' = [cycle EXCEPT !.retries = @ - 1]
     /\ UNCHANGED <<dev, from, retval>>
  \/ /\ from = "timeout"
     /\ pc' = "ended" /\ retval' = "timeout" /\ UNCHANGED <<dev, from, cycle>>
  \/ /\ from = "last" /\ pc' = "ended" /\ UNCHANGED <<dev, from, cycle>>
     /\ retval' = IF r = ETIMEDOUT THEN "timeout" ELSE "error"

(* What Ends does for the results it is given.                             *)
LEMMA EndsAre ==
  /\ Ends(0) => pc' = "ended" /\ retval' = "ok" /\ from' = from
  /\ Ends(-1) => pc' = "ended" /\ retval' = "error" /\ from' = from
  /\ Ends(ETIMEDOUT) => pc' = "ended" /\ retval' = "timeout" /\ from' = from
BY DEF Ends, ETIMEDOUT

(* ResetReturns, with its cases written out, for both results.             *)
LEMMA ReturnsAre ==
  ASSUME UsbTypes, NEW r \in {0, ETIMEDOUT}, ResetReturns(r)
  PROVE  Recovers(r)
<1>1. from \in {"open", "close", "retry", "timeout", "last"}
  BY DEF UsbTypes, DriverTypes
<1>2. CASE from = "open"
  BY <1>2 DEF ResetReturns, Recovers
<1>3. CASE from = "close"
  BY <1>3 DEF ResetReturns, Recovers
<1>4. CASE from = "retry"
  <2>1. \/ r = ETIMEDOUT /\ Ends(r) /\ UNCHANGED <<cycle, dev>>
        \/ r # ETIMEDOUT /\ cycle.retries = 0 /\ Reset("last") /\ UNCHANGED <<cycle, dev>>
        \/ /\ r # ETIMEDOUT /\ cycle.retries # 0
           /\ cycle' = [cycle EXCEPT !.retries = @ - 1] /\ GoTo("cbw") /\ UNCHANGED dev
    BY <1>4 DEF ResetReturns
  <2> QED BY <1>4, <2>1, EndsAre DEF Recovers, GoTo, Reset
<1>5. CASE from = "last"
  <2>1. /\ Ends(IF r = ETIMEDOUT THEN r ELSE -1)
        /\ UNCHANGED <<cycle, dev>>
    BY <1>5 DEF ResetReturns
  <2> QED BY <1>5, <2>1, EndsAre DEF Recovers
<1>6. CASE from = "timeout"
  BY <1>6, EndsAre DEF ResetReturns, Recovers
<1> QED BY <1>1, <1>2, <1>3, <1>4, <1>5, <1>6

(* The toggles stay bits.                                                  *)
LEMMA FlipTypes ==
  ASSUME UsbTypes, NEW ep \in Endpoints, NEW h \in Nat, NEW d \in Nat, Flip(ep, h, d)
  PROVE  toggle' \in Bits /\ toggles' \in Bits
BY DEF UsbTypes, DriveTypes, Bits, Flip

(* A new command.                                                          *)
LEMMA BeginTypes ==
  ASSUME NEW op \in Queries \cup Blocks, NEW at \in Nat, NEW n \in Nat, NEW len \in Nat,
         Begin(op, at, n, len)
  PROVE  /\ cycle' \in Cycles /\ pc' = "cbw" /\ from' = from /\ retval' = retval
         /\ cycle'.op = op /\ cycle'.at = at /\ cycle'.n = n /\ cycle'.len = len
         /\ cycle'.done = 0 /\ cycle'.status = 0
BY UsbAssumption DEF Begin, Cycles, GoTo

(* The values of a drive that waits, of a closed handle and of no toggle.  *)
LEMMA WaitingTypes == Waiting \in Drives /\ Closed \in Handles /\ Zeroes \in Bits
BY UsbAssumption DEF Waiting, Drives, Closed, Handles, Zeroes, Bits, Endpoints

(* The drive after a CBW, field by field.                                  *)
LEMMA AcceptedTypes ==
  ASSUME UsbTypes
  PROVE  /\ Accepted \in Drives
         /\ Accepted.at = cycle.at /\ Accepted.moved = 0 /\ Accepted.tag = dev.tag
         /\ Accepted.left = IF Refused THEN 0 ELSE Min({cycle.n, cycle.len})
         /\ Accepted.left <= cycle.n /\ Accepted.left <= cycle.len
         /\ Accepted.phase =
              IF cycle.len = 0 THEN "csw" ELSE IF cycle.op = "write" THEN "out" ELSE "in"
         /\ Accepted.status = IF Refused THEN 1 ELSE IF cycle.n # cycle.len THEN 2 ELSE 0
<1> DEFINE left == IF Refused THEN 0 ELSE Min({cycle.n, cycle.len})
           phase == IF cycle.len = 0 THEN "csw"
                    ELSE IF cycle.op = "write" THEN "out" ELSE "in"
           status == IF Refused THEN 1 ELSE IF cycle.n # cycle.len THEN 2 ELSE 0
<1>1. cycle.n \in Nat /\ cycle.len \in Nat /\ cycle.at \in Nat /\ dev.tag \in Nat
  BY DEF UsbTypes, DriverTypes, Cycles, Handles
<1>2. left \in Nat /\ left <= cycle.n /\ left <= cycle.len
  BY <1>1, MinOfTwo
<1>3. Accepted = [phase |-> phase, at |-> cycle.at, moved |-> 0, tag |-> dev.tag,
                  left |-> left, status |-> status]
  BY DEF Accepted
<1>4. phase \in {"cbw", "in", "out", "csw", "lost"} /\ status \in 0 .. 2
  OBVIOUS
<1> QED BY <1>1, <1>2, <1>3, <1>4 DEF Drives

(* The drive after k packets, field by field.                              *)
LEMMA SentTypes ==
  ASSUME usb \in Drives, NEW k \in Nat, k <= usb.left
  PROVE  /\ Sent(k) \in Drives
         /\ Sent(k).phase = usb.phase /\ Sent(k).at = usb.at /\ Sent(k).tag = usb.tag
         /\ Sent(k).status = usb.status
         /\ Sent(k).left = usb.left - k /\ Sent(k).moved = usb.moved + k
<1> DEFINE left == usb.left - k
           moved == usb.moved + k
<1>1. left \in Nat /\ moved \in Nat
  BY DEF Drives
<1>2. Sent(k) = [usb EXCEPT !.left = left, !.moved = moved]
  BY DEF Sent
<1> HIDE DEF left, moved
<1>3. /\ [usb EXCEPT !.left = left, !.moved = moved] \in Drives
      /\ Sent(k).phase = usb.phase /\ Sent(k).at = usb.at /\ Sent(k).tag = usb.tag
      /\ Sent(k).status = usb.status
      /\ Sent(k).left = left /\ Sent(k).moved = moved
  BY <1>1, <1>2 DEF Drives
<1> QED BY <1>2, <1>3 DEF left, moved

-----------------------------------------------------------------------------
(* The types.                                                              *)

(* A command for blocks serves the pending call.                           *)
LEMMA ServedCall ==
  ASSUME UsbTypes, CallInv, pc \in CyclePlaces \cup ResetPlaces, cycle.op \in Blocks
  PROVE  /\ call # Idle /\ call.op = cycle.op /\ call.at = cycle.at /\ call.n = cycle.n
         /\ cycle.at + cycle.n <= Sectors /\ cycle.n > 0
         /\ ~call.answer
         /\ cycle.op = "write" => \A k \in 0 .. Sectors - 1 : mem[k] = <<call.id, k>>
         /\ cycle.op = "read" => cycle.len + cycle.done = cycle.n
<1>1. Serving
  BY DEF Serving
<1>2. pc \notin {"called", "return"}
  BY DEF CyclePlaces, ResetPlaces
<1> QED BY <1>1, <1>2 DEF CallInv, Blocks

(* The changes of phase the messages make.                                 *)
LEMMA DriveChanges ==
  ASSUME NEW u \in Drives, NEW p \in {"cbw", "in", "out", "csw", "lost"}
  PROVE  /\ [u EXCEPT !.phase = p] \in Drives
         /\ [u EXCEPT !.phase = p, !.status = 1] \in Drives
         /\ [u EXCEPT !.phase = p, !.left = 0, !.status = 1] \in Drives
<1>1. [u EXCEPT !.phase = p] \in Drives
  BY DEF Drives
<1> DEFINE v == [u EXCEPT !.phase = p]
           w == [v EXCEPT !.left = 0]
           x == [v EXCEPT !.status = 1]
           y == [w EXCEPT !.status = 1]
<1>2. v \in Drives
  BY <1>1
<1>3. x = [u EXCEPT !.phase = p, !.status = 1]
  BY DEF Drives
<1>4. y = [u EXCEPT !.phase = p, !.left = 0, !.status = 1]
  BY DEF Drives
<1> HIDE DEF v
<1>5. w \in Drives /\ x \in Drives
  BY <1>2 DEF Drives
<1> HIDE DEF w
<1>6. y \in Drives
  BY <1>5 DEF Drives
<1> QED BY <1>1, <1>3, <1>4, <1>5, <1>6, Zenon

(* The types after each action.                                            *)
LEMMA SendCbwTypes ==
  ASSUME UsbTypes, SendCbw
  PROVE  UsbTypes'
<1>1. usb' \in Drives
  <2>1. usb \in Drives
    BY DEF UsbTypes, DriveTypes
  <2>2. [usb EXCEPT !.phase = "csw", !.status = 1] \in Drives
    BY <2>1, DriveChanges, Zenon
  <2> QED BY <2>1, <2>2, AcceptedTypes, Zenon DEF SendCbw, NoEffect, TimesOut
<1>2. halted' \subseteq Endpoints
  BY DEF SendCbw, UsbTypes, DriveTypes, NoEffect, TimesOut, Endpoints
<1>3. toggle' \in Bits /\ toggles' \in Bits
  BY FlipTypes DEF SendCbw, UsbTypes, DriveTypes, NoEffect, TimesOut, SameToggles, Endpoints
<1>4. faults' \in Nat
  BY UsbAssumption
     DEF SendCbw, UsbTypes, DriveTypes, Fault, NoFault, FaultUnless, TimesOut
<1>5. /\ pc' \in Places /\ from' \in {"open", "close", "retry", "timeout", "last"}
      /\ retval' \in {"ok", "timeout", "error"}
  BY EndsAre DEF SendCbw, UsbTypes, DriverTypes, AfterCbw, GoTo, Reset, Places,
     CyclePlaces, ResetPlaces
<1>6. disk' = disk
  BY DEF SendCbw, NoEffect, TimesOut
<1>7. UNCHANGED <<media, port, refusals, ports, handle, cycle, call, mem, calls>>
  BY DEF SendCbw
<1>8. DriveTypes'
  BY <1>1, <1>2, <1>3, <1>4, <1>7 DEF UsbTypes, DriveTypes
<1>9. DriverTypes'
  BY <1>5, <1>7 DEF UsbTypes, DriverTypes, ports, handle
<1> QED BY <1>6, <1>7, <1>8, <1>9 DEF UsbTypes, DataTypes

LEMMA ReadDataTypes ==
  ASSUME UsbTypes, CallInv, DataInv, ReadData
  PROVE  UsbTypes'
<1> USE UsbAssumption
<1>1. /\ usb \in Drives /\ usb.left \in Nat /\ cycle \in Cycles /\ cycle.len \in Nat
      /\ cycle.done \in Nat /\ usb.at \in Nat /\ usb.moved \in Nat /\ cycle.n \in Nat
      /\ cycle.at \in Nat
  BY DEF UsbTypes, DriveTypes, DriverTypes, Drives, Cycles
<1>2. Packets \in Nat
  BY <1>1, Remainder DEF Packets
<1>3. Min({usb.left, Packets}) = IF usb.left <= Packets THEN usb.left ELSE Packets
  BY <1>1, <1>2, MinOfTwo
<1>4. Max({usb.left, 1}) = IF usb.left >= 1 THEN usb.left ELSE 1
  BY <1>1, MaxOfTwo
<1>5. usb' \in Drives
  <2>1. ASSUME NEW k \in 0 .. Min({usb.left, Packets}),
               \/ usb' = [Sent(k) EXCEPT !.phase = IF usb.left = k THEN "csw" ELSE "in"]
               \/ usb' = [Sent(k) EXCEPT !.phase = "csw", !.left = 0, !.status = 1]
               \/ usb' = Sent(k)
        PROVE  usb' \in Drives
    <3>1. k \in Nat /\ k <= usb.left
      BY <1>1, <1>2, <1>3
    <3>2. Sent(k) \in Drives
      BY <1>1, <3>1, SentTypes
    <3>3. (IF usb.left = k THEN "csw" ELSE "in") \in {"cbw", "in", "out", "csw", "lost"}
      OBVIOUS
    <3> QED BY <2>1, <3>2, <3>3, DriveChanges, Zenon
  <2> QED BY <1>1, <2>1, WaitingTypes, Zenon DEF ReadData, NoEffect, TimesOut
<1>6. halted' \subseteq Endpoints
  BY DEF ReadData, UsbTypes, DriveTypes, NoEffect, TimesOut, Endpoints
<1>7. toggle' \in Bits /\ toggles' \in Bits
  <2>1. ASSUME NEW k \in 0 .. Min({usb.left, Packets})
        PROVE  k \in Nat /\ k + 1 \in Nat
    BY <1>1, <1>2, <1>3
  <2>2. Max({usb.left, 1}) \in Nat /\ Max({usb.left, 1}) + 1 \in Nat
    BY <1>1, <1>4
  <2>3. \/ \E k \in 0 .. Min({usb.left, Packets}) :
             Flip("in", k, k) \/ Flip("in", k + 1, k + 1)
        \/ Flip("in", Max({usb.left, 1}), Max({usb.left, 1}) + 1)
        \/ SameToggles
    BY DEF ReadData, NoEffect, TimesOut
  <2> QED BY <2>1, <2>2, <2>3, FlipTypes DEF UsbTypes, DriveTypes, SameToggles, Endpoints
<1>8. faults' \in Nat
  <2>1. faults \in Nat
    BY DEF UsbTypes, DriveTypes
  <2>2. Fault => faults' = faults + 1
    BY DEF Fault
  <2>3. NoFault => faults' = faults
    BY DEF NoFault
  <2>4. Fault \/ NoFault
    BY DEF ReadData, TimesOut, FaultUnless
  <2> QED BY <2>1, <2>2, <2>3, <2>4
<1>9. /\ pc' \in Places /\ from' \in {"open", "close", "retry", "timeout", "last"}
      /\ retval' \in {"ok", "timeout", "error"}
  BY DEF ReadData, UsbTypes, DriverTypes, GoTo, Reset, Places, CyclePlaces, ResetPlaces
<1>10. ASSUME NEW k \in Nat, NEW skip \in {0, 1}, Arrive(k, skip),
              skip <= k, usb.phase = "in",
              k <= usb.left \/ (skip = 1 /\ k = 1)
       PROVE  mem' \in Media /\ cycle' \in Cycles
  <2>1. pc = "data" /\ cycle.op # "write"
    BY DEF ReadData
  <2>2. /\ usb.at = cycle.at /\ usb.moved = 0
        /\ usb.left <= cycle.n /\ usb.left <= cycle.len
    BY <1>10, <2>1 DEF DataInv
  <2>3. k - skip \in Nat /\ k - skip <= cycle.len
    BY <1>1, <1>10, <2>2
  <2>4. cycle' \in Cycles
    <3> DEFINE l == cycle.len - (k - skip)
               d == cycle.done + (k - skip)
    <3>1. l \in Nat /\ d \in Nat
      BY <1>1, <2>3
    <3>2. cycle' = [cycle EXCEPT !.len = l, !.done = d]
      BY <1>10 DEF Arrive
    <3> HIDE DEF l, d
    <3> QED BY <1>1, <3>1, <3>2 DEF Cycles
  <2>5. CASE cycle.op = "read"
    <3>1. cycle.at + cycle.n <= Sectors
      BY <2>1, <2>5, ServedCall DEF CyclePlaces, Blocks
    <3>2. disk \in Media /\ mem \in Media
      BY DEF UsbTypes, DataTypes
    <3>3. ASSUME NEW i \in 0 .. Sectors - 1, i \in cycle.done .. cycle.done + k - skip - 1
          PROVE  usb.at + usb.moved + skip + i - cycle.done \in 0 .. Sectors - 1
      BY <1>1, <1>10, <2>2, <3>1, <3>3
    <3>4. mem' = [i \in 0 .. Sectors - 1 |->
                    IF i \in cycle.done .. cycle.done + k - skip - 1
                    THEN disk[usb.at + usb.moved + skip + i - cycle.done] ELSE mem[i]]
      BY <1>10, <2>5, <3>2 DEF Arrive, Media
    <3> QED BY <2>4, <3>2, <3>3, <3>4 DEF Media
  <2>6. CASE cycle.op # "read"
    BY <1>10, <2>4, <2>6 DEF Arrive, UsbTypes, DataTypes
  <2> QED BY <2>5, <2>6
<1>11. mem' \in Media /\ cycle' \in Cycles
  <2>1. CASE \E k \in 0 .. Min({usb.left, Packets}) : usb.phase = "in" /\ Arrive(k, 0)
    BY <1>1, <1>2, <1>3, <1>10, <2>1
  <2>2. CASE usb.phase = "in" /\ Arrive(Max({usb.left, 1}), 1)
    BY <1>1, <1>4, <1>10, <2>2
  <2>3. CASE UNCHANGED <<mem, cycle>>
    BY <2>3 DEF UsbTypes, DataTypes, DriverTypes
  <2> QED BY <2>1, <2>2, <2>3 DEF ReadData
<1>12. UNCHANGED <<disk, media, port, refusals, ports, handle, call, calls>>
  BY DEF ReadData
<1>13. DriveTypes'
  BY <1>5, <1>6, <1>7, <1>8, <1>12 DEF UsbTypes, DriveTypes
<1>14. DriverTypes'
  BY <1>9, <1>11, <1>12 DEF UsbTypes, DriverTypes, ports, handle
<1> QED BY <1>11, <1>12, <1>13, <1>14 DEF UsbTypes, DataTypes

LEMMA WriteDataTypes ==
  ASSUME UsbTypes, CallInv, DataInv, WriteData
  PROVE  UsbTypes'
<1> USE UsbAssumption
<1>1. /\ usb \in Drives /\ usb.left \in Nat /\ cycle \in Cycles /\ cycle.len \in Nat
      /\ usb.at \in Nat /\ usb.moved \in Nat /\ cycle.n \in Nat /\ cycle.at \in Nat
  BY DEF UsbTypes, DriveTypes, DriverTypes, Drives, Cycles
<1>2. Packets \in Nat
  BY <1>1, Remainder DEF Packets
<1>3. Min({usb.left, Packets}) = IF usb.left <= Packets THEN usb.left ELSE Packets
  BY <1>1, <1>2, MinOfTwo
<1>4. pc = "data" /\ cycle.op = "write"
  BY DEF WriteData
<1>5. usb' \in Drives
  <2>1. ASSUME NEW k \in 0 .. Min({usb.left, Packets}),
               \/ usb' = [Sent(k) EXCEPT !.phase = IF usb.left = k THEN "csw" ELSE "out"]
               \/ usb' = [Sent(k) EXCEPT !.phase = "csw", !.left = 0, !.status = 1]
               \/ usb' = Sent(k)
        PROVE  usb' \in Drives
    <3>1. k \in Nat /\ k <= usb.left
      BY <1>1, <1>2, <1>3
    <3>2. Sent(k) \in Drives
      BY <1>1, <3>1, SentTypes
    <3>3. (IF usb.left = k THEN "csw" ELSE "out") \in {"cbw", "in", "out", "csw", "lost"}
      OBVIOUS
    <3> QED BY <2>1, <3>2, <3>3, DriveChanges, Zenon
  <2>2. [usb EXCEPT !.phase = "csw", !.left = 0, !.status = 1] \in Drives
    BY <1>1, DriveChanges, Zenon
  <2>3. [Waiting EXCEPT !.phase = "lost"] \in Drives
    BY WaitingTypes, DriveChanges, Zenon
  <2> QED BY <1>1, <2>1, <2>2, <2>3, Zenon DEF WriteData, NoEffect, TimesOut
<1>6. halted' \subseteq Endpoints
  BY DEF WriteData, UsbTypes, DriveTypes, NoEffect, TimesOut, Endpoints
<1>7. toggle' \in Bits /\ toggles' \in Bits
  <2>1. ASSUME NEW k \in 0 .. Min({usb.left, Packets})
        PROVE  k \in Nat
    BY <1>1, <1>2, <1>3
  <2>2. \/ \E k \in 0 .. Min({usb.left, Packets}) : Flip("out", k, k)
        \/ Flip("out", 1, 1)
        \/ SameToggles
    BY DEF WriteData, NoEffect, TimesOut
  <2> QED BY <2>1, <2>2, FlipTypes DEF UsbTypes, DriveTypes, SameToggles, Endpoints
<1>8. faults' \in Nat
  <2>1. faults \in Nat
    BY DEF UsbTypes, DriveTypes
  <2>2. Fault => faults' = faults + 1
    BY DEF Fault
  <2>3. NoFault => faults' = faults
    BY DEF NoFault
  <2>4. Fault \/ NoFault
    BY DEF WriteData, TimesOut, FaultUnless
  <2> QED BY <2>1, <2>2, <2>3, <2>4
<1>9. /\ pc' \in Places /\ from' \in {"open", "close", "retry", "timeout", "last"}
      /\ retval' \in {"ok", "timeout", "error"}
  BY DEF WriteData, UsbTypes, DriverTypes, GoTo, Reset, Places, CyclePlaces,
     ResetPlaces
<1>10. cycle' \in Cycles
  <2>1. \/ \E k \in 0 .. Min({usb.left, Packets}) :
             cycle' = [cycle EXCEPT !.len = 0, !.done = k]
        \/ cycle' = cycle
    BY DEF WriteData
  <2>2. ASSUME NEW k \in 0 .. Min({usb.left, Packets})
        PROVE  [cycle EXCEPT !.len = 0, !.done = k] \in Cycles
    <3>1. k \in Nat
      BY <1>1, <1>2, <1>3
    <3> QED BY <1>1, <3>1 DEF Cycles
  <2> QED BY <1>1, <2>1, <2>2
<1>11. disk' \in Media
  <2>1. disk \in Media /\ mem \in Media
    BY DEF UsbTypes, DataTypes
  <2>2. ASSUME NEW k \in 0 .. Min({usb.left, Packets}), usb.phase = "out", Store(k)
        PROVE  disk' \in Media
    <3>1. k \in Nat /\ k <= usb.left
      BY <1>1, <1>2, <1>3
    <3>2. usb.at = cycle.at /\ usb.moved = 0 /\ usb.left <= cycle.n
      BY <1>4, <2>2 DEF DataInv
    <3>3. cycle.at + cycle.n <= Sectors
      BY <1>4, ServedCall DEF CyclePlaces, Blocks
    <3>4. ASSUME NEW s \in usb.at + usb.moved .. usb.at + usb.moved + k - 1
          PROVE  s - usb.at \in 0 .. Sectors - 1
      BY <1>1, <3>1, <3>2, <3>3
    <3>5. disk' = [s \in 0 .. Sectors - 1 |->
                     IF s \in usb.at + usb.moved .. usb.at + usb.moved + k - 1
                     THEN mem[s - usb.at] ELSE disk[s]]
      BY <2>1, <2>2 DEF Store, Media
    <3> QED BY <2>1, <3>4, <3>5 DEF Media
  <2>3. \/ \E k \in 0 .. Min({usb.left, Packets}) : usb.phase = "out" /\ Store(k)
        \/ disk' = disk
    BY DEF WriteData, NoEffect, TimesOut
  <2> QED BY <2>1, <2>2, <2>3
<1>12. UNCHANGED <<media, port, refusals, ports, handle, mem, call, calls>>
  BY DEF WriteData
<1>13. DriveTypes'
  BY <1>5, <1>6, <1>7, <1>8, <1>12 DEF UsbTypes, DriveTypes
<1>14. DriverTypes'
  BY <1>9, <1>10, <1>12 DEF UsbTypes, DriverTypes, ports, handle
<1> QED BY <1>11, <1>12, <1>13, <1>14 DEF UsbTypes, DataTypes

LEMMA ReadCswTypes ==
  ASSUME UsbTypes, ReadCsw
  PROVE  UsbTypes'
<1> USE UsbAssumption
<1>1. usb' \in Drives
  BY WaitingTypes DEF ReadCsw, UsbTypes, DriveTypes, NoEffect, TimesOut
<1>2. halted' \subseteq Endpoints
  BY DEF ReadCsw, UsbTypes, DriveTypes, NoEffect, TimesOut, Endpoints
<1>3. toggle' \in Bits /\ toggles' \in Bits
  <2>1. \/ Flip("in", IF Agree("in") THEN 1 ELSE 0, 1)
        \/ SameToggles
    BY DEF ReadCsw, NoEffect, TimesOut
  <2> QED BY <2>1, FlipTypes DEF UsbTypes, DriveTypes, SameToggles, Endpoints
<1>4. faults' \in Nat
  <2>1. faults \in Nat
    BY DEF UsbTypes, DriveTypes
  <2>2. Fault \/ NoFault
    BY DEF ReadCsw, TimesOut, FaultUnless
  <2> QED BY <2>1, <2>2 DEF Fault, NoFault
<1>5. /\ pc' \in Places /\ from' \in {"open", "close", "retry", "timeout", "last"}
      /\ retval' \in {"ok", "timeout", "error"}
  BY EndsAre DEF ReadCsw, UsbTypes, DriverTypes, Reset, Places, CyclePlaces, ResetPlaces
<1>6. usb.status \in 0 .. 2
  BY DEF UsbTypes, DriveTypes, Drives
<1>7. cycle' \in Cycles
  <2>1. cycle \in Cycles
    BY DEF UsbTypes, DriverTypes
  <2>2. [cycle EXCEPT !.status = usb.status] \in Cycles
    BY <1>6, <2>1 DEF Cycles
  <2> QED BY <2>1, <2>2 DEF ReadCsw
<1>8. dev' \in Handles
  <2>1. dev \in Handles
    BY DEF UsbTypes, DriverTypes
  <2>2. [dev EXCEPT !.tag = @ + 1] \in Handles
    BY <2>1 DEF Handles
  <2> QED BY <2>1, <2>2 DEF ReadCsw
<1>9. disk' = disk
  BY DEF ReadCsw, NoEffect, TimesOut
<1>10. UNCHANGED <<media, port, refusals, ports, lun, mounted, mem, call, calls>>
  BY DEF ReadCsw
<1>11. DriveTypes'
  BY <1>1, <1>2, <1>3, <1>4, <1>10 DEF UsbTypes, DriveTypes
<1>12. DriverTypes'
  BY <1>5, <1>7, <1>8, <1>10 DEF UsbTypes, DriverTypes, ports
<1> QED BY <1>9, <1>10, <1>11, <1>12 DEF UsbTypes, DataTypes

(* And after the reset has returned.                                       *)
LEMMA RecoverTypes ==
  ASSUME UsbTypes, NEW r \in {0, ETIMEDOUT}, ResetReturns(r)
  PROVE  /\ pc' \in Places /\ from' \in {"open", "close", "retry", "timeout", "last"}
         /\ retval' \in {"ok", "timeout", "error"}
         /\ cycle' \in Cycles /\ dev' \in Handles
<1>1. Recovers(r)
  BY ReturnsAre
<1>2. /\ from \in {"open", "close", "retry", "timeout", "last"}
      /\ retval \in {"ok", "timeout", "error"}
      /\ dev \in Handles
  BY DEF UsbTypes, DriverTypes
<1>3. cycle \in Cycles
  BY DEF UsbTypes, DriverTypes
<1>4. cycle.retries # 0 => [cycle EXCEPT !.retries = @ - 1] \in Cycles
  <2>1. cycle.retries # 0 => cycle.retries - 1 \in Nat
    BY <1>3 DEF Cycles
  <2> QED BY <1>3, <2>1 DEF Cycles
<1>5. cycle' \in Cycles
  BY <1>1, <1>3, <1>4 DEF Recovers
<1> QED BY <1>1, <1>2, <1>5, WaitingTypes
        DEF Recovers, Places, OpenPlaces, CyclePlaces, ResetPlaces

(* What a CLEAR_FEATURE changes.                                           *)
LEMMA ClearedTypes ==
  ASSUME UsbTypes, NEW ep \in Endpoints, Cleared(ep)
  PROVE  /\ halted' \subseteq halted /\ toggle' \in Bits
         /\ refusals' \in Nat
         /\ UNCHANGED <<usb, toggles, disk>>
         /\ usb.phase # "lost" /\ refusals' = refusals => halted' = halted \ {ep}
<1>1. /\ toggle \in Bits /\ refusals \in Nat
  BY DEF UsbTypes, DriveTypes
<1>2. [toggle EXCEPT ![ep] = 0] \in Bits
  BY <1>1 DEF Bits
<1> QED BY <1>1, <1>2 DEF Cleared, Refusal, NoEffect, SameToggles

LEMMA ResetTypes ==
  ASSUME UsbTypes, ClassReset \/ \E ep \in Endpoints : ClearHalt(ep)
  PROVE  UsbTypes'
<1> USE UsbAssumption
<1>1. /\ usb' \in Drives /\ halted' \subseteq Endpoints
      /\ toggle' \in Bits /\ toggles' \in Bits
      /\ disk' \in Media
  BY ClearedTypes, WaitingTypes
     DEF ClassReset, ClearHalt, UsbTypes, DriveTypes, DataTypes, TimesOut, NoEffect, SameToggles
<1>2. faults' \in Nat /\ refusals' \in Nat
  <2>1. faults \in Nat /\ refusals \in Nat
    BY DEF UsbTypes, DriveTypes
  <2>2. Refusal \/ UNCHANGED refusals
    BY DEF ClassReset, ClearHalt, Cleared
  <2>3. Fault \/ NoFault
    BY DEF ClassReset, ClearHalt, TimesOut, FaultUnless
  <2> QED BY <2>1, <2>2, <2>3 DEF Fault, NoFault, Refusal
<1>3. /\ pc' \in Places /\ from' \in {"open", "close", "retry", "timeout", "last"}
      /\ retval' \in {"ok", "timeout", "error"}
      /\ cycle' \in Cycles /\ dev' \in Handles
  <2>1. CASE \E r \in {0, ETIMEDOUT} : ResetReturns(r)
    BY <2>1, RecoverTypes
  <2>2. CASE (GoTo("clear_in") \/ GoTo("clear_out")) /\ UNCHANGED <<cycle, dev>>
    BY <2>2 DEF GoTo, UsbTypes, DriverTypes, Places, ResetPlaces
  <2> QED BY <2>1, <2>2 DEF ClassReset, ClearHalt
<1>4. UNCHANGED <<media, port, ports, lun, mounted, mem, call, calls>>
  BY DEF ClassReset, ClearHalt
<1>5. DriveTypes'
  BY <1>1, <1>2, <1>4 DEF UsbTypes, DriveTypes
<1>6. DriverTypes'
  BY <1>3, <1>4 DEF UsbTypes, DriverTypes, ports
<1> QED BY <1>1, <1>4, <1>5, <1>6 DEF UsbTypes, DataTypes

LEMMA OpeningTypes ==
  ASSUME UsbTypes, Opening
  PROVE  UsbTypes'
<1> USE UsbAssumption
<1>1. UNCHANGED <<disk, mem, call, calls, media, port, lun, mounted>>
  BY DEF Opening, ReleasePorts, NoDevice, ResetPort, Open, MaxLun, OpenClear, drive, handle,
     NoEffect, Cleared, TimesOut
<1>2. /\ usb' \in Drives /\ halted' \subseteq Endpoints
      /\ toggle' \in Bits /\ toggles' \in Bits
  BY ClearedTypes, WaitingTypes
     DEF Opening, ReleasePorts, NoDevice, ResetPort, Open, MaxLun, OpenClear, drive, handle,
     UsbTypes, DriveTypes, TimesOut, NoEffect, SameToggles
<1>3. faults' \in Nat /\ refusals' \in Nat
  <2>1. faults \in Nat /\ refusals \in Nat
    BY DEF UsbTypes, DriveTypes
  <2>2. Refusal \/ UNCHANGED refusals
    BY DEF Opening, ReleasePorts, NoDevice, ResetPort, Open, MaxLun, OpenClear, drive, Cleared
  <2>3. Fault \/ NoFault
    BY DEF Opening, ReleasePorts, NoDevice, ResetPort, Open, MaxLun, OpenClear, drive,
       TimesOut, FaultUnless, NoFault
  <2> QED BY <2>1, <2>2, <2>3 DEF Fault, NoFault, Refusal
<1>4. /\ scan' \in 0 .. Ports - 1 /\ released' \subseteq 0 .. Ports - 1
  <2>1. /\ scan \in 0 .. Ports - 1 /\ released \subseteq 0 .. Ports - 1
    BY DEF UsbTypes, DriverTypes
  <2>2. (scan + 1) % Ports \in 0 .. Ports - 1
    BY <2>1
  <2>3. UNCHANGED ports => scan' = scan /\ released' = released
    BY DEF ports
  <2> QED BY <2>1, <2>2, <2>3
          DEF Opening, ReleasePorts, NoDevice, ResetPort, Open, MaxLun, OpenClear
<1>5. dev' \in Handles
  <2>1. dev \in Handles /\ Closed \in Handles
    BY WaitingTypes DEF UsbTypes, DriverTypes
  <2>2. [Closed EXCEPT !.tag = 1] \in Handles
    BY <2>1 DEF Handles
  <2>3. ASSUME NEW n \in 0 .. Luns
        PROVE  [dev EXCEPT !.max_lun = IF n = 0 THEN 1 ELSE n] \in Handles
    BY <2>1 DEF Handles
  <2>4. UNCHANGED handle => dev' = dev
    BY DEF handle
  <2> QED BY <2>1, <2>2, <2>3, <2>4
          DEF Opening, ReleasePorts, NoDevice, ResetPort, Open, MaxLun, OpenClear
<1>6. cycle' \in Cycles
  <2>1. Begin("tur", 0, 0, 0) => cycle' \in Cycles
    BY BeginTypes DEF Queries
  <2> QED BY <2>1 DEF Opening, ReleasePorts, NoDevice, ResetPort, Open, MaxLun, OpenClear,
                      UsbTypes, DriverTypes
<1>7. /\ pc' \in Places /\ from' \in {"open", "close", "retry", "timeout", "last"}
      /\ retval' \in {"ok", "timeout", "error"}
  <2>1. Begin("tur", 0, 0, 0) => pc' = "cbw" /\ from' = from /\ retval' = retval
    BY BeginTypes DEF Queries
  <2> QED BY <2>1 DEF Opening, ReleasePorts, NoDevice, ResetPort, Open, MaxLun, OpenClear,
                      UsbTypes, DriverTypes, GoTo, Reset, Places, OpenPlaces, CyclePlaces,
                      ResetPlaces
<1>8. DriveTypes'
  BY <1>1, <1>2, <1>3 DEF UsbTypes, DriveTypes
<1>9. DriverTypes'
  BY <1>1, <1>4, <1>5, <1>6, <1>7 DEF UsbTypes, DriverTypes
<1> QED BY <1>1, <1>8, <1>9 DEF UsbTypes, DataTypes

LEMMA MountTypes ==
  ASSUME UsbTypes, MountStep \/ Mount
  PROVE  UsbTypes'
<1> USE UsbAssumption
<1>1. UNCHANGED <<drive, ports, toggles, call, mem, calls>>
  BY DEF MountStep, Mount
<1>2. /\ cycle' \in Cycles /\ pc' \in Places
      /\ from' \in {"open", "close", "retry", "timeout", "last"}
      /\ retval' \in {"ok", "timeout", "error"}
  <2>1. ASSUME NEW op \in Queries, NEW n \in Nat, Begin(op, 0, n, n)
        PROVE  cycle' \in Cycles /\ pc' = "cbw" /\ from' = from /\ retval' = retval
    BY <2>1, BeginTypes
  <2>2. \/ \E op \in Queries, n \in Nat : Begin(op, 0, n, n)
        \/ GoTo("ready") /\ UNCHANGED cycle
        \/ Reset("close") /\ UNCHANGED cycle
    BY DEF MountStep, Mount, ClearErrors, LunFails, Inquired, Queries
  <2> QED BY <2>1, <2>2 DEF GoTo, Reset, UsbTypes, DriverTypes, Places, CyclePlaces, ResetPlaces
<1>3. dev' \in Handles
  <2>1. dev \in Handles
    BY DEF UsbTypes, DriverTypes
  <2>2. ASSUME NEW size \in 0 .. 1
        PROVE  [dev EXCEPT !.size = size] \in Handles
    BY <2>1 DEF Handles
  <2> QED BY <2>1, <2>2 DEF MountStep, Mount
<1>4. lun' \in 0 .. Luns - 1
  <2>1. lun \in 0 .. Luns - 1 /\ dev.max_lun \in 0 .. Luns
    BY DEF UsbTypes, DriverTypes, Handles
  <2>2. lun + 1 < dev.max_lun => lun + 1 \in 0 .. Luns - 1
    BY <2>1
  <2>3. lun' = lun \/ (lun' = lun + 1 /\ lun + 1 < dev.max_lun)
    BY DEF MountStep, Mount, ClearErrors, LunFails, Inquired
  <2> QED BY <2>1, <2>2, <2>3
<1>5. mounted' \in BOOLEAN
  <2>1. mounted \in BOOLEAN
    BY DEF UsbTypes, DriverTypes
  <2>2. mounted' = mounted \/ mounted' = TRUE
    BY DEF MountStep, Mount
  <2> QED BY <2>1, <2>2
<1>6. DriveTypes'
  BY <1>1 DEF UsbTypes, DriveTypes, drive
<1>7. UNCHANGED <<scan, released, call, calls>>
  BY <1>1 DEF ports
<1>8. DriverTypes'
  BY <1>2, <1>3, <1>4, <1>5, <1>7 DEF UsbTypes, DriverTypes
<1> QED BY <1>1, <1>6, <1>8 DEF UsbTypes, DataTypes, drive

LEMMA CallTypes ==
  ASSUME UsbTypes, CallInv,
         \/ \E op \in {"read", "write"}, r \in Ranges : Call(op, r.at, r.n)
         \/ Transfer
         \/ CallEnds
         \/ Return
  PROVE  UsbTypes'
<1> USE UsbAssumption
<1>1. /\ UNCHANGED <<drive, ports, toggles, lun>>
      /\ mounted' = mounted \/ mounted' = FALSE
  BY DEF Call, Transfer, CallEnds, Return, handle
<1>2. call \in Calls /\ call.id \in 0 .. MaxCalls /\ calls \in 0 .. MaxCalls
      /\ mem \in Media /\ cycle \in Cycles /\ dev \in Handles
  BY DEF UsbTypes, DriverTypes, DataTypes, Calls
<1>3. calls' \in 0 .. MaxCalls
  BY <1>2 DEF Call, Transfer, CallEnds, Return
<1>4. mem' \in Media
  <2>1. Fresh \in Media
    BY DEF Fresh, Media, Contents
  <2>2. ASSUME calls' = calls + 1, calls < MaxCalls
        PROVE  [k \in DOMAIN mem |-> <<calls', k>>] \in Media
    BY <1>2, <2>2 DEF Media, Contents
  <2> QED BY <1>2, <2>1, <2>2 DEF Call, Transfer, CallEnds, Return
<1>5. call' \in Calls
  <2>1. Idle \in Calls
    BY DEF Idle, Calls
  <2>2. ASSUME NEW op \in Blocks, NEW r \in Ranges
        PROVE  [id |-> calls', op |-> op, at |-> r.at, n |-> r.n, answer |-> FALSE] \in Calls
    BY <1>3 DEF Calls
  <2>3. [call EXCEPT !.answer = (retval = "ok")] \in Calls
    <3> DEFINE answer == retval = "ok"
    <3>1. answer \in BOOLEAN
      OBVIOUS
    <3> HIDE DEF answer
    <3>2. [call EXCEPT !.answer = answer] \in Calls
      BY <1>2, <3>1 DEF Calls
    <3> QED BY <3>2 DEF answer
  <2> QED BY <1>2, <2>1, <2>2, <2>3 DEF Call, Transfer, CallEnds, Return, Blocks
<1>6. /\ cycle' \in Cycles /\ pc' \in Places /\ from' = from /\ retval' = retval
  <2>1. ASSUME Transfer, mounted, dev.size > 0
        PROVE  cycle' \in Cycles /\ pc' = "cbw" /\ from' = from /\ retval' = retval
    <3>1. pc = "called" /\ Begin(call.op, call.at, call.n, call.n * dev.size)
      BY <2>1 DEF Transfer
    <3>2. call # Idle
      BY <3>1 DEF CallInv
    <3>3. call.op \in Blocks
      BY <3>2 DEF CallInv
    <3>4. call.at \in Nat /\ call.n \in Nat
      BY <1>2 DEF Calls
    <3>5. dev.size = 1
      BY <1>2, <2>1 DEF Handles
    <3>6. call.n * dev.size = call.n
      BY <3>4, <3>5
    <3> QED BY <3>1, <3>3, <3>4, <3>6, BeginTypes
  <2>2. ASSUME Transfer, ~(mounted /\ dev.size > 0)
        PROVE  GoTo("return") /\ UNCHANGED cycle
    BY <2>2, Zenon DEF Transfer
  <2>3. CASE Transfer
    BY <1>2, <2>1, <2>2, <2>3 DEF GoTo, Places, CyclePlaces
  <2> QED BY <1>2, <2>3 DEF Call, CallEnds, Return, GoTo, Places
<1>7. dev' \in Handles
  BY <1>2, WaitingTypes DEF Call, Transfer, CallEnds, Return, handle
<1>8. mounted' \in BOOLEAN
  BY <1>1 DEF UsbTypes, DriverTypes
<1>9. DriveTypes'
  BY <1>1 DEF UsbTypes, DriveTypes, drive
<1>10. UNCHANGED <<scan, released, lun>>
  BY <1>1 DEF ports
<1>11. DriverTypes'
  BY <1>3, <1>5, <1>6, <1>7, <1>8, <1>10 DEF UsbTypes, DriverTypes
<1>12. disk' = disk
  BY <1>1 DEF drive
<1> QED BY <1>4, <1>9, <1>11, <1>12 DEF UsbTypes, DataTypes

LEMMA UserTypes ==
  ASSUME UsbTypes, Connect \/ Unplug
  PROVE  UsbTypes'
<1> USE UsbAssumption
<1>1. UNCHANGED <<usb, halted, toggle, disk, media, refusals, scan, released, toggles, dev,
                  lun, mounted, cycle, pc, from, retval, call, mem, calls>>
  BY DEF Connect, Unplug, ports, handle
<1>2. port' \in -1 .. Ports - 1 /\ faults' \in Nat
  BY DEF Connect, Unplug, UsbTypes, DriveTypes, Fault
<1>3. DriveTypes'
  BY <1>1, <1>2 DEF UsbTypes, DriveTypes
<1>4. DriverTypes'
  BY <1>1 DEF UsbTypes, DriverTypes
<1> QED BY <1>1, <1>3, <1>4 DEF UsbTypes, DataTypes

(* Every step keeps the types.                                             *)
LEMMA StepTypes ==
  ASSUME UsbTypes, CallInv, DataInv, [Next]_vars
  PROVE  UsbTypes'
<1>1. CASE Transfers
  BY <1>1, SendCbwTypes, ReadDataTypes, WriteDataTypes, ReadCswTypes, ResetTypes DEF Transfers
<1>2. CASE Opening
  BY <1>2, OpeningTypes
<1>3. CASE MountStep \/ Mount
  BY <1>3, MountTypes
<1>4. CASE \/ \E op \in {"read", "write"}, r \in Ranges : Call(op, r.at, r.n)
           \/ Transfer \/ CallEnds \/ Return
  BY <1>4, CallTypes
<1>5. CASE Connect \/ Unplug
  BY <1>5, UserTypes
<1>6. CASE UNCHANGED vars
  BY <1>6 DEF vars, drive, ports, handle, UsbTypes, DriveTypes, DriverTypes, DataTypes
<1> QED BY <1>1, <1>2, <1>3, <1>4, <1>5, <1>6 DEF Next, Driver

-----------------------------------------------------------------------------
(* What a transfer leaves alone, and where the driver goes after it.       *)

(* A transfer goes on with the same command, or hands over to the reset.   *)
LEMMA TransferIs ==
  ASSUME UsbTypes, Transfers
  PROVE  /\ UNCHANGED <<media, port, ports, lun, mounted, call, calls>>
         /\ cycle'.op = cycle.op /\ cycle'.at = cycle.at /\ cycle'.n = cycle.n
         /\ \/ pc \in CyclePlaces /\ pc' \in CyclePlaces /\ from' = from
            \/ pc \in CyclePlaces /\ pc' = "reset" /\ from' \in {"retry", "timeout"}
            \/ pc \in ResetPlaces /\ pc' \in ResetPlaces /\ from' = from
            \/ pc \in ResetPlaces /\ \E r \in {0, ETIMEDOUT} : Recovers(r)
<1>1. cycle \in Cycles
  BY DEF UsbTypes, DriverTypes
<1>2. UNCHANGED <<media, port, ports, lun, mounted, call, calls>>
  BY DEF Transfers, SendCbw, ReadData, WriteData, ReadCsw, ClassReset, ClearHalt, handle
<1>3. CASE SendCbw
  <2>1. cycle' = cycle
    BY <1>3 DEF SendCbw
  <2>2. /\ pc \in CyclePlaces
        /\ \/ pc' \in CyclePlaces /\ from' = from
           \/ pc' = "reset" /\ from' = "retry"
    BY <1>3, EndsAre DEF SendCbw, AfterCbw, GoTo, Reset, CyclePlaces
  <2> QED BY <1>2, <2>1, <2>2
<1>4. CASE ReadData
  <2>1. cycle'.op = cycle.op /\ cycle'.at = cycle.at /\ cycle'.n = cycle.n
    BY <1>1, <1>4 DEF ReadData, Arrive, Cycles
  <2>2. /\ pc \in CyclePlaces
        /\ \/ pc' \in CyclePlaces /\ from' = from
           \/ pc' = "reset" /\ from' = "timeout"
    BY <1>4 DEF ReadData, GoTo, Reset, CyclePlaces
  <2> QED BY <1>2, <2>1, <2>2
<1>5. CASE WriteData
  <2>1. cycle'.op = cycle.op /\ cycle'.at = cycle.at /\ cycle'.n = cycle.n
    <3>1. \/ \E k \in 0 .. Min({usb.left, Packets}) :
               cycle' = [cycle EXCEPT !.len = 0, !.done = k]
          \/ cycle' = cycle
      BY <1>5 DEF WriteData
    <3> QED BY <1>1, <3>1 DEF Cycles
  <2>2. /\ pc \in CyclePlaces
        /\ \/ pc' \in CyclePlaces /\ from' = from
           \/ pc' = "reset" /\ from' \in {"retry", "timeout"}
    BY <1>5 DEF WriteData, GoTo, Reset, CyclePlaces
  <2> QED BY <1>2, <2>1, <2>2
<1>6. CASE ReadCsw
  <2>1. cycle'.op = cycle.op /\ cycle'.at = cycle.at /\ cycle'.n = cycle.n
    BY <1>1, <1>6 DEF ReadCsw, Cycles
  <2>2. /\ pc \in CyclePlaces
        /\ \/ pc' \in CyclePlaces /\ from' = from
           \/ pc' = "reset" /\ from' = "retry"
    BY <1>6, EndsAre DEF ReadCsw, GoTo, Reset, CyclePlaces
  <2> QED BY <1>2, <2>1, <2>2
<1>7. CASE ClassReset \/ \E ep \in Endpoints : ClearHalt(ep)
  <2>1. pc \in ResetPlaces
    BY <1>7 DEF ClassReset, ClearHalt, ResetPlaces
  <2>2. \/ pc' \in ResetPlaces /\ from' = from /\ cycle' = cycle
        \/ \E r \in {0, ETIMEDOUT} : ResetReturns(r)
    BY <1>7 DEF ClassReset, ClearHalt, GoTo, ResetPlaces
  <2>3. CASE \E r \in {0, ETIMEDOUT} : ResetReturns(r)
    <3>1. PICK r \in {0, ETIMEDOUT} : Recovers(r)
      BY <2>3, ReturnsAre
    <3>2. cycle'.op = cycle.op /\ cycle'.at = cycle.at /\ cycle'.n = cycle.n
      BY <1>1, <3>1 DEF Recovers, Cycles
    <3> QED BY <1>2, <2>1, <3>1, <3>2
  <2> QED BY <1>2, <2>1, <2>2, <2>3
<1> QED BY <1>3, <1>4, <1>5, <1>6, <1>7 DEF Transfers

-----------------------------------------------------------------------------
(* A drive is mounted while disk_read and disk_write are served, and not   *)
(* while it is opened and tried.                                           *)

(* Every step keeps MountInv.                                              *)
LEMMA StepMount ==
  ASSUME UsbTypes, MountInv, CallInv, [Next]_vars
  PROVE  MountInv'
<1> USE DEF OpenPlaces, CyclePlaces, ResetPlaces
<1>1. CASE Transfers
  <2>1. mounted' = mounted /\ cycle'.op = cycle.op
    BY <1>1, TransferIs
  <2>2. from \in {"open", "close", "retry", "timeout", "last"}
    BY DEF UsbTypes, DriverTypes
  <2>3. ASSUME NEW r \in {0, ETIMEDOUT}, Recovers(r), pc \in ResetPlaces
        PROVE  MountInv'
    BY <2>1, <2>2, <2>3 DEF Recovers, MountInv
  <2> QED BY <1>1, <2>1, <2>3, TransferIs DEF MountInv
<1>2. CASE Opening
  <2>1. mounted' = mounted /\ ~mounted
    BY <1>2 DEF Opening, ReleasePorts, NoDevice, ResetPort, Open, MaxLun, OpenClear, handle,
                MountInv
  <2>2. Begin("tur", 0, 0, 0) => pc' = "cbw" /\ cycle'.op = "tur"
    BY BeginTypes DEF Queries
  <2>3. cycle'.op \notin Blocks
    BY <1>2, <2>2 DEF Opening, ReleasePorts, NoDevice, ResetPort, Open, MaxLun, OpenClear,
                      MountInv, Blocks
  <2> QED BY <2>1, <2>3 DEF MountInv
<1>3. CASE MountStep
  <2>1. mounted' = mounted /\ pc = "ended" /\ cycle.op \notin Blocks
    BY <1>3 DEF MountStep, ClearErrors, Inquired, Ended, Blocks
  <2>2. ~mounted
    BY <2>1 DEF MountInv
  <2>3. ASSUME NEW op \in Queries, NEW n \in Nat, Begin(op, 0, n, n)
        PROVE  cycle'.op \notin Blocks
    <3>1. op \in Queries \cup Blocks
      OBVIOUS
    <3>2. cycle'.op = op
      BY <2>3, <3>1, BeginTypes
    <3> QED BY <3>2 DEF Queries, Blocks
  <2>4. \/ \E op \in Queries, n \in Nat : Begin(op, 0, n, n)
        \/ UNCHANGED cycle
    BY <1>3 DEF MountStep, ClearErrors, LunFails, Inquired, Queries
  <2> QED BY <2>1, <2>2, <2>3, <2>4 DEF MountInv
<1>4. CASE Mount
  BY <1>4 DEF Mount, GoTo, MountInv
<1>5. CASE \E op \in {"read", "write"}, r \in Ranges : Call(op, r.at, r.n)
  BY <1>5 DEF Call, GoTo, handle, MountInv
<1>6. CASE Transfer
  <2>1. ASSUME mounted, dev.size > 0
        PROVE  MountInv'
    <3>1. /\ pc = "called" /\ Begin(call.op, call.at, call.n, call.n * dev.size)
          /\ UNCHANGED handle
      BY <1>6, <2>1 DEF Transfer
    <3>2. call.op \in Blocks
      BY <3>1 DEF CallInv
    <3>3. pc' = "cbw" /\ cycle'.op = call.op
      BY <3>1 DEF Begin, GoTo
    <3> QED BY <2>1, <3>1, <3>2, <3>3 DEF MountInv, handle
  <2>2. ASSUME ~(mounted /\ dev.size > 0)
        PROVE  MountInv'
    <3>1. pc' = "return" /\ UNCHANGED handle
      BY <1>6, <2>2, Zenon DEF Transfer, GoTo
    <3> QED BY <3>1 DEF MountInv
  <2> QED BY <2>1, <2>2
<1>7. CASE CallEnds
  BY <1>7 DEF CallEnds, GoTo, MountInv
<1>8. CASE Return
  BY <1>8 DEF Return, GoTo, handle, MountInv
<1>9. CASE Connect \/ Unplug
  BY <1>9 DEF Connect, Unplug, handle, MountInv
<1>10. CASE UNCHANGED vars
  BY <1>10 DEF vars, handle, MountInv
<1> QED BY <1>1, <1>2, <1>3, <1>4, <1>5, <1>6, <1>7, <1>8, <1>9, <1>10 DEF Next, Driver

-----------------------------------------------------------------------------
(* What the drive is ready to move is part of what the command asked for.  *)

(* Only a CBW makes the drive ready to move data.                          *)
LEMMA StepData ==
  ASSUME UsbTypes, DataInv, [Next]_vars
  PROVE  DataInv'
<1>1. CASE SendCbw
  <2>1. UNCHANGED <<cycle, dev>>
    BY <1>1 DEF SendCbw, handle
  <2>2. CASE usb' = Accepted
    <3>1. cycle.n \in Nat /\ cycle.len \in Nat
      BY DEF UsbTypes, DriverTypes, Cycles
    <3>2. Min({cycle.n, cycle.len}) = IF cycle.n <= cycle.len THEN cycle.n ELSE cycle.len
      BY <3>1, MinOfTwo
    <3> QED BY <2>1, <2>2, <3>1, <3>2, AcceptedTypes DEF DataInv
  <2>3. CASE usb' # Accepted
    <3>1. \/ usb'.phase \notin {"in", "out"}
          \/ pc' # "data"
      BY <1>1, <2>3, EndsAre
         DEF SendCbw, Reset, UsbTypes, DriveTypes, Drives, NoEffect, TimesOut
    <3> QED BY <3>1 DEF DataInv
  <2> QED BY <2>2, <2>3
<1>2. CASE Driver /\ ~SendCbw
  <2>1. pc' # "data"
    <3>1. CASE ReadData \/ WriteData \/ ReadCsw
      BY <3>1, EndsAre DEF ReadData, WriteData, ReadCsw, GoTo, Reset
    <3>2. CASE ClassReset \/ \E ep \in Endpoints : ClearHalt(ep)
      <4>1. \A r \in {0, ETIMEDOUT} : ResetReturns(r) => pc' # "data"
        BY ReturnsAre DEF Recovers
      <4> QED BY <3>2, <4>1 DEF ClassReset, ClearHalt, GoTo
    <3>3. CASE Opening
      BY <3>3 DEF Opening, ReleasePorts, NoDevice, ResetPort, Open, MaxLun, OpenClear, GoTo,
                  Reset, Begin
    <3>4. CASE MountStep \/ Mount \/ CallEnds \/ Return
      BY <3>4 DEF MountStep, ClearErrors, LunFails, Inquired, Mount, CallEnds, Return, GoTo,
                  Reset, Begin
    <3>5. CASE Transfer
      <4>1. pc' \in {"cbw", "return"}
        BY <3>5, Zenon DEF Transfer, GoTo, Begin
      <4> QED BY <4>1
    <3> QED BY <1>2, <3>1, <3>2, <3>3, <3>4, <3>5 DEF Driver, Transfers
  <2> QED BY <2>1 DEF DataInv
<1>3. CASE \E op \in {"read", "write"}, r \in Ranges : Call(op, r.at, r.n)
  BY <1>3 DEF Call, GoTo, DataInv
<1>4. CASE Connect \/ Unplug \/ UNCHANGED vars
  BY <1>4 DEF Connect, Unplug, vars, drive, DataInv
<1> QED BY <1>1, <1>2, <1>3, <1>4 DEF Next

-----------------------------------------------------------------------------
(* A call is pending while it is served, and the command serves it.        *)

(* Every step keeps CallInv.                                               *)
LEMMA StepCall ==
  ASSUME UsbTypes, UsbTypes', MountInv, MountInv', CallInv, DataInv, [Next]_vars
  PROVE  CallInv'
<1> USE UsbAssumption
<1>1. CASE Transfers
  <2>1. /\ UNCHANGED <<mounted, call>>
        /\ cycle'.op = cycle.op /\ cycle'.at = cycle.at /\ cycle'.n = cycle.n
    BY <1>1, TransferIs
  <2>2. pc \in CyclePlaces \cup ResetPlaces
    BY <1>1, TransferIs
  <2>3. CASE cycle.op \notin Blocks
    <3>1. call = Idle
      BY <2>2, <2>3 DEF CallInv, Serving, CyclePlaces, ResetPlaces
    <3>2. pc' \notin {"called", "return"}
      BY <1>1, TransferIs DEF Recovers, CyclePlaces, ResetPlaces
    <3> QED BY <2>1, <2>3, <3>1, <3>2 DEF CallInv, Serving
  <2>4. CASE cycle.op \in Blocks
    <3>1. mounted /\ Serving
      BY <2>2, <2>4 DEF MountInv, Serving
    <3>2. pc' \in CyclePlaces \cup ResetPlaces
      <4>1. CASE pc \in ResetPlaces
        <5>1. from \in {"retry", "timeout", "last"}
          BY <3>1, <4>1 DEF MountInv
        <5> QED BY <1>1, <5>1, TransferIs DEF Recovers, CyclePlaces, ResetPlaces
      <4>2. CASE pc \in CyclePlaces
        BY <1>1, <4>2, TransferIs DEF CyclePlaces, ResetPlaces
      <4> QED BY <2>2, <4>1, <4>2
    <3>3. Serving' /\ pc' \notin {"called", "return"}
      BY <2>1, <2>4, <3>2 DEF Serving, CyclePlaces, ResetPlaces
    <3>4. call # Idle /\ call.op = cycle.op /\ call.at = cycle.at /\ call.n = cycle.n
      BY <3>1 DEF CallInv
    <3>5. cycle.op = "write" => mem' = mem
      BY <1>1 DEF Transfers, SendCbw, ReadData, WriteData, ReadCsw, ClassReset, ClearHalt
    <3>6. cycle.op = "read" => cycle'.len + cycle'.done = cycle'.n
      <4> SUFFICES ASSUME cycle.op = "read"
                   PROVE  cycle'.len + cycle'.done = cycle'.n
        OBVIOUS
      <4>1. cycle.len + cycle.done = cycle.n
        BY <3>1, <3>4 DEF CallInv
      <4>2. cycle \in Cycles /\ cycle.len \in Nat /\ cycle.done \in Nat
        BY DEF UsbTypes, DriverTypes, Cycles
      <4>3. CASE ReadData
        <5>1. ASSUME NEW k \in Nat, NEW skip \in {0, 1}, Arrive(k, skip)
              PROVE  cycle'.len + cycle'.done = cycle.n
          <6>1. /\ cycle'.len = cycle.len - (k - skip)
                /\ cycle'.done = cycle.done + (k - skip)
            BY <4>2, <5>1 DEF Arrive, Cycles
          <6> QED BY <4>1, <4>2, <6>1
        <5>2. /\ usb.left \in Nat /\ Packets \in Nat
          BY <4>2, Remainder DEF UsbTypes, DriveTypes, Drives, Packets
        <5>3. \A k \in 0 .. Min({usb.left, Packets}) : k \in Nat
          BY <5>2, MinOfTwo
        <5>4. Max({usb.left, 1}) \in Nat
          BY <5>2, MaxOfTwo
        <5>5. \/ \E k \in 0 .. Min({usb.left, Packets}) : Arrive(k, 0)
              \/ Arrive(Max({usb.left, 1}), 1)
              \/ UNCHANGED cycle
          BY <4>3 DEF ReadData
        <5>6. CASE \E k \in 0 .. Min({usb.left, Packets}) : Arrive(k, 0)
          BY <2>1, <5>1, <5>3, <5>6
        <5>7. CASE Arrive(Max({usb.left, 1}), 1)
          BY <2>1, <5>1, <5>4, <5>7
        <5> QED BY <2>1, <4>1, <5>5, <5>6, <5>7
      <4>4. CASE SendCbw \/ WriteData
        BY <4>1, <4>4 DEF SendCbw, WriteData
      <4>5. CASE ReadCsw
        BY <4>1, <4>2, <4>5 DEF ReadCsw, Cycles
      <4>6. CASE ClassReset \/ \E ep \in Endpoints : ClearHalt(ep)
        <5>1. \/ UNCHANGED cycle
              \/ \E r \in {0, ETIMEDOUT} : Recovers(r)
          BY <4>6, ReturnsAre DEF ClassReset, ClearHalt
        <5>2. \/ cycle' = cycle
              \/ cycle' = [cycle EXCEPT !.retries = @ - 1]
          BY <5>1, Zenon DEF Recovers
        <5> QED BY <4>1, <4>2, <5>2 DEF Cycles
      <4> QED BY <1>1, <4>3, <4>4, <4>5, <4>6 DEF Transfers
    <3>7. /\ call.id > 0 /\ call.op \in Blocks /\ call.n > 0 /\ call.at + call.n <= Sectors
          /\ call.op = "write" => \A k \in 0 .. Sectors - 1 : mem[k] = <<call.id, k>>
          /\ ~call.answer
      BY <2>2, <2>4, <3>4, ServedCall DEF CallInv
    <3>8. /\ cycle'.op = call'.op /\ cycle'.at = call'.at /\ cycle'.n = call'.n
          /\ call' = call
      BY <2>1, <3>4
    <3>9. call.op = "write" => mem' = mem
      BY <3>4, <3>5
    <3>10. call.op = "read" => cycle'.len + cycle'.done = cycle'.n
      BY <3>4, <3>6
    <3> QED BY <3>3, <3>4, <3>7, <3>8, <3>9, <3>10 DEF CallInv
  <2> QED BY <2>3, <2>4
<1>2. CASE Opening
  <2>1. /\ UNCHANGED <<call, mem>>
        /\ pc \in {"off", "discover"} \cup OpenPlaces
    BY <1>2 DEF Opening, ReleasePorts, NoDevice, ResetPort, Open, MaxLun, OpenClear, OpenPlaces
  <2>2. call = Idle
    BY <2>1 DEF CallInv, Serving, OpenPlaces, CyclePlaces, ResetPlaces
  <2>3. ~mounted'
    BY <1>2, <2>1 DEF Opening, ReleasePorts, NoDevice, ResetPort, Open, MaxLun, OpenClear,
                      handle, MountInv, OpenPlaces, CyclePlaces, ResetPlaces
  <2>4. ~Serving'
    BY <2>3 DEF MountInv, Serving
  <2>5. pc' \notin {"called", "return"}
    BY <1>2 DEF Opening, ReleasePorts, NoDevice, ResetPort, Open, MaxLun, OpenClear, GoTo,
                Reset, Begin
  <2> QED BY <2>1, <2>2, <2>4, <2>5 DEF CallInv
<1>3. CASE MountStep
  <2>1. /\ UNCHANGED <<call, mem, mounted>> /\ pc = "ended" /\ cycle.op \notin Blocks
    BY <1>3 DEF MountStep, ClearErrors, Inquired, Ended, Blocks
  <2>2. call = Idle /\ ~mounted
    BY <2>1 DEF CallInv, Serving, MountInv, CyclePlaces
  <2>3. ~Serving'
    BY <2>1, <2>2 DEF MountInv, Serving
  <2>4. pc' \notin {"called", "return"}
    BY <1>3 DEF MountStep, ClearErrors, LunFails, Inquired, GoTo, Reset, Begin
  <2> QED BY <2>1, <2>2, <2>3, <2>4 DEF CallInv
<1>4. CASE Mount
  <2>1. UNCHANGED <<call, mem>> /\ pc = "ended" /\ cycle.op \notin Blocks /\ pc' = "ready"
    BY <1>4 DEF Mount, Ended, GoTo, Blocks
  <2> QED BY <2>1 DEF CallInv, Serving, CyclePlaces, ResetPlaces
<1>5. ASSUME NEW op \in {"read", "write"}, NEW r \in Ranges, Call(op, r.at, r.n)
      PROVE  CallInv'
  <2>1. /\ calls \in 0 .. MaxCalls /\ mem \in Media
    BY DEF UsbTypes, DriverTypes, DataTypes
  <2>2. /\ r.at \in Nat /\ r.n \in Nat \ {0} /\ r.at + r.n <= Sectors
    OBVIOUS
  <2>3. calls' = calls + 1 /\ pc' = "called"
    BY <1>5 DEF Call, GoTo
  <2>4. /\ call'.id = calls' /\ call'.op = op /\ call'.at = r.at /\ call'.n = r.n
        /\ call'.answer = FALSE
    BY <1>5 DEF Call
  <2>5. call' # Idle
    BY <2>1, <2>3, <2>4 DEF Idle
  <2>6. call'.op = "write" => \A k \in 0 .. Sectors - 1 : mem'[k] = <<call'.id, k>>
    BY <1>5, <2>1, <2>4 DEF Call, Media
  <2>7. ~Serving'
    BY <2>3 DEF Serving, CyclePlaces, ResetPlaces
  <2>8. call'.id > 0 /\ call'.op \in Blocks /\ call'.n > 0
        /\ call'.at + call'.n <= Sectors
    BY <2>1, <2>2, <2>3, <2>4 DEF Blocks
  <2> QED BY <2>3, <2>4, <2>5, <2>6, <2>7, <2>8 DEF CallInv
<1>6. CASE Transfer
  <2>1. call # Idle /\ call \in Calls /\ dev \in Handles /\ pc = "called" /\ ~call.answer
    BY <1>6 DEF Transfer, CallInv, UsbTypes, DriverTypes
  <2>2. UNCHANGED <<call, mem>>
    BY <1>6 DEF Transfer
  <2>3. ASSUME mounted, dev.size > 0
        PROVE  CallInv'
    <3>1. dev.size = 1 /\ call.n \in Nat
      BY <2>1, <2>3 DEF Handles, Calls
    <3>2. call.n * dev.size = call.n
      BY <3>1
    <3>3. Begin(call.op, call.at, call.n, call.n * dev.size)
      BY <1>6, <2>3, Zenon DEF Transfer
    <3>4. /\ pc' = "cbw" /\ cycle'.op = call.op /\ cycle'.at = call.at /\ cycle'.n = call.n
          /\ cycle'.len = call.n /\ cycle'.done = 0
      BY <3>2, <3>3 DEF Begin, GoTo
    <3>5. call.op \in Blocks
      BY <2>1 DEF CallInv
    <3>6. Serving' /\ pc' \notin {"called", "return"}
      BY <3>4, <3>5 DEF Serving, CyclePlaces
    <3> QED BY <2>1, <2>2, <3>1, <3>4, <3>6 DEF CallInv
  <2>4. ASSUME ~(mounted /\ dev.size > 0)
        PROVE  CallInv'
    <3>1. pc' = "return"
      BY <1>6, <2>4, Zenon DEF Transfer, GoTo
    <3>2. ~Serving'
      BY <3>1 DEF Serving, CyclePlaces, ResetPlaces
    <3> QED BY <2>1, <2>2, <3>1, <3>2 DEF CallInv
  <2> QED BY <2>3, <2>4
<1>7. CASE CallEnds
  <2>1. pc = "ended" /\ cycle.op \in Blocks /\ pc' = "return" /\ mem' = mem
    BY <1>7 DEF CallEnds, Ended, GoTo, Blocks
  <2>2. call # Idle /\ call \in Calls
    BY <2>1, ServedCall DEF CyclePlaces, UsbTypes, DriverTypes
  <2>3. /\ call'.id = call.id /\ call'.op = call.op /\ call'.at = call.at /\ call'.n = call.n
    BY <1>7, <2>2 DEF CallEnds, Calls
  <2>4. call.id > 0
    BY <2>2 DEF CallInv
  <2>5. call' # Idle
    BY <2>3, <2>4 DEF Idle
  <2>6. ~Serving'
    BY <2>1 DEF Serving, CyclePlaces, ResetPlaces
  <2> QED BY <2>1, <2>2, <2>3, <2>5, <2>6 DEF CallInv
<1>8. CASE Return
  BY <1>8 DEF Return, GoTo, CallInv, Serving, CyclePlaces, ResetPlaces
<1>9. CASE Connect \/ Unplug \/ UNCHANGED vars
  BY <1>9 DEF Connect, Unplug, vars, CallInv, Serving
<1> QED BY <1>1, <1>2, <1>3, <1>4, <1>5, <1>6, <1>7, <1>8, <1>9 DEF Next, Driver

-----------------------------------------------------------------------------
(* What went wrong stays in the count.                                     *)

LEMMA NothingTakenBack ==
  ASSUME UsbTypes, [Next]_vars, ~Connect
  PROVE  /\ Plugged' => Plugged
         /\ refusals' = 0 => refusals = 0 /\ refusals' = refusals
         /\ faults' = 0 => faults = 0 /\ NoFault
         /\ calls' = 0 => calls = 0
<1>1. faults \in Nat /\ refusals \in Nat /\ calls \in Nat
  BY UsbAssumption DEF UsbTypes, DriveTypes, DriverTypes
<1>2. /\ refusals' = refusals \/ refusals' = refusals + 1
      /\ port' = port \/ port' = -1
      /\ Fault \/ NoFault
      /\ calls' = calls \/ calls' = calls + 1
  <2>1. CASE Transfers
    BY <2>1 DEF Transfers, SendCbw, ReadData, WriteData, ReadCsw, ClassReset, ClearHalt,
                Cleared, Refusal, TimesOut, FaultUnless
  <2>2. CASE Opening
    BY <2>2 DEF Opening, ReleasePorts, NoDevice, ResetPort, Open, MaxLun, OpenClear, Cleared,
                Refusal, TimesOut, FaultUnless, drive, NoFault
  <2>3. CASE MountStep \/ Mount \/ CallEnds \/ Return \/ UNCHANGED vars
    BY <2>3 DEF MountStep, Mount, CallEnds, Return, vars, drive, NoFault
  <2>4. CASE Transfer \/ \E op \in {"read", "write"}, r \in Ranges : Call(op, r.at, r.n)
    <3>1. UNCHANGED drive /\ (calls' = calls \/ calls' = calls + 1)
      BY <2>4, Zenon DEF Transfer, Call
    <3> QED BY <3>1 DEF drive, NoFault
  <2>5. CASE Unplug
    BY <2>5 DEF Unplug
  <2> QED BY <2>1, <2>2, <2>3, <2>4, <2>5 DEF Next, Driver
<1>3. refusals' = 0 => refusals = 0 /\ refusals' = refusals
  BY <1>1, <1>2
<1>4. faults' = 0 => faults = 0 /\ NoFault
  BY <1>1, <1>2 DEF Fault, NoFault
<1>5. Plugged' => Plugged
  BY <1>2 DEF Plugged
<1>6. calls' = 0 => calls = 0
  BY <1>1, <1>2
<1> QED BY <1>3, <1>4, <1>5, <1>6

(* The drive and the driver are in step.  The last action of a reset lifts *)
(* the halt that is left; until then the drive waits for a command.        *)

(* Every step keeps StepInv.                                               *)
LEMMA StepStep ==
  ASSUME UsbTypes, UsbTypes', MountInv, StepInv, [Next]_vars
  PROVE  StepInv'
<1> USE DEF CyclePlaces, ResetPlaces, OpenPlaces
<1> SUFFICES ASSUME Plugged', refusals' = 0
             PROVE  StepInv'
  BY DEF StepInv
<1>0. CASE Connect
  <2>1. pc' \in {"off", "discover"}
    BY <1>0 DEF Connect
  <2> QED BY <2>1 DEF StepInv
<1> SUFFICES ASSUME ~Connect
             PROVE  StepInv'
  BY <1>0
<1>2. refusals = 0 /\ refusals' = refusals /\ Plugged
  BY NothingTakenBack
<1>3. /\ pc \in {"ready", "called", "return"} /\ mounted => Quiet
      /\ pc = "ended" /\ retval # "timeout" => Quiet
      /\ pc = "data" => "out" \notin halted
      /\ pc = "csw" => ("out" \in halted => "in" \in halted)
      /\ pc \in {"clear_in", "clear_out"} => usb.phase = "cbw"
      /\ pc = "clear_out" => "in" \notin halted
  BY <1>2 DEF StepInv
<1>4. halted \subseteq Endpoints
  BY DEF UsbTypes, DriveTypes
<1>5. ~Refusal
  BY <1>2 DEF Refusal
<1>6. CASE SendCbw
  <2>1. pc' \in {"data", "csw", "reset", "ended"} /\ (pc' = "ended" => retval' = "timeout")
    BY <1>6, EndsAre DEF SendCbw, AfterCbw, GoTo, Reset
  <2>2. pc' \in {"data", "csw"} => "out" \notin halted'
    BY <1>6, EndsAre DEF SendCbw, AfterCbw, GoTo, Reset
  <2> QED BY <2>1, <2>2 DEF StepInv
<1>7. CASE ReadData
  <2>1. pc = "data" /\ pc' \in {"csw", "reset"}
    BY <1>7 DEF ReadData, GoTo, Reset
  <2>2. halted' = halted \/ halted' = halted \cup {"in"}
    BY <1>7 DEF ReadData, NoEffect, TimesOut
  <2>3. "out" \notin halted'
    BY <1>3, <2>1, <2>2
  <2> QED BY <2>1, <2>3 DEF StepInv
<1>8. CASE WriteData
  <2>1. pc = "data" /\ pc' \in {"csw", "reset"}
    BY <1>8 DEF WriteData, GoTo, Reset
  <2>2. pc' = "csw" => "out" \notin halted' \/ halted' = Endpoints
    BY <1>3, <1>8 DEF WriteData, GoTo, Reset
  <2> QED BY <2>1, <2>2 DEF StepInv, Endpoints
<1>9. CASE ReadCsw
  <2>1. pc' \in {"ended", "reset"}
    BY <1>9, EndsAre DEF ReadCsw, Reset
  <2>2. pc' = "ended" /\ retval' # "timeout" => usb' = Waiting /\ halted' = halted
                                                /\ "in" \notin halted
    BY <1>9, EndsAre DEF ReadCsw, Reset
  <2>3. pc = "csw"
    BY <1>9 DEF ReadCsw
  <2>4. pc' = "ended" /\ retval' # "timeout" => Quiet'
    <3>1. "in" \notin halted => halted = {}
      BY <1>3, <1>4, <2>3 DEF Endpoints
    <3> QED BY <2>2, <3>1 DEF Quiet, Waiting
  <2> QED BY <2>1, <2>4 DEF StepInv
<1>10. CASE ClassReset
  <2>1. CASE /\ usb' = Waiting
             /\ GoTo("clear_in")
    BY <2>1 DEF GoTo, StepInv, Waiting
  <2>2. CASE ResetReturns(ETIMEDOUT)
    <3>1. Recovers(ETIMEDOUT) /\ mounted' = mounted
      BY <1>10, <2>2, ReturnsAre DEF ClassReset
    <3>2. from \in {"open", "close"} => ~mounted
      BY <1>10 DEF MountInv, ClassReset
    <3> QED BY <3>1, <3>2 DEF StepInv, Recovers
  <2> QED BY <1>5, <1>10, <2>1, <2>2 DEF ClassReset
<1>11. ASSUME NEW ep \in Endpoints, ClearHalt(ep)
       PROVE  StepInv'
  <2>1. mounted' = mounted /\ pc \in ResetPlaces
    BY <1>11 DEF ClearHalt
  <2>2. from \in {"open", "close"} => ~mounted
    BY <2>1 DEF MountInv
  <2>3. CASE ResetReturns(ETIMEDOUT)
    <3>1. Recovers(ETIMEDOUT)
      BY <2>3, ReturnsAre
    <3> QED BY <2>1, <2>2, <3>1 DEF StepInv, Recovers
  <2>4. CASE Cleared(ep) /\ ~ResetReturns(ETIMEDOUT)
    <3>1. usb' = usb /\ usb.phase = "cbw"
      BY <1>3, <1>11, <2>4, ClearedTypes DEF ClearHalt
    <3>2. halted' = halted \ {ep}
      BY <1>2, <2>4, <3>1, ClearedTypes
    <3>3. CASE ep = "in"
      <4>1. GoTo("clear_out")
        BY <1>11, <2>4, <3>3 DEF ClearHalt
      <4> QED BY <3>1, <3>2, <3>3, <4>1 DEF StepInv, GoTo
    <3>4. CASE ep = "out"
      <4>1. ResetReturns(0) /\ pc = "clear_out"
        BY <1>11, <2>4, <3>4 DEF ClearHalt
      <4>2. Recovers(0)
        BY <4>1, ReturnsAre
      <4>3. halted' = {}
        BY <1>3, <1>4, <3>2, <3>4, <4>1 DEF Endpoints
      <4>4. Quiet'
        BY <3>1, <4>3 DEF Quiet
      <4> QED BY <2>1, <2>2, <3>1, <4>2, <4>3, <4>4 DEF StepInv, Recovers
    <3> QED BY <3>3, <3>4 DEF Endpoints
  <2> QED BY <1>11, <2>3, <2>4 DEF ClearHalt
<1>12. CASE Opening
  <2>1. /\ mounted' = mounted /\ pc \in {"off", "discover"} \cup OpenPlaces
        /\ pc' \in {"off", "discover", "ready", "reset", "cbw"} \cup OpenPlaces
    BY <1>12 DEF Opening, ReleasePorts, NoDevice, ResetPort, Open, MaxLun, OpenClear, handle,
                 GoTo, Reset, Begin
  <2>2. ~mounted
    BY <2>1 DEF MountInv
  <2> QED BY <2>1, <2>2 DEF StepInv
<1>13. CASE MountStep
  <2>1. mounted' = mounted /\ pc = "ended" /\ cycle.op \notin Blocks
    BY <1>13 DEF MountStep, ClearErrors, Inquired, Ended, Blocks
  <2>2. ~mounted
    BY <2>1 DEF MountInv
  <2>3. pc' \in {"ready", "reset", "cbw"}
    BY <1>13 DEF MountStep, ClearErrors, LunFails, Inquired, GoTo, Reset, Begin
  <2> QED BY <2>1, <2>2, <2>3 DEF StepInv
<1>14. CASE Mount
  BY <1>3, <1>14 DEF Mount, Ended, GoTo, StepInv, Quiet, drive
<1>15. CASE \E op \in {"read", "write"}, r \in Ranges : Call(op, r.at, r.n)
  <2>1. pc = "ready" /\ pc' = "called" /\ UNCHANGED <<usb, halted, mounted>>
    BY <1>15 DEF Call, GoTo, drive, handle
  <2> QED BY <1>3, <2>1 DEF StepInv, Quiet
<1>16. CASE Transfer
  <2>1. pc = "called" /\ pc' \in {"cbw", "return"} /\ UNCHANGED <<usb, halted, mounted>>
    BY <1>16, Zenon DEF Transfer, GoTo, Begin, drive, handle
  <2> QED BY <1>3, <2>1 DEF StepInv, Quiet
<1>17. CASE CallEnds
  <2>1. /\ pc = "ended" /\ pc' = "return" /\ UNCHANGED <<usb, halted>>
        /\ mounted' => retval # "timeout"
    BY <1>17 DEF CallEnds, Ended, GoTo, drive
  <2> QED BY <1>3, <2>1 DEF StepInv, Quiet
<1>18. CASE Return
  <2>1. pc = "return" /\ pc' = "ready" /\ UNCHANGED <<usb, halted, mounted>>
    BY <1>18 DEF Return, GoTo, drive, handle
  <2> QED BY <1>3, <2>1 DEF StepInv, Quiet
<1>19. CASE Unplug
  BY <1>2, <1>19 DEF Unplug, Plugged
<1>20. CASE UNCHANGED vars
  BY <1>3, <1>20 DEF vars, drive, handle, StepInv, Quiet
<1> QED BY <1>6, <1>7, <1>8, <1>9, <1>10, <1>11, <1>12, <1>13, <1>14, <1>15, <1>16, <1>17,
           <1>18, <1>19, <1>20 DEF Next, Driver, Transfers

-----------------------------------------------------------------------------
(* A command whose status is good moved all of its sectors.                *)

(* A read whose status is good moved its sectors to the buffer.            *)
LEMMA ReadDone ==
  ASSUME UsbTypes, UsbTypes', CallInv, DataInv, ReadData, cycle.op \in Blocks, pc' = "csw",
         usb'.phase = "csw", "in" \notin halted', usb'.status = 0
  PROVE  Moved'
<1> USE UsbAssumption
<1>1. /\ usb \in Drives /\ usb.left \in Nat /\ cycle \in Cycles /\ cycle.len \in Nat
      /\ cycle.done \in Nat /\ usb.at \in Nat /\ usb.moved \in Nat /\ cycle.n \in Nat
      /\ cycle.at \in Nat
  BY DEF UsbTypes, DriveTypes, DriverTypes, Drives, Cycles
<1>2. Packets \in Nat /\ Min({usb.left, Packets}) \in Nat
      /\ Min({usb.left, Packets}) <= usb.left
  <2>1. Packets \in Nat
    BY <1>1, Remainder DEF Packets
  <2> QED BY <1>1, <2>1, MinOfTwo
<1>3. pc = "data" /\ cycle.op = "read" /\ UNCHANGED <<call, disk>>
  BY DEF ReadData, Blocks
<1>4. /\ call # Idle /\ call.op = "read" /\ call.at = cycle.at /\ call.n = cycle.n
      /\ cycle.at + cycle.n <= Sectors /\ cycle.len + cycle.done = cycle.n
  BY <1>3, ServedCall DEF CyclePlaces
<1>5. PICK k \in 0 .. Min({usb.left, Packets}) :
        /\ usb.phase = "in" /\ Arrive(k, 0) /\ k = Packets
        /\ usb' = [Sent(k) EXCEPT !.phase = IF usb.left = k THEN "csw" ELSE "in"]
  <2>1. Waiting.phase = "cbw"
    BY DEF Waiting
  <2>2. ASSUME NEW k \in 0 .. Min({usb.left, Packets}),
               usb' = [Sent(k) EXCEPT !.phase = "csw", !.left = 0, !.status = 1]
        PROVE  FALSE
    <3>1. Sent(k) \in Drives
      BY <1>1, <1>2, SentTypes
    <3>2. usb'.status = 1
      BY <2>2, <3>1 DEF Drives
    <3> QED BY <3>2
  <2>3. "in" \notin halted
    BY DEF ReadData, NoEffect, TimesOut
  <2> QED BY <2>1, <2>2, <2>3 DEF ReadData, NoEffect, TimesOut, Reset
<1>6. k \in Nat /\ k <= usb.left
  BY <1>1, <1>2, <1>5
<1>7. usb.left = k /\ usb.status = 0
  <2>1. Sent(k) \in Drives /\ Sent(k).status = usb.status
    BY <1>1, <1>6, SentTypes
  <2>2. usb'.status = usb.status /\ usb'.phase = IF usb.left = k THEN "csw" ELSE "in"
    BY <1>5, <2>1 DEF Drives
  <2> QED BY <2>2
<1>8. /\ usb.at = cycle.at /\ usb.moved = 0 /\ k = cycle.n /\ cycle.done = 0
  BY <1>1, <1>3, <1>4, <1>5, <1>7 DEF DataInv
<1>9. mem \in Media /\ disk \in Media
  BY DEF UsbTypes, DataTypes
<1>10. ASSUME NEW i \in 0 .. call.n - 1
       PROVE  mem'[i] = disk'[call.at + i]
  <2>1. /\ i \in 0 .. Sectors - 1 /\ i \in cycle.done .. cycle.done + k - 0 - 1
        /\ usb.at + usb.moved + 0 + i - cycle.done = call.at + i
    BY <1>1, <1>4, <1>6, <1>8
  <2>2. mem'[i] = disk[usb.at + usb.moved + 0 + i - cycle.done]
    BY <1>3, <1>5, <1>9, <2>1 DEF Arrive, Media
  <2> QED BY <1>3, <2>1, <2>2
<1> QED BY <1>3, <1>4, <1>10 DEF Moved

(* A write whose status is good moved them to the drive.                   *)
LEMMA WriteDone ==
  ASSUME UsbTypes, UsbTypes', CallInv, DataInv, WriteData, pc' = "csw",
         usb'.phase = "csw", "in" \notin halted', usb'.status = 0
  PROVE  Moved'
<1> USE UsbAssumption
<1>1. /\ usb \in Drives /\ usb.left \in Nat /\ cycle \in Cycles /\ cycle.len \in Nat
      /\ usb.at \in Nat /\ usb.moved \in Nat /\ cycle.n \in Nat /\ cycle.at \in Nat
  BY DEF UsbTypes, DriveTypes, DriverTypes, Drives, Cycles
<1>2. Packets \in Nat /\ Min({usb.left, Packets}) \in Nat
      /\ Min({usb.left, Packets}) <= usb.left
  <2>1. Packets \in Nat
    BY <1>1, Remainder DEF Packets
  <2> QED BY <1>1, <2>1, MinOfTwo
<1>3. pc = "data" /\ cycle.op = "write" /\ UNCHANGED <<call, mem>>
  BY DEF WriteData
<1>4. /\ call # Idle /\ call.op = "write" /\ call.at = cycle.at /\ call.n = cycle.n
      /\ cycle.at + cycle.n <= Sectors
      /\ \A i \in 0 .. Sectors - 1 : mem[i] = <<call.id, i>>
  BY <1>3, ServedCall DEF CyclePlaces, Blocks
<1>5. PICK k \in 0 .. Min({usb.left, Packets}) :
        /\ usb.phase = "out" /\ Store(k)
        /\ usb' = [Sent(k) EXCEPT !.phase = IF usb.left = k THEN "csw" ELSE "out"]
  <2>1. halted' # Endpoints
    BY DEF Endpoints
  <2> QED BY <1>3, <2>1 DEF WriteData, Reset
<1>6. k \in Nat /\ k <= usb.left
  BY <1>1, <1>2, <1>5
<1>7. usb.left = k /\ usb.status = 0
  <2>1. Sent(k) \in Drives /\ Sent(k).status = usb.status
    BY <1>1, <1>6, SentTypes
  <2>2. usb'.status = usb.status /\ usb'.phase = IF usb.left = k THEN "csw" ELSE "out"
    BY <1>5, <2>1 DEF Drives
  <2> QED BY <2>2
<1>8. /\ usb.at = cycle.at /\ usb.moved = 0 /\ k = cycle.n
  BY <1>1, <1>3, <1>5, <1>7 DEF DataInv
<1>9. mem \in Media /\ disk \in Media
  BY DEF UsbTypes, DataTypes
<1>10. ASSUME NEW i \in 0 .. call.n - 1
       PROVE  disk'[call.at + i] = <<call.id, i>>
  <2>1. /\ i \in 0 .. Sectors - 1 /\ call.at + i \in 0 .. Sectors - 1
        /\ call.at + i \in usb.at + usb.moved .. usb.at + usb.moved + k - 1
        /\ call.at + i - usb.at = i
    BY <1>1, <1>4, <1>6, <1>8
  <2>2. disk'[call.at + i] = mem[call.at + i - usb.at]
    <3>1. disk' = [s \in 0 .. Sectors - 1 |->
                     IF s \in usb.at + usb.moved .. usb.at + usb.moved + k - 1
                     THEN mem[s - usb.at] ELSE disk[s]]
      BY <1>5, <1>9 DEF Store, Media
    <3>2. ASSUME NEW s \in 0 .. Sectors - 1,
                 s \in usb.at + usb.moved .. usb.at + usb.moved + k - 1
          PROVE  disk'[s] = mem[s - usb.at]
      BY <3>1, <3>2
    <3> QED BY <1>1, <1>4, <2>1, <3>2
  <2>3. mem[i] = <<call.id, i>>
    BY <1>4, <2>1
  <2>4. mem[call.at + i - usb.at] = mem[i]
    BY <2>1
  <2> QED BY <2>2, <2>3, <2>4, Zenon
<1> QED BY <1>3, <1>4, <1>10 DEF Moved

(* Every step keeps DoneInv.                                               *)
LEMMA StepDone ==
  ASSUME UsbTypes, UsbTypes', MountInv, CallInv, CallInv', DataInv, DoneInv, [Next]_vars
  PROVE  DoneInv'
<1> USE DEF CyclePlaces, ResetPlaces
<1>1. CASE SendCbw
  <2>1. pc' \in {"data", "csw", "reset", "ended"} /\ (pc' = "ended" => retval' = "timeout")
    BY <1>1, EndsAre DEF SendCbw, AfterCbw, GoTo, Reset
  <2>2. ASSUME pc' = "csw", Serving', usb'.phase = "csw", usb'.status = 0
        PROVE  FALSE
    <3>1. pc = "cbw" /\ cycle' = cycle
      BY <1>1 DEF SendCbw
    <3>2. cycle.op \in Blocks
      BY <2>2, <3>1 DEF Serving
    <3>3. cycle.n > 0 /\ cycle.n \in Nat
      BY <3>1, <3>2, ServedCall DEF UsbTypes, DriverTypes, Cycles
    <3>4. cycle.len = 0
      BY <1>1, <2>2, EndsAre DEF SendCbw, AfterCbw, GoTo, Reset
    <3>5. \/ usb' = Accepted
          \/ usb' = [usb EXCEPT !.phase = "csw", !.status = 1]
          \/ usb' = usb /\ usb.phase = "cbw"
      BY <1>1, <2>2, EndsAre DEF SendCbw, Reset
    <3>6. Accepted.status # 0
      BY <3>3, <3>4, AcceptedTypes
    <3>7. usb \in Drives
      BY DEF UsbTypes, DriveTypes
    <3>9. usb' # Accepted
      BY <2>2, <3>6
    <3>10. ~(usb' = usb /\ usb.phase = "cbw")
      BY <2>2
    <3>11. ASSUME usb' = [usb EXCEPT !.phase = "csw", !.status = 1]
           PROVE  FALSE
      <4>1. usb'.status = 1
        BY <3>7, <3>11 DEF Drives
      <4> QED BY <2>2, <4>1
    <3> QED BY <3>5, <3>9, <3>10, <3>11, Zenon
  <2> QED BY <2>1, <2>2 DEF DoneInv
<1>2. CASE ReadData
  <2>1. pc' \in {"csw", "reset"}
    BY <1>2 DEF ReadData, GoTo, Reset
  <2>2. cycle'.op = cycle.op
    BY <1>2, TransferIs DEF Transfers
  <2>3. Serving' => cycle.op \in Blocks
    BY <2>2 DEF Serving
  <2> QED BY <1>2, <2>1, <2>3, ReadDone DEF DoneInv
<1>3. CASE WriteData
  <2>1. pc' \in {"csw", "reset"}
    BY <1>3 DEF WriteData, GoTo, Reset
  <2> QED BY <1>3, <2>1, WriteDone DEF DoneInv
<1>4. CASE ReadCsw
  <2>1. pc' \in {"reset", "ended"} /\ pc = "csw"
    BY <1>4, EndsAre DEF ReadCsw, Reset
  <2>2. ASSUME pc' = "ended", Serving', retval' = "ok", cycle'.status = 0
        PROVE  Moved'
    <3>1. /\ usb.phase = "csw" /\ "in" \notin halted
          /\ cycle' = [cycle EXCEPT !.status = usb.status]
          /\ disk' = disk
      BY <1>4, <2>2, EndsAre DEF ReadCsw, Reset
    <3>2. UNCHANGED <<mem, call>>
      BY <1>4 DEF ReadCsw
    <3>3. cycle'.op = cycle.op /\ cycle'.status = usb.status
      BY <3>1 DEF UsbTypes, DriverTypes, Cycles
    <3>4. Serving
      BY <2>1, <2>2, <3>3 DEF Serving
    <3>5. Moved
      BY <2>1, <2>2, <3>1, <3>3, <3>4 DEF DoneInv
    <3> QED BY <3>1, <3>2, <3>5 DEF Moved
  <2> QED BY <2>1, <2>2 DEF DoneInv
<1>5. CASE ClassReset \/ \E ep \in Endpoints : ClearHalt(ep)
  <2>1. \/ GoTo("clear_in") \/ GoTo("clear_out")
        \/ \E r \in {0, ETIMEDOUT} : Recovers(r)
    BY <1>5, ReturnsAre DEF ClassReset, ClearHalt
  <2>2. pc' \notin {"csw", "return"} /\ (pc' = "ended" => retval' # "ok")
    BY <2>1 DEF GoTo, Recovers
  <2> QED BY <2>2 DEF DoneInv
<1>6. CASE Opening
  <2>1. pc' \notin {"csw", "ended", "return"}
    BY <1>6 DEF Opening, ReleasePorts, NoDevice, ResetPort, Open, MaxLun, OpenClear, GoTo,
                Reset, Begin
  <2> QED BY <2>1 DEF DoneInv
<1>7. CASE MountStep \/ Mount \/ Return
  <2>1. pc' \notin {"csw", "ended", "return"}
    BY <1>7 DEF MountStep, ClearErrors, LunFails, Inquired, Mount, Return, GoTo, Reset, Begin
  <2> QED BY <2>1 DEF DoneInv
<1>8. CASE \E op \in {"read", "write"}, r \in Ranges : Call(op, r.at, r.n)
  BY <1>8 DEF Call, GoTo, DoneInv
<1>9. CASE Transfer
  <2>1. pc = "called" /\ pc' \in {"cbw", "return"} /\ call' = call
    BY <1>9, Zenon DEF Transfer, GoTo, Begin
  <2>2. ~call.answer
    BY <2>1 DEF CallInv
  <2> QED BY <2>1, <2>2 DEF DoneInv
<1>10. CASE CallEnds
  <2>1. /\ pc = "ended" /\ cycle.op \in Blocks /\ pc' = "return"
        /\ UNCHANGED <<mem, disk, cycle>>
    BY <1>10 DEF CallEnds, Ended, GoTo, Blocks, drive
  <2>2. /\ call'.op = call.op /\ call'.at = call.at /\ call'.n = call.n /\ call'.id = call.id
        /\ call'.answer = (retval = "ok")
    BY <1>10 DEF CallEnds, UsbTypes, DriverTypes, Calls
  <2>3. Serving
    BY <2>1 DEF Serving
  <2>4. call'.answer /\ cycle'.status = 0 => Moved
    BY <2>1, <2>2, <2>3 DEF DoneInv
  <2>5. Moved => Moved'
    BY <2>1, <2>2 DEF Moved
  <2> QED BY <2>1, <2>4, <2>5 DEF DoneInv
<1>11. CASE Connect \/ Unplug \/ UNCHANGED vars
  <2>1. UNCHANGED <<usb, halted, disk, cycle, pc, retval, call, mem>>
    BY <1>11 DEF Connect, Unplug, vars, drive
  <2> QED BY <2>1 DEF DoneInv, Moved, Serving
<1> QED BY <1>1, <1>2, <1>3, <1>4, <1>5, <1>6, <1>7, <1>8, <1>9, <1>10, <1>11
        DEF Next, Driver, Transfers

-----------------------------------------------------------------------------
(* While nothing goes wrong the driver tries unit after unit, and its      *)
(* toggles and tags agree with the drive's.                                *)

(* A unit that was found is the first of those tried with a medium.        *)
LEMMA FirstUnit ==
  ASSUME UsbTypes, Found
  PROVE  lun \in media \cap Tried /\ lun = Min(media \cap Tried)
<1> USE UsbAssumption
<1>1. lun \in 0 .. Luns - 1 /\ media \subseteq 0 .. Luns - 1
  BY DEF UsbTypes, DriverTypes, DriveTypes
<1>2. lun \in media \cap Tried /\ \A m \in media \cap Tried : lun <= m
  BY <1>1 DEF Found, Last, Empty, Tried
<1>3. ASSUME NEW l \in media \cap Tried, \A m \in media \cap Tried : l <= m
      PROVE  l = lun
  BY <1>1, <1>2, <1>3
<1> QED BY <1>2, <1>3 DEF Min

(* When a unit has no medium, the next one is tried or there is none.      *)
LEMMA NextUnit ==
  ASSUME UsbTypes, Empty(lun), lun \notin media
  PROVE  /\ Empty(lun + 1)
         /\ ~(lun + 1 < Last) => media \cap Tried = {}
<1> USE UsbAssumption
<1>1. lun \in 0 .. Luns - 1 /\ media \subseteq 0 .. Luns - 1
  BY DEF UsbTypes, DriverTypes, DriveTypes
<1>2. Empty(lun + 1)
  BY <1>1 DEF Empty
<1> QED BY <1>1, <1>2 DEF Empty, Last, Tried

(* Every step keeps UnitInv.                                               *)
LEMMA StepUnit ==
  ASSUME UsbTypes, UsbTypes', MountInv, UnitInv, [Next]_vars
  PROVE  UnitInv'
<1> USE UsbAssumption DEF CyclePlaces, ResetPlaces, OpenPlaces
<1>1. CASE Connect
  BY <1>1 DEF Connect, Smooth, Plugged, handle, UnitInv
<1>2. pc' \in {"off", "discover"} => lun' = 0
  <2>1. CASE Transfers
    BY <2>1, TransferIs DEF Recovers
  <2>2. CASE Opening
    <3>1. lun' = lun
      BY <2>2 DEF Opening, ReleasePorts, NoDevice, ResetPort, Open, MaxLun, OpenClear, handle
    <3>2. pc' \in {"off", "discover"} => pc \in {"off", "discover"}
      BY <2>2 DEF Opening, ReleasePorts, NoDevice, ResetPort, Open, MaxLun, OpenClear, GoTo,
                  Reset, Begin
    <3> QED BY <3>1, <3>2 DEF UnitInv
  <2>3. CASE MountStep \/ Mount \/ CallEnds \/ Return
    BY <2>3 DEF MountStep, ClearErrors, LunFails, Inquired, Mount, CallEnds, Return, GoTo,
                Reset, Begin
  <2>4. CASE Transfer \/ \E op \in {"read", "write"}, r \in Ranges : Call(op, r.at, r.n)
    <3>1. pc' \in {"cbw", "return", "called"}
      BY <2>4, Zenon DEF Transfer, Call, GoTo, Begin
    <3> QED BY <3>1
  <2>5. CASE Connect \/ Unplug \/ UNCHANGED vars
    BY <2>5 DEF Connect, Unplug, vars, handle, UnitInv
  <2> QED BY <2>1, <2>2, <2>3, <2>4, <2>5 DEF Next, Driver
<1> SUFFICES ASSUME Smooth', ~Connect
             PROVE  UnitInv'
  BY <1>1, <1>2 DEF UnitInv
<1>3. /\ Smooth /\ NoFault /\ ~Fault /\ ~Refusal /\ Plugged
      /\ refusals' = refusals
  <2>1. Smooth /\ NoFault /\ refusals' = refusals
    BY NothingTakenBack DEF Smooth
  <2>2. faults \in Nat /\ refusals \in Nat
    BY DEF UsbTypes, DriveTypes
  <2> QED BY <2>1, <2>2 DEF Smooth, NoFault, Fault, Refusal
<1>4. /\ pc \in {"off", "discover"} => lun = 0 /\ ~mounted
      /\ pc \in OpenPlaces \cup ResetPlaces => Opened
      /\ pc \in ResetPlaces => from = "open"
      /\ pc \in {"open_in", "open_out"} => dev.max_lun = Last
      /\ pc \in CyclePlaces => Trying /\ Told
      /\ pc = "ready" => (mounted => Found) /\ (~mounted => media \cap Tried = {})
      /\ pc \notin {"called", "return"}
  BY <1>3 DEF UnitInv, MountInv
<1>5. ~TimesOut
  BY <1>3 DEF TimesOut, FaultUnless
<1>6. CASE SendCbw
  <2>1. Trying /\ Told /\ pc = "cbw"
    BY <1>4, <1>6 DEF SendCbw
  <2>2. UNCHANGED <<media, dev, lun, cycle>>
    BY <1>6 DEF SendCbw, handle
  <2>3. /\ usb' = Accepted /\ AfterCbw /\ halted' = halted
        /\ Flip("out", 1, 1)
    BY <1>3, <1>5, <1>6, <2>1 DEF SendCbw, Trying, Told, Agree, FaultUnless
  <2>4. toggle' = toggles'
    <3>1. toggle = toggles
      BY <2>1 DEF Trying
    <3> QED BY <2>3, <3>1 DEF Flip
  <2>5. Trying'
    BY <2>1, <2>2, <2>3, <2>4 DEF Trying, Empty, Tried
  <2>6. Refused <=> ~Fits
    <3>1. cycle.op \in Queries
      BY <2>1 DEF Trying
    <3> QED BY <2>1, <3>1 DEF Refused, Fits, Trying, Queries
  <2>7. cycle.len = cycle.n /\ cycle.n = (IF cycle.op = "tur" THEN 0 ELSE 1)
    BY <2>1 DEF Trying, Told
  <2>8. pc' = IF cycle.op = "tur" THEN "csw" ELSE "data"
    BY <2>3, <2>7 DEF AfterCbw, GoTo
  <2>9. /\ usb'.phase = IF cycle.op = "tur" THEN "csw" ELSE "in"
        /\ usb'.tag = dev.tag /\ (usb'.status = 0 <=> Fits)
        /\ cycle.op # "tur" => usb'.left = 1
    <3>1. cycle.op \in Queries
      BY <2>1 DEF Trying
    <3>2. cycle.op # "tur" => Fits
      BY DEF Fits
    <3>3. cycle.n = 1 => Min({cycle.n, cycle.len}) = 1
      BY <2>7, MinOfTwo
    <3> QED BY <2>3, <2>6, <2>7, <3>1, <3>2, <3>3, AcceptedTypes DEF Queries
  <2>10. Told'
    BY <2>1, <2>2, <2>7, <2>8, <2>9 DEF Told, Fits
  <2> QED BY <1>2, <2>5, <2>8, <2>10 DEF UnitInv
<1>7. CASE ReadData
  <2>1. Trying /\ Told /\ pc = "data" /\ cycle.op \notin Blocks
    BY <1>4, <1>7 DEF ReadData, Trying, Blocks, Queries
  <2>2. /\ usb.phase = "in" /\ usb.left = 1 /\ halted = {} /\ Agree("in")
        /\ cycle.op # "tur" /\ cycle.n = 1 /\ cycle.len = 1 /\ cycle.done = 0
    BY <2>1 DEF Trying, Told, Agree
  <2>3. Packets = 1
    BY <2>2 DEF Packets
  <2>4. Min({usb.left, Packets}) = 1
    BY <2>2, <2>3, MinOfTwo
  <2>5. /\ Arrive(1, 0) /\ Flip("in", 1, 1) /\ halted' = halted /\ GoTo("csw")
        /\ usb' = [Sent(1) EXCEPT !.phase = "csw"]
    <3>1. PICK k \in 0 .. Min({usb.left, Packets}) :
            /\ k = usb.left \/ k = Packets
            /\ Arrive(k, 0)
            /\ \/ /\ k = Packets
                  /\ usb' = [Sent(k) EXCEPT !.phase = IF usb.left = k THEN "csw" ELSE "in"]
                  /\ Flip("in", k, k)
                  /\ UNCHANGED halted
                  /\ GoTo("csw")
               \/ k < Packets
               \/ k < usb.left
      <4>1. "in" \notin halted /\ Packets # 0
        BY <2>2, <2>3
      <4>2. ASSUME NEW k \in 0 .. Min({usb.left, Packets}),
                   FaultUnless(k = usb.left)
            PROVE  k = usb.left \/ k = Packets
        BY <1>3, <4>2 DEF FaultUnless
      <4> QED BY <1>3, <1>5, <1>7, <2>2, <4>1, <4>2 DEF ReadData
    <3>2. k = 1
      BY <2>2, <2>3, <2>4, <3>1
    <3> QED BY <2>2, <2>3, <3>1, <3>2
  <2>6. UNCHANGED <<media, dev, lun>>
    BY <1>7 DEF ReadData, handle
  <2>7. /\ cycle'.op = cycle.op /\ cycle'.n = cycle.n /\ cycle'.done = 1
    BY <2>2, <2>5 DEF Arrive, UsbTypes, DriverTypes, Cycles
  <2>8. usb'.phase = "csw" /\ usb'.tag = usb.tag /\ usb'.status = usb.status
    <3>1. usb \in Drives
      BY DEF UsbTypes, DriveTypes
    <3>2. Sent(1) \in Drives /\ Sent(1).tag = usb.tag /\ Sent(1).status = usb.status
      BY <2>2, <3>1, SentTypes
    <3> QED BY <2>5, <3>2 DEF Drives
  <2>9. toggle' = toggles'
    <3>1. toggle = toggles
      BY <2>1 DEF Trying
    <3> QED BY <2>5, <3>1 DEF Flip
  <2>10. Trying'
    BY <2>1, <2>5, <2>6, <2>7, <2>9 DEF Trying, Empty, Tried
  <2>11. pc' = "csw"
    BY <2>5 DEF GoTo
  <2>12. Told'
    BY <2>1, <2>2, <2>6, <2>7, <2>8, <2>11 DEF Told, Fits
  <2> QED BY <1>2, <2>10, <2>11, <2>12 DEF UnitInv
<1>8. CASE WriteData \/ CallEnds
  <2>1. cycle.op \in Blocks /\ pc \in CyclePlaces
    BY <1>8 DEF WriteData, CallEnds, Ended, Blocks
  <2> QED BY <1>4, <2>1 DEF Trying, Blocks, Queries
<1>9. CASE ReadCsw
  <2>1. Trying /\ Told /\ pc = "csw"
    BY <1>4, <1>9 DEF ReadCsw
  <2>2. /\ usb.phase = "csw" /\ halted = {} /\ Agree("in") /\ usb.tag = dev.tag
    BY <2>1 DEF Trying, Told, Agree
  <2>3. /\ usb' = Waiting /\ Flip("in", 1, 1) /\ halted' = halted
        /\ cycle' = [cycle EXCEPT !.status = usb.status]
        /\ dev' = [dev EXCEPT !.tag = @ + 1] /\ Ends(0)
    BY <1>3, <1>5, <1>9, <2>2 DEF ReadCsw, FaultUnless
  <2>4. UNCHANGED <<media, lun>>
    BY <1>9 DEF ReadCsw
  <2>5. /\ cycle'.op = cycle.op /\ cycle'.n = cycle.n /\ cycle'.done = cycle.done
        /\ cycle'.status = usb.status
    BY <2>3 DEF UsbTypes, DriverTypes, Cycles
  <2>6. dev'.max_lun = dev.max_lun
    BY <2>3 DEF UsbTypes, DriverTypes, Handles
  <2>7. toggle' = toggles'
    <3>1. toggle = toggles
      BY <2>1 DEF Trying
    <3> QED BY <2>3, <3>1 DEF Flip
  <2>8. Trying'
    BY <2>1, <2>3, <2>4, <2>5, <2>6, <2>7 DEF Trying, Empty, Tried
  <2>9. pc' = "ended" /\ retval' = "ok"
    BY <2>3, EndsAre
  <2>10. Told'
    BY <2>1, <2>3, <2>4, <2>5, <2>9 DEF Told, Fits, Waiting
  <2> QED BY <1>2, <2>8, <2>9, <2>10 DEF UnitInv
<1>10. CASE ClassReset
  <2>1. Opened /\ from = "open" /\ pc = "reset"
    BY <1>4, <1>10 DEF ClassReset
  <2>2. /\ UNCHANGED <<lun, mounted, toggle, toggles, halted>>
        /\ usb' = Waiting /\ pc' = "clear_in" /\ from' = from
    BY <1>3, <1>5, <1>10 DEF ClassReset, GoTo, SameToggles
  <2> QED BY <1>2, <2>1, <2>2 DEF UnitInv, Opened, Quiet, Waiting
<1>11. ASSUME NEW ep \in Endpoints, ClearHalt(ep)
       PROVE  UnitInv'
  <2>1. Opened /\ from = "open" /\ pc \in {"clear_in", "clear_out"}
    BY <1>4, <1>11 DEF ClearHalt
  <2>2. /\ UNCHANGED <<lun, mounted>> /\ Cleared(ep)
        /\ IF ep = "in" THEN GoTo("clear_out") ELSE ResetReturns(0)
    BY <1>3, <1>5, <1>11 DEF ClearHalt
  <2>3. /\ UNCHANGED <<usb, toggles>> /\ halted' \subseteq halted
        /\ toggle' = [toggle EXCEPT ![ep] = 0]
    BY <1>3, <2>2, ClearedTypes DEF Cleared
  <2>4. toggle' = Zeroes
    BY <2>1, <2>3 DEF Opened, Zeroes
  <2>5. Opened'
    BY <2>1, <2>2, <2>3, <2>4 DEF Opened, Quiet
  <2>6. CASE ep = "in"
    BY <1>2, <2>1, <2>2, <2>5, <2>6 DEF GoTo, UnitInv
  <2>7. CASE ep # "in"
    <3>1. Recovers(0)
      BY <2>2, <2>7, ReturnsAre
    <3>2. pc' = "max_lun"
      BY <2>1, <3>1 DEF Recovers, ETIMEDOUT
    <3> QED BY <1>2, <2>5, <3>2 DEF UnitInv
  <2> QED BY <2>6, <2>7
<1>12. CASE ReleasePorts \/ NoDevice
  BY <1>2, <1>12 DEF ReleasePorts, NoDevice, GoTo, UnitInv
<1>13. CASE ResetPort
  <2>1. lun = 0 /\ ~mounted
    BY <1>4, <1>13 DEF ResetPort
  <2>2. /\ usb' = Waiting /\ halted' = {} /\ toggle' = Zeroes /\ toggles' = Zeroes
        /\ pc' = "open" /\ UNCHANGED <<lun, mounted>>
    BY <1>3, <1>13 DEF ResetPort, GoTo, handle
  <2> QED BY <1>2, <2>1, <2>2 DEF UnitInv, Opened, Quiet, Waiting
<1>14. CASE Open
  <2>1. Opened
    BY <1>4, <1>14 DEF Open
  <2>2. /\ UNCHANGED <<usb, halted, toggle, toggles, lun, mounted>>
        /\ pc' = "reset" /\ from' = "open"
    BY <1>3, <1>14 DEF Open, Reset, NoEffect, SameToggles, FaultUnless
  <2> QED BY <1>2, <2>1, <2>2 DEF UnitInv, Opened, Quiet
<1>15. CASE MaxLun
  <2>1. Opened
    BY <1>4, <1>15 DEF MaxLun
  <2>2. /\ UNCHANGED <<usb, halted, toggle, toggles, lun, mounted>>
        /\ pc' = "open_in"
        /\ dev' = [dev EXCEPT !.max_lun = IF Luns - 1 = 0 THEN 1 ELSE Luns - 1]
    BY <1>3, <1>15 DEF MaxLun, GoTo, NoEffect, SameToggles, FaultUnless
  <2>3. dev'.max_lun = Last
    BY <2>2 DEF Last, UsbTypes, DriverTypes, Handles
  <2> QED BY <1>2, <2>1, <2>2, <2>3 DEF UnitInv, Opened, Quiet
<1>16. ASSUME NEW ep \in Endpoints, OpenClear(ep)
       PROVE  UnitInv'
  <2>1. Opened /\ dev.max_lun = Last
    BY <1>4, <1>16 DEF OpenClear
  <2>2. /\ UNCHANGED <<lun, mounted, dev, media>> /\ Cleared(ep)
        /\ IF ep = "in" THEN GoTo("open_out") ELSE Begin("tur", 0, 0, 0)
    BY <1>5, <1>16 DEF OpenClear, handle
  <2>3. /\ UNCHANGED <<usb, toggles>> /\ halted' \subseteq halted
        /\ toggle' = [toggle EXCEPT ![ep] = 0]
    BY <1>3, <2>2, ClearedTypes DEF Cleared
  <2>4. toggle' = Zeroes
    BY <2>1, <2>3 DEF Opened, Zeroes
  <2>5. Opened'
    BY <2>1, <2>2, <2>3, <2>4 DEF Opened, Quiet
  <2>6. CASE ep = "in"
    BY <1>2, <2>1, <2>2, <2>5, <2>6 DEF GoTo, UnitInv
  <2>7. CASE ep # "in"
    <3>1. /\ pc' = "cbw" /\ cycle'.op = "tur" /\ cycle'.n = 0 /\ cycle'.len = 0
          /\ cycle'.done = 0
      BY <2>2, <2>7, BeginTypes DEF Queries
    <3>2. Empty(0)' /\ 0 < Last
      BY DEF Empty, Last, UsbTypes, DriveTypes
    <3>3. Trying'
      BY <2>1, <2>2, <2>5, <3>1, <3>2 DEF Trying, Opened, Quiet, Queries, Last, Empty, Tried
    <3>4. Told'
      BY <2>5, <3>1 DEF Told, Opened, Quiet
    <3> QED BY <1>2, <3>1, <3>3, <3>4 DEF UnitInv
  <2> QED BY <2>6, <2>7
<1>17. CASE MountStep
  <2>1. Trying /\ Told /\ pc = "ended" /\ retval = "ok"
    BY <1>4, <1>17 DEF MountStep, ClearErrors, Inquired, Ended, Told
  <2>2. UNCHANGED <<drive, toggles, dev, mounted>> /\ ~mounted
    <3>1. cycle.op \notin Blocks
      BY <2>1 DEF Trying, Queries, Blocks
    <3> QED BY <1>17, <2>1, <3>1 DEF MountStep, MountInv
  <2>3. UNCHANGED <<usb, halted, toggle, media>>
    BY <2>2 DEF drive
  <2>4. ASSUME NEW op \in Queries, NEW n \in Nat, Begin(op, 0, n, n),
               n = (IF op = "tur" THEN 0 ELSE 1), Empty(lun)', lun' < Last,
               op \in {"inquiry", "capacity"} => lun' \in media,
               op = "sense" => lun' \notin media
        PROVE  UnitInv'
    <3>1. /\ pc' = "cbw" /\ cycle'.op = op /\ cycle'.n = n /\ cycle'.len = n
          /\ cycle'.done = 0
      BY <2>4, BeginTypes
    <3>2. Trying'
      BY <2>1, <2>2, <2>3, <2>4, <3>1 DEF Trying
    <3>3. Told'
      BY <2>1, <2>3, <3>1 DEF Told
    <3> QED BY <1>2, <3>1, <3>2, <3>3 DEF UnitInv
  <2>5. CASE cycle.op = "tur" /\ cycle.status # 0
    <3>1. Begin("sense", 0, 1, 1) /\ lun' = lun
      BY <1>17, <2>1, <2>5 DEF MountStep, ClearErrors, Inquired, Ended
    <3>2. lun \notin media
      BY <2>1, <2>5 DEF Told, Fits
    <3>3. Empty(lun)' /\ lun' < Last
      BY <2>1, <2>3, <3>1 DEF Trying, Empty, Tried
    <3> QED BY <2>4, <3>1, <3>2, <3>3 DEF Queries
  <2>6. CASE cycle.op = "tur" /\ cycle.status = 0
    <3>1. Begin("inquiry", 0, 1, 1) /\ lun' = lun
      BY <1>17, <2>1, <2>6 DEF MountStep, ClearErrors, Inquired, Ended
    <3>2. lun \in media
      BY <2>1, <2>6 DEF Told, Fits
    <3>3. Empty(lun)' /\ lun' < Last
      BY <2>1, <2>3, <3>1 DEF Trying, Empty, Tried
    <3> QED BY <2>4, <3>1, <3>2, <3>3 DEF Queries
  <2>7. CASE cycle.op = "sense"
    <3>1. lun \notin media /\ NotReady /\ dev.max_lun = Last
      BY <2>1, <2>7 DEF Trying, Told, NotReady
    <3>2. IF lun + 1 < Last
          THEN Begin("tur", 0, 0, 0) /\ lun' = lun + 1
          ELSE GoTo("ready") /\ UNCHANGED <<cycle, lun>>
      BY <1>17, <2>1, <2>7, <3>1 DEF MountStep, ClearErrors, Inquired, Ended
    <3>3. Empty(lun + 1) /\ (~(lun + 1 < Last) => media \cap Tried = {})
      BY <2>1, <3>1, NextUnit DEF Trying
    <3>4. CASE lun + 1 < Last
      <4>1. Empty(lun)' /\ lun' < Last
        BY <2>3, <3>2, <3>3, <3>4 DEF Empty, Tried
      <4> QED BY <2>4, <3>2, <3>4, <4>1 DEF Queries
    <3>5. CASE ~(lun + 1 < Last)
      BY <1>2, <2>2, <2>3, <3>2, <3>3, <3>5 DEF GoTo, UnitInv, Tried
    <3> QED BY <3>4, <3>5
  <2>8. CASE cycle.op = "inquiry"
    <3>1. Begin("capacity", 0, 1, 1) /\ lun' = lun
      BY <1>17, <2>1, <2>8 DEF MountStep, ClearErrors, Inquired, Ended
    <3>2. lun \in media
      BY <2>1, <2>8 DEF Trying
    <3>3. Empty(lun)' /\ lun' < Last
      BY <2>1, <2>3, <3>1 DEF Trying, Empty, Tried
    <3> QED BY <2>4, <3>1, <3>2, <3>3 DEF Queries
  <2>9. cycle.op \in {"tur", "sense", "inquiry"}
    BY <1>17, <2>1 DEF MountStep, ClearErrors, Inquired, Ended
  <2> QED BY <2>5, <2>6, <2>7, <2>8, <2>9
<1>18. CASE Mount
  <2>1. Trying /\ Told /\ pc = "ended" /\ cycle.op = "capacity"
    BY <1>4, <1>18 DEF Mount, Ended
  <2>2. cycle.done > 0
    BY <2>1 DEF Trying, Told
  <2>3. PICK size \in 0 .. 1 : size = 1 /\ dev' = [dev EXCEPT !.size = size]
    BY <1>18, <2>2 DEF Mount
  <2>4. /\ pc' = "ready" /\ UNCHANGED <<lun, media>> /\ mounted' = TRUE
        /\ dev'.size = 1
    BY <1>18, <2>3 DEF Mount, GoTo, drive, UsbTypes, DriverTypes, Handles
  <2>5. Found'
    BY <2>1, <2>4 DEF Trying, Found, Empty, Tried
  <2> QED BY <1>2, <2>4, <2>5 DEF UnitInv
<1>19. CASE Transfer \/ Return
  BY <1>4, <1>19, Zenon DEF Transfer, Return
<1>20. CASE \E op \in {"read", "write"}, r \in Ranges : Call(op, r.at, r.n)
  <2>1. calls' = calls + 1
    BY <1>20 DEF Call
  <2>2. calls \in Nat
    BY DEF UsbTypes, DriverTypes
  <2> QED BY <2>1, <2>2 DEF Smooth
<1>21. CASE Unplug
  BY <1>3, <1>21 DEF Unplug
<1>22. CASE UNCHANGED vars
  <2>1. UNCHANGED <<usb, halted, toggle, toggles, media, lun, mounted, dev, cycle, pc, from,
                    retval>>
    BY <1>22 DEF vars, drive, handle
  <2> QED BY <1>2, <1>4, <2>1 DEF UnitInv, Opened, Quiet, Trying, Told, Found, Fits, Empty, Tried
<1> QED BY <1>6, <1>7, <1>8, <1>9, <1>10, <1>11, <1>12, <1>13, <1>14, <1>15, <1>16, <1>17,
           <1>18, <1>19, <1>20, <1>21, <1>22 DEF Next, Driver, Transfers, Opening

-----------------------------------------------------------------------------
(* The inductive invariant.                                                *)

UsbInv == /\ UsbTypes
          /\ MountInv
          /\ CallInv
          /\ DataInv
          /\ StepInv
          /\ DoneInv
          /\ UnitInv

(* The invariant holds initially.                                          *)
LEMMA StartInv == Init => UsbInv
<1> SUFFICES ASSUME Init PROVE UsbInv
  OBVIOUS
<1>1. UsbTypes
  BY StartTypes
<1>2. pc = "off" /\ cycle.op = "none" /\ ~mounted /\ lun = 0 /\ call = Idle
  BY DEF Init, NoCycle
<1>3. MountInv
  BY <1>2 DEF MountInv, Blocks, OpenPlaces, CyclePlaces, ResetPlaces
<1>4. CallInv
  BY <1>2 DEF CallInv, Serving, CyclePlaces, ResetPlaces
<1>5. DataInv /\ StepInv /\ DoneInv
  BY <1>2 DEF DataInv, StepInv, DoneInv
<1>6. UnitInv
  BY <1>2 DEF UnitInv, OpenPlaces, CyclePlaces, ResetPlaces
<1> QED BY <1>1, <1>3, <1>4, <1>5, <1>6 DEF UsbInv

(* Every step keeps it.                                                    *)
LEMMA StepUsb == UsbInv /\ [Next]_vars => UsbInv'
<1> SUFFICES ASSUME UsbInv, [Next]_vars PROVE UsbInv'
  OBVIOUS
<1>1. UsbTypes'
  BY StepTypes DEF UsbInv
<1>2. MountInv'
  BY StepMount DEF UsbInv
<1>3. CallInv'
  BY <1>1, <1>2, StepCall DEF UsbInv
<1>4. DataInv'
  BY StepData DEF UsbInv
<1>5. StepInv'
  BY <1>1, StepStep DEF UsbInv
<1>6. DoneInv'
  BY <1>1, <1>3, StepDone DEF UsbInv
<1>7. UnitInv'
  BY <1>1, StepUnit DEF UsbInv
<1> QED BY <1>1, <1>2, <1>3, <1>4, <1>5, <1>6, <1>7 DEF UsbInv

(* It holds throughout.                                                    *)
LEMMA UsbInvAlways == Spec => []UsbInv
BY StartInv, StepUsb, PTL DEF Spec

(* The types of the driver's and the drive's state; no transfer, whatever  *)
(* the drive makes of it, moves the buffer or the sectors out of bounds.   *)
THEOREM UsbTypesHold == Spec => []UsbTypes
<1>1. UsbInv => UsbTypes
  BY DEF UsbInv
<1> QED BY <1>1, UsbInvAlways, PTL

(* Whatever goes wrong with the messages of a command, the driver leaves   *)
(* the drive waiting for the next one with both endpoints open, unless it  *)
(* refused a request of the recovery (usbstorage.c:155-250).               *)
THEOREM StaysInStep == Spec => []InStep
<1>1. UsbInv => InStep
  BY DEF UsbInv, StepInv, InStep, Quiet
<1> QED BY <1>1, UsbInvAlways, PTL

(* When nothing goes wrong, the first unit tried that has a medium is      *)
(* mounted, for every number of units (usbstorage.c:477-528, 639-660).     *)
THEOREM MountsRightUnit == Spec => []RightUnit
<1>1. UsbInv => RightUnit
  <2> SUFFICES ASSUME UsbInv, Smooth, pc = "ready"
               PROVE  IF media \cap Tried = {} THEN ~mounted
                      ELSE mounted /\ lun = Min(media \cap Tried) /\ dev.size = 1
    BY DEF RightUnit, Smooth
  <2>1. (mounted => Found) /\ (~mounted => media \cap Tried = {})
    BY DEF UsbInv, UnitInv
  <2>2. UsbTypes
    BY DEF UsbInv
  <2>3. CASE mounted
    BY <2>1, <2>2, <2>3, FirstUnit DEF Found
  <2>4. CASE ~mounted
    BY <2>1, <2>4
  <2> QED BY <2>3, <2>4
<1> QED BY <1>1, UsbInvAlways, PTL

-----------------------------------------------------------------------------
(* disk_read and disk_write keep the promise of DiskSpec.                  *)

(* The initial states are those of the abstract disk.                      *)
LEMMA StartsAsDisk == Init => Disk!Init
<1> SUFFICES ASSUME Init PROVE Disk!Init
  OBVIOUS
<1>1. disk \in [0 .. Sectors - 1 -> Contents]
  BY StartTypes DEF UsbTypes, DataTypes, Media
<1>2. Request = Disk!Idle /\ Failed = FALSE
  BY DEF Init, Disk!Idle, Idle, Request, Failed
<1> QED BY <1>1, <1>2 DEF Disk!Init

(* Most steps are none of the abstract disk.                               *)
LEMMA Stutters ==
  ASSUME UNCHANGED <<disk, call, mem>>, pc # "return", pc' # "return"
  PROVE  [Disk!Next]_Disk!vars
BY DEF Disk!vars, Request, Failed

(* The request of a pending call.                                          *)
LEMMA PendingRequest ==
  ASSUME UsbInv, call # Idle
  PROVE  /\ Request.op = call.op /\ Request.at = call.at /\ Request.n = call.n
         /\ Request.id = call.id /\ Request # Disk!Idle
BY DEF UsbInv, CallInv, Request, Disk!Idle

(* A read fills the buffer.                                                *)
LEMMA ReadIsDisk ==
  ASSUME UsbInv, UsbInv', ReadData
  PROVE  [Disk!Next]_Disk!vars
<1>1. UNCHANGED <<disk, call>> /\ pc = "data" /\ cycle.op # "write"
  BY DEF ReadData
<1>2. pc' \in {"csw", "reset"}
  BY DEF ReadData, GoTo, Reset
<1>3. CASE cycle.op = "read"
  <2>1. call # Idle /\ call.op = "read"
    BY <1>1, <1>3, ServedCall DEF UsbInv, CyclePlaces, Blocks
  <2>2. Request.op = "read" /\ Request' = Request
    BY <1>1, <2>1, PendingRequest DEF Request
  <2>3. Failed = FALSE /\ Failed' = FALSE
    BY <1>1, <1>2 DEF Failed
  <2>4. Disk!Fill
    BY <1>1, <2>2, <2>3 DEF Disk!Fill
  <2> QED BY <2>4 DEF Disk!Next
<1>4. CASE cycle.op # "read"
  <2>1. mem' = mem
    BY <1>4 DEF ReadData, Arrive
  <2> QED BY <1>1, <1>2, <2>1, Stutters
<1> QED BY <1>3, <1>4

(* A write stores the first sectors of its buffer.                         *)
LEMMA WriteIsDisk ==
  ASSUME UsbInv, UsbInv', WriteData
  PROVE  [Disk!Next]_Disk!vars
<1> USE UsbAssumption
<1>1. UNCHANGED <<mem, call>> /\ pc = "data" /\ cycle.op = "write"
  BY DEF WriteData
<1>2. pc' \in {"csw", "reset"}
  BY DEF WriteData, GoTo, Reset
<1>3. /\ call # Idle /\ call.op = "write" /\ call.at = cycle.at /\ call.n = cycle.n
      /\ cycle.at + cycle.n <= Sectors
      /\ \A i \in 0 .. Sectors - 1 : mem[i] = <<call.id, i>>
  BY <1>1, ServedCall DEF UsbInv, CyclePlaces, Blocks
<1>4. CASE disk' = disk
  BY <1>1, <1>2, <1>4, Stutters
<1>5. CASE \E k \in 0 .. Min({usb.left, Packets}) : usb.phase = "out" /\ Store(k)
  <2>1. /\ usb.left \in Nat /\ cycle.len \in Nat /\ usb.at \in Nat /\ usb.moved \in Nat
        /\ cycle.n \in Nat /\ cycle.at \in Nat /\ disk \in Media
    BY DEF UsbInv, UsbTypes, DriveTypes, DriverTypes, DataTypes, Drives, Cycles
  <2>2. Packets \in Nat
    BY <2>1, Remainder DEF Packets
  <2>3. PICK k \in 0 .. Min({usb.left, Packets}) : usb.phase = "out" /\ Store(k)
    BY <1>5
  <2>4. k \in Nat /\ k <= usb.left
    BY <2>1, <2>2, MinOfTwo
  <2>5. usb.at = cycle.at /\ usb.moved = 0 /\ usb.left <= cycle.n
    BY <1>1, <2>3 DEF UsbInv, DataInv
  <2>6. /\ Request' = Request /\ Request.op = "write" /\ Request.at = cycle.at
        /\ Request.n = cycle.n /\ Request.id = call.id
    BY <1>1, <1>3, PendingRequest DEF Request
  <2>7. Failed = FALSE /\ Failed' = FALSE
    BY <1>1, <1>2 DEF Failed
  <2> DEFINE K == 0 .. k - 1
  <2>8. K \in SUBSET (0 .. Request.n - 1)
    BY <2>1, <2>4, <2>5, <2>6
  <2>9. disk' = [s \in DOMAIN disk |-> IF s - Request.at \in K
                                       THEN Written(Request.id, s - Request.at)
                                       ELSE disk[s]]
    <3>1. DOMAIN disk = 0 .. Sectors - 1
      BY <2>1 DEF Media
    <3>2. ASSUME NEW s \in 0 .. Sectors - 1
          PROVE  /\ s \in usb.at + usb.moved .. usb.at + usb.moved + k - 1
                      <=> s - Request.at \in K
                 /\ s - Request.at \in K => mem[s - usb.at] = Written(Request.id, s - Request.at)
      <4>1. s \in usb.at + usb.moved .. usb.at + usb.moved + k - 1 <=> s - Request.at \in K
        BY <2>1, <2>4, <2>5, <2>6
      <4>2. ASSUME s - Request.at \in K
            PROVE  mem[s - usb.at] = Written(Request.id, s - Request.at)
        <5>1. s - usb.at \in 0 .. Sectors - 1 /\ s - usb.at = s - Request.at
          BY <1>3, <2>1, <2>4, <2>5, <2>6, <4>2
        <5> QED BY <1>3, <2>6, <5>1 DEF Written
      <4> QED BY <4>1, <4>2
    <3> QED BY <2>3, <3>1, <3>2 DEF Store
  <2>10. Disk!Store
    BY <1>1, <2>6, <2>7, <2>8, <2>9 DEF Disk!Store
  <2> QED BY <2>10 DEF Disk!Next
<1> QED BY <1>4, <1>5 DEF WriteData, NoEffect, TimesOut

(* A call is one of the abstract disk.                                     *)
LEMMA CallIsDisk ==
  ASSUME UsbInv, UsbInv', NEW op \in {"read", "write"}, NEW r \in Ranges, Call(op, r.at, r.n)
  PROVE  [Disk!Next]_Disk!vars
<1> USE UsbAssumption
<1>1. /\ call = Idle /\ disk' = disk /\ pc = "ready" /\ pc' = "called" /\ calls' = calls + 1
      /\ call' = [id |-> calls', op |-> op, at |-> r.at, n |-> r.n, answer |-> FALSE]
  BY DEF Call, GoTo, drive
<1>2. calls' \in Nat /\ r.at \in Nat /\ r.n \in Nat /\ r.n > 0 /\ r.at + r.n <= Sectors
  BY <1>1 DEF UsbInv, UsbTypes, DriverTypes
<1>3. Request = Disk!Idle
  BY <1>1 DEF Request, Idle, Disk!Idle
<1>4. Request' = [id |-> calls', op |-> op, at |-> r.at, n |-> r.n]
  BY <1>1 DEF Request
<1>5. Request' \in Disk!Requests /\ Request'.at + Request'.n <= Sectors
  <2>1. r.at \in 0 .. Sectors - 1 /\ r.n \in 1 .. Sectors
    BY <1>2
  <2> QED BY <1>2, <1>4, <2>1 DEF Disk!Requests
<1>6. Failed' = FALSE
  BY <1>1 DEF Failed
<1>7. Disk!Call
  BY <1>1, <1>3, <1>5, <1>6 DEF Disk!Call
<1> QED BY <1>7 DEF Disk!Next

(* A call that is not served, or was served badly, is one that fails.      *)
LEMMA EndIsDisk ==
  ASSUME UsbInv, UsbInv', Transfer \/ CallEnds
  PROVE  [Disk!Next]_Disk!vars
<1>1. UNCHANGED <<disk, mem>> /\ pc # "return"
  <2>1. UNCHANGED drive /\ UNCHANGED mem /\ pc \in {"called", "ended"}
    BY Zenon DEF Transfer, CallEnds, Ended
  <2> QED BY <2>1 DEF drive
<1>2. call # Idle
  <2>1. CASE Transfer
    BY <2>1 DEF Transfer, UsbInv, CallInv
  <2>2. CASE CallEnds
    <3>1. pc \in CyclePlaces /\ cycle.op \in Blocks
      BY <2>2 DEF CallEnds, Ended, CyclePlaces, Blocks
    <3> QED BY <3>1, ServedCall DEF UsbInv
  <2> QED BY <2>1, <2>2
<1>3. Request' = Request
  <2>1. call \in Calls
    BY DEF UsbInv, UsbTypes, DriverTypes
  <2>2. call' = call \/ call' = [call EXCEPT !.answer = (retval = "ok")]
    BY Zenon DEF Transfer, CallEnds
  <2> QED BY <2>1, <2>2 DEF Request, Calls
<1>4. Failed = FALSE
  BY <1>1 DEF Failed
<1>5. Failed' \in BOOLEAN
  BY DEF Failed
<1>6. CASE Failed' = TRUE
  <2>1. Disk!Fail
    BY <1>1, <1>2, <1>3, <1>6, PendingRequest DEF Disk!Fail
  <2> QED BY <2>1 DEF Disk!Next
<1>7. CASE Failed' = FALSE
  BY <1>1, <1>3, <1>4, <1>7 DEF Disk!vars
<1> QED BY <1>5, <1>6, <1>7

(* A call that did not fail has moved all of its sectors when it returns.  *)
LEMMA ReturnIsDisk ==
  ASSUME UsbInv, UsbInv', Return
  PROVE  [Disk!Next]_Disk!vars
<1>1. UNCHANGED <<disk, mem>> /\ pc = "return" /\ call' = Idle /\ pc' = "ready"
  BY DEF Return, GoTo, drive
<1>2. call # Idle
  BY <1>1 DEF UsbInv, CallInv
<1>3. Request' = Disk!Idle /\ Failed' = FALSE
  BY <1>1 DEF Request, Disk!Idle, Idle, Failed
<1>4. ASSUME ~Failed PROVE Disk!Done
  <2>1. Moved
    BY <1>1, <1>4 DEF Failed, UsbInv, DoneInv
  <2>2. call.op \in Blocks
    BY <1>2 DEF UsbInv, CallInv
  <2> QED BY <1>2, <2>1, <2>2, PendingRequest DEF Disk!Done, Moved, Written, Blocks
<1>5. Disk!Return
  BY <1>1, <1>2, <1>3, <1>4, PendingRequest DEF Disk!Return
<1> QED BY <1>5 DEF Disk!Next

(* Every step is one of the abstract disk, or none.                        *)
LEMMA StepsAsDisk ==
  ASSUME UsbInv, UsbInv', [Next]_vars
  PROVE  [Disk!Next]_Disk!vars
<1>1. CASE ReadData
  BY <1>1, ReadIsDisk
<1>2. CASE WriteData
  BY <1>2, WriteIsDisk
<1>3. CASE SendCbw \/ ReadCsw
  <2>1. UNCHANGED <<disk, call, mem>> /\ pc # "return"
    BY <1>3 DEF SendCbw, ReadCsw, NoEffect, TimesOut
  <2>2. pc' # "return"
    BY <1>3, EndsAre DEF SendCbw, ReadCsw, AfterCbw, GoTo, Reset
  <2> QED BY <2>1, <2>2, Stutters
<1>4. CASE ClassReset \/ \E ep \in Endpoints : ClearHalt(ep)
  <2>1. UNCHANGED <<disk, call, mem>> /\ pc # "return"
    BY <1>4 DEF ClassReset, ClearHalt, Cleared, NoEffect, TimesOut
  <2>2. \/ GoTo("clear_in") \/ GoTo("clear_out")
        \/ \E x \in {0, ETIMEDOUT} : Recovers(x)
    BY <1>4, ReturnsAre DEF ClassReset, ClearHalt, UsbInv
  <2>3. pc' # "return"
    BY <2>2 DEF GoTo, Recovers
  <2> QED BY <2>1, <2>3, Stutters
<1>5. CASE Opening
  <2>1. UNCHANGED <<disk, call, mem>> /\ pc # "return"
    BY <1>5 DEF Opening, ReleasePorts, NoDevice, ResetPort, Open, MaxLun, OpenClear, drive,
                Cleared, NoEffect, TimesOut
  <2>2. pc' # "return"
    BY <1>5 DEF Opening, ReleasePorts, NoDevice, ResetPort, Open, MaxLun, OpenClear, GoTo,
                Reset, Begin
  <2> QED BY <2>1, <2>2, Stutters
<1>6. CASE MountStep \/ Mount
  <2>1. UNCHANGED <<disk, call, mem>> /\ pc # "return" /\ pc' # "return"
    BY <1>6 DEF MountStep, ClearErrors, LunFails, Inquired, Mount, Ended, GoTo, Reset, Begin,
                drive
  <2> QED BY <2>1, Stutters
<1>7. CASE Connect \/ Unplug \/ UNCHANGED vars
  <2>1. UNCHANGED <<disk, call, mem, pc, cycle>>
    BY <1>7 DEF Connect, Unplug, vars, drive
  <2> QED BY <2>1 DEF Disk!vars, Request, Failed
<1>8. CASE Transfer \/ CallEnds
  BY <1>8, EndIsDisk
<1>9. CASE Return
  BY <1>9, ReturnIsDisk
<1>10. CASE \E op \in {"read", "write"}, r \in Ranges : Call(op, r.at, r.n)
  BY <1>10, CallIsDisk
<1> QED BY <1>1, <1>2, <1>3, <1>4, <1>5, <1>6, <1>7, <1>8, <1>9, <1>10
        DEF Next, Driver, Transfers

(* Every run of the driver and the drive is one of the abstract disk,      *)
(* whatever goes wrong with the messages: a call whose command ended well  *)
(* moved all of its sectors, one that failed moved what it liked of its    *)
(* own, and no other sector changed.                                       *)
THEOREM UsbKeepsSectors == Spec => ImplementsDiskSpec
<1>1. Init => Disk!Init
  BY StartsAsDisk
<1>2. UsbInv /\ UsbInv' /\ [Next]_vars => [Disk!Next]_Disk!vars
  BY StepsAsDisk
<1> QED BY <1>1, <1>2, UsbInvAlways, PTL DEF Spec, ImplementsDiskSpec, Disk!Spec
=============================================================================
