----------------------------- MODULE UsbStorage -----------------------------
(***************************************************************************)
(* The USB drive behind the EHCI build's FatFs: disk_initialize, disk_read *)
(* and disk_write (ehci/diskio.c), the ports and one transfer on the host  *)
(* controller (ehci.c), the bulk-only protocol, the mount and the recovery *)
(* from errors (usbstorage.c), and outside src/ the drive.  The driver     *)
(* waits for the end of every transfer: one transfer is one step.          *)
(*                                                                         *)
(* Data are counted in packets of 512 bytes; a shorter message (a CBW, a   *)
(* CSW, the answer to a query) is one packet.  A sector holds <<c, k>>:    *)
(* the k-th sector of what call c wrote, call 0 having filled the drive.   *)
(***************************************************************************)
EXTENDS Integers, Sequences, FiniteSets, FiniteSetsExt

CONSTANTS
  Sectors,       \* the drive has the sectors 0 .. Sectors - 1
  Ranges,        \* the sectors that are read and written: [at, n]
  Wrap,          \* packets at which the u16 length of a transfer wraps, 128
  Luns,          \* the drive's logical units are 0 .. Luns - 1
  Ports,         \* the ports of the controller, 4
  Retries,       \* USBSTORAGE_CYCLE_RETRIES
  MaxCalls,      \* bound: calls of disk_read and disk_write
  MaxFaults,     \* bound: messages that go wrong
  MaxRefusals    \* bound: requests of a reset that the drive refuses

ASSUME UsbAssumption ==
  /\ Sectors \in Nat \ {0} /\ Wrap \in Nat \ {0, 1} /\ Luns \in Nat \ {0}
  /\ Ports \in Nat \ {0} /\ Retries \in Nat
  /\ \A r \in Ranges : r.at \in Nat /\ r.n \in Nat \ {0} /\ r.at + r.n <= Sectors
  /\ MaxCalls \in Nat /\ MaxFaults \in Nat /\ MaxRefusals \in Nat

VARIABLES
  usb,       \* the drive: [phase, at, left, moved, tag, status]
  halted,    \* its endpoints that are halted, of "in" and "out"
  toggle,    \* the data toggle of its endpoints
  disk,      \* what it holds
  media,     \* its logical units with a medium
  port,      \* the port it is in, or -1: not connected
  faults,    \* faults so far, of MaxFaults
  refusals,  \* refused requests so far, of MaxRefusals
  scan,      \* the port ehci_discover looks at
  released,  \* the ports handed over to the USB 1.1 controller
  toggles,   \* ehci_device.toggles, what the controller goes by
  dev,       \* the usbstorage_handle: [tag, max_lun, size]
  cycle,     \* __cycle: [op, at, n, len, done, retries, status]
  pc,        \* the driver's next message
  from,      \* who called __usbstorage_reset
  retval,    \* what __cycle returned: "ok", "timeout" or another "error"
  lun,       \* the unit that is mounted, or tried
  mounted,   \* __mounted
  call,      \* the pending call: [id, op, at, n, answer], or Idle
  mem,       \* the buffer of disk_read or disk_write
  calls      \* calls so far, of MaxCalls

drive  == <<usb, halted, toggle, disk, media, port, faults, refusals>>
ports  == <<scan, released>>
handle == <<dev, lun, mounted>>
vars   == <<drive, ports, toggles, handle, cycle, pc, from, retval, call, mem, calls>>

Endpoints == {"in", "out"}
Idle      == [id |-> 0, op |-> "none", at |-> 0, n |-> 0, answer |-> FALSE]
Waiting   == [phase |-> "cbw", at |-> 0, left |-> 0, moved |-> 0, tag |-> 0, status |-> 0]
NoCycle   == [op |-> "none", at |-> 0, n |-> 0, len |-> 0, done |-> 0,
              retries |-> 0, status |-> 0]
Zeroes    == [ep \in Endpoints |-> 0]
Closed    == [tag |-> 0, max_lun |-> 0, size |-> 0]
Garbage   == <<-1, 0>>
Fresh     == [k \in 0 .. Sectors - 1 |-> Garbage]

-----------------------------------------------------------------------------
(* One message.  ehci_do_urb returns how many packets were moved, or       *)
(* ETIMEDOUT: there was no interrupt for a second, or there was one and    *)
(* the controller then took more than a millisecond to leave the transfer, *)
(* which is a fault too.  qh_end_transfer writes the error of a transfer   *)
(* that halted through the pointer its loop left at NULL: what such a      *)
(* transfer moved is returned as if it had ended well.                     *)

ETIMEDOUT == -2

Plugged    == port >= 0
Fault      == faults < MaxFaults /\ faults' = faults + 1
NoFault    == UNCHANGED faults
FaultUnless(usual) == IF usual THEN NoFault ELSE Fault
Refusal    == refusals < MaxRefusals /\ refusals' = refusals + 1
Agree(ep)  == toggles[ep] = toggle[ep]
Flip(ep, host, device) == /\ toggles' = [toggles EXCEPT ![ep] = (@ + host) % 2]
                          /\ toggle' = [toggle EXCEPT ![ep] = (@ + device) % 2]
SameToggles == UNCHANGED <<toggles, toggle>>
NoEffect    == UNCHANGED <<usb, halted, disk>> /\ SameToggles

(* Nothing answers before the handshake's second is over.                  *)
TimesOut == NoEffect /\ FaultUnless(~Plugged)

-----------------------------------------------------------------------------
(* __cycle.  What it does with the result of a message: it goes on to the  *)
(* next one, recovers with a reset, or gives up at once.                   *)

Reset(who) == pc' = "reset" /\ from' = who /\ UNCHANGED retval
Ends(r)    == /\ pc' = "ended"
              /\ retval' = CASE r >= 0 -> "ok" [] r = ETIMEDOUT -> "timeout" [] OTHER -> "error"
              /\ UNCHANGED from

GoTo(next)  == pc' = next /\ UNCHANGED <<from, retval>>

Begin(op, at, n, len) ==
  /\ cycle' = [op |-> op, at |-> at, n |-> n, len |-> len, done |-> 0,
               retries |-> Retries, status |-> 0]
  /\ GoTo("cbw")

(* Without a medium a unit serves only INQUIRY and REQUEST SENSE.          *)
Refused == cycle.op \notin {"inquiry", "sense"} /\ lun \notin media

(* The drive takes a CBW for len packets; the command itself says n.       *)
Accepted ==
  [phase |-> IF cycle.len = 0 THEN "csw" ELSE IF cycle.op = "write" THEN "out" ELSE "in",
   at |-> cycle.at, moved |-> 0, tag |-> dev.tag,
   left |-> IF Refused THEN 0 ELSE Min({cycle.n, cycle.len}),
   status |-> IF Refused THEN 1 ELSE IF cycle.n # cycle.len THEN 2 ELSE 0]

AfterCbw == GoTo(IF cycle.len = 0 THEN "csw" ELSE "data")

(* __send_cbw.  A packet with the toggle of the one before is taken for a  *)
(* repetition: it is acknowledged and dropped.                             *)
SendCbw ==
  /\ pc = "cbw"
  /\ \/ /\ Plugged /\ usb.phase = "cbw" /\ "out" \notin halted
        /\ Flip("out", 1, IF Agree("out") THEN 1 ELSE 0)
        /\ usb' = IF Agree("out") THEN Accepted ELSE usb
        /\ (NoFault /\ AfterCbw) \/ (Fault /\ Ends(ETIMEDOUT))
        /\ UNCHANGED <<halted, disk>>
     \/ /\ Plugged /\ usb.phase = "out" /\ "out" \notin halted
        /\ Flip("out", 1, 1)                   \* taken for the end of the data
        /\ usb' = [usb EXCEPT !.phase = "csw", !.status = 1]
        /\ (NoFault /\ AfterCbw) \/ (Fault /\ Ends(ETIMEDOUT))
        /\ UNCHANGED <<halted, disk>>
     \/ /\ Plugged /\ (usb.phase = "cbw" \/ "out" \in halted)
        /\ halted' = halted \cup {"out"}
        /\ \/ FaultUnless("out" \in halted) /\ Reset("retry")
                                               \* USBSTORAGE_ESHORTWRITE
           \/ Fault /\ Ends(ETIMEDOUT)
        /\ SameToggles /\ UNCHANGED <<usb, disk>>
     \/ /\ TimesOut
        /\ Ends(ETIMEDOUT)
     \/ /\ Plugged /\ usb.phase \in {"in", "csw"} /\ "out" \notin halted
        /\ NoEffect /\ NoFault
        /\ Ends(ETIMEDOUT)
  /\ UNCHANGED <<media, port, refusals, ports, handle, cycle, call, mem, calls>>

(* The length of a transfer is passed as a u16.                            *)
Packets == cycle.len % Wrap

(* k packets of the drive's data, all but the first skip of them, arrive.  *)
Arrive(k, skip) ==
  /\ mem' = IF cycle.op = "read"
            THEN [i \in DOMAIN mem |->
                    IF i \in cycle.done .. cycle.done + k - skip - 1
                    THEN disk[usb.at + usb.moved + skip + i - cycle.done] ELSE mem[i]]
            ELSE mem
  /\ cycle' = [cycle EXCEPT !.len = @ - (k - skip), !.done = @ + (k - skip)]

Sent(k) == [usb EXCEPT !.left = @ - k, !.moved = @ + k]

(* A read that moved less than it should goes on to the CSW, and a retry   *)
(* asks the drive for what was left, from the command's first sector.  One *)
(* that times out, which ends the command, leaves after a reset.           *)
ReadData ==
  /\ pc = "data" /\ cycle.op # "write"
  /\ \/ \E k \in 0 .. Min({usb.left, Packets}) :
        /\ Plugged /\ usb.phase = "in" /\ "in" \notin halted /\ Agree("in")
        /\ Packets > 0
        /\ Arrive(k, 0)
        /\ \/ /\ k = Packets                   \* all, or all there is room for
              /\ usb' = [Sent(k) EXCEPT !.phase = IF usb.left = k THEN "csw" ELSE "in"]
              /\ Flip("in", k, k)
              /\ UNCHANGED halted
              /\ (NoFault /\ GoTo("csw")) \/ (Fault /\ Reset("timeout"))
           \/ /\ k < Packets                   \* ended with an empty packet
              /\ usb' = [Sent(k) EXCEPT !.phase = "csw", !.left = 0, !.status = 1]
              /\ Flip("in", k + 1, k + 1)
              /\ UNCHANGED halted
              /\ (FaultUnless(k = usb.left) /\ GoTo("csw")) \/ (Fault /\ Reset("timeout"))
           \/ /\ k < Packets                   \* ended with a stall
              /\ usb' = [Sent(k) EXCEPT !.phase = "csw", !.left = 0, !.status = 1]
              /\ halted' = halted \cup {"in"}
              /\ Flip("in", k, k)
              /\ (FaultUnless(k = usb.left) /\ GoTo("csw")) \/ (Fault /\ Reset("timeout"))
           \/ /\ k < usb.left                  \* too slow
              /\ usb' = Sent(k)
              /\ Flip("in", k, k)
              /\ UNCHANGED halted
              /\ Fault /\ Reset("timeout")
     \/ /\ Plugged /\ usb.phase = "in" /\ "in" \notin halted /\ ~Agree("in")
        /\ Packets > 0                         \* the first is dropped, and the
        /\ LET sent == Max({usb.left, 1})      \* CSW is taken for the last
           IN  /\ Arrive(sent, 1)
               /\ Flip("in", sent, sent + 1)
        /\ usb' = Waiting
        /\ UNCHANGED halted
        /\ (NoFault /\ GoTo("csw")) \/ (Fault /\ Reset("timeout"))
     \/ /\ Plugged
        /\ "in" \in halted \/ (usb.phase = "in" /\ Packets = 0)
        /\ GoTo("csw")
        /\ NoFault /\ NoEffect /\ UNCHANGED <<mem, cycle>>
     \/ /\ \/ TimesOut
           \/ Plugged /\ usb.phase # "in" /\ "in" \notin halted /\ NoFault /\ NoEffect
        /\ Reset("timeout")
        /\ UNCHANGED <<mem, cycle>>
  /\ UNCHANGED <<disk, media, port, refusals, ports, handle, call, calls>>

Store(k) == disk' = [s \in DOMAIN disk |->
                       IF s \in usb.at + usb.moved .. usb.at + usb.moved + k - 1
                       THEN mem[s - usb.at] ELSE disk[s]]

(* A write that moved less than it should is done again from its start.    *)
WriteData ==
  /\ pc = "data" /\ cycle.op = "write"
  /\ \/ \E k \in 0 .. Min({usb.left, Packets}) :
        /\ Plugged /\ usb.phase = "out" /\ "out" \notin halted
        /\ Packets > 0
        /\ Store(k)
        /\ Flip("out", k, k)
        /\ \/ /\ k = Packets
              /\ usb' = [Sent(k) EXCEPT !.phase = IF usb.left = k THEN "csw" ELSE "out"]
              /\ UNCHANGED halted
              /\ \/ /\ NoFault /\ Packets = cycle.len
                    /\ GoTo("csw") /\ cycle' = [cycle EXCEPT !.len = 0, !.done = k]
                 \/ NoFault /\ Packets # cycle.len /\ Reset("retry") /\ UNCHANGED cycle
                 \/ Fault /\ Reset("timeout") /\ UNCHANGED cycle
           \/ /\ k < Packets
              /\ usb' = [Sent(k) EXCEPT !.phase = "csw", !.left = 0, !.status = 1]
              /\ halted' = halted \cup {"out"}
              /\ (FaultUnless(k = usb.left) /\ Reset("retry")) \/ (Fault /\ Reset("timeout"))
              /\ UNCHANGED cycle
           \/ /\ k < usb.left
              /\ Fault
              /\ usb' = Sent(k)
              /\ Reset("timeout")
              /\ UNCHANGED <<halted, cycle>>
     \/ /\ Plugged /\ usb.phase = "out" /\ "out" \notin halted
        /\ Packets = 0                         \* an empty packet ends the data
        /\ usb' = [usb EXCEPT !.phase = "csw", !.left = 0, !.status = 1]
        /\ Flip("out", 1, 1)
        /\ (NoFault /\ Reset("retry")) \/ (Fault /\ Reset("timeout"))
        /\ UNCHANGED <<disk, halted, cycle>>
     \/ /\ Plugged /\ usb.phase = "cbw" /\ "out" \notin halted
        /\ usb' = [Waiting EXCEPT !.phase = "lost"]    \* no CBW: it stalls
        /\ halted' = Endpoints
        /\ Flip("out", 1, 1)
        /\ \/ NoFault /\ IF Packets = 1 /\ cycle.len = 1 THEN GoTo("csw") ELSE Reset("retry")
           \/ Fault /\ Reset("timeout")
        /\ UNCHANGED <<disk, cycle>>
     \/ /\ Plugged /\ "out" \in halted
        /\ Reset("retry")
        /\ NoFault /\ NoEffect /\ UNCHANGED cycle
     \/ /\ \/ TimesOut
           \/ Plugged /\ usb.phase \notin {"out", "cbw"} /\ "out" \notin halted
              /\ NoFault /\ NoEffect
        /\ Reset("timeout")
        /\ UNCHANGED cycle
  /\ UNCHANGED <<media, port, refusals, ports, handle, mem, call, calls>>

(* __read_csw                                                              *)
ReadCsw ==
  /\ pc = "csw"
  /\ \/ /\ Plugged /\ usb.phase = "csw" /\ "in" \notin halted
        /\ usb' = Waiting
        /\ Flip("in", IF Agree("in") THEN 1 ELSE 0, 1)
        /\ \/ /\ Agree("in") /\ NoFault
              /\ cycle' = [cycle EXCEPT !.status = usb.status]
              /\ IF usb.tag = dev.tag
                 THEN dev' = [dev EXCEPT !.tag = @ + 1] /\ Ends(0)
                 ELSE Reset("retry") /\ UNCHANGED dev
           \/ /\ FaultUnless(~Agree("in"))
              /\ Ends(ETIMEDOUT) /\ UNCHANGED <<cycle, dev>>
        /\ UNCHANGED <<halted, disk>>
     \/ /\ Plugged /\ (usb.phase = "csw" \/ "in" \in halted)
        /\ halted' = halted \cup {"in"}
        /\ \/ FaultUnless("in" \in halted) /\ Reset("retry")
                                               \* USBSTORAGE_ESHORTREAD
           \/ Fault /\ Ends(ETIMEDOUT)
        /\ SameToggles /\ UNCHANGED <<usb, disk, cycle, dev>>
     \/ /\ Plugged /\ usb.phase = "in" /\ "in" \notin halted
        /\ Reset("retry")                      \* more than the CSW's 13 bytes
        /\ NoFault /\ NoEffect /\ UNCHANGED <<cycle, dev>>
     \/ /\ \/ TimesOut
           \/ Plugged /\ usb.phase \in {"cbw", "out"} /\ "in" \notin halted
              /\ NoFault /\ NoEffect
        /\ Ends(ETIMEDOUT)
        /\ UNCHANGED <<cycle, dev>>
  /\ UNCHANGED <<media, port, refusals, ports, lun, mounted, mem, call, calls>>

-----------------------------------------------------------------------------
(* __usbstorage_reset: the class request and two CLEAR_FEATUREs, of which  *)
(* one that times out is the last.  A request the drive refuses counts as  *)
(* done.  The drive's toggles start from 0 again, those of the driver not. *)

(* The loop of __cycle ends after Retries more attempts, with a reset, and *)
(* after data that timed out, whatever their reset returned.               *)
ResetReturns(r) ==
  CASE from = "open"  -> /\ pc' = IF r = ETIMEDOUT THEN "ready" ELSE "max_lun"
                         /\ dev' = IF r = ETIMEDOUT THEN Closed ELSE dev
                         /\ UNCHANGED <<from, retval, cycle>>
    [] from = "close" -> /\ pc' = "ready"
                         /\ dev' = Closed
                         /\ UNCHANGED <<from, retval, cycle>>
    [] from = "retry" -> /\ IF r = ETIMEDOUT THEN Ends(r) /\ UNCHANGED cycle
                            ELSE IF cycle.retries = 0 THEN Reset("last") /\ UNCHANGED cycle
                            ELSE /\ cycle' = [cycle EXCEPT !.retries = @ - 1]
                                 /\ GoTo("cbw")
                         /\ UNCHANGED dev
    [] from = "timeout" -> Ends(ETIMEDOUT) /\ UNCHANGED <<cycle, dev>>
    [] from = "last"  -> /\ Ends(IF r = ETIMEDOUT THEN r ELSE -1)
                         /\ UNCHANGED <<cycle, dev>>

ClassReset ==
  /\ pc = "reset"
  /\ \/ /\ Plugged
        /\ \/ usb' = Waiting /\ UNCHANGED refusals
           \/ UNCHANGED usb /\ Refusal
        /\ SameToggles /\ UNCHANGED <<halted, disk>>
        /\ \/ NoFault /\ GoTo("clear_in") /\ UNCHANGED <<cycle, dev>>
           \/ Fault /\ ResetReturns(ETIMEDOUT)
     \/ /\ TimesOut /\ UNCHANGED refusals
        /\ ResetReturns(ETIMEDOUT)
  /\ UNCHANGED <<media, port, ports, lun, mounted, mem, call, calls>>

(* Variant for a run: the halt of the same endpoint is cleared twice.      *)
Cleared_In(ep) ==
  /\ UNCHANGED refusals
  /\ halted' = halted \ {"in"}
  /\ toggle' = [toggle EXCEPT !["in"] = 0]
  /\ UNCHANGED <<usb, toggles, disk>>

Cleared(ep) ==
  \/ /\ UNCHANGED refusals
     /\ halted' = IF usb.phase = "lost" THEN halted ELSE halted \ {ep}
     /\ toggle' = [toggle EXCEPT ![ep] = 0]
     /\ UNCHANGED <<usb, toggles, disk>>
  \/ Refusal /\ NoEffect

ClearHalt(ep) ==
  /\ pc = (IF ep = "in" THEN "clear_in" ELSE "clear_out")
  /\ \/ /\ Plugged
        /\ Cleared(ep)
        /\ \/ NoFault /\ IF ep = "in" THEN GoTo("clear_out") /\ UNCHANGED <<cycle, dev>>
                                     ELSE ResetReturns(0)
           \/ Fault /\ ResetReturns(ETIMEDOUT)
     \/ /\ TimesOut /\ UNCHANGED refusals
        /\ ResetReturns(ETIMEDOUT)
  /\ UNCHANGED <<media, port, ports, lun, mounted, mem, call, calls>>

Transfers == \/ SendCbw \/ ReadData \/ WriteData \/ ReadCsw
             \/ ClassReset \/ \E ep \in Endpoints : ClearHalt(ep)

-----------------------------------------------------------------------------
(* disk_initialize.  tiny_ehci_init hands over the ports without a drive   *)
(* and the third one; ehci_discover goes on until a port is not -ENODEV.   *)

(* Variant for a run: the ports are handed over before they are looked at. *)
ReleasePorts_All ==
  /\ pc = "off"
  /\ released' = 0 .. Ports - 1
  /\ GoTo("discover")
  /\ UNCHANGED <<drive, scan, toggles, handle, cycle, call, mem, calls>>

ReleasePorts ==
  /\ pc = "off"
  /\ released' = {p \in 0 .. Ports - 1 : p = 2 \/ p # port}
  /\ GoTo("discover")
  /\ UNCHANGED <<drive, scan, toggles, handle, cycle, call, mem, calls>>

(* ehci_reset_port                                                         *)
NoDevice ==
  /\ pc = "discover"
  /\ scan \in released \/ scan # port
  /\ released' = released \cup {scan}
  /\ scan' = (scan + 1) % Ports
  /\ UNCHANGED <<drive, toggles, handle, cycle, pc, from, retval, call, mem, calls>>

ResetPort ==
  /\ pc = "discover"
  /\ scan = port /\ scan \notin released
  /\ \/ /\ NoFault
        /\ usb' = Waiting /\ halted' = {} /\ toggle' = Zeroes
        /\ toggles' = Zeroes
        /\ GoTo("open")
     \/ /\ Fault
        /\ GoTo("ready")                       \* it has no id
        /\ UNCHANGED <<usb, halted, toggle, toggles>>
  /\ UNCHANGED <<disk, media, port, refusals, ports, handle, cycle, call, mem, calls>>

(* USBStorage_Open reads the descriptors and sets the configuration.       *)
Open ==
  /\ pc = "open"
  /\ \/ /\ Plugged /\ NoFault
        /\ dev' = [Closed EXCEPT !.tag = 1]
        /\ Reset("open")
     \/ /\ FaultUnless(~Plugged)
        /\ GoTo("ready")
        /\ UNCHANGED dev
  /\ NoEffect
  /\ UNCHANGED <<media, port, refusals, ports, cycle, lun, mounted, call, mem, calls>>

(* GET_MAX_LUN.  The drive names its last unit; one that refuses leaves    *)
(* what the heap held.                                                     *)
MaxLun ==
  /\ pc = "max_lun"
  /\ \/ /\ Plugged
        /\ \E n \in 0 .. Luns :
             /\ FaultUnless(n = Luns - 1)
             /\ dev' = [dev EXCEPT !.max_lun = IF n = 0 THEN 1 ELSE n]
        /\ GoTo("open_in")
     \/ /\ FaultUnless(~Plugged)
        /\ dev' = Closed
        /\ GoTo("ready")
  /\ NoEffect
  /\ UNCHANGED <<media, port, refusals, ports, cycle, lun, mounted, call, mem, calls>>

(* Two CLEAR_FEATUREs whose results are not looked at.                     *)
OpenClear(ep) ==
  /\ pc = (IF ep = "in" THEN "open_in" ELSE "open_out")
  /\ \/ Plugged /\ Cleared(ep) /\ NoFault
     \/ TimesOut /\ UNCHANGED refusals
  /\ IF ep = "in" THEN GoTo("open_out") /\ UNCHANGED cycle ELSE Begin("tur", 0, 0, 0)
  /\ UNCHANGED <<media, port, ports, handle, call, mem, calls>>

-----------------------------------------------------------------------------
(* USBStorage_Try_Device tries the units in turn, each with four commands. *)

LunFails ==
  IF retval = "timeout"
  THEN Reset("close") /\ UNCHANGED <<cycle, lun>>
  ELSE IF lun + 1 < dev.max_lun
  THEN Begin("tur", 0, 0, 0) /\ lun' = lun + 1
  ELSE GoTo("ready") /\ UNCHANGED <<cycle, lun>>

(* Variant for a run: the answer is not looked at.                         *)
NotReady_Never == FALSE

(* REQUEST SENSE's answer, all zero before, says why: no medium.           *)
NotReady == cycle.done > 0 /\ lun \notin media

Ended(op) == pc = "ended" /\ cycle.op = op

ClearErrors ==
  \/ /\ Ended("tur") /\ retval = "ok"
     /\ IF cycle.status # 0 THEN Begin("sense", 0, 1, 1) ELSE Begin("inquiry", 0, 1, 1)
     /\ UNCHANGED lun
  \/ /\ Ended("sense") /\ retval = "ok" /\ ~NotReady
     /\ Begin("inquiry", 0, 1, 1)
     /\ UNCHANGED lun
  \/ /\ Ended("sense") /\ retval = "ok" /\ NotReady
     /\ IF lun + 1 < dev.max_lun
        THEN Begin("tur", 0, 0, 0) /\ lun' = lun + 1
        ELSE GoTo("ready") /\ UNCHANGED <<cycle, lun>>
  \/ /\ \E op \in {"tur", "sense", "capacity"} : Ended(op)
     /\ retval # "ok"
     /\ LunFails

(* USBStorage_MountLUN does not look at what INQUIRY returned.             *)
Inquired ==
  /\ Ended("inquiry")
  /\ Begin("capacity", 0, 1, 1)
  /\ UNCHANGED lun

MountStep ==
  /\ ClearErrors \/ Inquired
  /\ UNCHANGED <<drive, ports, toggles, dev, mounted, call, mem, calls>>

(* Without the drive's answer the sector size is what memory held.         *)
Mount ==
  /\ Ended("capacity") /\ retval = "ok"
  /\ mounted' = TRUE
  /\ \E size \in 0 .. 1 :
       /\ cycle.done > 0 => size = 1
       /\ dev' = [dev EXCEPT !.size = size]
  /\ GoTo("ready")
  /\ UNCHANGED <<drive, ports, toggles, cycle, lun, call, mem, calls>>

-----------------------------------------------------------------------------
(* disk_read and disk_write, by way of USBStorage_Read_Sectors and         *)
(* USBStorage_Write_Sectors.                                               *)

Call(op, at, n) ==
  /\ pc = "ready" /\ call = Idle
  /\ calls < MaxCalls
  /\ calls' = calls + 1
  /\ call' = [id |-> calls', op |-> op, at |-> at, n |-> n, answer |-> FALSE]
  /\ mem' = IF op = "write" THEN [k \in DOMAIN mem |-> <<calls', k>>] ELSE Fresh
  /\ GoTo("called")
  /\ UNCHANGED <<drive, ports, toggles, handle, cycle>>

(* A drive that is not mounted, or has no sector size, is not asked.       *)
Transfer ==
  /\ pc = "called"
  /\ IF mounted /\ dev.size > 0
     THEN Begin(call.op, call.at, call.n, call.n * dev.size)
     ELSE GoTo("return") /\ UNCHANGED cycle
  /\ UNCHANGED <<drive, ports, toggles, handle, call, mem, calls>>

(* Variant for a run: any other error than a timeout is overlooked.        *)
CallEnds_Overlooked ==
  /\ cycle.op \in {"read", "write"} /\ pc = "ended"
  /\ call' = [call EXCEPT !.answer = (retval # "timeout")]
  /\ GoTo("return")
  /\ UNCHANGED <<drive, ports, toggles, handle, cycle, mem, calls>>

(* A command that timed out is the last: the handle is closed.  The status *)
(* is looked at only when retval is greater than 0, which it never is.     *)
CallEnds ==
  /\ \E op \in {"read", "write"} : Ended(op)
  /\ call' = [call EXCEPT !.answer = (retval = "ok")]
  /\ IF retval = "timeout"
     THEN mounted' = FALSE /\ dev' = Closed
     ELSE UNCHANGED <<mounted, dev>>
  /\ GoTo("return")
  /\ UNCHANGED <<drive, ports, toggles, lun, cycle, mem, calls>>

(* Both return RES_OK.                                                     *)
Return ==
  /\ pc = "return"
  /\ call' = Idle
  /\ GoTo("ready")
  /\ UNCHANGED <<drive, ports, toggles, handle, cycle, mem, calls>>

-----------------------------------------------------------------------------
(* The user.                                                               *)

Connect ==
  /\ ~Plugged /\ pc \in {"off", "discover"}
  /\ port' \in 0 .. Ports - 1
  /\ UNCHANGED <<usb, halted, toggle, disk, media, faults, refusals, ports, toggles, handle,
                 cycle, pc, from, retval, call, mem, calls>>

Unplug ==
  /\ Plugged /\ pc \notin {"off", "discover"}
  /\ Fault
  /\ port' = -1
  /\ UNCHANGED <<usb, halted, toggle, disk, media, refusals, ports, toggles, handle,
                 cycle, pc, from, retval, call, mem, calls>>

Init ==
  /\ usb = Waiting /\ halted = {} /\ toggle = Zeroes
  /\ disk = [s \in 0 .. Sectors - 1 |-> <<0, s>>]
  /\ media \in SUBSET (0 .. Luns - 1)
  /\ port \in -1 .. Ports - 1
  /\ faults = 0 /\ refusals = 0
  /\ scan = 0 /\ released = {} /\ toggles = Zeroes
  /\ dev = Closed /\ lun = 0 /\ mounted = FALSE
  /\ cycle = NoCycle /\ pc = "off" /\ from = "open" /\ retval = "ok"
  /\ call = Idle /\ mem = Fresh /\ calls = 0

Opening == ReleasePorts \/ NoDevice \/ ResetPort \/ Open \/ MaxLun
           \/ \E ep \in Endpoints : OpenClear(ep)

Driver == Transfers \/ Opening \/ MountStep \/ Mount \/ Transfer \/ CallEnds \/ Return

Next == \/ Driver \/ Connect \/ Unplug
        \/ \E op \in {"read", "write"}, r \in Ranges : Call(op, r.at, r.n)

(* The processor does not stop, and every transfer ends.                   *)
Spec == Init /\ [][Next]_vars /\ WF_vars(Driver)

-----------------------------------------------------------------------------
Contents == ((0 .. MaxCalls) \X (0 .. Sectors - 1)) \cup {Garbage}

(* Whatever goes wrong with the messages of a command: when the driver is  *)
(* done with it, the drive waits for the next one with both endpoints      *)
(* open, unless it refused one of the recovery's requests, which the       *)
(* driver cannot see (usbstorage.c:155-250, ehci.c:314-318).               *)
InStep ==
  pc = "ready" /\ mounted /\ Plugged /\ refusals = 0 =>
    usb.phase = "cbw" /\ halted = {}

(* The drive names the last of its units, and the driver takes it for      *)
(* their number: the last of several is never tried.                       *)
Tried == {l \in 0 .. Luns - 1 : l < Luns - 1 \/ l = 0}

(* When nothing goes wrong, the first unit tried that has a medium is      *)
(* mounted, with its sector size, and none if there is none                *)
(* (usbstorage.c:267-297, 477-528, 639-660).                               *)
RightUnit ==
  pc = "ready" /\ calls = 0 /\ faults = 0 /\ refusals = 0 /\ Plugged =>
    IF media \cap Tried = {} THEN ~mounted
    ELSE mounted /\ lun = Min(media \cap Tried) /\ dev.size = 1

(* disk_read and disk_write return, whatever the drive does                *)
(* (usbstorage.c:155-250), and so does disk_initialize if a drive is in    *)
(* one of the first two ports before the module starts (ehci.c:708-740,    *)
(* ehci/diskio.c:31).                                                      *)
EveryCallReturns ==
  /\ call # Idle ~> call = Idle
  /\ pc = "off" /\ port \in {0, 1} ~> pc = "ready"

(* disk_read and disk_write as the file system may take them, if it were   *)
(* told what USBStorage_Read_Sectors answers and the status of the CSW.    *)
Written(c, k) == <<c, k>>
Request       == [id |-> call.id, op |-> call.op, at |-> call.at, n |-> call.n]
Failed        == pc = "return" /\ (~call.answer \/ cycle.status # 0)

Disk == INSTANCE DiskSpec
  WITH New <- Written, request <- Request, failed <- Failed, buffer <- mem
ImplementsDiskSpec == Disk!Spec
=============================================================================
