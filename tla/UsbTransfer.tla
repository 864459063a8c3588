---------------------------- MODULE UsbTransfer ----------------------------
(***************************************************************************)
(* One transfer on the EHCI controller (ehci/ehci.c, ehci-mem.c): how      *)
(* ehci_do_urb cuts a buffer into queue transfer descriptors (qtds), what  *)
(* the controller, outside src/, does with them, and how the length that   *)
(* was moved is summed up.  UsbStorage goes on from there: its messages    *)
(* are these transfers.                                                    *)
(*                                                                         *)
(* The controller moves whole packets; one with less ends an IN transfer.  *)
(***************************************************************************)
EXTENDS Integers, Sequences

CONSTANTS
  Buffers,   \* addresses of buffers
  Lengths    \* lengths of bulk transfers, and of control transfers up to 256

ASSUME TransferAssumption ==
  /\ \A b \in Buffers : b \in Nat
  /\ \A l \in Lengths : l \in Nat /\ l <= 65535

VARIABLES
  urb,     \* the ehci_urb: [ep, input, at, length]
  rest,    \* what is left to be queued: [at, length]
  toggle1, \* QTD_TOGGLE in the token of the next qtd
  used,    \* ehci->qtd_used
  qtds,    \* the list qh->qtd_head
  cur,     \* the qtd the controller is at
  int,     \* STS_INT: the transfer's interrupt has come
  moved,   \* history: the bytes of data that were moved
  stage,   \* where ehci_do_urb is
  result   \* what it returned

transfer == <<urb, rest, toggle1, used, qtds, cur, int, moved, stage, result>>

EHCI_MAX_QTD == 8
ETIMEDOUT    == -110
Page         == 4096

NoUrb == [ep |-> "none", input |-> FALSE, at |-> 0, length |-> 0]

(* urb.maxpacket of ehci_control_message and ehci_bulk_message.            *)
maxpacket == IF urb.ep = "control" THEN 64 ELSE 512
-----------------------------------------------------------------------------
(* qtd_fill.  A qtd holds the addresses of five pages, of which only the   *)
(* first may begin inside its page: Room is what the first p of them hold. *)

Room(at, p) == p * Page - (at % Page)

hw_buf(at, len) ==
  [i \in {0} \cup {p \in 1 .. 4 : Room(at, p) < len} |->
     IF i = 0 THEN at ELSE (at \div Page + i) * Page]

(* Variant for a run: a qtd takes what fits into its pages.                *)
Count_Fits(at, len) == IF len <= Room(at, 5) THEN len ELSE Room(at, 5)

(* Only the last qtd of a transfer may end with a short packet.            *)
Count(at, len) ==
  IF len <= Room(at, 5) THEN len ELSE Room(at, 5) - (Room(at, 5) % maxpacket)

qtd_fill(pid, toggle, at, len, count) ==
  [pid |-> pid, toggle |-> toggle, hw_buf |-> hw_buf(at, len), length |-> count,
   left |-> count, alt |-> "end", ioc |-> FALSE]

(* ehci_qtd_alloc, and the link to the qtd before.                         *)
Link(qtd, next) ==
  IF used < EHCI_MAX_QTD
  THEN used' = used + 1 /\ qtds' = Append(qtds, qtd) /\ stage' = next
  ELSE stage' = "bug" /\ UNCHANGED <<used, qtds>>         \* BUG_ON

-----------------------------------------------------------------------------
TransferInit ==
  /\ urb = NoUrb /\ rest = [at |-> 0, length |-> 0] /\ toggle1 = 0
  /\ used = 0 /\ qtds = <<>> /\ cur = 1 /\ int = FALSE /\ moved = 0
  /\ stage = "idle" /\ result = 0

(* ehci_bulk_message, ehci_control_message and the start of ehci_do_urb.   *)
Submit(ep, input, at, len) ==
  /\ stage = "idle"
  /\ urb' = [ep |-> ep, input |-> input, at |-> at, length |-> len]
  /\ rest' = [at |-> at, length |-> len]
  /\ toggle1' = 0 /\ qtds' = <<>> /\ cur' = 1 /\ int' = FALSE /\ moved' = 0 /\ result' = 0
  /\ stage' = IF ep = "control" THEN "setup" ELSE "data"
  /\ UNCHANGED used

(* qh_urb_transaction: the SETUP stage,                                    *)
SetupStage ==
  /\ stage = "setup"
  /\ Link(qtd_fill("setup", 0, 0, 8, 8), "data")
  /\ toggle1' = 1
  /\ UNCHANGED <<urb, rest, cur, int, moved, result>>

(* one pass through the loop over the data, of which the first comes also  *)
(* without any; the pointer for short reads is read from the queue head,   *)
(* which has just been cleared, and points to address 0 but in the last,   *)
DataStage ==
  /\ stage = "data"
  /\ LET count == Count(rest.at, rest.length)
         last  == count = rest.length
         pid   == IF urb.input \/ (urb.ep = "control" /\ urb.length = 0) THEN "in" ELSE "out"
         qtd   == qtd_fill(pid, toggle1, rest.at, rest.length, count)
         next  == IF ~last THEN "data"
                  ELSE IF urb.ep = "control" /\ urb.length > 0 THEN "status" ELSE "start"
     IN  /\ Link([qtd EXCEPT !.alt = IF urb.input /\ ~last THEN "zero" ELSE "end"], next)
         /\ rest' = [at |-> rest.at + count, length |-> rest.length - count]
         /\ toggle1' = IF ((count + maxpacket - 1) \div maxpacket) % 2 = 0
                       THEN 1 - toggle1 ELSE toggle1
  /\ UNCHANGED <<urb, cur, int, moved, result>>

(* and the STATUS stage, the other way.                                    *)
StatusStage ==
  /\ stage = "status"
  /\ Link(qtd_fill(IF urb.input THEN "out" ELSE "in", 1, 0, 0, 0), "start")
  /\ UNCHANGED <<urb, rest, toggle1, cur, int, moved, result>>

(* The last qtd interrupts; the queue head is linked.                      *)
StartUrb ==
  /\ stage = "start"
  /\ qtds' = [qtds EXCEPT ![Len(qtds)].ioc = TRUE]
  /\ stage' = "handshake"
  /\ UNCHANGED <<urb, rest, toggle1, used, cur, int, moved, result>>
-----------------------------------------------------------------------------
(* The controller and the device: k bytes of the qtd at cur are moved.     *)

Running == stage = "handshake" /\ cur <= Len(qtds)

Move(k) ==
  /\ qtds' = [qtds EXCEPT ![cur].left = @ - k]
  /\ moved' = IF qtds[cur].pid = "setup" THEN moved ELSE moved + k
  /\ UNCHANGED <<urb, rest, toggle1, used, stage, result>>

Complete ==
  /\ Running
  /\ Move(qtds[cur].length)
  /\ int' = (int \/ qtds[cur].ioc)
  /\ cur' = cur + 1

(* A packet that is not full ends the qtd and interrupts.  The controller  *)
(* goes on behind the data, or is lost at address 0.                       *)
ShortPacket(k) ==
  /\ Running /\ qtds[cur].pid = "in" /\ k < qtds[cur].length
  /\ Move(k)
  /\ int' = TRUE
  /\ cur' = IF qtds[cur].alt = "zero" THEN Len(qtds) + 1 ELSE cur + 1

(* The device stalls: the queue stops, with an interrupt only from a qtd   *)
(* that has one.                                                           *)
Halt(k) ==
  /\ Running
  /\ k < qtds[cur].length \/ k = 0
  /\ k % maxpacket = 0
  /\ Move(k)
  /\ int' = (int \/ qtds[cur].ioc)
  /\ cur' = Len(qtds) + 1
-----------------------------------------------------------------------------
(* qh_end_transfer                                                         *)

(* Variant for a run: the SETUP packet counts.                             *)
actual_length_All(list) ==
  LET sum[i \in 0 .. Len(list)] ==
        IF i = 0 THEN 0 ELSE sum[i - 1] + list[i].length - list[i].left
  IN  sum[Len(list)]

Counted(qtd) == IF qtd.pid = "setup" THEN 0 ELSE qtd.length - qtd.left

actual_length(list) ==
  LET sum[i \in 0 .. Len(list)] == IF i = 0 THEN 0 ELSE sum[i - 1] + Counted(list[i])
  IN  sum[Len(list)]

(* The handshake ends with the interrupt or after a second; after the      *)
(* interrupt there is another one, until the controller is back at the     *)
(* head of its list, and it too can time out.  A halted qtd leaves no      *)
(* trace: its error is written through a null pointer.                     *)
EndUrb ==
  /\ stage = "handshake"
  /\ \/ int /\ result' = actual_length(qtds)
     \/ result' = ETIMEDOUT
  /\ stage' = "idle"
  /\ used' = 0
  /\ UNCHANGED <<urb, rest, toggle1, qtds, cur, int, moved>>

TransferNext ==
  \/ \E ep \in {"bulk", "control"}, input \in BOOLEAN, at \in Buffers, len \in Lengths :
       (ep = "control" => len <= 256) /\ Submit(ep, input, at, len)
  \/ SetupStage \/ DataStage \/ StatusStage \/ StartUrb
  \/ Complete \/ \E k \in {0, 512, 13} : ShortPacket(k) \/ Halt(k)
  \/ EndUrb

TransferSpec == TransferInit /\ [][TransferNext]_transfer
-----------------------------------------------------------------------------
(* Where the controller puts byte k of a qtd: in the page that the offset  *)
(* in the first one and k lead to.                                         *)
Address(q, k) ==
  LET o == (q.hw_buf[0] % Page) + k
  IN  IF o < Page THEN q.hw_buf[0] + k ELSE q.hw_buf[o \div Page] + (o % Page)

(* The bytes at which an address could go wrong.                           *)
Edges(q) ==
  {k \in {0, q.length - 1} \cup UNION {{Room(q.hw_buf[0], p), Room(q.hw_buf[0], p) - 1} : p \in 1 .. 5} :
     k \in 0 .. q.length - 1}

Carriers == {i \in DOMAIN qtds : qtds[i].pid # "setup" /\ qtds[i].length > 0}
First(i) == \A j \in Carriers : i <= j
Last(i)  == \A j \in Carriers : j <= i
Begins(i) == qtds[i].hw_buf[0]
Ends(i)   == Begins(i) + qtds[i].length

(* The buffer of a transfer of any length at any address is moved as a     *)
(* whole, byte after byte, none twice, each to its own address; no qtd     *)
(* but the last asks for a packet that is not full, for that would end the *)
(* transfer; no qtd is longer than the 15 bits of its field; and there are *)
(* always enough of them (ehci.c:226-262, 369-441).                        *)
BufferIsCovered ==
  /\ stage # "bug"
  /\ stage = "handshake" =>
       /\ Carriers = {} => urb.length = 0
       /\ \A i \in Carriers :
            /\ IF First(i) THEN Begins(i) = urb.at ELSE i - 1 \in Carriers /\ Begins(i) = Ends(i - 1)
            /\ Last(i) => Ends(i) = urb.at + urb.length
            /\ Last(i) \/ qtds[i].length % maxpacket = 0
            /\ qtds[i].length < 32768
            /\ \A k \in Edges(qtds[i]) : Address(qtds[i], k) = Begins(i) + k

(* A transfer that did not time out had its interrupt, and returns the     *)
(* bytes that were moved, never the eight of the SETUP packet, and no more *)
(* than were asked for.  When a control transfer got through, its STATUS   *)
(* stage went the other way than its data, with DATA1 (ehci.c:274-320,     *)
(* 419-436, 526-563).                                                      *)
ReturnsWhatMoved ==
  [][stage = "handshake" /\ stage' = "idle" /\ result' # ETIMEDOUT =>
       /\ result' = moved /\ moved <= urb.length
       /\ int /\ (moved = urb.length \/ \E i \in DOMAIN qtds : qtds[i].left > 0)
       /\ urb.ep = "control" =>
            LET s == qtds[Len(qtds)]
            IN  s.toggle = 1 /\ s.length = 0 /\ s.pid = (IF urb.input /\ urb.length > 0 THEN "out" ELSE "in")]_transfer
=============================================================================
