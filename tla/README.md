# A TLA+ model of DIOS MIOS Lite

DIOS MIOS Lite runs GameCube games on a Wii from an SD card (`DML/`) or, in the
older build, from a USB disk (`ehci/`).  Its code runs on the Wii's ARM, beside
the game, which runs on the PPC.  The loader patches the game's executable while
the game loads it: the DVD and memory-card functions of the game's library are
replaced by small stubs (`DML/asm/*.S`) that write a command into a mailbox in
shared memory and spin.  The ARM's main loop polls the mailboxes and serves each
command from files on the SD card.

This directory holds TLA+ specifications of that code, TLC configurations that
check them, and proofs that TLAPS checks.  Every definition is written from the
source; `PROJECT.json` names the lines each one stands for.

## 1. Inventory

| part | source | state it keeps | operations | what is hard |
|---|---|---|---|---|
| heap | `DML/alloc.c` (`ehci/alloc.c` is the same code) | table of 32 `[Offset, Size]` entries, in any order | `malloc`, `malloca`, `free` | neighbours searched in an unordered table; strict and non-strict comparisons; unsigned subtraction |
| memory-card mailbox | `Card.c` `CARDUpdateRegisters`, `asm/CARD*.S` | 8 registers at `CARD_BASE`, 8 shadows | post, ring, poll, accept, fetch, serve, complete | two processors without a lock; registers that keep old words; callbacks that send commands |
| memory-card store | the rest of `Card.c` | `stats.bin` through one open `FIL`, one file per save | create, open, fast open, close, delete, read, write, get and set status | power lost between any two writes; one f_write that spans two sectors; a delete that is not synced |
| DVD interface emulation | `dip.c`, `asm/DVD*.S`, `asm/*DVD*.S` | registers at `DI_BASE` and shadows, the state of the DOL patcher | the DI commands, the interrupt to the PPC, completion | the same mailbox plus an interrupt; recognising an executable from the reads a game makes |
| DOL patcher | `Patches.c` | `PatchCount`, pattern tables, addresses found | `DoPatches`, `DoPatchesLoader`, `DoCardPatches`, `PatchB` | branch offsets in 26 bits; several passes over one executable |
| game selection, drive | `DVD.c`, `Drive.c` | `boot.bin`, the game's file, the drive's answers | `DVDSelectGame`, `DVDLow*` | a request that must be served once; the power cut between its steps |
| boot and configuration | `main.c`, `Config.c` | `DMLCfg`, the console's settings memory (SRAM) | boot, SRAM read, change and flush, polling, power button | settings written word by word; what earlier boots left; what is patched for which program |
| FAT file system | `ff.c` (FatFs) | sector window, table, file objects with a buffered sector | `f_mount`, `f_open` ... `f_rename` | the order of sector writes under a power cut; long names over several entries |
| SD card driver | `sdhc.c`, `sdmmc.c`, `diskio.c` | host registers, card state, interrupt status, bounce buffer | commands, transfers, identification | the controller works while the driver polls; status of an earlier command; errors that are not reported |
| USB storage (EHCI build) | `ehci/usbstorage.c`, `usb.c`, `ehci.c`, `ehci-mem.c`, `diskio.c` | the bulk-only state, queue head, transfer descriptors, toggles | discovery, mount, read, write, reset | a retry that continues with the state of the failed attempt; recovery in step with the drive |
| FAT file system (EHCI build) | `ehci/ff.c` | window, `LfnBuf`, one `FIL` | `f_open`, `f_lseek`, `f_read`, `f_close` | seeks from where the last read ended; FAT12 entries over two sectors; stale names |
| DVD emulation (EHCI build) | `ehci/dip.c`, `ehci/main.c`, `ehci/Patches.c` | the mailbox; `Patch`, `DOLSize`, the id in memory | selection, reads, `DoPatches` | acknowledges in another order than `DML/dip.c`; patches by the address of a read |
| hardware access, C library | `HW.c`, `memory.c`, `string.c`, `vsprintf.c`, `utils_asm.S` | registers | setup, cache maintenance, formatting | nothing of their own |
| cheat codes | `CheatCode.c` | none | a binary stored as an array | - |
| host tools | `FixELF/`, `bin2h/` | none | converters run at build time | - |

How the parts interact.  The game calls a stub; the stub writes a mailbox; the
main loop's `DIUpdateRegisters` and `CARDUpdateRegisters` read it (shared memory,
no lock, no message).  The handlers call FatFs, which calls `diskio.c`, the SD
driver and the SD card, all synchronously.  The DVD handler also runs the patcher
on what it has just read.  The completion is a status bit the stub polls and,
for the DVD, an interrupt.  The heap is used by the loader's own code only.  The
only asynchronous event on the ARM is the power button's interrupt, which turns
the console off whatever the main loop is doing.

What makes each part correct.
* heap: live blocks never overlap, lie in the heap and are aligned; `malloc`
  gives up only if nothing fits; `free` touches one block.
* card mailbox: every command is served once, with its own arguments; a stub
  returns the outcome of its own command; no spin loop is endless.
* card store: the table and the directory agree; a name has one entry; a file
  number leads to the file it was handed out for; a loss of power damages at most
  the save of the call it interrupts.
* DVD mailbox: as the card mailbox, and one completion per command; an
  executable is patched once all of it has been read and before it is run.
* boot: the settings memory checks and fits the game's region; the menu is patched
  exactly for the programs that need it; a request in `boot.bin` is served once.
* FatFs: every path holds what the calls made of it; a file's chain is disjoint from
  every other; no cluster is lost; a power cut damages only what was being changed.
* SD driver, USB storage: a completion is that of the command it is taken for; a call
  that is reported as good has moved its data, and no call hangs.
* EHCI build: a disc read gives the data at that place, whatever was read before;
  the game's first functions are patched when it starts.

## 2. Modules

| module | models | uses |
|---|---|---|
| `HeapSpec` | what a heap promises its callers | |
| `HeapAlloc`, `HeapAllocProofs` | `alloc.c`; implements `HeapSpec` | `HeapSpec` |
| `CardMailbox`, `CardMailboxProofs` | the card mailbox, both processors | |
| `SaveSpec` | the memory card as a map of saves, with loss of power | |
| `CardStore`, `CardStoreProofs` | `Card.c` behind the mailbox; implements `SaveSpec` | `SaveSpec` |
| `DIMailbox`, `DIMailboxProofs` | the DVD mailbox and its interrupt, DML and EHCI build | |
| `DolPatch` | how an executable is recognised and when it is patched | |
| `PatchScan` | the searches of the patcher, and what they write | |
| `Branch` | the branches the patcher writes and looks for | |
| `BootSpec` | what `boot.bin` promises the programs that write it | |
| `Boot` | `main.c`, `DVD.c`, `Drive.c`, `Config.c`; implements `BootSpec` | `BootSpec` |
| `BootProofs` | the proofs about the boot, the branches, the recognition of executables and the searches | `Boot`, `Branch`, `DolPatch`, `PatchScan` |
| `DiskSpec` | what `disk_read` and `disk_write` promise the file system | |
| `SdDrive`, `SdDriveProofs` | `diskio.c`, `sdmmc.c`, `sdhc.c`; implements `DiskSpec` | `DiskSpec` |
| `FatVolume` | window, table, chains and directories of `ff.c`, as operators | |
| `FatFiles` | the functions of `ff.c` and the power cut | `FatVolume` |
| `UsbStorage`, `UsbStorageProofs` | `ehci/usbstorage.c`, ports and messages; implements `DiskSpec` | `DiskSpec` |
| `UsbTransfer` | one transfer as transfer descriptors (`ehci/ehci.c`) | |
| `FatRead` | `ehci/ff.c` | |
| `EhciDisc` | `ehci/main.c`, `ehci/dip.c`, `DoPatches` of `ehci/Patches.c` | |
| `EhciProofs` | the proofs about the transfers and the start of a game | `UsbTransfer`, `EhciDisc` |
| `MCCardMailbox`, `MCCardStore`, `MCDIMailbox`, `MCDolPatch`, `MCFatFiles`, `MCUsbStorage` | instances for TLC | the module of that name |
| `MCBoot` | `Boot`, `DolPatch`, `PatchScan` and `Branch` in one instance | `MCDolPatch`, `Boot`, `PatchScan`, `Branch` |
| `MCSdDrive` | `SdDrive` and `HeapAlloc` in one instance | `SdDrive`, `HeapAlloc` |
| `MCEhci` | `FatRead`, `UsbTransfer` and `EhciDisc` in one instance | the three |

In the last three instances one part moves at a time, the others resting in their
initial state: the parts share nothing, so their product would show nothing more,
and each state belongs to one of them.

### HeapAlloc

`HeapInfoEntries` is the table itself, `ret` the last result.  `Malloc(size)` is
one call: `RoundUp`, the first free entry, and the scan.  The scan of the code
goes through the used entries in table order with a `goto`; `FindSpace` says
which entry it stops at (the first one that offers a place) and `Place` what an
entry offers: right after itself (`FitsAfter`), else right before (`PlaceBefore`),
with the code's `<=` at the end of the heap and `<` between blocks.  Addresses are
naturals: the heap starts at a non-zero address, which the code uses to mean
"free entry" (`HeapAssumption`).

### CardMailbox

The registers are variables with the names of `Card.h`.  A register holds
`EMPTY` (0xdeadbeef) or a word tagged with the request it was written for, so that
a property can say whose word it is.  `CARD_CONTROL` has the three values it can
take: 0xdeadbeef, 0xdeadbeee and 3.  The PPC's steps are those of a stub (`Post`,
`Ring`, `Ready`, `Take`, `CallbackReturns`), the ARM's those of one call of
`CARDUpdateRegisters` (`Poll`, `Check`, `Drop`, `Accept`, `Ack`, `Fetch`, `Serve`,
`ClearGo`, `Finish`); each touches what the other side may touch at most once.
The stubs differ in which registers they write and read: one record each.
`kindOf`, `runs` and `taken` are ghosts.

### CardStore

`table` is `stats.bin` as `f_read` shows it, `disk` as it is on the SD card,
`dirty` the one sector the file object buffers.  An entry is three parts (name,
length, status) laid out over sectors of `SectorParts` parts, so that, as with the
108-byte entries of the code, some entries straddle a boundary: `f_write` of such
an entry puts its first part on the card while the second stays in the buffer, and a
loss of power in between leaves half an entry, which the ghost `torn` marks: nothing
is claimed of the card from then on.  `files` and `ondisk` are the directory in the window and on the card.  Each handler is split
where the SD card is written, and `Crash` may come between any two steps.  What
the game does is `Call`: a game reads, writes or sets the status of a file only
after it opened or created it, which is what the card library asks of it.

### DIMailbox

The registers at `DI_BASE` that make up a read are one variable, `regs`: the stub
writes them before it sets `DI_CONTROL`, the ARM takes them after, and the `Phase`
of the proof shows that in the DML build the two never overlap.  What runs on the
PPC is either a loader, whose stubs poll (`Ready`, `Take`), or a game, whose own
library goes on after `Ring` and is called back (`Interrupt`); `Switch` is the one
starting the other.  A read fails in `ReadFails`.  `Build` chooses between
`DML/dip.c` and `ehci/dip.c`, which differ in the order of `ClearStatus` and `Ack`,
in what a failure does, and in the interrupt.  `reads` and `ended` are ghosts.

### DolPatch

One action of the PPC is one read, and `DIRead` is what `DIUpdateRegisters` makes of
it: `DolHeader`, `ElfWhole`, `ElfPart` and `Ignored` while it waits for an
executable, `CountMore` and `CountLast` afterwards.  Memory is reduced to what the
patcher is there for: `raw` and `rawCards` are the addresses that hold a DVD or a
memory-card function that is not patched.  A read puts the functions of what it
reads there and overwrites those of what was there before.  An executable on the
disc (`IsExec`) is a first read and a set of further ones, in any order, with its
functions in its `Code`.  A sum of lengths is the number of the `Bytes`.  ELF files
are taken to be listed in the disc's file table, as the code requires.  `loading`,
`left`, `disturbed` and `loads` describe the program that loads, not the patcher.

### PatchScan

A program is a sequence of instructions, of which the kind counts and, for a call, its
target.  A function is known by its print, as `MPattern` makes it: its length to the
first `blr` and how often it calls, moves and loads.  Each of the four searches
(memory-card functions, single instructions, functions, the disc's loader) is a phase;
one action is what happens at one place, with what it writes to the code that it and
the next search go on to read.  `text` keeps the program as the search found it, and
`SearchesAreRight` compares the two when it has ended.

### Branch

`PatchB`, `PatchBL` and the test of `DoCardPatches` are operators on integers, with
the masks as remainders; `Target` is where a PowerPC goes.  The widths are constants,
so that TLC can try all pairs of addresses and the proof can take 32 and 26 bits.

### Boot

`pc` is the place in `main`; each action is the code up to the next thing that
outlives a power cut: the disc's answer, `boot.bin`, a word of the SRAM, the menu in
memory.  `PowerOff` may come anywhere, and between starts the user changes the
settings and a loader writes `boot.bin`.  `chip` is the SRAM with its checksum, `sram`
the program's copy.  The choice of video mode in `DVDSelectGame` is `VideoFor`, with
`Forced`, `ForNTSC` and `ForPAL` below it and `SRAM_SetVideoMode` below them, on the
three fields of the SRAM that matter.  The menu
program is three facts (`ipl`): it has the stubs, its check of the video mode is
patched out, it has its own patches for some games.  `old` and `torn` are ghosts.

### SdDrive

The controller (`hw`, `nintr`, `eintr`) works between any two register accesses of the
driver: `sdhc_exec_command`, `sdhc_wait_intr` and `sdhc_intr` are a step per access.
The card is the state machine of the SD protocol, with a command that is not legal
left unanswered.  A fault loses an answer or the data; the card may be pulled out.
A transfer is counted in sectors and may cross a DMA boundary once.  `disk_read` cuts
a call into pieces of three sectors if it goes through the bounce buffer.
`request`, `failed` and `buffer` of `DiskSpec` are the call, whether `sdmmc_read` or
`sdmmc_write` failed in it (which `diskio.c` drops), and the caller's buffer.

### FatVolume and FatFiles

`ff.c` runs to completion, so its functions are operators that take the volume and
return result, volume and what was written; `v.log` is the sequence of sector
writes, and `Cut` keeps a prefix of it.  A directory entry has the fields the code
compares: name, short name, order number, attributes, cluster, size.  A name is
abstract: how many parts its long form takes, and its short form.  In `FatFiles` a
call is an action; `files` is what every path should hold, from the calls and their
results alone.  After a cut, `unsafe` names the paths the interrupted call changed,
of which nothing is claimed; `ruined` marks a directory whose new cluster was linked
and not yet cleared (`ff.c:1136`), after which nothing is claimed of the volume.

### UsbStorage and UsbTransfer

In `UsbStorage` a message (CBW, data, CSW, control request) is one step of drive and
driver, as the driver waits for each.  The drive is the bulk-only state machine with
its halted endpoints and toggles; a message may stall, end short, or time out, and a
request of the recovery may be refused.  A halted transfer returns what it moved,
as `qh_end_transfer` makes it (`ehci.c:314`).

`ehci_do_urb` times out in two places: no interrupt came, or it came and the controller
then did not leave the transfer (`ehci.c:550-552`).  In the second case the drive has
moved all it was asked for; both are faults, and every message may meet either.  What
`__cycle` makes of a time-out depends on the message.  After a CBW or a CSW it ends at
once, with the drive left as it is (`usbstorage.c:162, 205, 239`).  After data it resets
the drive first, as after any other error (`194-199`, `229-234`), and ends in the next
round of its loop (`155-156`), whatever the reset returned: this is `Reset("timeout")`
and its case of `ResetReturns`.  `USBStorage_MountLUN` drops the result of INQUIRY
(`488`), so the READ CAPACITY behind it may meet a drive that was reset, or reset in
part, with toggles that start from 0 where the driver's do not.  The run explores the
mounts that come of this, and the calls on them.

`UsbTransfer` is the level below: one transfer of any length from any place in a page,
as the descriptors `qtd_fill` cuts, what the controller does with them, and the sum that
is returned, or `-ETIMEDOUT` from either wait.

### FatRead

The functions of `ehci/ff.c` as operators on the `FATFS` and the `FIL`.  The table is
bytes, because an entry of FAT12 is one and a half; names are sequences of
characters, because the comparison of parts with `LfnBuf` is what can go wrong.

### EhciDisc

A read is one step: `DIMailbox` (with `Build = EHCI`) has its protocol, `FatRead` its
data.  A game is its sections, its functions of the four kinds `DoPatches` looks for,
and its file table; the menu reads them in any order.  `raw` are the functions in
memory that are not patched.

## 3. Runs

| run | instance | result | what it shows |
|---|---|---|---|
| `mailbox_all` | all nine card commands, 3 requests, table may fill | pass | `RegistersAreOwn`, `ServedOnce`, `ResultIsOwn`, `EveryCallReturns` |
| `mailbox_lost` | Open and Write, 2 requests | violation | `EverySentCommandIsServed`: a command posted behind an Open may be dropped |
| `store_power` | 2 names, 3 entries two of which straddle sectors, 2 losses of power | pass | `TableSound`, `HandleIsOwn`, `OnlyUnsavedDeletesAreDamaged`, refinement of `SaveSpec` |
| `di_dml` | DML build, 4 reads | pass | `ReadIsComplete`, `NoStrayInterrupt`, `EveryReadReturns` |
| `di_ehci` | EHCI build, 3 reads | violation | `ReadIsComplete`: the status of the previous read is taken for that of the next |
| `boot` | 2 games of two regions, 17 configurations, any settings; three executables of six in a row; branches in words of 9 bits; programs of four functions | pass | `SumFits`, `VideoFits`, `MenuFits`, `EveryBootEnds`, refinement of `BootSpec`; `RunsPatched`; `Arrives`, `FindsCalls`; `SearchesAreRight` |
| `dol_odd` | an ELF file whose length is not a multiple of 32 | violation | `RunsPatched` |
| `sd` | 4 sectors, 2 calls, 2 faults; a heap of 6 granules and 4 entries | pass | `OkIsOwn`, `EveryCallReturns`, refinement of `DiskSpec`; `BlocksSound`, `NullOnlyWithoutRoom`, refinement of `HeapSpec` |
| `fat_names` | FAT32, 5 clusters, long and short names, a directory, 4 calls, 1 cut | pass | `StatIsRight`, `FilesAreRight`, `ClustersSound` |
| `fat_data` | FAT16, 2 file objects, 7 calls, 1 cut | pass | `VolumeIsRight`, the three of `fat_names` at once |
| `usb` | 4 sectors, 2 units, 3 ports, 2 calls, 2 faults, 1 refusal | pass | `InStep`, `RightUnit`, `EveryCallReturns`, refinement of `DiskSpec` |
| `ehci` | six FAT volumes and four that are none; 12 lengths at 5 offsets; 2 games, 2 starts | pass | `DiscReads`, `OpensNamed`; `BufferIsCovered`, `ReturnsWhatMoved`; `GameIsPatched`, `RegionFits` |

Bounds.
* Mailboxes.  A command can be disturbed only by what its predecessor left in the
  registers, and the third shows what a disturbed one leaves; the stubs keep no other
  state.  Callbacks nest one deep.  Four DVD reads allow a loader's read, a game's, and a
  loader's again, each behind one of either kind.
* `CardStore`.  An entry's fate depends on its own sectors and on the buffered one only;
  three entries over sectors of four parts give entries that share a sector and two
  that straddle a boundary, one before its status and one before its length.  The names do not start one another: `CardFindEntryByName`
  compares `strlen(Filename)` bytes only (`Card.c:91`), as the model does, so with such
  names CARDOpen answers with the entry of the longer one.  The table does not fill:
  on a full one `CardCreateFile` answers with the result of an earlier command.
* `Boot`.  Nothing counts the starts: `chip`, `bootbin` and the disc are all that
  outlives one, and all their values are reached.  The runs of `DolPatch` take three
  executables: the first leaves its state and its functions behind, the second meets
  them, the third meets what is left of both.  `RunsPatched` is claimed of executables
  that were loaded without other reads in between (`disturbed`): any read counts
  towards the executable that is awaited.
* `PatchScan`.  Each search is tried on programs of every sequence of three kinds of
  function behind a first one (two for the single instructions and around a
  `CARDFreeBlocks`): what a search does to a function depends on the one in front of it,
  whose patch may reach into it, on an earlier variant of its group, and on a caller
  behind it.
* `SdDrive`, `UsbStorage`.  A second call meets what the first left in controller, card
  and buffers; two faults let one hit the recovery from the other.  Four sectors are
  more than a piece of the bounce buffer and than a transfer of three packets, and
  `Wrap = 3` makes a call of the file system wrap the 16-bit length of a transfer
  (128 packets in the code).
* `FatFiles`.  Five clusters of two sectors, with three entries in a sector, make
  directories grow, long names straddle sectors and clusters, and the volume fill up.
  Four calls on names are a create, a rename over a directory boundary, a delete and
  the reuse of its entry and cluster; seven on data are two files opened, written, one
  of them sought in and truncated, written again and closed.  `SYMMETRY` is over the
  two file objects, in a run without liveness.
* `FatRead`.  The file system object has finitely many states on a small disk, and all
  sequences of calls are explored.  A file of three clusters and a directory of two lie
  in chains that go backwards as well as forwards, one file is shorter on its chain
  than in its entry, and one is empty.
* `UsbTransfer`.  Up to the four descriptors of data the longest transfer of the
  driver takes.  `EhciDisc`.  A second start meets all that the first left.
* Heap.  Four entries are two blocks with holes around them in any table order.

`CHECK_DEADLOCK FALSE` is set where the system may really stop: after the last
call of the bound, with the power off, or with the drive gone.

Fairness.
* `CardMailbox` and `DIMailbox` ask weak fairness of the ARM's step and of the PPC's:
  the main loop (`main.c:286`) is endless, a spinning stub is never descheduled for
  good, and a callback returns.  Nothing is assumed of the game: it need not post
  another command.  A read that fails in FatFs stops the loader for good, and
  `EveryReadReturns` says so.
* `Boot` asks that `main` goes on: its loops wait for the drive, which answers.
* `SdDrive` asks that controller and processor do not stop; faults need no fairness,
  they use up a bound, and every wait of the driver has a time-out.
* `UsbStorage` asks that the driver goes on: every message ends, if by a time-out.

Findings.
* `mailbox_lost`: the handlers of Open and FastOpen clear bit 0 of `CARD_CONTROL`
  (`Card.c:499-500`, `670-671`) after line 443 has already reset it; that leaves
  0xdeadbeee, and the poll that tidies up (`433-436`) may erase a command posted
  between its read and its write.  The stub then returns the Open's result.
* `di_ehci`: `ehci/dip.c` gives `DI_CONTROL` back at line 219 and clears the old status
  at 227; a stub that looks in between returns before its data is there.
* `dol_odd`: `dip.c:200` asks whether the length read, which is rounded up, equals the
  length of the file; for most ELF files it does not, and the program runs unpatched.

What the models show besides, where no document says otherwise: the memory-card
functions of a second executable are not replaced (`Found` is reset in `FPatterns` only);
`diskio.c` drops every error of the SD card; the status of a CSW is dropped and a
halted transfer looks complete (`UsbStorage` recovers all the same, but the file
system is not told); a power cut while a directory grows leaves an uncleared cluster
in it; a long name of exactly 13, 26, ... characters is found where a longer one was
asked for (`ehci/ff.c:631`); a USB drive that is plugged in after the module has started
is found only in a port that was not given away; the second of several units that
holds the medium is not tried; a game that is read again is not patched again.

And of the searches: the stub for CARDClose is longer than the function it replaces
(`Patches.c:143`) and destroys the beginning of what follows; the search for the end of
PADRead overwrites the index of the pattern (`940`), so that what is marked as found
behind it is whatever lies there in memory; a hook replaces the `blr` (`799`, `949`)
by which the function behind it would have been recognised; functions behind an
empty function are passed over (`886`); a candidate for DVDLowRead that turns out to be
none may have lost the upper half of its address (`656-686`); `DoPatches` marks
patterns as found by way of their group only, so one without a group is replaced
wherever it occurs.  `SearchesAreRight` states what holds all the same.

## 4. Proofs

* `HeapAllocProofs`: `HeapSafe` (`Spec => []BlocksSound`) and `HeapRefines`
  (`Spec => ImplementsHeapSpec`), for any heap, table and sizes, from
  `HeapAssumption`.  The inductive invariant is the type together with
  `BlocksSound`: that blocks are disjoint makes the closest neighbour the only one
  that matters, and alignment and bounds carry over to the neighbour's end.  The
  lemmas say that a place `FindSpace` offers is a hole.
  `RefusalsAreJust` (`Spec => NullOnlyWithoutRoom`) is the converse: where a block would
  fit, `FindSpace` is offered a place.  Take the lowest hole of the size: the block that
  bounds it from below, or else the one that bounds it from above, is an entry the scan
  comes to.
* `CardMailboxProofs`: for any number of requests of any commands, Open and a full table
  included, `MailboxTypes`, `RegistersOwn`, `ServedAtMostOnce` and `ResultsAreOwn`; the
  last, as its property says, until an Open was sent or a Create may have met a full
  table.  None of the three is inductive: they say nothing of a command on its way.
  `Rendezvous` adds where the ARM may be while the stub is at each of its steps
  (`Phase`), that the registers hold the running stub's words until its handler has
  ended (`Registers`), and how far the request has come by then (`Through`).  The one
  way round it is the word 0xdeadbeee, which is there only while the last command sent
  is an Open that was served or the one right behind it.
* `CardStoreProofs`: `StoreTypes`, `TableIsSound`, `DamageIsUnsavedDeletes`, `HandlesAreOwn`
  and the refinement `CardKeepsSaves`, for any number of names, entries and losses of
  power and any layout of the entries over sectors.  `BufferInv` says that nothing but
  the buffered sector is not on the card.  What follows from it holds until half an entry
  was written (`torn`): `TableInv`, names are unique in memory and on the card; `DirInv`,
  what is unsaved was deleted or belongs to the call under way; `HandleInv`, the file
  numbers a game holds are those of its files.  Two hypotheses are stated in the
  theorems, as they are about the game and not about the code: `PrefixFree`, no name the
  game uses is the beginning of another (`Card.c:91`), and, for the last two theorems,
  `TableHasRoom`, the table has an entry for each name (`Card.c:230`).  The instance of
  `store_power` satisfies both.
* `SdDriveProofs`: `SdDriveTypes`, `CommandsAreOwn` and the refinement `DriverKeepsSectors`,
  for a card of any size, through the bounce buffer of three sectors or without it, and
  any number of calls and of faults.  `BitsInv`
  follows each bit of the status registers, and of what was read from them, to the
  command it belongs to, at every place of a wait: a bit left over by an earlier command
  is cleared before it can be taken for this one's.  `CallInv` says what the blocks moved
  so far hold, and which command is under way for them.
* `UsbStorageProofs`: `UsbTypesHold`, `StaysInStep`, `MountsRightUnit` and the refinement
  `UsbKeepsSectors`, whatever goes wrong with the messages and however often, for any
  number of sectors, units, ports and retries, and wherever the transfer length wraps.
  This includes the calls on a drive that was mounted after an INQUIRY timed out.
  `UsbInv` has a part for each thing a later step goes by: `MountInv`, `CallInv`,
  `DataInv` (what the drive is ready to move), `StepInv` (in which phase it is once the
  driver goes on), `DoneInv` (what a good status stands for), and `UnitInv` for the
  mount in which nothing goes wrong.
* `DIMailboxProofs`: `DITypes` for both builds; for the DML build, and any number of
  reads, `ReadsAreComplete` and `NoInterruptIsStray`.  The invariant `Order` adds to
  `ReadIsComplete` where each processor may be (`Phase`), what the read under way has
  been through (`Progress`), that later reads are untouched (`Counted`) and when an
  interrupt may be pending (`Pending`).  The step that carries it is `Ack`: the status
  is low by then, so a program that sees `DI_CONTROL` go cannot see an old one.
* `BootProofs`: `BootTyped`, `ChecksumFits`, `ModeFitsRegion`, `MenuFitsProgram` and the
  refinement `BootServesRequests`, for any games, regions and configurations, from
  `BootAssumption`.  `Inv` says what is known at each place of `main`: where the
  checksum is ahead of the contents (`SumInv`), that nothing but the disc's id is in
  memory before a game is opened and that game, id and menu belong together after it
  (`MenuInv`), and that the copy of the SRAM carries the mode from its choice to the
  chip (`VideoInv`).  The refinement needs `RequestInv` besides: while a request is
  being served the file is gone or cannot be deleted.
  And `BranchesArrive` and `CallsAreFound` about `Branch`, for 32-bit words, fields of 26
  bits and all addresses.  Memory ends at 0x01800000, below half the field, so within
  memory every branch is within reach.
  And `ProgramsArePatched` about `DolPatch`: `RunsPatched` for executables of any number
  and layout, their parts in any order.  If other files were read in between, it says
  only that the count has ended.  Its hypothesis is that the executables are `Regular`.  `CountsOut` is about the reads, whose lengths `DIRead` rounds up:
  they must reach the size, or the number of sections, with the last of them and not
  before, which holds of all files whose parts are whole blocks of 32 bytes.
  `FreeBlocksFirst` is the order in which the patcher looks for the memory-card
  functions.  TLC evaluates the hypothesis for the executables of `boot`
  (`ExecsAreRegular`), and `dol_odd` shows what becomes of a file that is not.
  The invariant compares what was counted with what was read (`CountInv`,
  `SectionsInv`), gives the range that was read to (`RangeInv`), and says where the
  functions that are not patched yet can be: inside that range, while parts are missing
  (`AwaitInv`, `HookInv`, `CardInv`).  `PartsMissing` then ends the count.  Since a sum
  is a number of bytes, no induction over sums is needed.
  And `SearchesFindTheirs` about `PatchScan`: `SearchesAreRight` for any tables that
  satisfy `ScanAssumption` and programs of any length, from the end of the search for
  memory-card functions on.  Two hypotheses about the program that is searched say what
  the code takes for granted.  `Searchable`, for single instructions: a function that
  sends a command to the drive, or the one that sleeps, ends with a `blr`, the first has
  one `mflr` up to the command, and they are not the same.  `Inert`, for functions: the
  program ends with a `blr`, neither what lies behind it nor what is left of a function
  behind the `blr` of its stub has a print of the table, and there is one PADRead at
  most, which the search comes to.  In `boot` all programs are `Searchable`, and nearly
  all are `Inert`; those that are not have two PADReads, or one behind an empty function,
  or end where the hook of OSSleepThread has replaced the `blr`.
  `HitsInv` gives a reason for each word that has changed; `LowReadIs` is its heart,
  that what earlier hits have left of a function does not mislead `LowRead`.  `Walk`
  says that a search never stands in front of a function it would pass over, that
  behind a `blr` of the text nothing is written yet, and that what counts as found is
  what was marked by a function before.  `StepIs` then leaves two cases: the search
  comes to a function, which lies there as it was, or finds nothing.
* `EhciProofs`: `RegionIsRight` and `GamesArePatched`, for games of any layout that
  satisfies `EhciDiscAssumption`, any order of reading, any number of starts.
  `RegionInv` follows the id from `DIInit` on and ties the start of a game to its file
  table.  `PatchInv` adds what memory holds while the first game is read.  The lemma
  `PatchesFirst` is the heart: wherever `DoPatches` stops, it is not before the first
  function of any kind.
  And `BufferCovered` and `TransfersReturnWhatMoved` (of transfers that did not time out
  behind their interrupt) about `UsbTransfer`, for any buffers
  and for the lengths of `TransferAssumption`, those a driver with 16-bit lengths can ask
  for.  `ListInv` and `DataInv` say of each descriptor where it begins and ends, with
  respect to the one in front of it, while the list still grows; that all but the last
  take at least 16384 bytes is why eight are enough.  `EndInv` is the list when it is
  complete.  `MoveInv` ties what was moved to where the controller is, and to the sum
  `qh_end_transfer` makes, which is the one place where a property is about a
  recursive function: two functions that satisfy its equations are equal, because a
  least place where they differ cannot be (`SumsUnique`), and a descriptor that moves
  k bytes more adds k to all the sums behind it (`SumGrows`).  `IntInv` says that only
  the last descriptor, or a short packet, interrupts.

Only model-checked:
* Of `PatchScan.SearchesAreRight` what it says of the memory-card functions, and of
  programs that are not `Inert`.  `CardsRight` depends on how the functions of a
  library lie: on which callers there are, and on what the stub of CARDClose, longer
  than the function, destroys.
* `FatVolume`, `FatFiles` and `FatRead`, whose loops are RECURSIVE operators, out of the
  provers' reach.
* All liveness, which the provers cannot treat.

## 5. Not modelled, and the plan

* The patches at fixed addresses for single games (`Patches.c:597-624`), and the loading
  of the cheat file (`809-865`).
* `CardUpdateStats`, the banner and icon fields, offsets inside a save: data that no
  property distinguishes.  `CardInit` on a `stats.bin` that was cut short.
* `f_mkfs`, FAT12 in the DML build, disk errors in FatFs (`diskio.c` reports none).
* A memory-card read or write of a file number outside of the table, which shuts the
  console down (`Card.c:704-709, 731-736`): `HandleIsOwn` says that no file number a
  game holds is one.
* The read-only attribute of a file (`DML/ff.c:2299, 2329, 3224`), which no file that
  the program creates has.
* A read of the game's header in `DIInit` of the EHCI build that fails.
* What an SD read that failed does to the file system, as `DML/diskio.c:53` answers
  RES_OK; what `Patches.c:940` finds behind the table; and the code that a stub longer
  than its function destroys (`Patches.c:143`).  These are hazards without a property.
* Hardware setup, formatting, `LoadDOL`, cheat codes, the DSP tables, the host tools,
  the other DI commands of the EHCI build: straight-line code without a protocol.

Next, most important first:
1. `Loader`: the main loop with both mailboxes at once, where a DVD interrupt may
   arrive while a card stub spins.
2. `CardStore` over `FatFiles` instead of over its own model of the directory.
3. Proofs: the search for the memory-card functions, `CardsRight` of `PatchScan`.
