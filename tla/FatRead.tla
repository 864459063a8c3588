------------------------------- MODULE FatRead -------------------------------
(***************************************************************************)
(* The read-only FAT file system of the EHCI build (ehci/ff.c, an older    *)
(* release than the one in DML): mounting a volume, finding a file by its  *)
(* path, moving in it and reading from it.  The program opens its          *)
(* configuration and the disc image, and then serves the game's reads with *)
(* an f_lseek and an f_read each (ehci/dip.c).                             *)
(*                                                                         *)
(* The functions run to completion and are operators: they take the file   *)
(* system object fs, which holds the one-sector window, and give it back.  *)
(* The disk does not change and disk_read always answers RES_OK.           *)
(***************************************************************************)
EXTENDS Integers, Sequences, FiniteSets

CONSTANTS
  Disks,     \* what may be plugged in: [sectors, files, fat], see MCEhci  
  Paths,     \* the paths that f_open is called with: sequences of segments
  SS,        \* units of data in a sector
  FatBytes,  \* bytes of a sector of the table, a power of two
  PerDir,    \* entries in a sector of a directory: SS(fs) / 32
  F12, F16,  \* 0xFF7 and 0xFFF7: where FAT16 and FAT32 begin
  Part,      \* characters of a long name in one entry: 13
  BaseLen,   \* characters of a short name before its dot: 8
  ExtLen,    \* and after it: 3
  MaxLen     \* bound: the units asked for in one f_read

ASSUME FatReadAssumption ==
  /\ SS > 0 /\ PerDir > 0 /\ Part > 0 /\ BaseLen > 0 /\ ExtLen > 0
  /\ FatBytes \in {4, 8, 16} /\ F12 < F16

VARIABLES
  disk,    \* what is plugged in
  fs,      \* the FATFS, with type 0 as long as it is not mounted
  lfnbuf,  \* LfnBuf: the name looked for, behind its end what was there before
  fp       \* the FIL

fat == <<disk, fs, lfnbuf, fp>>

NUL == ""   \* the end of a name
Least(a, b) == IF a < b THEN a ELSE b
-----------------------------------------------------------------------------
(* The window and the table.                                               *)

disk_read(sect) == disk.sectors[sect]

move_window(f, sect) ==
  IF f.winsect = sect THEN f
  ELSE [f EXCEPT !.win = disk_read(sect), !.winsect = sect]

(* Twelve bits an entry: one in a few lies across two sectors.             *)
Entry12(f, c) ==
  LET bc == (c * 3) \div 2
      lo == move_window(f, f.fatbase + bc \div FatBytes)
      hi == move_window(lo, f.fatbase + (bc + 1) \div FatBytes)
      wc == lo.win[bc % FatBytes] + 256 * hi.win[(bc + 1) % FatBytes]
  IN  [fs |-> hi, c |-> IF c % 2 = 1 THEN wc \div 16 ELSE wc % 4096]

Entry16(f, c) ==
  LET g == move_window(f, f.fatbase + c \div (FatBytes \div 2))
      b == (c * 2) % FatBytes
  IN  [fs |-> g, c |-> g.win[b] + 256 * g.win[b + 1]]

(* The top four bits are not part of the number.                           *)
Entry32(f, c) ==
  LET g == move_window(f, f.fatbase + c \div (FatBytes \div 4))
      b == (c * 4) % FatBytes
  IN  [fs |-> g, c |-> g.win[b] + 256 * g.win[b + 1] + 65536 * g.win[b + 2]
                       + 16777216 * (g.win[b + 3] % 16)]

(* The cluster after c; 1 if c is none.                                    *)
get_cluster(f, c) ==
  IF c < 2 \/ c >= f.max_clust THEN [fs |-> f, c |-> 1]
  ELSE CASE f.type = 12 -> Entry12(f, c)
         [] f.type = 16 -> Entry16(f, c)
         [] f.type = 32 -> Entry32(f, c)

clust2sect(f, c) ==
  IF c < 2 \/ c >= f.max_clust THEN 0 ELSE (c - 2) * f.csize + f.database
-----------------------------------------------------------------------------
(* Mounting.                                                               *)

(* 0 a FAT boot record, 1 another boot record, 2 none.                     *)
check_fs(sect) ==
  LET b == disk_read(sect)
  IN  IF ~b.sig THEN 2 ELSE IF b.fat THEN 0 ELSE 1

(* By the number of clusters, and two.                                     *)
FatType(mclst) == IF mclst >= F16 THEN 32 ELSE IF mclst >= F12 THEN 16 ELSE 12

(* The geometry of the volume whose boot record b is at bsect.             *)
Mounted(f, b, bsect) ==
  LET sects == IF b.fatsz16 # 0 THEN b.fatsz16 ELSE b.fatsz32
      fsize == sects * b.nfats
      tsect == IF b.tot16 # 0 THEN b.tot16 ELSE b.tot32
      rootn == b.rootents \div PerDir
      mclst == (tsect - b.rsvd - fsize - rootn) \div b.csize + 2
      base  == bsect + b.rsvd
  IN  [f EXCEPT !.type      = FatType(mclst),
                !.fatbase   = base,
                !.csize     = b.csize,
                !.n_rootdir = b.rootents,
                !.max_clust = mclst,
                !.dirbase   = IF FatType(mclst) = 32 THEN b.rootclus ELSE base + fsize,
                !.database  = base + fsize + rootn,
                !.win = b, !.winsect = 0,
                !.id = @ + 1]

(* Sector 0 is the volume's boot record, or the first entry of its         *)
(* partition table says where that is.                                     *)
auto_mount(f) ==
  LET mbr   == disk_read(0)
      bsect == IF check_fs(0) = 1 /\ mbr.part # 0 THEN mbr.part ELSE 0
  IN  IF f.type # 0 THEN [fs |-> f, res |-> "OK"]
      ELSE IF check_fs(bsect) # 0 \/ disk_read(bsect).bps # 512
      THEN [fs |-> [f EXCEPT !.win = disk_read(bsect)], res |-> "NO_FILESYSTEM"]
      ELSE [fs |-> Mounted(f, disk_read(bsect), bsect), res |-> "OK"]
-----------------------------------------------------------------------------
(* Directories.  d is a DIR: where it is, and the name looked for.         *)

Done(f, d, res) == [fs |-> f, d |-> d, res |-> res]

RECURSIVE FollowChain(_, _, _)
FollowChain(f, c, n) ==
  LET Next(g) == IF g.c < 2 \/ g.c >= f.max_clust THEN [g EXCEPT !.c = 0]
                 ELSE FollowChain(g.fs, g.c, n - 1)
  IN  IF n = 0 THEN [fs |-> f, c |-> c] ELSE Next(get_cluster(f, c))

dir_seek(f, d, idx) ==
  LET ic    == PerDir * f.csize
      inner == idx % ic
      e     == [d EXCEPT !.index = idx]
      In(x) == IF x.c = 0 THEN Done(x.fs, e, "INT_ERR")
               ELSE Done(x.fs, [e EXCEPT !.clust = x.c,
                                         !.sect = clust2sect(f, x.c) + inner \div PerDir], "OK")
  IN  IF d.sclust = 1 \/ d.sclust >= f.max_clust THEN Done(f, e, "INT_ERR")
      ELSE IF d.sclust = 0
      THEN IF idx >= f.n_rootdir THEN Done(f, e, "INT_ERR")
           ELSE Done(f, [e EXCEPT !.sect = f.dirbase + idx \div PerDir], "OK")
      ELSE In(FollowChain(f, d.sclust, idx \div ic))

dir_next(f, d) ==
  LET i   == d.index + 1
      e   == [d EXCEPT !.index = i]
      eot == [d EXCEPT !.sect = @ + 1]
      Next(g) == IF g.c <= 1 THEN Done(g.fs, eot, "INT_ERR")
                 ELSE IF g.c >= f.max_clust THEN Done(g.fs, eot, "NO_FILE")
                 ELSE Done(g.fs, [e EXCEPT !.clust = g.c, !.sect = clust2sect(f, g.c)], "OK")
  IN  IF d.sect = 0 THEN Done(f, d, "NO_FILE")
      ELSE IF i % PerDir # 0 THEN Done(f, e, "OK")
      ELSE IF d.sclust = 0
      THEN IF i >= f.n_rootdir THEN Done(f, eot, "NO_FILE")
           ELSE Done(f, [e EXCEPT !.sect = @ + 1], "OK")
      ELSE IF (i \div PerDir) % f.csize # 0 THEN Done(f, [e EXCEPT !.sect = @ + 1], "OK")
      ELSE Next(get_cluster(f, d.clust))

(* The name looked for is nm in LfnBuf.  An entry's part number ord of a   *)
(* long name must equal it, up to and with the end of the shorter one.     *)
RECURSIVE SameFrom(_, _, _, _)
SameFrom(buf, e, i, s) ==
  /\ e.chars[s] = buf[i]
  /\ (s < Part /\ e.chars[s] # NUL) => SameFrom(buf, e, i + 1, s + 1)

test_lfn(buf, e) == SameFrom(buf, e, (e.ord - 1) * Part + 1, 1)

sum_sfn(e) == e.sfn

(* ord and sum: the part of a long name that comes next, and the short     *)
(* name it belongs to; -1 for 0xFF.                                        *)
NoLfn == [ord |-> -1, sum |-> NUL]

NextPart(buf, d, e, lfn) ==
  LET l == IF e.first THEN [ord |-> e.ord, sum |-> e.sfn] ELSE lfn
  IN  IF e.ord = l.ord /\ e.sfn = l.sum /\ (d.loss => test_lfn(buf, e))
      THEN [l EXCEPT !.ord = @ - 1] ELSE [l EXCEPT !.ord = -1]

(* A name that fits in 8.3 is looked for by its short form, another one by *)
(* its long form only.                                                     *)
(* The search goes on from the last step's result r, if that was good.     *)
RECURSIVE FindFrom(_, _, _)
FindFrom(r, buf, lfn) ==
  LET d    == r.d
      g    == move_window(r.fs, d.sect)
      e    == g.win[d.index % PerDir]
      l    == IF e.t = "object" /\ (lfn.ord # 0 \/ lfn.sum # sum_sfn(e)) THEN NoLfn ELSE lfn
      next == CASE e.t = "none" -> [lfn EXCEPT !.ord = -1]
                [] e.t = "lfn"  -> NextPart(buf, d, e, lfn)
                [] OTHER        -> l
  IN  IF r.res # "OK" THEN r
      ELSE IF e.t = "end" THEN Done(g, d, "NO_FILE")
      ELSE IF e.t = "object" /\ (IF d.loss THEN l.ord = 0 ELSE e.sfn = d.sfn)
      THEN Done(g, d, "OK")
      ELSE FindFrom(dir_next(g, d), buf, next)

dir_find(f, buf, d) == FindFrom(Done(f, d, "OK"), buf, NoLfn)

-----------------------------------------------------------------------------
(* Names.  A segment of a path is a sequence of characters.                *)

RECURSIVE StripEnd(_)
StripEnd(s) ==
  IF s # <<>> /\ s[Len(s)] \in {" ", "."} THEN StripEnd(SubSeq(s, 1, Len(s) - 1)) ELSE s

RECURSIVE Leading(_)
Leading(s) == IF s # <<>> /\ s[1] \in {" ", "."} THEN 1 + Leading(Tail(s)) ELSE 0

(* Where the extension begins: after the last dot, 0 if there is none.     *)
RECURSIVE ExtAt(_, _)
ExtAt(s, n) == IF n = 0 \/ s[n] = "." THEN n ELSE ExtAt(s, n - 1)

(* The short form, from character si on; ext tells which half is filled.   *)
RECURSIVE ShortFrom(_, _, _, _)
ShortFrom(s, di, si, r) ==
  LET w    == s[si]
      full == IF r.ext THEN Len(r.e) >= ExtLen ELSE Len(r.b) >= BaseLen
      lost == [r EXCEPT !.loss = TRUE]
  IN  IF si > Len(s) THEN r
      ELSE IF w = " " \/ (w = "." /\ si # di) THEN ShortFrom(s, di, si + 1, lost)
      ELSE IF full \/ si = di
      THEN IF r.ext THEN lost
           ELSE IF si > di THEN lost
           ELSE ShortFrom(s, di, di + 1, [r EXCEPT !.ext = TRUE, !.loss = @ \/ si # di])
      ELSE ShortFrom(s, di, si + 1,
                     IF r.ext THEN [r EXCEPT !.e = Append(@, w)]
                              ELSE [r EXCEPT !.b = Append(@, w)])

(* Variant for a run: LfnBuf is not ended behind the name.                 *)
Filled_NoEnd(buf, segment, n) ==
  [i \in DOMAIN buf |-> IF i <= Len(segment) THEN segment[i] ELSE buf[i]]

(* LfnBuf with the segment in it, ended behind its first n characters.     *)
Filled(buf, segment, n) ==
  [i \in DOMAIN buf |-> IF i = n + 1 THEN NUL
                        ELSE IF i <= Len(segment) THEN segment[i] ELSE buf[i]]

(* The name in LfnBuf, its short form, and whether that has lost something. *)
create_name(buf, segment) ==
  LET s == StripEnd(segment)
      k == Leading(s)
      r == ShortFrom(s, ExtAt(s, Len(s)), k + 1,
                     [b |-> <<>>, e |-> <<>>, ext |-> FALSE, loss |-> k > 0])
  IN  [ok |-> s # <<>>, sfn |-> <<r.b, r.e>>, loss |-> r.loss,
       buf |-> Filled(buf, segment, IF s = <<>> THEN Len(buf) ELSE Len(s))]

(* From the directory sclust on.                                           *)
RECURSIVE FollowFrom(_, _, _, _)
FollowFrom(f, buf, sclust, path) ==
  LET d == [sclust |-> sclust, index |-> 0, clust |-> 0, sect |-> 0,
            sfn |-> NUL, loss |-> FALSE]
      Out(g, b, entry, res) == [fs |-> g, buf |-> b, e |-> entry, res |-> res]
      Inside(g, b, e) == IF Len(path) = 1 THEN Out(g, b, e, "OK")
                         ELSE IF ~e.dir THEN Out(g, b, NUL, "NO_PATH")
                         ELSE FollowFrom(g, b, e.clust, Tail(path))
      Found(r, b) == IF r.res = "OK" THEN Inside(r.fs, b, r.fs.win[r.d.index % PerDir])
                     ELSE Out(r.fs, b, NUL, IF r.res = "NO_FILE" /\ Len(path) > 1 THEN "NO_PATH"
                                            ELSE r.res)
      Look(s, n) == IF s.res # "OK" THEN Out(s.fs, buf, NUL, s.res)
                    ELSE IF ~n.ok THEN Out(s.fs, n.buf, NUL, "INVALID_NAME")
                    ELSE Found(dir_find(s.fs, n.buf, [s.d EXCEPT !.sfn = n.sfn, !.loss = n.loss]),
                               n.buf)
  IN  Look(dir_seek(f, d, 0), create_name(buf, Head(path)))

follow_path(f, buf, path) ==
  FollowFrom(f, buf, IF f.type = 32 THEN f.dirbase ELSE 0, path)

-----------------------------------------------------------------------------
(* Files.                                                                  *)

Closed == [fs |-> FALSE, id |-> 0, err |-> FALSE, org_clust |-> 0, fsize |-> 0, fptr |-> 0,
           csect |-> 255, curr_clust |-> 0, dsect |-> 0]

Opened(f, p) ==
  LET Unopened(g, b, res) == [fs |-> g, buf |-> b, fp |-> Closed, res |-> res]
      Found(r) == IF r.res # "OK" THEN Unopened(r.fs, r.buf, r.res)
                  ELSE IF r.e.dir THEN Unopened(r.fs, r.buf, "NO_FILE")
                  ELSE [fs |-> r.fs, buf |-> r.buf, res |-> "OK",
                        fp |-> [Closed EXCEPT !.fs = TRUE, !.id = r.fs.id, !.org_clust = r.e.clust,
                                              !.fsize = r.e.size]]
      On(m) == IF m.res # "OK" THEN Unopened(m.fs, lfnbuf, m.res)
               ELSE Found(follow_path(m.fs, lfnbuf, p))
  IN  On(auto_mount(f))

validate(f, p) == p.fs /\ f.type # 0 /\ p.id = f.id

Abort(f, p, data, res) == [fs |-> f, fp |-> [p EXCEPT !.err = TRUE], data |-> data, res |-> res]

(* The data of n units from unit u of sector sect on; whole sectors, if    *)
(* there are several.                                                      *)
Units(sect, u, n) == [i \in 1 .. n |-> disk_read(sect + (u + i - 1) \div SS)[(u + i - 1) % SS]]

(* The file goes on in the cluster that follows, when the last one is used *)
(* up (and when nothing was read yet: csect is 255).                       *)
NextCluster(f, p) ==
  IF p.csect < f.csize THEN [fs |-> f, c |-> p.curr_clust]
  ELSE IF p.fptr = 0 THEN [fs |-> f, c |-> p.org_clust]
  ELSE get_cluster(f, p.curr_clust)

(* As many whole sectors as the cluster still has go straight to the       *)
(* caller's buffer.                                                        *)
WholeSectors(f, csect, btr) == Least(btr \div SS, f.csize - csect)

(* The cluster n is known if a sector begins here.  A part of a sector     *)
(* goes through the window.                                                *)
ReadPart(f, p, btr, data) ==
  LET from == p.fptr % SS
      rcnt == Least(SS - from, btr)
      Out(g) == [fs |-> g, fp |-> [p EXCEPT !.fptr = @ + rcnt], btr |-> btr - rcnt,
                 data |-> data \o [i \in 1 .. rcnt |-> g.win[from + i - 1]], res |-> "OK"]
  IN  Out(move_window(f, p.dsect))

ReadSector(n, f, p, btr, data) ==
  LET p1   == [p EXCEPT !.curr_clust = n.c, !.csect = IF p.csect >= f.csize THEN 0 ELSE @]
      sect == clust2sect(f, n.c) + p1.csect
      cc   == WholeSectors(f, p1.csect, btr)
      Err(q) == [fs |-> n.fs, fp |-> [q EXCEPT !.err = TRUE], btr |-> btr, data |-> data,
                 res |-> "INT_ERR"]
  IN  IF n.c <= 1 THEN Err(p)
      ELSE IF clust2sect(f, n.c) = 0 THEN Err(p1)
      ELSE IF cc = 0
      THEN ReadPart(n.fs, [p1 EXCEPT !.dsect = sect, !.csect = @ + 1], btr, data)
      ELSE [fs |-> n.fs, fp |-> [p1 EXCEPT !.csect = @ + cc, !.fptr = @ + SS * cc],
            btr |-> btr - SS * cc, data |-> data \o Units(sect, 0, SS * cc), res |-> "OK"]

RECURSIVE ReadFrom(_)
ReadFrom(r) ==
  IF r.res # "OK" \/ r.btr = 0 THEN r
  ELSE ReadFrom(IF r.fp.fptr % SS = 0
                THEN ReadSector(NextCluster(r.fs, r.fp), r.fs, r.fp, r.btr, r.data)
                ELSE ReadPart(r.fs, r.fp, r.btr, r.data))

Read(f, p, btr) ==
  IF ~validate(f, p) THEN [fs |-> f, fp |-> p, data |-> <<>>, res |-> "INVALID_OBJECT"]
  ELSE IF p.err THEN [fs |-> f, fp |-> p, data |-> <<>>, res |-> "INT_ERR"]
  ELSE ReadFrom([fs |-> f, fp |-> p, btr |-> Least(btr, p.fsize - p.fptr), data |-> <<>>,
                 res |-> "OK"])

(* The clusters of the chain are followed until ofs lies in one.           *)
RECURSIVE SeekFrom(_, _, _)
SeekFrom(f, p, ofs) ==
  LET bcs  == f.csize * SS
      g    == get_cluster(f, p.curr_clust)
      q    == [p EXCEPT !.fptr = @ + ofs, !.csect = ofs \div SS]
      sect == clust2sect(f, p.curr_clust) + q.csect
  IN  IF ofs > bcs
      THEN IF g.c <= 1 \/ g.c >= f.max_clust THEN Abort(g.fs, p, <<>>, "INT_ERR")
           ELSE SeekFrom(g.fs, [p EXCEPT !.curr_clust = g.c, !.fptr = @ + bcs], ofs - bcs)
      ELSE IF ofs % SS = 0 THEN [fs |-> f, fp |-> q, res |-> "OK"]
      ELSE IF clust2sect(f, p.curr_clust) = 0 THEN Abort(f, q, <<>>, "INT_ERR")
      ELSE [fs |-> f, res |-> "OK",
            fp |-> [q EXCEPT !.csect = @ + 1,
                             !.dsect = IF q.fptr % SS # 0 THEN sect ELSE @]]

(* Is ofs in the cluster of the last unit read, or in a later one?         *)
SameOrLater(bcs, ifptr, ofs) == ifptr > 0 /\ (ofs - 1) \div bcs >= (ifptr - 1) \div bcs

(* Variant for a run: of the unit that would be read next.                 *)
Here_Next(bcs, ifptr) == (ifptr \div bcs) * bcs

(* Where the cluster of the last unit read begins.                         *)
Here(bcs, ifptr) == ((ifptr - 1) \div bcs) * bcs

Clip(ofs, fsize) == Least(ofs, fsize)

Seek(f, p, offset) ==
  LET ofs  == Clip(offset, p.fsize)
      bcs  == f.csize * SS
      top  == [p EXCEPT !.fptr = 0, !.csect = 255]
      here == Here(bcs, p.fptr)
  IN  IF ~validate(f, p) THEN [fs |-> f, fp |-> p, res |-> "INVALID_OBJECT"]
      ELSE IF p.err THEN [fs |-> f, fp |-> p, res |-> "INT_ERR"]
      ELSE IF ofs = 0 THEN [fs |-> f, fp |-> top, res |-> "OK"]
      ELSE IF SameOrLater(bcs, p.fptr, ofs)
      THEN SeekFrom(f, [top EXCEPT !.fptr = here], ofs - here)
      ELSE IF p.org_clust = 0
      THEN [fs |-> f, fp |-> [top EXCEPT !.curr_clust = 0], res |-> "OK"]
      ELSE SeekFrom(f, [top EXCEPT !.curr_clust = p.org_clust], ofs)
-----------------------------------------------------------------------------
Unmounted == [type |-> 0, fatbase |-> 0, csize |-> 0, n_rootdir |-> 0, max_clust |-> 0,
              dirbase |-> 0, database |-> 0, win |-> NUL, winsect |-> 0, id |-> 0]

Segments == UNION {{p[i] : i \in DOMAIN p} : p \in Paths}

(* LfnBuf is longer than any name on the disk and any segment.             *)
MaxLfn == Part * (1 + CHOOSE n \in 1 .. 20 : \A s \in Segments : Len(s) < n * Part)

(* After f_mount.                                                          *)
FatInit ==
  /\ disk \in Disks
  /\ fs = Unmounted
  /\ lfnbuf = [i \in 1 .. MaxLfn |-> NUL]
  /\ fp = Closed

f_open ==
  LET Opens(r) == fs' = r.fs /\ lfnbuf' = r.buf /\ fp' = r.fp /\ UNCHANGED disk
  IN  \E p \in Paths : Opens(Opened(fs, p))

f_lseek ==
  LET Moved(r) == fs' = r.fs /\ fp' = r.fp /\ UNCHANGED <<disk, lfnbuf>>
  IN  \E ofs \in 0 .. fp.fsize + 1 : Moved(Seek(fs, fp, ofs))

f_read ==
  LET Moved(r) == fs' = r.fs /\ fp' = r.fp /\ UNCHANGED <<disk, lfnbuf>>
  IN  \E btr \in 1 .. MaxLen : Moved(Read(fs, fp, btr))

f_close ==
  /\ fp' = IF validate(fs, fp) THEN [fp EXCEPT !.fs = FALSE] ELSE fp
  /\ UNCHANGED <<disk, fs, lfnbuf>>

FatNext == f_open \/ f_lseek \/ f_read \/ f_close

FatSpec == FatInit /\ [][FatNext]_fat
-----------------------------------------------------------------------------
(* Properties.                                                             *)

(* What disk.files says of the file that is open.                          *)
Own == CHOOSE x \in {disk.files[p] : p \in DOMAIN disk.files} :
         x.clust = fp.org_clust /\ x.size = fp.fsize

(* The answer r to a read of n units at ofs has the units of the file that *)
(* lie there, up to its end.  It is cut short only if the chain is.        *)
IsRight(r, ofs, n) ==
  LET want == SubSeq(Own.data, ofs + 1, Least(ofs + n, Own.size))
  IN  IF r.res = "OK" THEN r.data = want
      ELSE r.res = "INT_ERR" /\ ofs + n > Own.chained /\ r.data = SubSeq(want, 1, Len(r.data))

Usable == fp.fs /\ ~fp.err

(* Wherever the seeks and reads so far have left the file pointer, the     *)
(* cluster and the two windows: a read goes on there with the file's own   *)
(* data.                                                                   *)
ReadsOn == \A n \in 1 .. MaxLen : IsRight(Read(fs, fp, n), fp.fptr, n)

Continues(s, ofs, n) ==
  IF s.res = "OK" THEN IsRight(Read(s.fs, s.fp, n), ofs, n)
  ELSE s.res = "INT_ERR" /\ ofs > Own.chained

(* And so does a seek and a read, as the program serves the game's disc    *)
(* reads: the data is that at the place, whatever was read before          *)
(* (ehci/ff.c:1659-1736, 1924-2014).                                       *)
DiscReads ==
  fp.fs /\ ~fp.err =>
    /\ ReadsOn
    /\ \A ofs \in 0 .. fp.fsize, n \in 1 .. MaxLen :
         Continues(Seek(fs, fp, ofs), ofs, n)

(* A name that is longer than the name q of an entry is found there, too,  *)
(* if q fills the parts it is kept in to the last character: test_lfn sees *)
(* no end.                                                                 *)
Mistaken(q, n) ==
  \/ q = n
  \/ Len(q) < Len(n) /\ Len(q) % Part = 0 /\ q = SubSeq(n, 1, Len(q))

OpensOwn(r, p) ==
  LET like == {q \in DOMAIN disk.files :
                 Len(q) = Len(p) /\ \A i \in DOMAIN p : Mistaken(q[i], p[i])}
      Is(q) == r.fp.org_clust = disk.files[q].clust /\ r.fp.fsize = disk.files[q].size
  IN  IF ~disk.fat THEN r.res = "NO_FILESYSTEM"
      ELSE IF like = {} THEN r.res \in {"NO_FILE", "NO_PATH", "INVALID_NAME"}
      ELSE r.res = "OK" /\ \E q \in like : Is(q)

(* A path opens its own file, or one that is mistaken for it, whatever     *)
(* names LfnBuf has held; a file that is there is found; and nothing is    *)
(* found on what is no FAT disk.                                           *)
OpensNamed == \A p \in Paths : OpensOwn(Opened(fs, p), p)
=============================================================================
