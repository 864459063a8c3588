------------------------------- MODULE FatFiles -------------------------------
(***************************************************************************)
(* FatFs as the DML build uses it (DML/ff.c): files that are opened, read, *)
(* written, closed, deleted and renamed on the volume of FatVolume, and a  *)
(* power that fails between two sector writes.  files says what every path *)
(* should hold: it follows from the calls and their results alone, and the *)
(* properties compare it with the volume.                                  *)
(*                                                                         *)
(* As in the program a path is open in one handle at most and no open file *)
(* is deleted or renamed (ff.c is built with _FS_SHARE 0 and checks none). *)
(***************************************************************************)
EXTENDS FatVolume, FiniteSetsExt, SequencesExt

CONSTANTS
  Handles,   \* file objects (FIL)
  Paths,     \* paths that are used: [abs, names]
  FirstDisk, \* the sectors of the card when it is put in
  Counts,    \* bound: units that are read or written in one call
  Positions, \* bound: where f_lseek goes
  MaxLen,    \* bound: units in a file
  Calls,     \* bound: taken besides f_open and f_close
  MaxOps,    \* bound: calls
  MaxCuts    \* bound: power cuts

VARIABLES
  vol,       \* the volume
  fp,        \* the file objects
  files,     \* path -> what it holds, see File
  cwd,       \* the names of the current directory
  unsafe,    \* paths whose clusters the table and the directory may disagree on
  ruined,    \* a directory holds what is no directory
  ops, cuts

vars == <<vol, fp, files, cwd, unsafe, ruined, ops, cuts>>

Modes == {"existing", "always", "new"}

Anything   == -1      \* data that nobody wrote
None       == [t |-> "none", data |-> <<>>]
Dir        == [t |-> "dir", data |-> <<>>]
Broken     == [t |-> "broken", data |-> <<>>]
File(data) == [t |-> "file", data |-> data]

(* path is not in a FIL, and shrunk is not: truncated and not synchronised *)
(* yet.  Both are for the properties.                                      *)
Closed == [open |-> FALSE, write |-> FALSE, written |-> FALSE, dirty |-> FALSE, shrunk |-> FALSE,
           fptr |-> 0, fsize |-> 0, sclust |-> 0, clust |-> 0, dsect |-> 0,
           buf |-> DataSector, dir_sect |-> 0, slot |-> 0, path |-> <<>>]

(* The names from the root on.                                             *)
Full(p) == IF p.abs THEN p.names ELSE cwd \o p.names

-----------------------------------------------------------------------------
(* What the volume says: the disk, with the window over it.                *)

Sector(v, s) == IF v.wflag /\ v.winsect = s THEN v.win ELSE v.disk[s]
Fat(v, c)    == Sector(v, FATBASE + c \div PerFat)[c % PerFat]

(* The clusters of a chain; one that runs in circles is cut.               *)
RECURSIVE ChainFrom(_, _, _)
ChainFrom(v, c, n) ==
  IF c \notin Clusters \/ n = 0 THEN <<>> ELSE <<c>> \o ChainFrom(v, Fat(v, c), n - 1)
Chain(v, c) == ChainFrom(v, c, NFatEnt)

SectorsOf(chain) ==
  [i \in 1 .. Len(chain) * CSize |-> clust2sect(chain[1 + (i - 1) \div CSize]) + ((i - 1) % CSize)]

DirChain(v, c) == Chain(v, IF c = 0 THEN DIRBASE ELSE c)
Sectors(v, c) == IF c = 0 /\ ~Fat32 THEN [i \in 1 .. RootEnts \div PerDir |-> ROOT + i - 1]
                 ELSE SectorsOf(DirChain(v, c))

(* The entries of a directory, up to the one that ends it.                 *)
IsDirSector(x) == DOMAIN x = 0 .. PerDir - 1
Slot(x, k) == IF IsDirSector(x) THEN x[k] ELSE Blank
Slots(v, sectors) ==
  [i \in 1 .. Len(sectors) * PerDir |->
     Slot(Sector(v, sectors[1 + (i - 1) \div PerDir]), (i - 1) % PerDir)]
UpToEnd(es) == SubSeq(es, 1, Min({i \in DOMAIN es : es[i].t = "end"} \cup {Len(es) + 1}) - 1)
Entries(v, c) == UpToEnd(Slots(v, Sectors(v, c)))

(* Entry i of es is an object with the name n, with all the parts of it.   *)
HasName(es, i, n) ==
  /\ es[i].t = "object"
  /\ IF n.ext = 0 THEN es[i].sfn = <<n.base, 0>>
     ELSE /\ i > n.ext
          /\ \A k \in 1 .. n.ext :
               LET x == es[i - k]
               IN  /\ x.t = "lfn" /\ x.ord = k /\ x.name = n.id /\ x.sfn = es[i].sfn
                   /\ x.lle = (k = n.ext)

WithName(es, n) == {es[i] : i \in {j \in DOMAIN es : HasName(es, j, n)}}
Named(v, c, n)  == WithName(Entries(v, c), n)

(* The entries with this path: one, or none.                               *)
RECURSIVE Lookup(_, _, _)
Lookup(v, c, names) ==
  LET Below(here) == IF Len(names) = 1 THEN here
                     ELSE UNION {Lookup(v, e.clust, Tail(names)) : e \in {x \in here : x.dir}}
  IN  Below(Named(v, c, Head(names)))

(* A sector that held a directory reads as data nobody wrote.              *)
Data(x) == IF DOMAIN x = 0 .. Units - 1 THEN x ELSE DataSector

(* A file of this size from cluster c on, if the chain is long enough.     *)
ReadAll(v, sectors, size) ==
  IF Len(sectors) * Units < size THEN Broken
  ELSE File([i \in 1 .. size |->
               Data(Sector(v, sectors[1 + (i - 1) \div Units]))[(i - 1) % Units]])
FileAt(v, c, size) == ReadAll(v, SectorsOf(Chain(v, c)), size)

Object(v, e) == IF e.dir THEN Dir ELSE FileAt(v, e.clust, e.size)
Held(v, names) == {Object(v, e) : e \in Lookup(v, 0, names)}
OneOf(objects) == IF objects = {} THEN None ELSE CHOOSE x \in objects : TRUE

-----------------------------------------------------------------------------
(* One file object f on the volume v.                                      *)

Clean(v, f) == IF f.dirty THEN disk_write(v, f.dsect, f.buf) ELSE v

(* The sector buffer is filled, and written back before if it is dirty.    *)
Fill(v, f, s) ==
  LET w == Clean(v, f)
  IN  [v |-> w, f |-> [f EXCEPT !.dirty = FALSE, !.buf = Data(w.disk[s]), !.dsect = s]]

(* A file that is created is empty; it gives up the clusters it had.       *)
Created(v, d) ==
  LET e == At(v, d)
      w == Put(v, d, [e EXCEPT !.size = 0, !.clust = 0])
  IN  IF e.clust = 0 THEN w
      ELSE move_window([remove_chain(w, e.clust).v EXCEPT !.last_clust = e.clust - 1], v.winsect)

(* f_open gives the volume and, if all goes well, a file object.           *)
Failed(v, res) == [v |-> v, res |-> res, f |-> Closed]

FileObject(v, d, made, write) ==
  [v |-> v, res |-> "OK",
   f |-> [Closed EXCEPT !.open = TRUE, !.write = write, !.written = made,
                        !.fsize = At(v, d).size, !.sclust = At(v, d).clust,
                        !.dir_sect = v.winsect, !.slot = d.index % PerDir]]

Make(r, write) ==
  IF r.res # "OK" THEN Failed(r.v, r.res) ELSE FileObject(Created(r.v, r.d), r.d, TRUE, write)

OpenFound(p, mode, write) ==
  IF mode # "existing" /\ p.res = "NO_FILE" THEN Make(dir_register(p.v, p.d), write)
  ELSE IF p.res # "OK" THEN Failed(p.v, p.res)
  ELSE IF At(p.v, p.d).dir THEN Failed(p.v, IF mode = "existing" THEN "NO_FILE" ELSE "DENIED")
  ELSE IF mode = "new" THEN Failed(p.v, "EXIST")
  ELSE IF mode = "always" THEN Make(p, write)
  ELSE FileObject(p.v, p.d, FALSE, write)

f_open(v, path, mode, write) == OpenFound(follow_path(v, path), mode, write)

(* The cluster f.fptr is in, when f.fptr is on the boundary of a cluster.  *)
InCluster(f) == (f.fptr \div Units) % CSize

(* f_read: the units from f.fptr on, n at most.  The loops of f_read and   *)
(* f_write keep n, what is left to do.  g has the cluster.                 *)
ReadCluster(v, f) ==
  IF InCluster(f) # 0 THEN [v |-> v, c |-> f.clust]
  ELSE IF f.fptr = 0 THEN [v |-> v, c |-> f.sclust] ELSE get_fat(v, f.clust)

ReadPart(b, n, out) ==
  LET from == b.f.fptr % Units
      rcnt == Min({n, Units - from})
  IN  [v |-> b.v, f |-> [b.f EXCEPT !.fptr = @ + rcnt], n |-> n - rcnt,
       out |-> out \o [i \in 1 .. rcnt |-> b.f.buf[from + i - 1]]]

ReadSector(g, f, n, out) ==
  LET s  == clust2sect(g.c) + InCluster(f)
      cc == Min({n \div Units, CSize - InCluster(f)})
      at == [f EXCEPT !.clust = g.c]
      Held_(k) == IF f.dirty /\ f.dsect = k THEN f.buf ELSE Data(g.v.disk[k])
  IN  IF InCluster(f) = 0 /\ g.c \notin Clusters
      THEN [v |-> g.v, f |-> f, n |-> 0, out |-> <<"error">>]
      ELSE IF cc > 0
      THEN [v |-> g.v, f |-> [at EXCEPT !.fptr = @ + cc * Units], n |-> n - cc * Units,
            out |-> out \o [i \in 1 .. cc * Units |-> Held_(s + (i - 1) \div Units)[(i - 1) % Units]]]
      ELSE ReadPart(IF f.dsect = s THEN [v |-> g.v, f |-> at] ELSE Fill(g.v, at, s), n, out)

RECURSIVE ReadLoop(_)
ReadLoop(r) ==
  IF r.n = 0 THEN r
  ELSE ReadLoop(IF r.f.fptr % Units = 0
                THEN ReadSector(ReadCluster(r.v, r.f), r.f, r.n, r.out)
                ELSE ReadPart([v |-> r.v, f |-> r.f], r.n, r.out))

f_read(v, f, n) ==
  ReadLoop([v |-> v, f |-> f, n |-> Min({n, f.fsize - f.fptr}), out |-> <<>>])

(* f_write: n units x.  Whole sectors are written to the disk, a part of   *)
(* one to the buffer.                                                      *)
RECURSIVE WriteSectors(_, _, _, _)
WriteSectors(v, s, cc, x) ==
  IF cc = 0 THEN v
  ELSE WriteSectors(disk_write(v, s, [u \in DOMAIN DataSector |-> x]), s + 1, cc - 1, x)

(* Variant for a run: a buffer that holds an old sector stays dirty.       *)
Refill_Dirty(f, s, cc, x) == f

(* Sectors that are written around the buffer replace what it holds.       *)
Refill(f, s, cc, x) ==
  IF f.dsect \in s .. s + cc - 1
  THEN [f EXCEPT !.buf = [u \in DOMAIN DataSector |-> x], !.dirty = FALSE] ELSE f

WriteCluster(v, f) ==
  IF InCluster(f) # 0 THEN [v |-> v, c |-> f.clust]
  ELSE IF f.fptr = 0 /\ f.sclust # 0 THEN [v |-> v, c |-> f.sclust]
  ELSE create_chain(v, IF f.fptr = 0 THEN 0 ELSE f.clust)

WritePart(v, f, n, x) ==
  LET from == f.fptr % Units
      wcnt == Min({n, Units - from})
  IN  [v |-> v, n |-> n - wcnt,
       f |-> [f EXCEPT !.buf = [u \in DOMAIN DataSector |->
                                  IF u \in from .. from + wcnt - 1 THEN x ELSE @[u]],
                       !.dirty = TRUE, !.fptr = @ + wcnt]]

(* No cluster: the disk is full.                                           *)
WriteSector(g, f, n, x) ==
  LET s  == clust2sect(g.c) + InCluster(f)
      cc == Min({n \div Units, CSize - InCluster(f)})
      w  == Clean(g.v, f)
      at == [f EXCEPT !.clust = g.c, !.dirty = FALSE, !.sclust = IF f.fptr = 0 THEN g.c ELSE @]
  IN  IF InCluster(f) = 0 /\ g.c \notin Clusters THEN [v |-> g.v, f |-> f, n |-> 0]
      ELSE IF cc > 0
      THEN [v |-> WriteSectors(w, s, cc, x), n |-> n - cc * Units,
            f |-> [Refill(at, s, cc, x) EXCEPT !.fptr = @ + cc * Units]]
      ELSE WritePart(w, [at EXCEPT !.dsect = s,
                           !.buf = IF f.dsect # s /\ f.fptr < f.fsize THEN Data(w.disk[s]) ELSE @],
                     n, x)

RECURSIVE WriteLoop(_, _)
WriteLoop(r, x) ==
  IF r.n = 0 THEN r
  ELSE WriteLoop(IF r.f.fptr % Units = 0
                 THEN WriteSector(WriteCluster(r.v, r.f), r.f, r.n, x)
                 ELSE WritePart(r.v, r.f, r.n, x), x)

Longer(r) == [v |-> r.v, f |-> [r.f EXCEPT !.fsize = Max({@, r.f.fptr}), !.written = TRUE]]

f_write(v, f, n, x) == Longer(WriteLoop([v |-> v, f |-> f, n |-> n], x))

Entered(v, f) ==
  [v EXCEPT !.win[f.slot].size = f.fsize, !.win[f.slot].clust = f.sclust, !.wflag = TRUE]

(* f_sync: the buffer, then the tables, then the entry of the file.        *)
f_sync(v, f) ==
  LET w == move_window(Clean(v, f), f.dir_sect)
  IN  IF ~f.written THEN [v |-> v, f |-> f]
      ELSE [v |-> sync(Entered(w, f)),
            f |-> [f EXCEPT !.dirty = FALSE, !.written = FALSE, !.shrunk = FALSE]]

f_close(v, f) == [v |-> f_sync(v, f).v, f |-> Closed]

(* f_lseek follows the chain from cluster g.c, rest units to go; a file    *)
(* that is written is stretched on the way, as far as the disk lets it.    *)
RECURSIVE SeekLoop(_, _, _)
SeekLoop(g, f, rest) ==
  LET bcs == CSize * Units
      at  == [f EXCEPT !.clust = g.c, !.fptr = @ + Min({rest, bcs})]
  IN  IF g.c \notin Clusters THEN [v |-> g.v, f |-> f, sect |-> 0]
      ELSE IF rest <= bcs
      THEN [v |-> g.v, f |-> at,
            sect |-> IF rest % Units = 0 THEN 0 ELSE clust2sect(g.c) + rest \div Units]
      ELSE SeekLoop(IF f.write THEN create_chain(g.v, g.c) ELSE get_fat(g.v, g.c), at, rest - bcs)

Clip(f, pos) == IF pos > f.fsize /\ ~f.write THEN f.fsize ELSE pos

SeekFromTop(g, f, ofs) ==
  SeekLoop(g, [f EXCEPT !.fptr = 0, !.sclust = g.c, !.clust = g.c], ofs)

SeekTo(v, f, ofs) ==
  LET bcs  == CSize * Units
      from == ((f.fptr - 1) \div bcs) * bcs
  IN  IF ofs = 0 THEN [v |-> v, f |-> [f EXCEPT !.fptr = 0], sect |-> 0]
      ELSE IF f.fptr > 0 /\ (ofs - 1) \div bcs >= (f.fptr - 1) \div bcs
      THEN SeekLoop([v |-> v, c |-> f.clust], [f EXCEPT !.fptr = from], ofs - from)
      ELSE SeekFromTop(IF f.sclust = 0 THEN create_chain(v, 0) ELSE [v |-> v, c |-> f.sclust], f, ofs)

(* The buffer is filled with the sector the pointer is in.                 *)
Refilled(s) == IF s.f.fptr % Units # 0 /\ s.sect # s.f.dsect THEN Fill(s.v, s.f, s.sect)
               ELSE [v |-> s.v, f |-> s.f]

Sought(b) == [v |-> b.v, f |-> [b.f EXCEPT !.fsize = Max({@, b.f.fptr}),
                                           !.written = @ \/ b.f.fptr > b.f.fsize]]

f_lseek(v, f, pos) == Sought(Refilled(SeekTo(v, f, Clip(f, pos))))

(* f_truncate: the file ends where its pointer is.                         *)
f_truncate(v, f) ==
  LET g    == get_fat(v, f.clust)
      tail == IF g.c < NFatEnt THEN remove_chain(put_fat(g.v, f.clust, EOC), g.c).v ELSE g.v
      cut  == [f EXCEPT !.fsize = f.fptr, !.written = TRUE, !.shrunk = TRUE]
  IN  IF f.fsize <= f.fptr THEN [v |-> v, f |-> f]
      ELSE IF f.fptr = 0
      THEN [v |-> remove_chain(v, f.sclust).v, f |-> [cut EXCEPT !.sclust = 0]]
      ELSE [v |-> tail, f |-> cut]

-----------------------------------------------------------------------------
(* Names.                                                                  *)

(* Variant for a run: the clusters are freed before the entry goes.        *)
Erase_Later(v, d, c) == dir_remove(IF c # 0 THEN remove_chain(v, c).v ELSE v, d)

Freed(r, c) == IF r.res = "OK" /\ c # 0 THEN [r EXCEPT !.v = remove_chain(@, c).v] ELSE r

Erase(v, d, c) == Freed(dir_remove(v, d), c)

Synced(r) == IF r.res = "OK" THEN [r EXCEPT !.v = sync(@)] ELSE r

(* Only an empty directory that is not the current one can be deleted: sub *)
(* says if there is an object in it.                                       *)
EraseEmpty(sub, d, e) ==
  IF sub.res = "OK" \/ (e.dir /\ e.clust = sub.v.cdir) THEN Done(sub.v, d, "DENIED")
  ELSE IF sub.res # "NO_FILE" THEN sub
  ELSE Synced(Erase(sub.v, d, e.clust))

UnlinkFound(p) ==
  LET e == At(p.v, p.d)
  IN  IF p.res # "OK" THEN p
      ELSE EraseEmpty(IF e.dir THEN dir_read(dir_sdi(p.v, [p.d EXCEPT !.sclust = e.clust], 2))
                      ELSE Done(p.v, p.d, "NO_FILE"), p.d, e)

f_unlink(v, path) == UnlinkFound(follow_path(v, path))

(* A directory's own first two entries are . and ..                        *)
Dots(v, c, d) ==
  LET up == IF Fat32 /\ d.sclust = DIRBASE THEN 0 ELSE d.sclust
  IN  [move_window(v, 0) EXCEPT
         !.win = [DirSector EXCEPT ![0] = [Dot EXCEPT !.clust = c], ![1] = [Dot EXCEPT !.clust = up]],
         !.winsect = clust2sect(c), !.wflag = TRUE]

RestCleared(v, c) ==
  [ClearSectors([move_window(v, 0) EXCEPT !.win = DirSector, !.winsect = clust2sect(c) + 1], CSize - 1)
   EXCEPT !.winsect = clust2sect(c) + CSize - 1]

EnterDir(r, d, c) ==
  IF r.res # "OK" THEN Done(remove_chain(r.v, c).v, d, r.res)
  ELSE Synced([r EXCEPT !.v = Put(@, r.d, [At(@, r.d) EXCEPT !.dir = TRUE, !.clust = c])])

MakeDir(g, d) ==
  IF g.c = 0 THEN Done(g.v, d, "DENIED")
  ELSE EnterDir(dir_register(RestCleared(Dots(g.v, g.c, d), g.c), d), d, g.c)

MkdirFound(p) ==
  IF p.res = "OK" THEN [p EXCEPT !.res = "EXIST"]
  ELSE IF p.res # "NO_FILE" THEN p ELSE MakeDir(create_chain(p.v, 0), p.d)

f_mkdir(v, path) == MkdirFound(follow_path(v, path))

(* The new entry is made, then the old one at d goes; they share the       *)
(* clusters.  A directory that moves has its .. changed.                   *)
MoveUp(v, d, e, to) ==
  LET x == move_window(v, clust2sect(e.clust))
  IN  IF ~e.dir \/ d.sclust = to THEN v
      ELSE IF ~x.win[1].dir THEN x
      ELSE [x EXCEPT !.win[1].clust = IF Fat32 /\ to = DIRBASE THEN 0 ELSE to, !.wflag = TRUE]

Renamed(d, e, r) ==
  LET w == Put(r.v, r.d, [At(r.v, r.d) EXCEPT !.dir = e.dir, !.clust = e.clust, !.size = e.size])
  IN  IF r.res # "OK" THEN r ELSE Synced(dir_remove(MoveUp(w, d, e, r.d.sclust), d))

RenameTo(d, e, q) ==
  IF q.res = "OK" THEN [q EXCEPT !.res = "EXIST"]
  ELSE IF q.res # "NO_FILE" THEN q ELSE Renamed(d, e, dir_register(q.v, q.d))

RenameFound(p, new) ==
  IF p.res # "OK" THEN p ELSE RenameTo(p.d, At(p.v, p.d), follow_path(p.v, new))

f_rename(v, old, new) == RenameFound(follow_path(v, old), new)

EnterFound(p) ==
  IF p.res = "OK" /\ At(p.v, p.d).dir
  THEN [p EXCEPT !.v.cdir = At(p.v, p.d).clust] ELSE [p EXCEPT !.res = "NO_PATH"]

f_chdir(v, path) ==
  IF path.names = <<>> THEN Done([v EXCEPT !.cdir = 0], [sclust |-> 0], "OK")
  ELSE EnterFound(follow_path(v, path))

(* The free clusters are counted if their number is not known.             *)
f_getfree(v) ==
  LET last == FoldLeft(move_window, v, [i \in 1 .. FSIZE |-> FATBASE + i - 1])
      n    == Cardinality({c \in 0 .. NFatEnt - 1 : Fat(v, c) = 0})
  IN  IF v.free_clust \in 0 .. NFatEnt - 2 THEN v
      ELSE [last EXCEPT !.free_clust = n, !.fsi_flag = Fat32]

-----------------------------------------------------------------------------
(* Calls.                                                                  *)

FullPaths == {p.names : p \in {q \in Paths : q.abs}}

Init ==
  /\ vol = Unmounted(FirstDisk)
  /\ fp = [h \in Handles |-> Closed]
  /\ files = [p \in FullPaths |-> OneOf(Held(vol, p))]
  /\ cwd = <<>>
  /\ unsafe = {} /\ ruined = FALSE
  /\ ops = 0 /\ cuts = 0

(* The power fails when the first k sectors of a call have been written:   *)
(* the paths that the call or an open file was about to change hold what   *)
(* the disk now says.  Where the tables are behind, they are not safe.     *)
Wrote(log, k) == {log[i][1] : i \in 1 .. k}
After(log, k) == FoldLeft(LAMBDA d, w : [d EXCEPT ![w[1]] = w[2]], vol.disk, SubSeq(log, 1, k))

Changing == {fp[h].path : h \in {g \in Handles : fp[g].open /\ fp[g].written}}
Truncated == {fp[h].path : h \in {g \in Handles : fp[g].open /\ fp[g].shrunk}}

DirClusters(v) ==
  Range(DirChain(v, 0)) \cup
  UNION {Range(Chain(v, e.clust)) : e \in UNION {{x \in Lookup(v, 0, p) : x.dir} : p \in FullPaths}}

NewDirs(now) == DirClusters(now) \ DirClusters(vol)

CutTo(now, written, changed, loose) ==
  /\ cuts < MaxCuts
  /\ cuts' = cuts + 1
  /\ vol' = now
  /\ fp' = [h \in Handles |-> Closed]
  /\ files' = [p \in FullPaths |-> IF p \in changed \cup Changing THEN OneOf(Held(now, p))
                                   ELSE files[p]]
  /\ cwd' = <<>>
  /\ unsafe' = unsafe \cup Truncated \cup loose
  /\ ruined' = (ruined \/ \E c \in NewDirs(now), i \in 0 .. CSize - 1 : clust2sect(c) + i \notin written)

Cut(log, k, changed, loose) == CutTo(Unmounted(After(log, k)), Wrote(log, k), changed, loose)

(* A call leaves r.v, r.fp, r.files and r.cwd behind; r.changed are the    *)
(* paths whose entry or data it writes, r.loose those that share clusters  *)
(* with others, or with the free ones, while it runs.                      *)
Same == [v |-> vol, fp |-> fp, files |-> files, cwd |-> cwd, changed |-> {}, loose |-> {}]

Finish(r) ==
  /\ vol' = [r.v EXCEPT !.log = <<>>]
  /\ fp' = r.fp /\ files' = r.files /\ cwd' = r.cwd
  /\ UNCHANGED <<unsafe, ruined, cuts>>

Call(r) ==
  /\ ops < MaxOps /\ ~ruined
  /\ ops' = ops + 1
  /\ \/ Finish(r)
     \/ cuts < MaxCuts /\ \E k \in 0 .. Len(r.v.log) - 1 : Cut(r.v.log, k, r.changed, r.loose)

PowerCut ==
  /\ vol.mounted
  /\ UNCHANGED ops
  /\ Cut(<<>>, 0, {}, {})

InUse(p)  == \E h \in Handles : fp[h].open /\ fp[h].path = p
Usable(p) == Full(p) \in FullPaths \ unsafe
v0 == chk_mounted(vol)

Opens(h, n, mode, r) ==
  LET ok == r.res = "OK"
  IN  Call([Same EXCEPT !.v = r.v,
                        !.fp[h] = IF ok THEN [r.f EXCEPT !.path = n] ELSE @,
                        !.files[n] = IF ok /\ mode # "existing" THEN File(<<>>) ELSE @,
                        !.changed = IF mode # "existing" THEN {n} ELSE {}])

Open(h, p, mode, write) ==
  /\ ~fp[h].open /\ Usable(p) /\ ~InUse(Full(p))
  /\ mode # "existing" => write
  /\ Opens(h, Full(p), mode, f_open(v0, p, mode, write))

(* What a file object's call makes of its file.                            *)
On(h, r, data, changed, loose) ==
  LET n == fp[h].path
  IN  /\ fp[h].open
      /\ Call([Same EXCEPT !.v = r.v, !.fp[h] = r.f, !.files[n] = File(data),
                           !.changed = IF changed THEN {n} ELSE {},
                           !.loose = IF loose THEN {n} ELSE {}])

DataOf(h) == files[fp[h].path].data

Read(h, n) ==
  /\ fp[h].fptr < fp[h].fsize
  /\ On(h, f_read(vol, fp[h], n), DataOf(h), FALSE, FALSE)

(* Every write has a value of its own.                                     *)
Write(h, n) ==
  LET from == fp[h].fptr
      old  == DataOf(h)
      New(to) == [i \in 1 .. Max({Len(old), to}) |-> IF i \in from + 1 .. to THEN ops + 1 ELSE old[i]]
      Writes(r) == On(h, r, New(r.f.fptr), TRUE, FALSE)
  IN  /\ fp[h].write /\ from + n <= MaxLen
      /\ Writes(f_write(vol, fp[h], n, ops + 1))

(* A file that is stretched holds anything there.                          *)
Seek(h, pos) ==
  LET old == DataOf(h)
      New(to) == [i \in 1 .. IF fp[h].write THEN Max({Len(old), to}) ELSE Len(old) |->
                    IF i <= Len(old) THEN old[i] ELSE Anything]
      Seeks(r) == On(h, r, New(r.f.fptr), r.f.written, FALSE)
  IN  /\ pos <= MaxLen /\ pos # fp[h].fptr
      /\ Seeks(f_lseek(vol, fp[h], pos))

(* The buffer is clean: f_truncate would leave a dirty buffer to a sector  *)
(* that it frees.  Nothing in the program calls it.                        *)
Truncate(h) ==
  /\ fp[h].write /\ ~fp[h].dirty /\ fp[h].fptr < fp[h].fsize
  /\ On(h, f_truncate(vol, fp[h]), SubSeq(DataOf(h), 1, fp[h].fptr), TRUE, TRUE)

Sync(h) == fp[h].written /\ On(h, f_sync(vol, fp[h]), DataOf(h), FALSE, FALSE)

Close(h) == On(h, f_close(vol, fp[h]), DataOf(h), FALSE, FALSE)

Named1(p, r, new) ==
  LET n == Full(p)
  IN  /\ Usable(p) /\ ~InUse(n)
      /\ Call([Same EXCEPT !.v = r.v, !.files[n] = IF r.res = "OK" THEN new ELSE @,
                           !.changed = {n}])

Unlink(p) == Named1(p, f_unlink(v0, p), None)
Mkdir(p)  == Named1(p, f_mkdir(v0, p), Dir)

Rename(p, q) ==
  LET n == Full(p)
      m == Full(q)
      Moves(r) == Call([Same EXCEPT !.v = r.v, !.changed = {n, m}, !.loose = {n, m},
                          !.files = IF r.res = "OK" THEN [@ EXCEPT ![m] = files[n], ![n] = None]
                                    ELSE @])
  IN  /\ Usable(p) /\ Usable(q) /\ n # m /\ ~InUse(n) /\ files[n].t # "dir"
      /\ Moves(f_rename(v0, p, q))

Chdir(p) ==
  LET Enters(r) == Call([Same EXCEPT !.v = r.v, !.cwd = IF r.res = "OK" THEN Full(p) ELSE @])
  IN  Enters(f_chdir(v0, p))

Getfree == Call([Same EXCEPT !.v = f_getfree(v0)])

FileCall(h) ==
  \/ \E n \in Counts : Read(h, n) \/ Write(h, n)
  \/ \E pos \in Positions : Seek(h, pos)
  \/ Truncate(h)
  \/ Sync(h)

NameCall(p) ==
  \/ Unlink(p)
  \/ Mkdir(p)
  \/ Chdir(p)
  \/ \E q \in Paths : Rename(p, q)

Next ==
  \/ \E h \in Handles, p \in Paths, m \in Modes, w \in BOOLEAN : Open(h, p, m, w)
  \/ \E h \in Handles : Close(h)
  \/ "files" \in Calls /\ \E h \in Handles : FileCall(h)
  \/ "names" \in Calls /\ \E p \in Paths : NameCall(p)
  \/ "names" \in Calls /\ Getfree
  \/ PowerCut

Spec == Init /\ [][Next]_vars

-----------------------------------------------------------------------------
(* Properties.                                                             *)

Agree(x, y) == /\ x.t = y.t
               /\ Len(x.data) = Len(y.data)
               /\ \A i \in DOMAIN y.data : y.data[i] = Anything \/ x.data[i] = y.data[i]

(* What the path holds, the open file's buffer and size included.          *)
Now(p) ==
  LET open == {fp[h] : h \in {g \in Handles : fp[g].open /\ fp[g].path = p}}
  IN  IF open = {} THEN Held(vol, p)
      ELSE {FileAt([vol EXCEPT !.disk = Clean(vol, f).disk], f.sclust, f.fsize) : f \in open}

(* An open file reads as what was written to it, from its pointer on.      *)
ReadBack ==
  \A h \in {g \in Handles : fp[g].open} :
     LET f    == fp[h]
         data == SubSeq(DataOf(h), f.fptr + 1, Len(DataOf(h)))
         out  == f_read(vol, f, MaxLen).out
     IN  Len(out) = Len(data) /\ \A i \in DOMAIN data : data[i] = Anything \/ out[i] = data[i]

(* Every path holds what the calls made of it, whatever other paths were   *)
(* created, written, stretched, renamed or deleted around it (f_open to    *)
(* f_rename), and whenever the power failed before.  A path the call did   *)
(* not change survives the cut; there is one entry of a name at most; and  *)
(* an open file reads back what was written to it.                         *)
FilesAreRight ==
  ~ruined =>
    /\ \A p \in FullPaths \ unsafe :
         IF files[p] = None THEN Now(p) = {}
         ELSE Cardinality(Now(p)) = 1 /\ \A x \in Now(p) : Agree(x, files[p])
    /\ ReadBack

StatFound(p) ==
  IF p.res = "OK"
  THEN [t |-> IF At(p.v, p.d).dir THEN "dir" ELSE "file", size |-> At(p.v, p.d).size]
  ELSE [t |-> "none", size |-> 0]

f_stat(v, path) == StatFound(follow_path(v, path))

(* dir_find, which goes by checksum and order number from part to part,    *)
(* finds exactly the files there are, with the size they have.             *)
StatIsRight ==
  vol.mounted /\ ~ruined => \A p \in {q \in Paths : Usable(q) /\ ~InUse(Full(q))} :
     f_stat(vol, p) = [t |-> files[Full(p)].t, size |-> Len(files[Full(p)].data)]

(* The objects of a directory and below, but for . and ..: where the entry *)
(* is, and what it says.                                                   *)
RECURSIVE ObjectsFrom(_, _, _)
ObjectsFrom(v, c, depth) ==
  LET es   == Entries(v, c)
      here == {i \in DOMAIN es : es[i].t = "object" /\ (c = 0 \/ i > 2)}
  IN  {[at |-> <<Sectors(v, c)[1 + (i - 1) \div PerDir], (i - 1) % PerDir>>, e |-> es[i]] : i \in here}
      \cup (IF depth = 0 THEN {}
            ELSE UNION {ObjectsFrom(v, es[i].clust, depth - 1) : i \in {j \in here : es[j].dir}})

Depth == Max({Len(p) : p \in FullPaths})
LooseIds == {p[Len(p)].id : p \in unsafe}

(* The chains: the root's, those of the objects, and those of open files,  *)
(* whose entries are behind.                                               *)
Opened(o) == {fp[h] : h \in {g \in Handles : fp[g].open /\ <<fp[g].dir_sect, fp[g].slot>> = o.at}}
First(o)  == IF Opened(o) = {} THEN o.e.clust ELSE (CHOOSE f \in Opened(o) : TRUE).sclust
Owners(v) == {[at |-> <<0, 0>>, c |-> IF Fat32 THEN DIRBASE ELSE 0]} \cup
             {[at |-> o.at, c |-> First(o)] :
                o \in {x \in ObjectsFrom(v, 0, Depth) : x.e.name \notin LooseIds}}

(* No cluster is in two chains, and no chain runs into a free cluster.     *)
NoCrossLink ==
  LET chains == {[at |-> o.at, c |-> Chain(vol, o.c)] :
                   o \in {x \in Owners(vol) : x.c # 0}}
  IN  /\ \A x \in chains : x.c # <<>> /\ Fat(vol, x.c[Len(x.c)]) = EOC
      /\ \A x, y \in chains : x # y => Range(x.c) \cap Range(y.c) = {}

(* No cluster is lost, and the number of free clusters that the volume     *)
(* keeps, and stores on the card, is right.                                *)
NothingLost ==
  LET used == {c \in Clusters : Fat(vol, c) # 0}
  IN  /\ used = UNION {Range(Chain(vol, o.c)) : o \in Owners(vol)}
      /\ vol.mounted /\ vol.free_clust # UNKNOWN =>
           vol.free_clust = Cardinality(Clusters \ used)

(* The chains are disjoint at any time, also after a power cut anywhere in *)
(* a call: create_chain marks the new cluster before it links it, f_open   *)
(* and f_unlink write the entry before they free the clusters it had.  And *)
(* as long as the power has not failed they are all there is.              *)
ClustersSound ==
  ~ruined => NoCrossLink /\ (cuts = 0 => NothingLost)

(* Two files written in turn: neither reads as the other, whatever window  *)
(* and buffers held when the next call began (move_window, f_write), and   *)
(* their chains keep apart.                                                *)
VolumeIsRight == FilesAreRight /\ ClustersSound
=============================================================================
