------------------------------ MODULE FatVolume ------------------------------
(***************************************************************************)
(* The FAT volume under FatFs (DML/ff.c): the one-sector window on it, the *)
(* file allocation table, cluster chains and directories with long names.  *)
(* ff.c runs to completion, so its functions are operators: they take the  *)
(* volume v and give what the function returns, with the volume it leaves  *)
(* behind.  v.log is the sequence of sectors the function wrote: a power   *)
(* cut keeps a prefix of it.                                               *)
(*                                                                         *)
(* disk_read and disk_write of this build always answer RES_OK, so that    *)
(* FR_DISK_ERR does not occur.  FAT16 and FAT32 are modelled, FAT12, whose *)
(* entries can lie across two sectors, is not.                             *)
(***************************************************************************)
EXTENDS Integers, Sequences, FiniteSets

CONSTANTS
  Fat32,     \* FAT32, or FAT16 with a root directory of fixed size
  NFatEnt,   \* fs->n_fatent: the clusters are 2 .. NFatEnt - 1
  PerFat,    \* entries in a sector of the table
  PerDir,    \* entries in a sector of a directory
  CSize,     \* sectors in a cluster
  NFats,     \* copies of the table
  RootEnts,  \* entries of the root directory of FAT16
  Units,     \* what a file is counted in: a sector has this many
  MaxNum,    \* how many numbers gen_numname is tried with, 99
  Names      \* names of files and directories, see IsName

(* A name takes ext entries for its long form id, none if it is short.  If *)
(* it does not fit in 8.3 (loss), its short form is base with a number.    *)
IsName(n) == n.id # "" /\ n.base # "" /\ n.ext \in Nat /\ n.loss \in BOOLEAN /\ (n.loss => n.ext > 0)

ASSUME VolumeAssumption ==
  /\ Fat32 \in BOOLEAN /\ NFatEnt > 2 /\ PerFat > 0 /\ PerDir > 0
  /\ CSize > 0 /\ NFats \in {1, 2} /\ Units > 0
  /\ RootEnts % PerDir = 0 /\ (Fat32 <=> RootEnts = 0)
  /\ \A n \in Names : IsName(n)

Clusters == 2 .. NFatEnt - 1
EOC      == 10 * NFatEnt    \* 0x0FFFFFFF, the last link of a chain
UNKNOWN  == -1              \* a free_clust of 0xFFFFFFFF

(* The layout: boot sector, FSInfo, the tables, the FAT16 root, clusters.  *)
FSINFO   == 1
FATBASE  == 2
FSIZE    == (NFatEnt + PerFat - 1) \div PerFat
ROOT     == FATBASE + NFats * FSIZE
DATABASE == ROOT + RootEnts \div PerDir
DIRBASE  == IF Fat32 THEN 2 ELSE ROOT
NSectors == DATABASE + (NFatEnt - 2) * CSize

clust2sect(c) == IF c \in Clusters THEN DATABASE + (c - 2) * CSize ELSE 0

(* Entries of a directory: free ones, parts of long names, objects.        *)
Nothing == [t |-> "end", name |-> "", sfn |-> <<"", 0>>, ord |-> 0, lle |-> FALSE,
            dir |-> FALSE, clust |-> 0, size |-> 0]
Blank   == Nothing                              \* a name of 0: no entry follows
Deleted == [Nothing EXCEPT !.t = "deleted"]     \* DDE
Dot     == [Nothing EXCEPT !.t = "object", !.dir = TRUE]

DirSector  == [s \in 0 .. PerDir - 1 |-> Blank]
FatSector  == [e \in 0 .. PerFat - 1 |-> 0]
DataSector == [u \in 0 .. Units - 1 |-> 0]

-----------------------------------------------------------------------------
(* The window.                                                             *)

disk_write(v, s, x) == [v EXCEPT !.disk[s] = x, !.log = Append(@, <<s, x>>)]

(* A sector of the table is written to every copy.                         *)
Copy(v) == IF v.winsect < FATBASE + FSIZE /\ NFats = 2
           THEN disk_write(v, v.winsect + FSIZE, v.win) ELSE v

WriteBack(v) ==
  IF v.wflag THEN [Copy(disk_write(v, v.winsect, v.win)) EXCEPT !.wflag = FALSE] ELSE v

Load(v, s) == IF s = 0 THEN v ELSE [v EXCEPT !.win = v.disk[s], !.winsect = s]

move_window(v, s) == IF s = v.winsect THEN v ELSE Load(WriteBack(v), s)

(* The FSInfo sector is kept on FAT32 only.                                *)
WriteInfo(v) ==
  IF Fat32 /\ v.fsi_flag
  THEN [disk_write(v, FSINFO, [free |-> v.free_clust, last |-> v.last_clust])
        EXCEPT !.winsect = 0, !.fsi_flag = FALSE]
  ELSE v

sync(v) == WriteInfo(move_window(v, 0))

-----------------------------------------------------------------------------
(* The table and its chains.                                               *)

FatWindow(v, c)  == move_window(v, FATBASE + c \div PerFat)
InWindow(v, c)   == [v |-> v, c |-> v.win[c % PerFat]]
get_fat(v, c)    == IF c \in Clusters THEN InWindow(FatWindow(v, c), c) ELSE [v |-> v, c |-> 1]
put_fat(v, c, x) == [FatWindow(v, c) EXCEPT !.win[c % PerFat] = x, !.wflag = TRUE]

Count(v, d) == IF v.free_clust = UNKNOWN THEN v
               ELSE [v EXCEPT !.free_clust = @ + d, !.fsi_flag = TRUE]

(* Frees the clusters from c on, to the end of the chain.                  *)
RECURSIVE remove_chain(_, _)
remove_chain(v, c) ==
  LET Go(w, n) == IF n >= NFatEnt THEN [v |-> w, ok |-> TRUE] ELSE remove_chain(w, n)
      Next(g)  == IF g.c \in {0, 1} THEN [v |-> g.v, ok |-> g.c = 0]
                  ELSE Go(Count(put_fat(g.v, c, 0), 1), g.c)
  IN  IF c \notin Clusters THEN [v |-> v, ok |-> FALSE] ELSE Next(get_fat(v, c))

(* The first free cluster behind ncl, up to scl in a circle; 0 if none is. *)
RECURSIVE NextFree(_, _, _)
NextFree(v, ncl, scl) ==
  LET n == IF ncl + 1 < NFatEnt THEN ncl + 1 ELSE 2
      Try(g) == IF g.c = 0 THEN [v |-> g.v, c |-> n]
                ELSE IF g.c = 1 \/ n = scl THEN [v |-> g.v, c |-> IF g.c = 1 THEN 1 ELSE 0]
                ELSE NextFree(g.v, n, scl)
  IN  IF ncl + 1 >= NFatEnt /\ n > scl THEN [v |-> v, c |-> 0] ELSE Try(get_fat(v, n))

(* A new cluster n is the last of its chain, then it is linked behind c.   *)
Link(v, c, n) == IF c = 0 THEN put_fat(v, n, EOC) ELSE put_fat(put_fat(v, n, EOC), c, n)

(* Stretches the chain that ends with c, or begins one; gives the cluster, *)
(* 0 when the volume is full.                                              *)
Claim(free, c) ==
  IF free.c < 2 THEN free
  ELSE [free EXCEPT !.v = Count([Link(@, c, free.c) EXCEPT !.last_clust = free.c], -1)]

Hint(v, c) == IF c # 0 THEN c ELSE IF v.last_clust \in 1 .. NFatEnt - 1 THEN v.last_clust ELSE 1

Extend(g, c) ==
  IF c # 0 /\ g.c < 2 THEN [g EXCEPT !.c = 1]
  ELSE IF c # 0 /\ g.c < NFatEnt THEN g
  ELSE Claim(NextFree(g.v, Hint(g.v, c), Hint(g.v, c)), c)

create_chain(v, c) == Extend(IF c = 0 THEN [v |-> v, c |-> 0] ELSE get_fat(v, c), c)

-----------------------------------------------------------------------------
(* Directories.  d is a DIR: where it is (sclust, index, clust, sect), the *)
(* name looked for (name, with the short form sfn that has lost something  *)
(* or not), whether its long form is looked for too (lfn), and lfn_idx,    *)
(* -1 for 0xFFFF.                                                          *)

NewDir(sclust, n) ==
  [sclust |-> sclust, index |-> 0, clust |-> 0, sect |-> 0, lfn_idx |-> -1,
   name |-> n, sfn |-> <<n.base, 0>>, loss |-> n.loss, lfn |-> TRUE]
Done(v, d, res) == [v |-> v, d |-> d, res |-> res]

At(v, d)     == v.win[d.index % PerDir]
Put(v, d, e) == [v EXCEPT !.win[d.index % PerDir] = e, !.wflag = TRUE]
Window(v, d) == move_window(v, d.sect)

RECURSIVE FollowChain(_, _, _)
FollowChain(v, c, i) ==
  LET Next(g) == IF g.c \in Clusters THEN FollowChain(g.v, g.c, i - 1) ELSE [g EXCEPT !.c = 0]
  IN  IF i = 0 THEN [v |-> v, c |-> c] ELSE Next(get_fat(v, c))

dir_sdi(v, d, idx) ==
  LET start == IF d.sclust = 0 /\ Fat32 THEN DIRBASE ELSE d.sclust
      inner == idx % (PerDir * CSize)
      e     == [d EXCEPT !.index = idx]
      In(f) == IF f.c = 0 THEN Done(f.v, e, "INT_ERR")
               ELSE Done(f.v, [e EXCEPT !.clust = f.c,
                                        !.sect = clust2sect(f.c) + inner \div PerDir], "OK")
  IN  IF start = 1 \/ start >= NFatEnt THEN Done(v, e, "INT_ERR")
      ELSE IF start = 0
      THEN IF idx >= RootEnts THEN Done(v, e, "INT_ERR")
           ELSE Done(v, [e EXCEPT !.clust = 0, !.sect = DIRBASE + idx \div PerDir], "OK")
      ELSE In(FollowChain(v, start, idx \div (PerDir * CSize)))

(* A directory that gets a new cluster is cleared first: the window is     *)
(* written once for each of its sectors.                                   *)
RECURSIVE ClearSectors(_, _)
ClearSectors(v, n) ==
  IF n = 0 THEN [v EXCEPT !.winsect = @ - CSize]
  ELSE ClearSectors([move_window([v EXCEPT !.wflag = TRUE], 0) EXCEPT !.winsect = @ + 1], n - 1)

Cleared(g) ==
  IF g.c < 2 THEN g
  ELSE [g EXCEPT !.v = ClearSectors([move_window(@, 0) EXCEPT
                                       !.win = DirSector, !.winsect = clust2sect(g.c)], CSize)]

Stretch(v, d) == Cleared(create_chain(v, d.clust))

(* The next entry is the first one of cluster c.                           *)
Into(v, d, c) ==
  Done(v, [d EXCEPT !.index = @ + 1, !.clust = c, !.sect = clust2sect(c)], "OK")

IntoNew(s, d) ==
  IF s.c = 0 THEN Done(s.v, d, "DENIED")
  ELSE IF s.c = 1 THEN Done(s.v, d, "INT_ERR") ELSE Into(s.v, d, s.c)

IntoNext(g, d, stretch) ==
  IF g.c \in Clusters THEN Into(g.v, d, g.c)
  ELSE IF g.c <= 1 THEN Done(g.v, d, "INT_ERR")
  ELSE IF ~stretch THEN Done(g.v, d, "NO_FILE")
  ELSE IntoNew(Stretch(g.v, d), d)

dir_next(v, d, stretch) ==
  LET i == d.index + 1
      e == [d EXCEPT !.index = i]
  IN  IF d.sect = 0 THEN Done(v, d, "NO_FILE")
      ELSE IF i % PerDir # 0 THEN Done(v, e, "OK")
      ELSE IF d.clust = 0
      THEN IF i >= RootEnts THEN Done(v, [d EXCEPT !.sect = @ + 1], "NO_FILE")
           ELSE Done(v, [e EXCEPT !.sect = @ + 1], "OK")
      ELSE IF (i \div PerDir) % CSize # 0 THEN Done(v, [e EXCEPT !.sect = @ + 1], "OK")
      ELSE IntoNext(get_fat(v, d.clust), d, stretch)

(* dir_find: lfn is the part of a long name that must come next, ord of    *)
(* it with the short name sum, or -1.                                      *)
NoLfn == [ord |-> -1, sum |-> <<"", 0>>]

(* Variant for a run: the letters of the part are not compared.            *)
MatchPart_AnyName(e, d, lfn) ==
  LET l == IF e.lle THEN [ord |-> e.ord, sum |-> e.sfn] ELSE lfn
  IN  IF e.ord = l.ord /\ e.sfn = l.sum THEN [l EXCEPT !.ord = @ - 1] ELSE [l EXCEPT !.ord = -1]

(* cmp_lfn and the checks around it: the parts of a name come one after    *)
(* the other, the last first, with the short name they belong to.          *)
MatchPart(e, d, lfn) ==
  LET l == IF e.lle THEN [ord |-> e.ord, sum |-> e.sfn] ELSE lfn
  IN  IF e.ord = l.ord /\ e.sfn = l.sum /\ e.name = d.name.id
      THEN [l EXCEPT !.ord = @ - 1] ELSE [l EXCEPT !.ord = -1]

LongMatch(e, lfn) == lfn.ord = 0 /\ lfn.sum = e.sfn

(* A name whose short form has lost something is not found by it.          *)
ShortMatch(e, d) == ~d.loss /\ e.sfn = d.sfn

(* The searches go on from the last step's result r, if that was good.     *)
RECURSIVE FindFrom(_, _)
FindFrom(r, lfn) ==
  LET d    == r.d
      w    == Window(r.v, d)
      e    == At(w, d)
      part == e.t = "lfn" /\ d.lfn
      f    == [d EXCEPT !.lfn_idx = IF part /\ e.lle THEN d.index
                                    ELSE IF e.t = "object" THEN -1 ELSE @]
  IN  IF r.res # "OK" THEN r
      ELSE IF e.t = "end" THEN Done(w, d, "NO_FILE")
      ELSE IF e.t = "object" /\ LongMatch(e, lfn) THEN Done(w, d, "OK")
      ELSE IF e.t = "object" /\ ShortMatch(e, d) THEN Done(w, f, "OK")
      ELSE FindFrom(dir_next(w, f, FALSE), IF part THEN MatchPart(e, d, lfn) ELSE NoLfn)

dir_find(v, d) == FindFrom(dir_sdi(v, d, 0), NoLfn)

(* Is there an object from this index on?  dir_read, as f_unlink asks it.  *)
RECURSIVE dir_read(_)
dir_read(r) ==
  LET w == Window(r.v, r.d)
  IN  IF r.res # "OK" THEN r
      ELSE IF At(w, r.d).t = "end" THEN Done(w, r.d, "NO_FILE")
      ELSE IF At(w, r.d).t = "object" THEN Done(w, r.d, "OK")
      ELSE dir_read(dir_next(w, r.d, FALSE))

(* A short form with the first number that is not taken; dir_find looks    *)
(* for the short form alone.                                               *)
gen_numname(d, k) == [d EXCEPT !.sfn = <<d.name.base, k>>, !.loss = FALSE, !.lfn = FALSE]

RECURSIVE Numbered(_, _, _)
Numbered(f, d, k) ==
  IF f.res = "OK" /\ k < MaxNum
  THEN Numbered(dir_find(f.v, gen_numname(d, k + 1)), d, k + 1)
  ELSE Done(f.v, [d EXCEPT !.sfn = <<d.name.base, k>>], f.res)

(* Variant for a run: the search does not start again at a used entry.     *)
RECURSIVE Reserve_Gaps(_, _, _, _)
Reserve_Gaps(r, n, is, ne) ==
  LET w     == Window(r.v, r.d)
      free  == At(w, r.d).t \in {"end", "deleted"}
      first == IF n = 0 THEN r.d.index ELSE is
  IN  IF r.res # "OK" THEN [r |-> r, is |-> 0]
      ELSE IF free /\ n + 1 = ne THEN [r |-> Done(w, r.d, "OK"), is |-> first]
      ELSE Reserve_Gaps(dir_next(w, r.d, TRUE), IF free THEN n + 1 ELSE n, first, ne)

(* Searches for ne free entries in a row, n of which were found from is on. *)
RECURSIVE Reserve(_, _, _, _)
Reserve(r, n, is, ne) ==
  LET w     == Window(r.v, r.d)
      free  == At(w, r.d).t \in {"end", "deleted"}
      first == IF n = 0 THEN r.d.index ELSE is
  IN  IF r.res # "OK" THEN [r |-> r, is |-> 0]
      ELSE IF free /\ n + 1 = ne THEN [r |-> Done(w, r.d, "OK"), is |-> first]
      ELSE Reserve(dir_next(w, r.d, TRUE), IF free THEN n + 1 ELSE 0, first, ne)

(* fit_lfn: the parts of a long name, the last one first.                  *)
Part(d, ord) == [Nothing EXCEPT !.t = "lfn", !.name = d.name.id, !.sfn = d.sfn,
                                !.ord = ord, !.lle = ord = d.name.ext]

RECURSIVE PutParts(_, _)
PutParts(r, ord) ==
  IF r.res # "OK" \/ ord = 0 THEN r
  ELSE PutParts(dir_next(Put(Window(r.v, r.d), r.d, Part(r.d, ord)), r.d, FALSE), ord - 1)

PutObject(r) ==
  IF r.res # "OK" THEN r
  ELSE Done(Put(Window(r.v, r.d), r.d,
                [Nothing EXCEPT !.t = "object", !.name = r.d.name.id, !.sfn = r.d.sfn]),
            r.d, "OK")

(* A short name is one entry: the one that was found last.                 *)
PutEntries(x) ==
  PutObject(IF x.r.res # "OK" \/ x.r.d.name.ext = 0 THEN x.r
            ELSE PutParts(dir_sdi(x.r.v, x.r.d, x.is), x.r.d.name.ext))

Register(num) ==
  IF num.res = "OK" THEN [num EXCEPT !.res = "DENIED"]
  ELSE IF num.res # "NO_FILE" THEN num
  ELSE PutEntries(Reserve(dir_sdi(num.v, num.d, 0), 0, 0, num.d.name.ext + 1))

dir_register(v, d) ==
  Register(IF d.loss THEN Numbered(Done(v, d, "OK"), d, 0) ELSE Done(v, d, "NO_FILE"))

(* Deletes the entries of an object, up to index i.                        *)
RECURSIVE DeleteTo(_, _)
DeleteTo(r, i) ==
  LET w == Put(Window(r.v, r.d), r.d, Deleted)
  IN  IF r.res # "OK" THEN r
      ELSE IF r.d.index >= i THEN Done(w, r.d, "OK")
      ELSE DeleteTo(dir_next(w, r.d, FALSE), i)

dir_remove(v, d) ==
  DeleteTo(dir_sdi(v, d, IF d.lfn_idx = -1 THEN d.index ELSE d.lfn_idx), d.index)

(* The object at the end of a path of names, from a directory on.          *)
RECURSIVE FollowFrom(_, _, _)
FollowFrom(v, sclust, path) ==
  LET Inside(f, e) == IF e.dir THEN FollowFrom(f.v, e.clust, Tail(path))
                      ELSE [f EXCEPT !.res = "NO_PATH"]
      Found(f) == IF Len(path) = 1 THEN f
                  ELSE IF f.res = "NO_FILE" THEN [f EXCEPT !.res = "NO_PATH"]
                  ELSE IF f.res # "OK" THEN f
                  ELSE Inside(f, At(f.v, f.d))
  IN  Found(dir_find(v, NewDir(sclust, Head(path))))

(* A path that begins with a separator begins at the root.                 *)
follow_path(v, p) == FollowFrom(v, IF p.abs THEN 0 ELSE v.cdir, p.names)
-----------------------------------------------------------------------------
(* Mounting.  A volume that is not mounted keeps nothing but its disk.     *)

Unmounted(disk) ==
  [mounted |-> FALSE, disk |-> disk, win |-> DataSector, winsect |-> 0, wflag |-> FALSE,
   last_clust |-> 0, free_clust |-> UNKNOWN, fsi_flag |-> FALSE, cdir |-> 0, log |-> <<>>]

(* Every call with a path mounts the volume if need be; the count of free  *)
(* clusters and the hint where to look for one come from FSInfo.           *)
chk_mounted(v) ==
  LET info == v.disk[FSINFO]
  IN  IF v.mounted THEN v
      ELSE [Unmounted(v.disk) EXCEPT
              !.mounted    = TRUE,
              !.last_clust = IF Fat32 THEN info.last ELSE 0,
              !.free_clust = IF Fat32 THEN info.free ELSE UNKNOWN]

(* f_mount registers the file system object: the next call mounts.         *)
f_mount(v) == Unmounted(v.disk)
=============================================================================
