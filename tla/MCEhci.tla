------------------------------ MODULE MCEhci ------------------------------
(* The parts of the EHCI build.  Small disks for FatRead, as a formatter   *)
(* lays them out: FAT12, FAT16 and FAT32, with and without a partition     *)
(* table, and disks without a FAT; buffers for UsbTransfer; games for      *)
(* EhciDisc.                                                               *)
EXTENDS FatRead, UsbTransfer, EhciDisc

MCCSize == 2
PAD     == "pad"   \* 0xFFFF, behind the end of a name
Half    == MCCSize * PerDir

(* Objects: the name, its short form, its chain, its size; a directory has *)
(* entries.  Every chain is fragmented.                                    *)
abcde == <<"a", "b", "c", "d", "e">>
abcd  == <<"a", "b", "c", "d">>
abcdx == <<"a", "b", "c", "d", "x">>
ab_c  == <<"a", "b", ".", "c">>
a_b   == <<"a", " ", "b">>
dd    == <<"d">>
ddot  == <<"d", ".">>
zz    == <<"z">>
dots  == <<".", " ">>

MCPaths == {<<abcde>>, <<dd, ab_c>>, <<ddot, ab_c>>, <<dd, a_b>>, <<dd, abcd>>, <<dd, abcdx>>,
            <<dd, zz>>, <<ab_c>>, <<abcde, zz>>, <<dd, dots>>, <<dd>>}

Obj(n, sfn, long, chain, size, dir) ==
  [n |-> n, sfn |-> sfn, long |-> long, chain |-> chain, size |-> size, dir |-> dir]

Image == Obj(abcde, <<<<"a", "~", "1">>, <<>>>>, TRUE,  <<5, 3, 8>>, 11, FALSE)
Dir   == Obj(dd,    <<<<"d">>, <<>>>>,           FALSE, <<7, 2>>,     0, TRUE)
Small == Obj(ab_c,  <<<<"a", "b">>, <<"c">>>>,   FALSE, <<4>>,        3, FALSE)
Cut   == Obj(a_b,   <<<<"a", "b">>, <<>>>>,      TRUE,  <<6>>,        7, FALSE)
Empty == Obj(abcd,  <<<<"a", "b", "c">>, <<>>>>, TRUE,  <<>>,         0, FALSE)
Start(o) == IF o.chain = <<>> THEN 0 ELSE o.chain[1]

Files ==
  LET F(o) == [clust |-> Start(o), size |-> o.size,
               data |-> [i \in 1 .. o.size |-> 100 * Start(o) + i],
               chained |-> Least(o.size, Len(o.chain) * MCCSize * SS)]
      Map == {<<<<abcde>>, F(Image)>>, <<<<dd, ab_c>>, F(Small)>>, <<<<ddot, ab_c>>, F(Small)>>,
              <<<<dd, a_b>>, F(Cut)>>, <<<<dd, abcd>>, F(Empty)>>}
  IN  [p \in {m[1] : m \in Map} |-> (CHOOSE m \in Map : m[1] = p)[2]]

(* Entries of a directory.                                                 *)
Plain == [t |-> "none", ord |-> 0, first |-> FALSE, sfn |-> NUL, chars |-> <<>>,
          dir |-> FALSE, clust |-> 0, size |-> 0]
End   == [Plain EXCEPT !.t = "end"]
Parts(o) == (Len(o.n) + Part - 1) \div Part
LfnPart(o, k) ==
  [Plain EXCEPT !.t = "lfn", !.ord = k, !.first = (k = Parts(o)), !.sfn = o.sfn,
     !.chars = [s \in 1 .. Part |-> LET i == (k - 1) * Part + s
                                    IN  IF i <= Len(o.n) THEN o.n[i]
                                        ELSE IF i = Len(o.n) + 1 THEN NUL ELSE PAD]]
Short(o) == [Plain EXCEPT !.t = "object", !.sfn = o.sfn, !.dir = o.dir,
                          !.clust = Start(o), !.size = o.size]
Entries(o) == (IF o.long THEN [k \in 1 .. Parts(o) |-> LfnPart(o, Parts(o) + 1 - k)] ELSE <<>>)
              \o <<Short(o)>>

(* The parts of a long name whose file was replaced by another one.        *)
Orphans == <<LfnPart(Obj(zz, <<<<"y">>, <<>>>>, TRUE, <<>>, 0, FALSE), 1),
             Short(Obj(zz, <<<<"x">>, <<>>>>, TRUE, <<>>, 0, FALSE))>>

RootEntries == <<Plain>> \o Entries(Image) \o <<Plain>> \o Entries(Dir) \o Orphans
DirEntries  == <<Plain>> \o Entries(Empty) \o Entries(Small) \o Entries(Cut)
DirSect(es, k) == [j \in 0 .. PerDir - 1 |->
                     LET i == k * PerDir + j + 1 IN IF i <= Len(es) THEN es[i] ELSE End]

(* The table: its bytes.                                                   *)
Next_(type, c) ==
  LET eoc == CASE type = 12 -> 4095 [] type = 16 -> 65535 [] type = 32 -> 268435455
      root == IF type = 32 THEN <<10, 13, 9>> ELSE <<>>
      chains == {Image.chain, Dir.chain, Small.chain, Cut.chain, root}
      In == {h \in chains : \E i \in DOMAIN h : h[i] = c}
  IN  IF In = {} THEN 0
      ELSE LET h == CHOOSE h \in In : TRUE
               i == CHOOSE i \in DOMAIN h : h[i] = c
           IN  IF i = Len(h) THEN eoc ELSE h[i + 1]
Byte(type, k) ==
  LET n(c) == Next_(type, c)
      pair == k \div 3
  IN  CASE type = 12 -> (CASE k % 3 = 0 -> n(2 * pair) % 256
                           [] k % 3 = 1 -> (n(2 * pair) \div 256) + 16 * (n(2 * pair + 1) % 16)
                           [] k % 3 = 2 -> n(2 * pair + 1) \div 16)
        [] type = 16 -> (IF k % 2 = 0 THEN n(k \div 2) % 256 ELSE n(k \div 2) \div 256)
        [] type = 32 -> (CASE k % 4 = 0 -> n(k \div 4) % 256
                           [] k % 4 = 1 -> (n(k \div 4) \div 256) % 256
                           [] k % 4 = 2 -> (n(k \div 4) \div 65536) % 256
                           [] k % 4 = 3 -> (n(k \div 4) \div 16777216) + 160)

(* The volume begins at sector b.                                          *)
Boot == [sig |-> TRUE, fat |-> FALSE, part |-> 0, bps |-> 512, rsvd |-> 0, csize |-> 1, nfats |-> 1,
         rootents |-> 0, fatsz16 |-> 0, fatsz32 |-> 0, tot16 |-> 0, tot32 |-> 0, rootclus |-> 0]

Volume(type, b) ==
  LET n     == CASE type = 12 -> F12 - 3 [] type = 16 -> F12 - 2 [] type = 32 -> F16 - 2
      fsz   == CASE type = 12 -> 2 [] type = 16 -> 3 [] type = 32 -> (4 * F16 + FatBytes - 1) \div FatBytes
      rsvd  == 1
      root  == IF type = 32 THEN 0 ELSE 6
      tot   == rsvd + 2 * fsz + root + n * MCCSize
      data  == b + rsvd + 2 * fsz + root
      boot  == [Boot EXCEPT !.fat = TRUE, !.rsvd = rsvd, !.csize = MCCSize, !.nfats = 2,
                  !.rootents = root * PerDir,
                  !.fatsz16 = IF type = 32 THEN 0 ELSE fsz, !.fatsz32 = IF type = 32 THEN fsz ELSE 0,
                  !.tot16 = IF type = 12 THEN tot ELSE 0, !.tot32 = IF type = 12 THEN 0 ELSE tot,
                  !.rootclus = IF type = 32 THEN 10 ELSE 0]
      FatSec(k) == [j \in 0 .. FatBytes - 1 |-> Byte(type, k * FatBytes + j)]
      rootc == <<10, 13, 9>>
      At(h, c) == CHOOSE i \in DOMAIN h : h[i] = c
      Cluster(c, s) ==
        IF \E i \in DOMAIN Dir.chain : Dir.chain[i] = c
        THEN DirSect(DirEntries, (At(Dir.chain, c) - 1) * MCCSize + s)
        ELSE IF type = 32 /\ \E i \in DOMAIN rootc : rootc[i] = c
        THEN DirSect(RootEntries, (At(rootc, c) - 1) * MCCSize + s)
        ELSE [u \in 0 .. SS - 1 |->
               LET Has == {o \in {Image, Small, Cut} : \E i \in DOMAIN o.chain : o.chain[i] = c}
               IN  IF Has = {} THEN 0
                   ELSE LET o == CHOOSE o \in Has : TRUE
                        IN  100 * Start(o) + ((At(o.chain, c) - 1) * MCCSize + s) * SS + u + 1]
  IN  [x \in 0 .. b + tot - 1 |->
         IF x < b THEN (IF x = 0 THEN [Boot EXCEPT !.part = b] ELSE 0)
         ELSE IF x = b THEN boot
         ELSE IF x < b + rsvd + fsz THEN FatSec(x - b - rsvd)
         ELSE IF x < b + rsvd + 2 * fsz THEN FatSec(x - b - rsvd - fsz)
         ELSE IF x < data THEN DirSect(RootEntries, x - b - rsvd - 2 * fsz)
         ELSE Cluster(2 + (x - data) \div MCCSize, (x - data) % MCCSize)]

Fat(type, b) == [sectors |-> Volume(type, b), files |-> Files, fat |-> TRUE]
NoFat(boots) == [sectors |-> boots, files |-> <<>>, fat |-> FALSE]

MCDisks ==
  {Fat(type, b) : type \in {12, 16, 32}, b \in {0, 2}} \cup
  {NoFat([s \in {0} |-> [Boot EXCEPT !.sig = FALSE]]),
   NoFat([s \in {0} |-> Boot]),
   NoFat([s \in {0, 2} |-> IF s = 0 THEN [Boot EXCEPT !.part = 2] ELSE Boot]),
   NoFat([s \in {0} |-> [Boot EXCEPT !.fat = TRUE, !.bps = 4096]])}
(* Buffers as the program has them, in and across pages; lengths of a CBW, *)
(* a CSW, sectors up to the most a transfer takes, and descriptors.        *)
MCBuffers == {0, 32, 512, 2048, 4064}
MCLengths == {0, 8, 13, 18, 31, 512, 4096, 16384, 16896, 20480, 32768, 65024}

(* Games with one and with two functions of a kind, in one section or two, *)
(* with and without the rest of the kinds.                                 *)
Fn(a, k)    == [at |-> a, kind |-> k]
Part_(a, n) == [at |-> a, length |-> n]
MCImages ==
  {[id |-> "pal", pal |-> TRUE, text |-> {Part_(2, 4), Part_(8, 3), Part_(0, 1)},
    fns |-> {Fn(3, "DVDLowRead"), Fn(4, "VI"), Fn(8, "VI"), Fn(9, "fwrite"), Fn(10, "AI")},
    other |-> {Part_(22, 1), Part_(31, 2)}, table |-> Part_(33, 3)],
   [id |-> "usa", pal |-> FALSE, text |-> {Part_(3, 5), Part_(14, 2)},
    fns |-> {Fn(4, "fwrite"), Fn(15, "DVDLowRead")},
    other |-> {Part_(31, 2)}, table |-> Part_(31, 3)]}

(* One part moves at a time: the file system, the transfers below it, or   *)
(* the discs above it.                                                     *)
OneDisk == disk.files = Files /\ disk.sectors[0].part = 2
Idle    == OneDisk /\ fs = Unmounted /\ fp = Closed /\ \A i \in DOMAIN lfnbuf : lfnbuf[i] = NUL

MCInit == FatInit /\ TransferInit /\ DiscInit

MCNext ==
  \/ urb = NoUrb /\ main = "config" /\ FatNext /\ UNCHANGED <<transfer, disc>>
  \/ Idle /\ main = "config" /\ TransferNext /\ UNCHANGED <<fat, disc>>
  \/ Idle /\ urb = NoUrb /\ DiscNext /\ UNCHANGED <<fat, transfer>>

MCSpec == MCInit /\ [][MCNext]_<<fat, transfer, disc>>
=============================================================================
