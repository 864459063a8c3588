----------------------------- MODULE MCFatFiles -----------------------------
(***************************************************************************)
(* FatFiles for TLC: a small card with a directory and a file with a long  *)
(* name on it, whose entry spreads over two sectors.                       *)
(***************************************************************************)
EXTENDS FatFiles, TLC

A == [id |-> "a.bin", base |-> "A", ext |-> 0, loss |-> FALSE]
D == [id |-> "saves", base |-> "SAVES", ext |-> 0, loss |-> FALSE]
L == [id |-> "long name one", base |-> "LONGNA", ext |-> 2, loss |-> TRUE]
M == [id |-> "long name", base |-> "LONGNA", ext |-> 1, loss |-> TRUE]

MCNames == {A, D, L, M}

Abs(names) == [abs |-> TRUE, names |-> names]
Rel(names) == [abs |-> FALSE, names |-> names]

Handle == Permutations(Handles)

MCPaths == {Abs(<<A>>), Abs(<<D>>), Abs(<<L>>), Abs(<<M>>), Abs(<<D, A>>), Rel(<<A>>)}

MCTwoPaths == {Abs(<<A>>), Abs(<<L>>)}

(* Root: D, L; D has its dots; L has one sector of data.                   *)
LDir   == NewDir(0, L)
LSfn   == [LDir EXCEPT !.sfn = <<L.base, 1>>]
RootAt == [i \in 0 .. 3 |->
             IF i = 0 THEN [Nothing EXCEPT !.t = "object", !.name = D.id, !.sfn = <<D.base, 0>>,
                                           !.dir = TRUE, !.clust = 3]
             ELSE IF i = 3 THEN [Nothing EXCEPT !.t = "object", !.name = L.id,
                                           !.sfn = <<L.base, 1>>, !.clust = 4, !.size = Units]
             ELSE Part(LSfn, 3 - i)]
DirSectorAt(n) == [e \in 0 .. PerDir - 1 |-> LET i == n * PerDir + e IN IF i < 4 THEN RootAt[i] ELSE Blank]

MCFirstDisk ==
  [s \in 0 .. NSectors - 1 |->
     IF s = 0 THEN DataSector
     ELSE IF s = FSINFO THEN [free |-> NFatEnt - 5, last |-> 4]
     ELSE IF s >= ROOT /\ s < DATABASE THEN DirSectorAt(s - ROOT)
     ELSE IF s < ROOT
     THEN [e \in 0 .. PerFat - 1 |->
             LET c == ((s - FATBASE) % FSIZE) * PerFat + e
             IN  IF c \in {0, 1, 3, 4} \/ (Fat32 /\ c = 2) THEN EOC ELSE 0]
     ELSE IF s \in clust2sect(2) .. clust2sect(2) + CSize - 1
     THEN IF Fat32 THEN DirSectorAt(s - clust2sect(2)) ELSE DataSector
     ELSE IF s = clust2sect(3)
     THEN [DirSector EXCEPT ![0] = [Dot EXCEPT !.clust = 3], ![1] = Dot]
     ELSE IF s \in clust2sect(3) .. clust2sect(3) + CSize - 1 THEN DirSector
     ELSE DataSector]
=============================================================================
