----------------------------- MODULE MCDolPatch -----------------------------
(* Discs with executables of every kind, in a memory of a hundred words.   *)
EXTENDS DolPatch

Section(at, len) == [at |-> at, len |-> len, text |-> TRUE]
DataSection(at, len) == [at |-> at, len |-> len, text |-> FALSE]
Fn(at, pat) == [at |-> at, pat |-> pat]

(* Two DOLs; sections with and without a length of whole blocks.           *)
First == [kind |-> "dol", first |-> Section(60, 16),
         rest |-> {Section(0, 5), Section(10, 8), DataSection(20, 3)},
         hooks |-> {1, 15}, cards |-> {Fn(2, "FreeBlocks"), Fn(12, "Open")}]
Second == [kind |-> "dol", first |-> Section(62, 16),
           rest |-> {Section(4, 6), DataSection(30, 6)},
           hooks |-> {5}, cards |-> {Fn(6, "FreeBlocks"), Fn(8, "Read")}]

(* ELF files: by header and sections, by one read, in a buffer.            *)
BySection == [kind |-> "elf", first |-> Section(60, 6),
              rest |-> {Section(0, 4), Section(8, 7)},
              hooks |-> {2, 9}, cards |-> {}, size |-> 60, phnum |-> 4]
Whole == [kind |-> "elf", first |-> Section(40, 20), rest |-> {},
          hooks |-> {44}, cards |-> {}, size |-> 20, phnum |-> 4]
InBuffer == [kind |-> "elf", first |-> Section(30, 26),
             rest |-> {Section(56, 4), Section(60, 7)},
             hooks |-> {31, 64}, cards |-> {}, size |-> 37, phnum |-> 4]

(* The menu, read to the loader's address.                                 *)
Menu == [kind |-> "loader", first |-> Section(92, 7), rest |-> {},
         hooks |-> {93}, cards |-> {}]

(* An ELF file of 19 words, read with a length of 20.                      *)
WholeOdd == [Whole EXCEPT !.size = 19, !.first = Section(40, 19)]

MCExecs == {First, Second, BySection, Whole, InBuffer, Menu}
MCOdd   == {WholeOdd, First}

(* The hypothesis of ProgramsArePatched holds of them.                     *)
ASSUME ExecsAreRegular == \A e \in MCExecs : Regular(e)

MCFiles == {[at |-> 70, len |-> 3], [at |-> 84, len |-> 7]}
=============================================================================
