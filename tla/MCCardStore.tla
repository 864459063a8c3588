----------------------------- MODULE MCCardStore -----------------------------
(* Instance of CardStore, with names none of which starts another.         *)
EXTENDS CardStore

DistinctNames == {<<"a", "b">>, <<"x">>}
=============================================================================
