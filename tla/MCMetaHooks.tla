---------------------------- MODULE MCMetaHooks -----------------------------
(* Instances of MetaHooks for TLC.                                           *)
EXTENDS MetaHooks

MCImages   == {"a", "b", "s"}
MCChildren == [i \in MCImages |-> IF i = "b" THEN {"a"} ELSE {}]    \* b is an index
MCSubject  == [i \in MCImages |-> IF i = "s" THEN "a" ELSE None]
PairList   == {<<"t", "u">>}
=============================================================================
