--------------------------- MODULE MCDedupeStore ---------------------------
(* Instances of DedupeStore for TLC: three repositories listed in the order  *)
(* of their names, and the histories of storage.dedupe that the runs use.    *)
EXTENDS DedupeStore

MCRepos == {"a", "b", "c"}
MCOrder == <<"a", "b", "c">>
StaysOn == {<<TRUE, TRUE>>}
TurnedOff == {<<TRUE, TRUE>>, <<TRUE, FALSE>>, <<FALSE, FALSE>>}
Toggled == BOOLEAN \X BOOLEAN
=============================================================================
