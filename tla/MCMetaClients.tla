--------------------------- MODULE MCMetaClients ----------------------------
(* Instances of MetaClients for TLC: an image and its signature.             *)
EXTENDS MetaClients, TLC

MCImages   == {"a", "s"}
MCChildren == [i \in MCImages |-> {}]
NoSubject  == [i \in MCImages |-> None]
MCSigOf    == [i \in MCImages |-> IF i = "s" THEN "a" ELSE None]
MCOwner    == [k \in Keys |-> "u1"]

Symmetry == Permutations(Clients)

\* Any two operations of the interface, and three of the ones that share a record.
Two   == [ops |-> OpNames, max |-> 2]
Three(names) == [ops |-> names, max |-> 3]
MCLoads  == {Two, Three({"delkey", "auth"}), Three({"star", "set"})}
=============================================================================
