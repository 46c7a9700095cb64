---------------------------- MODULE MCRepoStore ----------------------------
(* Instances of RepoStore for TLC.                                           *)
EXTENDS RepoStore, TLC

\* Two images that share a layer, and an index of one of them.
PlainImages == {"m1", "m2"}
PlainIndexes == {"x1"}
PlainRefs == ("m1" :> {"b1"}) @@ ("m2" :> {"b1"})
PlainChildren == ("x1" :> {"m1"})
PlainSubject == [m \in {"m1", "m2", "x1"} |-> None]

\* An image, a signature of it that refers to it, and an index of the image.
SignedImages == {"m1", "s1"}
SignedRefs == ("m1" :> {"b1"}) @@ ("s1" :> {})
SignedSubject == ("m1" :> None) @@ ("s1" :> "m1") @@ ("x1" :> None)

CosignTag == ("t1" :> None) @@ ("t2" :> "m1")

OneBlob == {"b1"}
OneTag == {"t1"}
NoCosign == [t \in Tags |-> None]
OneUpload == {"u1"}
=============================================================================
