------------------------------- MODULE Scrub --------------------------------
(***************************************************************************)
(* The scrub task over one repository (pkg/storage/scrub.go): it reads     *)
(* index.json, then each manifest under a read lock of its own, then the   *)
(* layers without a lock, while images are deleted.  The graph of          *)
(* manifests is a constant: Kind gives the media type of a manifest,       *)
(* Config, Layers, Members and Subject what it names.  To begin with at    *)
(* most one blob is damaged, and at most one other is whole and yet not    *)
(* what the scrub expects: named by its sha512, or a config that is not    *)
(* JSON.                                                                   *)
(***************************************************************************)
EXTENDS Integers, Sequences, SequencesExt

CONSTANTS Manifests, Others,      \* digests of manifests; of configs and layers
          Kind, Config, Layers, Members, Subject,
          Entries,                \* the sequences of manifests index.json may hold
          MaxDeletes, None

VARIABLES blob,       \* blob[d]: "ok", "sha512", "opaque" (a config that is not JSON), or damaged:
                      \* "bad" (parses, other digest), "garbled", "gone", "denied"
          entries,    \* index.json
          s,          \* the task: list, k, found (scrubbedManifests), layers, out (results)
          deletes, deleted

vars == <<blob, entries, s, deletes, deleted>>

Blobs == Manifests \cup Others
Damages == {"bad", "garbled", "gone", "denied"}

OK == [status |-> "ok", blob |-> None]
Affected(d) == [status |-> "affected", blob |-> d]
NoResult == [status |-> "none", blob |-> None]

Init ==
    /\ entries \in Entries
    /\ \E x, y \in Blobs, g \in {"ok"} \cup Damages, h \in {"ok", "sha512", "opaque"} :
         /\ h = "opaque" => \E m \in Manifests : Config[m] = y
         /\ blob = [d \in Blobs |-> IF d = x /\ g # "ok" THEN g ELSE IF d = y THEN h ELSE "ok"]
    /\ s = [pc |-> "start", list |-> <<>>, k |-> 1, found |-> [m \in Manifests |-> NoResult],
            layers |-> <<>>, out |-> <<>>]
    /\ deletes = MaxDeletes /\ deleted = {}

Readable(d) == blob[d] \notin {"gone", "denied"}      \* GetBlobContent
Unmarshals(d) == Readable(d) /\ blob[d] \notin {"garbled", "opaque"}

\* The canonical digest, a sha256, is computed and compared with the name: a blob
\* named by its sha512 never passes.
VerifyBlobDigestValue(d) == blob[d] \in {"ok", "opaque"}

\* the blob at fault, the manifest or its config, None if both pass
CheckManifestAndConfig(m) ==
    IF ~Unmarshals(m) \/ ~VerifyBlobDigestValue(m) THEN m
    ELSE IF ~Unmarshals(Config[m]) \/ ~VerifyBlobDigestValue(Config[m]) THEN Config[m] ELSE None

Set(f, m, r) == [f EXCEPT ![m] = r]

\* What scrubbing manifest m adds to the results f: [f, layers, err].  A manifest
\* is scrubbed once: its result is used again, with no layers to check.
RECURSIVE scrubManifest(_, _)

\* The subject of m, after m itself.
ScrubSubject(m, f, layers) ==
    LET u == Subject[m] IN
    IF ~Readable(u) THEN [f |-> Set(Set(f, u, Affected(u)), m, Affected(u)), layers |-> layers, err |-> TRUE]
    ELSE LET r == scrubManifest(u, f)
             keep == Kind[m] = "index" /\ r.f[m].status = "affected"
         IN [f |-> IF keep THEN r.f ELSE Set(r.f, m, r.f[u]),
             layers |-> IF r.err THEN layers ELSE layers \o r.layers, err |-> r.err]

\* An affected member makes the index affected; its siblings are scrubbed too.
NextMember(a, m, c) ==
    IF a.err THEN a
    ELSE IF blob[c] = "gone"
    THEN [f |-> Set(Set(a.f, c, Affected(c)), m, Affected(c)), layers |-> a.layers, err |-> FALSE]
    ELSE IF blob[c] = "denied"
    THEN [f |-> Set(Set(a.f, c, Affected(c)), m, Affected(c)), layers |-> a.layers, err |-> TRUE]
    ELSE LET r == scrubManifest(c, a.f) IN
         [f |-> IF r.f[c].status = "affected" THEN Set(r.f, m, r.f[c]) ELSE r.f,
          layers |-> IF r.err THEN a.layers ELSE a.layers \o r.layers, err |-> FALSE]

scrubIndex(m, f) ==
    IF blob[m] = "garbled" THEN [f |-> Set(f, m, Affected(m)), layers |-> <<>>, err |-> TRUE]
    ELSE LET Step(a, c) == NextMember(a, m, c)
             r == FoldLeft(Step, [f |-> f, layers |-> <<>>, err |-> FALSE], Members[m])
             g == IF r.f[m].status = "affected" THEN r.f ELSE Set(r.f, m, OK)
         IN IF r.err THEN r
            ELSE IF Subject[m] = None THEN [r EXCEPT !.f = g]
            ELSE ScrubSubject(m, g, r.layers)

scrubImage(m, f) ==
    LET d == CheckManifestAndConfig(m) IN
    IF d # None THEN [f |-> Set(f, m, Affected(d)), layers |-> <<>>, err |-> TRUE]
    ELSE IF Subject[m] = None THEN [f |-> Set(f, m, OK), layers |-> Layers[m], err |-> FALSE]
    ELSE ScrubSubject(m, Set(f, m, OK), Layers[m])

scrubManifest(m, f) ==
    IF f[m].status # "none" THEN [f |-> f, layers |-> <<>>, err |-> FALSE]
    ELSE CASE Kind[m] = "index" -> scrubIndex(m, f)
           [] Kind[m] = "image" -> scrubImage(m, f)
           [] OTHER -> [f |-> Set(f, m, Affected(m)), layers |-> <<>>, err |-> TRUE]

----------------------------------------------------------------------------
getIndex ==
    /\ s.pc = "start"
    /\ s' = [s EXCEPT !.pc = "image", !.list = entries]
    /\ UNCHANGED <<blob, entries, deletes, deleted>>

Entry == s.list[s.k]
Report(f) == Append(s.out, [m |-> Entry, r |-> f[Entry]])

\* A manifest that is not there was deleted since: no result.
checkImage ==
    /\ s.pc = "image" /\ s.k <= Len(s.list)
    /\ IF ~Readable(Entry) THEN s' = [s EXCEPT !.k = @ + 1]
       ELSE LET r == scrubManifest(Entry, s.found) IN
            IF ~r.err /\ r.layers # <<>>
            THEN s' = [s EXCEPT !.pc = "layers", !.found = r.f, !.layers = r.layers]
            ELSE s' = [s EXCEPT !.k = @ + 1, !.found = r.f, !.out = Report(r.f)]
    /\ UNCHANGED <<blob, entries, deletes, deleted>>

\* MUTANT: the first layer is named whichever is damaged.
BlameFirst(ls) == IF \A i \in DOMAIN ls : VerifyBlobDigestValue(ls[i]) THEN OK ELSE Affected(ls[1])

CheckLayers(ls) ==
    LET bad == {i \in DOMAIN ls : ~VerifyBlobDigestValue(ls[i])} IN
    IF bad = {} THEN OK ELSE Affected(ls[CHOOSE i \in bad : \A j \in bad : i <= j])

CheckRepoLayers ==
    /\ s.pc = "layers"
    /\ LET f == IF s.found[Entry].status = "affected" THEN s.found ELSE Set(s.found, Entry, CheckLayers(s.layers))
       IN s' = [s EXCEPT !.pc = "image", !.k = @ + 1, !.found = f, !.layers = <<>>, !.out = Report(f)]
    /\ UNCHANGED <<blob, entries, deletes, deleted>>

CheckRepo ==
    /\ s.pc = "image" /\ s.k > Len(s.list)
    /\ s' = [s EXCEPT !.pc = "done"]
    /\ UNCHANGED <<blob, entries, deletes, deleted>>

\* the task's context ends: no results at all for this repository
Cancel ==
    /\ s.pc \in {"image", "layers"}
    /\ s' = [s EXCEPT !.pc = "cancelled"]
    /\ UNCHANGED <<blob, entries, deletes, deleted>>

\* external: an image is deleted and what only it used is collected
Delete(m) ==
    /\ deletes > 0 /\ s.pc \in {"image", "layers"} /\ \E k \in DOMAIN entries : entries[k] = m
    /\ \E lost \in SUBSET ({m} \cup {Layers[m][k] : k \in DOMAIN Layers[m]}) :
         /\ blob' = [d \in Blobs |-> IF d \in lost THEN "gone" ELSE blob[d]]
         /\ deleted' = deleted \cup lost
    /\ entries' = SelectSeq(entries, LAMBDA e : e # m)
    /\ deletes' = deletes - 1
    /\ UNCHANGED s

Next == getIndex \/ checkImage \/ CheckRepoLayers \/ CheckRepo \/ Cancel \/ \E m \in Manifests : Delete(m)

Spec == Init /\ [][Next]_vars

----------------------------------------------------------------------------
(* Properties                                                              *)

\* Every variable holds a value of the kind the code gives it.
TypeOK ==
    /\ s.pc \in {"start", "image", "layers", "done", "cancelled"}
    /\ \A m \in Manifests : s.found[m].status \in {"none", "ok", "affected"}
    /\ blob \in [Blobs -> {"ok", "sha512", "opaque"} \cup Damages] /\ deleted \subseteq Blobs

\* what a manifest names, and what that names
Names(m) ==
    {Layers[m][k] : k \in DOMAIN Layers[m]} \cup {Members[m][k] : k \in DOMAIN Members[m]}
        \cup ({Config[m], Subject[m]} \ {None})
RECURSIVE Reach(_)
Reach(d) == {d} \cup IF d \in Manifests THEN UNION {Reach(x) : x \in Names(d)} ELSE {}

\* What the scrub cannot pass: what is missing or unreadable, another content or
\* another algorithm than the name tells (of an index neither is looked at), a
\* config that is not JSON, a media type it does not know.
IsIndex(d) == d \in Manifests /\ Kind[d] = "index"
Fails(d) ==
    \/ blob[d] \in {"gone", "denied", "garbled", "opaque"}
    \/ blob[d] \in {"bad", "sha512"} /\ ~IsIndex(d)
    \/ d \in Manifests /\ Kind[d] = "other"

\* An image is reported as affected only for a blob it reaches which fails, or which
\* was deleted while the task ran.
AffectedReal ==
    \A k \in DOMAIN s.out : s.out[k].r.status = "affected" =>
        s.out[k].r.blob \in Reach(s.out[k].m) /\ (Fails(s.out[k].r.blob) \/ s.out[k].r.blob \in deleted)

\* Damage does not pass unseen: if a task ran to its end over a repository from
\* which nothing was deleted, and a manifest it could read reaches a blob that
\* fails, then some image is reported as affected.
DamageSeen ==
    s.pc = "done" /\ deleted = {} =>
        \A k \in DOMAIN s.list : Readable(s.list[k]) =>
            \A d \in Reach(s.list[k]) :
                Fails(d) => \E j \in DOMAIN s.out : s.out[j].r.status = "affected"

=============================================================================
