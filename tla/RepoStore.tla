----------------------------- MODULE RepoStore -----------------------------
(***************************************************************************)
(* One repository of an image store: its index.json, its blobs and its     *)
(* upload sessions (pkg/storage/imagestore/imagestore.go, with the helpers *)
(* of pkg/storage/common/common.go), and the garbage collector that cleans *)
(* it (pkg/storage/gc/gc.go).                                              *)
(*                                                                         *)
(* index.json is a set of rows, a row being a manifest digest with a tag   *)
(* or without one.  Pushes, deletes and a GC pass hold the store's write   *)
(* lock, but they make several writes, and the process may fail or die     *)
(* between two of them; uploads are opened and cancelled without the lock. *)
(* Time is the age of each blob, in ticks, that GC compares with its       *)
(* delays.                                                                 *)
(***************************************************************************)
EXTENDS Integers, FiniteSets

CONSTANTS
    Blobs,              \* digests of layers and configs
    Images, Indexes,    \* digests of image manifests and of image indexes
    Refs,               \* the config and the layers of each image
    Children,           \* the manifests that each index lists
    Subject,            \* the manifest that a manifest refers to, or None
    Validated,          \* the images whose blobs ValidateManifest looks for
    Tags, NoTag,
    CosignSubject,      \* the manifest that a tag sha256-<digest>.sig names, or None
    None,
    Uploads,            \* upload sessions
    Dedupe, Remote,     \* storage.dedupe, and a driver without links
    Retained,           \* the tags that the retention policy keeps
    KeepUntagged,       \* the untagged manifests that the policy keeps
    DeleteReferrers, DeleteUntagged,    \* gc options of the repository
    GCDelay, RetentionDelay,
    MaxAge,             \* bound on ages: the largest delay told apart
    MaxFailures         \* bound on failures within one behaviour

Manifests == Images \cup Indexes
Digests   == Manifests \cup Blobs

ASSUME ConstantsAssumption ==
    /\ IsFiniteSet(Digests)
    /\ Images \cap Indexes = {} /\ Manifests \cap Blobs = {}
    /\ Refs \in [Images -> SUBSET Blobs]
    /\ Children \in [Indexes -> SUBSET Manifests]
    /\ Subject \in [Manifests -> Manifests \cup {None}] /\ None \notin Manifests
    /\ Validated \subseteq Images
    /\ NoTag \notin Tags
    /\ CosignSubject \in [Tags -> Manifests \cup {None}]
    /\ Retained \subseteq Tags /\ KeepUntagged \subseteq Manifests
    /\ Dedupe \in BOOLEAN /\ Remote \in BOOLEAN
    /\ DeleteReferrers \in BOOLEAN /\ DeleteUntagged \in BOOLEAN
    /\ GCDelay \in Nat /\ RetentionDelay \in Nat /\ MaxAge \in Nat /\ MaxFailures \in Nat

VARIABLES
    layout,         \* the repository has its layout: index.json is there
    rows,           \* the manifest descriptors in index.json
    blobs,          \* the files under blobs/
    age,            \* of each of them, 0 for a digest that is not there
    recent,         \* the digests acknowledged in this tick with content written in it (history)
    uploads,        \* the files under .uploads/
    uploadAge,      \* ticks since each of them was written to, 0 for one that is not there
    pc,             \* what the holder of the store lock does next
    target,         \* the digest it is about
    mem,            \* its copy of index.json
    tags,           \* PutImageManifest: the tags it has still to set
    left, keep,     \* GC: the rows it has still to visit, the manifests it must keep
    gcReferrer, gcUntagged,     \* GC: gcedReferrer and gcedUntagged of this loop
    failures

store  == <<layout, rows, blobs, age>>
ups    == <<uploads, uploadAge>>
locals == <<target, mem, tags, left, keep, gcReferrer, gcUntagged>>
vars   == <<layout, rows, blobs, age, recent, uploads, uploadAge, pc, target, mem,
            tags, left, keep, gcReferrer, gcUntagged, failures>>

Rows == [digest: Manifests, tag: Tags \cup {NoTag}]
Row(d, t) == [digest |-> d, tag |-> t]

GCSteps == {"gcLoop", "gcReferrers", "gcUntagged", "gcIndex", "gcBlobs", "gcIdle",
            "gcRemove", "gcUploads"}

\* Every variable holds a value of the kind the code gives it, and no file that is
\* gone has an age.
TypeOK ==
    /\ layout \in BOOLEAN
    /\ rows \subseteq Rows /\ mem \subseteq Rows /\ left \subseteq Rows
    /\ blobs \subseteq Digests /\ recent \subseteq Digests
    /\ age \in [Digests -> 0..MaxAge] /\ \A d \in Digests \ blobs : age[d] = 0
    /\ uploads \subseteq Uploads /\ uploadAge \in [Uploads -> 0..MaxAge]
    /\ pc \in {"idle", "put", "deleteBlob"} \cup GCSteps
    /\ target \in Digests \cup {None}
    /\ tags \subseteq Tags
    /\ keep \subseteq Manifests
    /\ gcReferrer \in BOOLEAN /\ gcUntagged \in BOOLEAN
    /\ failures \in Nat

-----------------------------------------------------------------------------
(* index.json and what it reaches.                                           *)

RowsOf(R, d)    == {r \in R : r.digest = d}
HasDigest(R, d) == RowsOf(R, d) # {}
DigestsOf(R)    == {r.digest : r \in R}
TagRows(R, t)   == {r \in R : r.tag = t}

\* The manifests that a walk from the digests D meets; it descends into the indexes
\* that are there.
Nested(D) ==
    {m \in Manifests :
        \A S \in SUBSET Manifests :
            (D \subseteq S /\ \A i \in S \cap Indexes \cap blobs : Children[i] \subseteq S)
                => m \in S}

\* MUTANT: the layers and configs of the images are not collected.
ReferencedBlobsNoLayers(R) == Nested(DigestsOf(R))

\* GetReferencedBlobs and IsBlobReferenced: what index.json keeps from being deleted.
ReferencedBlobs(R) ==
    LET M == Nested(DigestsOf(R))
    IN  M \cup UNION {Refs[m] : m \in M \cap Images \cap blobs}

\* RemoveManifestDescByReference with a tag: the manifest of the last tag stays,
\* without a tag.
RemoveTag(R, t) ==
    LET gone == TagRows(R, t)
    IN  (R \ gone) \cup {Row(r.digest, NoTag) : r \in {g \in gone : RowsOf(R, g.digest) = {g}}}

\* PruneImageManifestsFromIndex: once index old is replaced by index new, its images
\* that have no tag and are in no other index lose their rows.
Prune(R, old, new) ==
    LET others == {new} \cup (DigestsOf(R) \cap Indexes)
        used   == UNION {Children[i] : i \in others \cap blobs}
    IN  {r \in R : ~(/\ r.digest \in Images /\ r.tag = NoTag
                     /\ r.digest \in Children[old] /\ r.digest \notin used)}

\* UpdateIndexWithPrunedImageManifests.
UpdateIndexWithPruned(R, old, new) ==
    IF new \in Indexes /\ old \in Indexes THEN Prune(R, old, new) ELSE R

-----------------------------------------------------------------------------
(* The repository layout and uploads.                                        *)

Idle == pc = "idle"

\* The operation ends: its local variables are gone.
Return ==
    /\ pc' = "idle" /\ target' = None /\ mem' = {} /\ tags' = {} /\ left' = {} /\ keep' = {}
    /\ gcReferrer' = FALSE /\ gcUntagged' = FALSE

InitRepo ==
    /\ Idle
    /\ ~layout /\ layout' = TRUE
    /\ UNCHANGED <<rows, blobs, age, recent, ups, pc, locals, failures>>

\* NewBlobUpload, PutBlobChunk and PutBlobChunkStreamed, FullBlobUpload: the file under
\* .uploads is written to without the lock.
WriteUpload(u) ==
    /\ uploads' = uploads \cup {u}
    /\ uploadAge' = [uploadAge EXCEPT ![u] = 0]
    /\ UNCHANGED <<store, recent, pc, locals, failures>>

\* the session's file is gone
EndUpload(u) == uploads' = uploads \ {u} /\ uploadAge' = [uploadAge EXCEPT ![u] = 0]

DeleteBlobUpload(u) ==
    /\ u \in uploads
    /\ EndUpload(u)
    /\ UNCHANGED <<store, recent, pc, locals, failures>>

\* The age of a blob right after its upload.  A local driver renames the session's file,
\* which keeps the time of its last write; a remote one copies it.  DedupeBlob keeps a file
\* that is there already, or links the original: a local link is touched, a remote
\* placeholder has, for StatBlob, the age of its original.
UploadedAges(u, b) ==
    (IF Remote THEN {0} ELSE {uploadAge[u]})
        \cup (IF Dedupe THEN (IF Remote THEN 0..MaxAge ELSE {0}) ELSE {})
        \cup (IF Dedupe /\ b \in blobs THEN {age[b]} ELSE {})
LinkedAges == IF Remote THEN 0..MaxAge ELSE {0}

StoreBlob(b, ages) ==
    /\ layout' = TRUE
    /\ blobs' = blobs \cup {b}
    /\ \E a \in ages : age' = [age EXCEPT ![b] = a]

\* The content was written in this tick and, with dedupe, is not that of an older file.
Fresh(u, b) == uploadAge[u] = 0 /\ (Dedupe => b \notin blobs \/ b \in recent)

\* FinishBlobUpload and FullBlobUpload, under the lock.
FinishBlobUpload(u, b) ==
    /\ Idle
    /\ u \in uploads
    /\ StoreBlob(b, UploadedAges(u, b))
    /\ recent' = IF Fresh(u, b) THEN recent \cup {b} ELSE recent \ {b}
    /\ EndUpload(u)
    /\ UNCHANGED <<rows, pc, locals, failures>>

\* CheckBlob links a blob that another repository holds (HEAD, cross-repository mount).
CheckBlob(b) ==
    /\ Idle /\ Dedupe
    /\ b \notin blobs
    /\ StoreBlob(b, LinkedAges)
    /\ recent' = recent \cup {b}
    /\ UNCHANGED <<rows, ups, pc, locals, failures>>

DeleteBlob(d) ==
    /\ Idle /\ layout
    /\ d \in blobs /\ d \notin ReferencedBlobs(rows)
    /\ blobs' = blobs \ {d} /\ age' = [age EXCEPT ![d] = 0]
    /\ recent' = recent \ {d}
    /\ UNCHANGED <<layout, rows, ups, pc, locals, failures>>

-----------------------------------------------------------------------------
(* PutImageManifest.                                                         *)

\* ValidateManifest: the blobs of an image are looked for, the children of an index are
\* not ("sparse indexes are allowed").
Valid(d) == d \in Validated => Refs[d] \subseteq blobs

\* The manifest is written, if it is not there, before index.json.
PutStart(d, T) ==
    /\ Idle /\ layout
    /\ Valid(d)
    /\ blobs' = blobs \cup {d}
    /\ pc' = "put" /\ target' = d /\ mem' = rows /\ tags' = T
    /\ UNCHANGED <<layout, rows, age, recent, ups, left, keep, gcReferrer, gcUntagged, failures>>

\* MUTANT: the row without a tag stays beside the new one.
PutTagBesideUntagged(t) ==
    /\ pc = "put" /\ t \in tags
    /\ tags' = tags \ {t}
    /\ mem' = (mem \ TagRows(mem, t)) \cup {Row(target, t)}
    /\ UNCHANGED <<store, recent, ups, pc, target, left, keep, gcReferrer, gcUntagged, failures>>

\* CheckIfIndexNeedsUpdate: a row that gives the tag to another manifest is dropped.
PutTag(t) ==
    /\ pc = "put" /\ t \in tags
    /\ tags' = tags \ {t}
    /\ IF Row(target, t) \in mem
         THEN mem' = mem
         ELSE LET others == mem \ TagRows(mem, t)
                  pruned == IF TagRows(mem, t) = {} THEN others
                            ELSE UpdateIndexWithPruned(others,
                                     (CHOOSE r \in TagRows(mem, t) : TRUE).digest, target)
              IN  mem' = (pruned \ {Row(target, NoTag)}) \cup {Row(target, t)}
    /\ UNCHANGED <<store, recent, ups, pc, target, left, keep, gcReferrer, gcUntagged, failures>>

\* PutIndexContent: written aside and moved in place.
PutIndex ==
    /\ pc = "put" /\ tags = {}
    /\ rows' = IF HasDigest(mem, target) THEN mem ELSE mem \cup {Row(target, NoTag)}
    /\ recent' = recent \cup {target}
    /\ Return
    /\ UNCHANGED <<layout, blobs, age, ups, failures>>

-----------------------------------------------------------------------------
(* DeleteImageManifest.                                                      *)

DeleteByTag(t) ==
    /\ Idle /\ layout
    /\ \E r \in TagRows(rows, t) :
         rows' = UpdateIndexWithPruned(RemoveTag(rows, t), r.digest, r.digest)
    /\ UNCHANGED <<layout, blobs, age, recent, ups, pc, locals, failures>>

\* A manifest that an index of the repository lists is not deleted, nor, if the user may
\* not remove several tags at once, one that has more than one row.
DeleteByDigest(d, detectCollisions) ==
    /\ Idle /\ layout
    /\ HasDigest(rows, d)
    /\ detectCollisions => Cardinality(RowsOf(rows, d)) = 1
    /\ LET others == rows \ RowsOf(rows, d)
       IN  /\ d \notin Nested(DigestsOf(others) \cap Indexes)
           /\ rows' = UpdateIndexWithPruned(others, d, d)
    /\ pc' = "deleteBlob" /\ target' = d
    /\ UNCHANGED <<layout, blobs, age, recent, ups, mem, tags, left, keep, gcReferrer,
                   gcUntagged, failures>>

DeleteManifestBlob ==
    /\ pc = "deleteBlob"
    /\ blobs' = IF HasDigest(rows, target) THEN blobs ELSE blobs \ {target}
    /\ age' = IF HasDigest(rows, target) THEN age ELSE [age EXCEPT ![target] = 0]
    /\ recent' = IF HasDigest(rows, target) THEN recent ELSE recent \ {target}
    /\ Return
    /\ UNCHANGED <<layout, rows, ups, failures>>

-----------------------------------------------------------------------------
(* cleanRepo: one GC pass, under the lock from its first step to its last.   *)

OlderThan(d, delay) == d \in blobs /\ age[d] >= delay

\* removeManifest: by tag if the row has one, else by digest, which fails if the digest
\* has more than one row.
Removed(R, r) ==
    IF r.tag # NoTag THEN RemoveTag(R, r.tag)
    ELSE IF Cardinality(RowsOf(R, r.digest)) = 1 THEN R \ RowsOf(R, r.digest) ELSE R

\* removeTagsPerRetentionPolicy.
RetainTags(R) ==
    LET gone == {r \in R : r.tag \in Tags \ Retained}
    IN  (R \ gone) \cup {Row(d, NoTag) : d \in DigestsOf(gone) \ DigestsOf(R \ gone)}

GCStart ==
    /\ Idle /\ layout
    /\ mem' = RetainTags(rows)
    /\ pc' = "gcLoop"
    /\ UNCHANGED <<store, recent, ups, target, tags, left, keep, gcReferrer, gcUntagged, failures>>

\* removeManifestsPerRepoPolicy: the head of its loop.
GCLoop ==
    /\ pc = "gcLoop"
    /\ pc' = "gcReferrers"
    /\ left' = IF DeleteReferrers THEN mem ELSE {}
    /\ gcReferrer' = FALSE /\ gcUntagged' = FALSE
    /\ UNCHANGED <<store, recent, ups, target, mem, tags, keep, failures>>

\* removeReferrer: the subject of the manifest, or of its cosign tag, has no row any more.
LostSubject(r) == /\ r.digest \in blobs /\ Subject[r.digest] # None
                  /\ ~HasDigest(mem, Subject[r.digest])
LostCosignSubject(r) == /\ r.tag # NoTag /\ CosignSubject[r.tag] # None
                        /\ ~HasDigest(mem, CosignSubject[r.tag])
Removable(r) ==
    \/ LostSubject(r) /\ OlderThan(r.digest, RetentionDelay)
    \/ LostCosignSubject(r) /\ OlderThan(r.digest, GCDelay)

\* MUTANT: a row that is too young to be removed counts as removed.
GCReferrerCountsYoung(r) ==
    /\ pc = "gcReferrers" /\ r \in left
    /\ left' = left \ {r}
    /\ mem' = IF Removable(r) THEN Removed(mem, r) ELSE mem
    /\ gcReferrer' = (gcReferrer \/ LostSubject(r))
    /\ UNCHANGED <<store, recent, ups, pc, target, tags, keep, gcUntagged, failures>>

GCReferrer(r) ==
    /\ pc = "gcReferrers" /\ r \in left
    /\ left' = left \ {r}
    /\ mem' = IF Removable(r) THEN Removed(mem, r) ELSE mem
    /\ gcReferrer' = (gcReferrer \/ mem' # mem)
    /\ UNCHANGED <<store, recent, ups, pc, target, tags, keep, gcUntagged, failures>>

\* MUTANT: only the referrers are kept.
ReferencedManifestsNoChildren(R) == {m \in Nested(DigestsOf(R)) \cap blobs : Subject[m] # None}

\* identifyManifestsReferencedInIndex: the children of indexes and the referrers.
ReferencedManifests(R) ==
    LET M == Nested(DigestsOf(R))
    IN  (UNION {Children[i] : i \in M \cap Indexes \cap blobs})
        \cup {m \in M \cap blobs : Subject[m] # None}

GCReferrersDone ==
    /\ pc = "gcReferrers" /\ left = {}
    /\ pc' = "gcUntagged"
    /\ left' = IF DeleteUntagged THEN mem ELSE {}
    /\ keep' = ReferencedManifests(mem) \cup KeepUntagged
    /\ UNCHANGED <<store, recent, ups, target, mem, tags, gcReferrer, gcUntagged, failures>>

\* MUTANT: a row is removed whether it has a tag or not.
GCUntaggedAny(r) ==
    /\ pc = "gcUntagged" /\ r \in left
    /\ left' = left \ {r}
    /\ mem' = IF r.digest \notin keep /\ OlderThan(r.digest, RetentionDelay)
                THEN Removed(mem, r) ELSE mem
    /\ gcUntagged' = (mem' # mem)
    /\ UNCHANGED <<store, recent, ups, pc, target, tags, keep, gcReferrer, failures>>

\* removeUntaggedManifests: gced tells of the last untagged row only.
GCUntagged(r) ==
    /\ pc = "gcUntagged" /\ r \in left
    /\ left' = left \ {r}
    /\ IF r.tag = NoTag /\ r.digest \notin keep
         THEN /\ mem' = IF OlderThan(r.digest, RetentionDelay) THEN Removed(mem, r) ELSE mem
              /\ gcUntagged' = (mem' # mem)
         ELSE UNCHANGED <<mem, gcUntagged>>
    /\ UNCHANGED <<store, recent, ups, pc, target, tags, keep, gcReferrer, failures>>

GCUntaggedDone ==
    /\ pc = "gcUntagged" /\ left = {}
    /\ pc' = IF gcReferrer \/ gcUntagged THEN "gcLoop" ELSE "gcIndex"
    /\ UNCHANGED <<store, recent, ups, locals, failures>>

\* removeStaleManifestEntries: the manifest is gone, or all the children of the index are.
Stale(r) ==
    \/ r.digest \notin blobs
    \/ /\ r.digest \in Indexes /\ Children[r.digest] # {}
       /\ Children[r.digest] \cap blobs = {}

GCIndex ==
    /\ pc = "gcIndex"
    /\ rows' = {r \in mem : ~Stale(r)}
    /\ pc' = "gcBlobs" /\ mem' = {} /\ keep' = {}
    /\ UNCHANGED <<layout, blobs, age, recent, ups, target, tags, left, gcReferrer, gcUntagged,
                   failures>>

\* MUTANT: the age of a blob is not looked at.
GarbageAnyAge == {d \in blobs \ ReferencedBlobs(rows) : age[d] >= 0}

\* deleteUnreferencedBlobs and CleanupRepo.
Garbage == {d \in blobs \ ReferencedBlobs(rows) : age[d] >= GCDelay}

GCBlob(d) ==
    /\ pc = "gcBlobs" /\ d \in Garbage
    /\ blobs' = blobs \ {d} /\ age' = [age EXCEPT ![d] = 0]
    /\ recent' = recent \ {d}
    /\ UNCHANGED <<layout, rows, ups, pc, locals, failures>>

\* MUTANT: CleanupRepo may leave blobs behind without an error.
GCBlobsDoneEarly ==
    /\ pc = "gcBlobs"
    /\ pc' = "gcIdle"
    /\ UNCHANGED <<store, recent, ups, locals, failures>>

GCBlobsDone ==
    /\ pc = "gcBlobs" /\ Garbage = {}
    /\ pc' = "gcIdle"
    /\ UNCHANGED <<store, recent, ups, locals, failures>>

\* RemoveIdleRepository: without rows and uploads the old blobs go, and then the
\* directory if no blob is left.
GCIdle ==
    /\ pc = "gcIdle" /\ rows = {} /\ uploads = {}
    /\ blobs' = blobs \ Garbage /\ age' = [d \in Digests |-> IF d \in Garbage THEN 0 ELSE age[d]]
    /\ recent' = recent \ Garbage
    /\ pc' = IF blobs' = {} THEN "gcRemove" ELSE "gcUploads"
    /\ UNCHANGED <<layout, rows, ups, locals, failures>>

\* A row, an upload or a staged sync session (HasInProgressSessions) keeps the repository.
GCNotIdle ==
    /\ pc = "gcIdle"
    /\ pc' = "gcUploads"
    /\ UNCHANGED <<store, recent, ups, locals, failures>>

\* The directory goes with all it holds by now.
GCRemove ==
    /\ pc = "gcRemove"
    /\ layout' = FALSE
    /\ uploads' = {} /\ uploadAge' = [u \in Uploads |-> 0]
    /\ pc' = "gcUploads"
    /\ UNCHANGED <<rows, blobs, age, recent, locals, failures>>

\* deleteBlobUploads: the sessions that nobody has written to for GCDelay.
Abandoned == {u \in uploads : uploadAge[u] >= GCDelay}
GCUploads ==
    /\ pc = "gcUploads"
    /\ uploads' = uploads \ Abandoned
    /\ uploadAge' = [u \in Uploads |-> IF u \in Abandoned THEN 0 ELSE uploadAge[u]]
    /\ Return
    /\ UNCHANGED <<store, recent, failures>>

-----------------------------------------------------------------------------
(* Time and failures.                                                        *)

\* A delay is long, so that no tick falls into an operation.
Older(a) == IF a < MaxAge THEN a + 1 ELSE a
Tick ==
    /\ Idle
    /\ age' = [d \in Digests |-> IF d \in blobs THEN Older(age[d]) ELSE age[d]]
    /\ recent' = {}
    /\ uploadAge' = [u \in Uploads |-> IF u \in uploads THEN Older(uploadAge[u]) ELSE uploadAge[u]]
    /\ UNCHANGED <<layout, rows, blobs, uploads, pc, locals, failures>>

\* The operation that holds the lock fails, or the process dies and starts again.
Fail ==
    /\ ~Idle
    /\ failures < MaxFailures /\ failures' = failures + 1
    /\ Return
    /\ UNCHANGED <<store, recent, ups>>

-----------------------------------------------------------------------------
Init ==
    /\ layout = FALSE /\ rows = {} /\ blobs = {} /\ age = [d \in Digests |-> 0]
    /\ recent = {} /\ uploads = {} /\ uploadAge = [u \in Uploads |-> 0]
    /\ pc = "idle" /\ target = None /\ mem = {} /\ tags = {} /\ left = {} /\ keep = {}
    /\ gcReferrer = FALSE /\ gcUntagged = FALSE
    /\ failures = 0

Uploading == \/ \E b \in Blobs : CheckBlob(b)
             \/ \E u \in Uploads : \/ WriteUpload(u) \/ DeleteBlobUpload(u)
                                \/ \E b \in Blobs : FinishBlobUpload(u, b)
Pushing == \/ InitRepo \/ PutIndex
           \/ \E d \in Manifests, T \in SUBSET Tags : PutStart(d, T)
           \/ \E t \in Tags : PutTag(t)
Deleting == \/ \E t \in Tags : DeleteByTag(t)
            \/ \E d \in Manifests, detect \in BOOLEAN : DeleteByDigest(d, detect)
            \/ DeleteManifestBlob
            \/ \E d \in Digests : DeleteBlob(d)
GCPass == \/ GCLoop \/ GCReferrersDone \/ GCUntaggedDone \/ GCIndex
          \/ GCBlobsDone \/ GCIdle \/ GCNotIdle \/ GCRemove \/ GCUploads
          \/ \E r \in left : GCReferrer(r) \/ GCUntagged(r)
          \/ \E d \in Digests : GCBlob(d)

Next == Uploading \/ Pushing \/ Deleting \/ GCStart \/ GCPass \/ Tick \/ Fail

Spec == Init /\ [][Next]_vars

\* A goroutine that holds the lock goes on, the scheduler starts a pass again and again,
\* and time passes.
FairSpec == /\ Spec
            /\ WF_vars(GCPass) /\ WF_vars(PutIndex) /\ WF_vars(DeleteManifestBlob)
            /\ \A t \in Tags : WF_vars(PutTag(t))
            /\ SF_vars(GCStart) /\ SF_vars(Tick)

-----------------------------------------------------------------------------
(* Properties.                                                               *)

\* Whatever index.json lists can be pulled: the manifest of each row is there, and so are
\* the blobs of each image whose blobs PutImageManifest looked for.
RowsBacked ==
    \A r \in rows : r.digest \in blobs /\ (r.digest \in Validated => Refs[r.digest] \subseteq blobs)

\* A tag names one manifest, and a manifest has a row without a tag only when it has no
\* other row: RemoveManifestDescByReference by digest, as GC calls it, never conflicts
\* with an untagged sibling.
WellFormed(R) ==
    \A r, q \in R : /\ (r.tag = q.tag /\ r.tag # NoTag) => r = q
                    /\ (r.digest = q.digest /\ r.tag = NoTag) => r = q
IndexWellFormed == WellFormed(rows) /\ WellFormed(mem)

\* A repository that holds blobs can be found by the next GC pass: "a blob finished after
\* GC deleted the repo is still a walkable repository".
Walkable == blobs # {} => layout

\* Whatever requests, passes and failures interleave, what index.json lists can be told apart
\* and the repository of a blob can be found.
LayoutSound == IndexWellFormed /\ Walkable

\* A GC pass takes a tag away only if the retention policy drops it, or its manifest (or
\* its cosign subject) lost the manifest it refers to, or its index lost all children.
GCKeepsTags ==
    [][pc = "gcIndex" =>
        \A r \in rows \ rows' : \/ r.tag \notin Retained
                                \/ Subject[r.digest] # None
                                \/ CosignSubject[r.tag] # None
                                \/ Stale(r)]_vars

\* Manifest m refers to a manifest that has no row in R.
Bereft(R, m) == Subject[m] # None /\ ~HasDigest(R, Subject[m])

\* A GC pass takes the last row of a manifest that an index it keeps lists only if that
\* manifest has lost the one it refers to, or is an index whose own children are all gone.
GCKeepsChildren ==
    [][pc = "gcIndex" =>
        \A i \in DigestsOf(rows') \cap Indexes : \A m \in Children[i] :
            HasDigest(rows, m) => \/ HasDigest(rows', m)
                                  \/ Bereft(rows', m)
                                  \/ Stale(Row(m, NoTag))]_vars

\* "stop when neither gc(referrer and untagged) happened in a full loop over index.json":
\* when the loop of removeManifestsPerRepoPolicy stops there is nothing left for it to do.
GCFixpoint ==
    pc = "gcIndex" =>
        \A r \in mem :
            /\ DeleteReferrers => ~Removable(r)
            /\ DeleteUntagged => \/ r.tag # NoTag \/ ~OlderThan(r.digest, RetentionDelay)
                                 \/ r.digest \in ReferencedManifests(mem) \cup KeepUntagged

\* "GC passes its configured delay so recently uploaded blobs keep their grace period": no
\* step of a GC pass deletes a blob whose last upload was written to and acknowledged since
\* the last tick, or that was linked since.  (An upload acknowledged later has the age of its
\* last write, and with dedupe that of the file that was there before: it may go at once.)
GracePeriod == [][GCPass => ((recent \cap Blobs) \ blobs' = {})]_vars

\* A blob that stays unreferenced is collected in the end.
GarbageCollected == \A d \in Digests : []<>(d \notin Garbage)

=============================================================================
