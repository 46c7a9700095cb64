-------------------------- MODULE RepoStoreProofs --------------------------
(* Proofs about RepoStore, for any set of manifests, blobs, tags and upload  *)
(* sessions, any retention policy, any delays and any number of failures.    *)
EXTENDS RepoStore, TLAPS

-----------------------------------------------------------------------------
(* What the operators on the rows of index.json preserve.                    *)

\* A change of the rows that names no new manifest, adds rows without a tag only, and
\* keeps index.json well-formed.
Shrinks(R, S) ==
    /\ S \subseteq Rows
    /\ DigestsOf(S) \subseteq DigestsOf(R)
    /\ WellFormed(R) => WellFormed(S)
    /\ \A r \in S : r \in R \/ r.tag = NoTag

\* Leaving rows out shrinks the index.
LEMMA SubsetShrinks ==
    ASSUME NEW R \in SUBSET Rows, NEW S \in SUBSET R
    PROVE  Shrinks(R, S)
BY DEF Shrinks, DigestsOf, WellFormed

\* The fields of a row.
LEMMA RowType ==
    ASSUME NEW d \in Manifests, NEW t \in Tags \cup {NoTag}
    PROVE  /\ Row(d, t) \in Rows
           /\ Row(d, t).digest = d /\ Row(d, t).tag = t
BY DEF Row, Rows

\* A row is its digest and its tag.
LEMMA RowsEqual ==
    ASSUME NEW r \in Rows
    PROVE  /\ r.digest \in Manifests /\ r.tag \in Tags \cup {NoTag}
           /\ r = Row(r.digest, r.tag)
BY DEF Row, Rows

\* Removing a tag takes nothing but rows of that tag.
LEMMA RemoveTagShrinks ==
    ASSUME NEW R \in SUBSET Rows, NEW t
    PROVE  /\ Shrinks(R, RemoveTag(R, t))
           /\ \A r \in R : r \in RemoveTag(R, t) \/ r.tag = t
<1> DEFINE gone == TagRows(R, t)
           last == {g \in gone : RowsOf(R, g.digest) = {g}}
           S == RemoveTag(R, t)
<1>1. S = (R \ gone) \cup {Row(r.digest, NoTag) : r \in last}
    BY DEF RemoveTag
<1>2. \A r \in last : /\ r \in R /\ r.digest \in Manifests
                      /\ Row(r.digest, NoTag) \in Rows
                      /\ Row(r.digest, NoTag).digest = r.digest
                      /\ Row(r.digest, NoTag).tag = NoTag
                      /\ \A q \in R : q.digest = r.digest => q = r
    BY RowType, RowsEqual DEF TagRows, RowsOf
<1>3. \A q \in R : q \in gone <=> q.tag = t
    BY DEF TagRows
<1>4. \A r \in last : r.tag = t
    BY DEF TagRows
<1> HIDE DEF last, gone, S
<1>5. S \subseteq Rows
    BY <1>1, <1>2
<1>6. DigestsOf(S) \subseteq DigestsOf(R)
    BY <1>1, <1>2 DEF DigestsOf
<1>7. \A r \in S : r \in R \/ r.tag = NoTag
    BY <1>1, <1>2
<1>8. ASSUME WellFormed(R)
      PROVE  WellFormed(S)
    <2>1. ASSUME NEW r \in S, NEW q \in S, r.tag = q.tag, r.tag # NoTag
          PROVE  r = q
        BY <1>8, <2>1, <1>1, <1>2 DEF WellFormed
    <2>2. ASSUME NEW r \in S, NEW q \in S, r.digest = q.digest, r.tag = NoTag
          PROVE  r = q
        <3>1. CASE r \in R \ gone /\ q \in R \ gone
            BY <1>8, <2>2, <3>1 DEF WellFormed
        <3>2. CASE r \notin R \ gone /\ q \in R \ gone
            <4>1. PICK g \in last : r = Row(g.digest, NoTag)
                BY <3>2, <1>1
            <4>2. q = g
                BY <4>1, <3>2, <2>2, <1>2
            <4> QED BY <4>2, <3>2, <1>3, <1>4
        <3>3. CASE r \in R \ gone /\ q \notin R \ gone
            <4>1. PICK g \in last : q = Row(g.digest, NoTag)
                BY <3>3, <1>1
            <4>2. r = g
                BY <4>1, <3>3, <2>2, <1>2
            <4> QED BY <4>2, <3>3, <1>3, <1>4
        <3>4. CASE r \notin R \ gone /\ q \notin R \ gone
            BY <3>4, <2>2, <1>1, <1>2
        <3> QED BY <3>1, <3>2, <3>3, <3>4
    <2> QED BY <2>1, <2>2 DEF WellFormed
<1>9. \A r \in R : r \in S \/ r.tag = t
    BY <1>1, <1>3
<1> QED BY <1>5, <1>6, <1>7, <1>8, <1>9 DEF Shrinks, S

\* Retention takes nothing but rows whose tags it does not keep.
LEMMA RetainTagsShrinks ==
    ASSUME NEW R \in SUBSET Rows
    PROVE  /\ Shrinks(R, RetainTags(R))
           /\ \A r \in R : r \in RetainTags(R) \/ r.tag \notin Retained
<1> DEFINE gone == {r \in R : r.tag \in Tags \ Retained}
           D == DigestsOf(gone) \ DigestsOf(R \ gone)
           S == RetainTags(R)
<1>1. S = (R \ gone) \cup {Row(d, NoTag) : d \in D}
    BY DEF RetainTags
<1>2. \A d \in D : /\ d \in DigestsOf(R) /\ d \in Manifests
                   /\ Row(d, NoTag) \in Rows
                   /\ Row(d, NoTag).digest = d /\ Row(d, NoTag).tag = NoTag
                   /\ \A q \in R \ gone : q.digest # d
    BY RowType, RowsEqual DEF DigestsOf
<1>3. \A q \in gone : q.tag \notin Retained
    OBVIOUS
<1> HIDE DEF D, gone, S
<1>4. S \subseteq Rows
    BY <1>1, <1>2
<1>5. DigestsOf(S) \subseteq DigestsOf(R)
    BY <1>1, <1>2 DEF DigestsOf
<1>6. \A r \in S : r \in R \/ r.tag = NoTag
    BY <1>1, <1>2
<1>7. ASSUME WellFormed(R)
      PROVE  WellFormed(S)
    BY <1>7, <1>1, <1>2 DEF WellFormed
<1>8. \A r \in R : r \in S \/ r.tag \notin Retained
    BY <1>1, <1>3
<1> QED BY <1>4, <1>5, <1>6, <1>7, <1>8 DEF Shrinks, S

\* removeManifest takes the rows with the tag of r, or the only row of its digest.
LEMMA RemovedShrinks ==
    ASSUME NEW R \in SUBSET Rows, NEW r \in Rows
    PROVE  /\ Shrinks(R, Removed(R, r))
           /\ \A q \in R : \/ q \in Removed(R, r)
                           \/ r.tag # NoTag /\ q.tag = r.tag
                           \/ r.tag = NoTag /\ q.digest = r.digest
<1>1. CASE r.tag # NoTag
    BY <1>1, RemoveTagShrinks DEF Removed
<1>2. CASE r.tag = NoTag /\ Cardinality(RowsOf(R, r.digest)) = 1
    BY <1>2, SubsetShrinks DEF Removed, RowsOf
<1>3. CASE r.tag = NoTag /\ Cardinality(RowsOf(R, r.digest)) # 1
    BY <1>3, SubsetShrinks DEF Removed
<1> QED BY <1>1, <1>2, <1>3

\* Pruning an index takes rows away.
LEMMA PrunedSubset ==
    ASSUME NEW R, NEW old, NEW new
    PROVE  UpdateIndexWithPruned(R, old, new) \subseteq R
BY DEF UpdateIndexWithPruned, Prune

\* Two steps that shrink the index shrink it.
LEMMA ShrinksTransitive ==
    ASSUME NEW R, NEW S, NEW T, Shrinks(R, S), Shrinks(S, T)
    PROVE  Shrinks(R, T)
BY DEF Shrinks

-----------------------------------------------------------------------------
(* What index.json keeps from being deleted.                                 *)

LEMMA NestedContains ==
    ASSUME NEW D \in SUBSET Manifests
    PROVE  D \subseteq Nested(D) /\ Nested(D) \subseteq Manifests
BY DEF Nested

\* The blobs of a row are referenced: GC keeps them.
LEMMA ReferencedKeepsRows ==
    ASSUME TypeOK, NEW r \in rows
    PROVE  /\ r.digest \in ReferencedBlobs(rows)
           /\ (r.digest \in Validated /\ r.digest \in blobs)
                => Refs[r.digest] \subseteq ReferencedBlobs(rows)
<1>1. DigestsOf(rows) \subseteq Manifests /\ r.digest \in DigestsOf(rows)
    BY RowsEqual DEF DigestsOf, TypeOK
<1>2. r.digest \in Nested(DigestsOf(rows))
    BY <1>1, NestedContains
<1>3. Validated \subseteq Images
    BY ConstantsAssumption
<1> QED BY <1>2, <1>3 DEF ReferencedBlobs

-----------------------------------------------------------------------------
(* Type correctness.                                                         *)

LEMMA TypeInit == Init => TypeOK
<1> SUFFICES ASSUME Init
             PROVE  TypeOK
    OBVIOUS
<1>1. 0 \in 0..MaxAge
    BY ConstantsAssumption
<1>2. age \in [Digests -> 0..MaxAge] /\ \A d \in Digests \ blobs : age[d] = 0
    BY <1>1 DEF Init
<1>3. failures \in Nat
    BY DEF Init
<1>4. uploads \subseteq Uploads /\ uploadAge \in [Uploads -> 0..MaxAge]
    BY <1>1 DEF Init
<1> QED BY <1>2, <1>3, <1>4, Zenon DEF Init, TypeOK

\* The age of an upload is an age.
LEMMA UploadedAgesType ==
    ASSUME TypeOK, NEW u \in Uploads, NEW b \in Digests
    PROVE  UploadedAges(u, b) \subseteq 0..MaxAge /\ LinkedAges \subseteq 0..MaxAge
BY ConstantsAssumption DEF TypeOK, UploadedAges, LinkedAges

\* Storing a blob keeps the types of what it writes.
LEMMA StoreBlobType ==
    ASSUME TypeOK, NEW b \in Blobs, NEW ages \in SUBSET (0..MaxAge), StoreBlob(b, ages)
    PROVE  /\ layout' \in BOOLEAN /\ blobs' \subseteq Digests /\ b \in Digests
           /\ age' \in [Digests -> 0..MaxAge] /\ \A d \in Digests \ blobs' : age'[d] = 0
<1>1. b \in Digests
    BY DEF Digests
<1>2. PICK a \in 0..MaxAge : age' = [age EXCEPT ![b] = a]
    BY DEF StoreBlob
<1> QED BY <1>1, <1>2 DEF TypeOK, StoreBlob

\* A session that is written to, or ends, keeps the types of the sessions.
LEMMA UploadsType ==
    ASSUME TypeOK, NEW u \in Uploads, uploads' = uploads \cup {u} \/ uploads' = uploads \ {u},
           uploadAge' = [uploadAge EXCEPT ![u] = 0]
    PROVE  uploads' \subseteq Uploads /\ uploadAge' \in [Uploads -> 0..MaxAge]
<1>1. 0 \in 0..MaxAge
    BY ConstantsAssumption
<1> QED BY <1>1 DEF TypeOK

\* The end of a request, or of a GC run, resets its locals.
LEMMA ReturnType ==
    ASSUME Return
    PROVE  /\ pc' = "idle" /\ target' \in Digests \cup {None}
           /\ mem' \subseteq Rows /\ left' \subseteq Rows
           /\ tags' \subseteq Tags /\ keep' \subseteq Manifests
           /\ gcReferrer' \in BOOLEAN /\ gcUntagged' \in BOOLEAN
BY DEF Return

\* Type correctness, action by action (Type...).
LEMMA TypeUploading == TypeOK /\ Uploading => TypeOK'
<1>1. ASSUME TypeOK, NEW b \in Blobs, CheckBlob(b)
      PROVE  TypeOK'
    <2>1. LinkedAges \in SUBSET (0..MaxAge)
        BY ConstantsAssumption DEF LinkedAges
    <2>2. StoreBlob(b, LinkedAges)
        BY <1>1 DEF CheckBlob
    <2> HIDE DEF LinkedAges
    <2> QED BY <1>1, <2>1, <2>2, StoreBlobType DEF CheckBlob, TypeOK, ups, locals
<1>2. ASSUME TypeOK, NEW u \in Uploads, WriteUpload(u)
      PROVE  TypeOK'
    BY <1>2, UploadsType DEF WriteUpload, TypeOK, store, locals
<1>3. ASSUME TypeOK, NEW u \in Uploads, DeleteBlobUpload(u)
      PROVE  TypeOK'
    BY <1>3, UploadsType DEF DeleteBlobUpload, EndUpload, TypeOK, store, locals
<1>4. ASSUME TypeOK, NEW u \in Uploads, NEW b \in Blobs, FinishBlobUpload(u, b)
      PROVE  TypeOK'
    <2>1. UploadedAges(u, b) \in SUBSET (0..MaxAge)
        BY <1>4, UploadedAgesType DEF Digests
    <2>2. StoreBlob(b, UploadedAges(u, b)) /\ EndUpload(u)
        BY <1>4 DEF FinishBlobUpload
    <2>3. /\ layout' \in BOOLEAN /\ blobs' \subseteq Digests /\ b \in Digests
          /\ age' \in [Digests -> 0..MaxAge] /\ \A d \in Digests \ blobs' : age'[d] = 0
        BY <1>4, <2>1, <2>2, StoreBlobType
    <2>4. uploads' \subseteq Uploads /\ uploadAge' \in [Uploads -> 0..MaxAge]
        BY <1>4, <2>2, UploadsType DEF EndUpload
    <2>5. recent' \subseteq Digests
        BY <1>4, <2>3 DEF FinishBlobUpload, TypeOK
    <2> QED BY <1>4, <2>3, <2>4, <2>5 DEF FinishBlobUpload, TypeOK, locals
<1> QED BY <1>1, <1>2, <1>3, <1>4 DEF Uploading

\* What a push makes of the index it has read.
LEMMA PutTagRows ==
    ASSUME TypeOK, target \in Manifests, NEW t \in Tags, PutTag(t)
    PROVE  \/ mem' = mem
           \/ \E S \in SUBSET (mem \ TagRows(mem, t)) :
                mem' = (S \ {Row(target, NoTag)}) \cup {Row(target, t)}
BY PrunedSubset DEF PutTag

LEMMA TypePushing ==
    TypeOK /\ (pc = "put" => target \in Manifests) /\ Pushing => TypeOK'
<1> USE DEF store, ups, locals
<1>1. ASSUME TypeOK, InitRepo
      PROVE  TypeOK'
    BY <1>1 DEF InitRepo, TypeOK
<1>2. ASSUME TypeOK, target \in Manifests, PutIndex
      PROVE  TypeOK'
    <2>1. rows' \subseteq Rows /\ recent' \subseteq Digests
        BY <1>2, RowType DEF PutIndex, TypeOK, Digests
    <2> QED BY <1>2, <2>1, ReturnType DEF PutIndex, TypeOK
<1>3. ASSUME TypeOK, NEW d \in Manifests, NEW T \in SUBSET Tags, PutStart(d, T)
      PROVE  TypeOK'
    BY <1>3 DEF PutStart, TypeOK, Digests
<1>4. ASSUME TypeOK, target \in Manifests, NEW t \in Tags, PutTag(t)
      PROVE  TypeOK'
    <2>1. mem' \subseteq Rows
        BY <1>4, PutTagRows, RowType DEF TypeOK
    <2> QED BY <1>4, <2>1 DEF PutTag, TypeOK
<1> QED BY <1>1, <1>2, <1>3, <1>4 DEF Pushing, PutIndex, PutTag

LEMMA TypeDeleting == TypeOK /\ Deleting => TypeOK'
<1> USE DEF store, ups, locals
<1>1. ASSUME TypeOK, NEW t \in Tags, DeleteByTag(t)
      PROVE  TypeOK'
    <2>1. PICK r : rows' = UpdateIndexWithPruned(RemoveTag(rows, t), r.digest, r.digest)
        BY <1>1 DEF DeleteByTag
    <2>2. rows' \subseteq RemoveTag(rows, t)
        BY <2>1, PrunedSubset, Zenon
    <2>3. RemoveTag(rows, t) \subseteq Rows
        BY <1>1, RemoveTagShrinks DEF TypeOK, Shrinks
    <2> QED BY <1>1, <2>2, <2>3 DEF DeleteByTag, TypeOK
<1>2. ASSUME TypeOK, NEW d \in Manifests, NEW c \in BOOLEAN, DeleteByDigest(d, c)
      PROVE  TypeOK'
    <2>1. rows' \subseteq Rows
        BY <1>2, PrunedSubset DEF DeleteByDigest, TypeOK
    <2> QED BY <1>2, <2>1 DEF DeleteByDigest, TypeOK, Digests
<1>3. ASSUME TypeOK, DeleteManifestBlob
      PROVE  TypeOK'
    <2>1. /\ age' \in [Digests -> 0..MaxAge] /\ \A d \in Digests \ blobs' : age'[d] = 0
        <3>1. CASE HasDigest(rows, target)
            BY <1>3, <3>1 DEF DeleteManifestBlob, TypeOK
        <3>2. CASE ~HasDigest(rows, target)
            <4>1. blobs' = blobs \ {target} /\ age' = [age EXCEPT ![target] = 0]
                BY <1>3, <3>2 DEF DeleteManifestBlob
            <4>2. 0 \in 0..MaxAge
                BY ConstantsAssumption
            <4> QED BY <1>3, <4>1, <4>2 DEF TypeOK
        <3> QED BY <3>1, <3>2
    <2> QED BY <1>3, <2>1, ReturnType DEF DeleteManifestBlob, TypeOK
<1>4. ASSUME TypeOK, NEW d \in Digests, DeleteBlob(d)
      PROVE  TypeOK'
    BY <1>4, ConstantsAssumption DEF DeleteBlob, TypeOK
<1> QED BY <1>1, <1>2, <1>3, <1>4 DEF Deleting

\* What GC finds referenced are manifests.
LEMMA ReferencedManifestsType ==
    ASSUME NEW R
    PROVE  ReferencedManifests(R) \subseteq Manifests
<1>1. Nested(DigestsOf(R)) \subseteq Manifests
    BY DEF Nested
<1>2. Children \in [Indexes -> SUBSET Manifests]
    BY ConstantsAssumption
<1> QED BY <1>1, <1>2 DEF ReferencedManifests

LEMMA TypeGC == TypeOK /\ (GCStart \/ GCPass) => TypeOK'
<1> USE DEF store, ups, locals, GCSteps
<1>1. ASSUME TypeOK, GCStart
      PROVE  TypeOK'
    <2>1. mem' \subseteq Rows
        BY <1>1, RetainTagsShrinks DEF GCStart, TypeOK, Shrinks
    <2> QED BY <1>1, <2>1 DEF GCStart, TypeOK
<1>0. 0 \in 0..MaxAge
    BY ConstantsAssumption
<1>2. ASSUME TypeOK, GCLoop \/ GCUntaggedDone \/ GCBlobsDone \/ GCNotIdle
      PROVE  TypeOK'
    BY <1>2 DEF GCLoop, GCUntaggedDone, GCBlobsDone, GCNotIdle, TypeOK
<1>9. ASSUME TypeOK, GCRemove
      PROVE  TypeOK'
    BY <1>0, <1>9 DEF GCRemove, TypeOK
<1>3. ASSUME TypeOK, GCReferrersDone
      PROVE  TypeOK'
    <2>1. keep' \subseteq Manifests
        BY <1>3, ReferencedManifestsType, ConstantsAssumption DEF GCReferrersDone
    <2> QED BY <1>3, <2>1 DEF GCReferrersDone, TypeOK
<1>4. ASSUME TypeOK, GCIndex
      PROVE  TypeOK'
    BY <1>4 DEF GCIndex, TypeOK
<1>5. ASSUME TypeOK, GCIdle
      PROVE  TypeOK'
    <2>1. /\ age' \in [Digests -> 0..MaxAge] /\ \A d \in Digests \ blobs' : age'[d] = 0
        BY <1>5, ConstantsAssumption DEF GCIdle, TypeOK
    <2> QED BY <1>5, <2>1 DEF GCIdle, TypeOK
<1>6. ASSUME TypeOK, GCUploads
      PROVE  TypeOK'
    <2>1. uploads' \subseteq Uploads /\ uploadAge' \in [Uploads -> 0..MaxAge]
        BY <1>0, <1>6 DEF GCUploads, TypeOK
    <2>2. layout' = layout /\ rows' = rows /\ blobs' = blobs /\ age' = age /\ recent' = recent
          /\ failures' = failures /\ Return
        BY <1>6 DEF GCUploads
    <2> QED BY <1>6, <2>1, <2>2, ReturnType DEF TypeOK
<1>7. ASSUME TypeOK, NEW r \in left, GCReferrer(r) \/ GCUntagged(r)
      PROVE  TypeOK'
    <2>1. mem' \subseteq Rows
        <3>1. r \in Rows /\ mem \in SUBSET Rows /\ Removed(mem, r) \subseteq Rows
            BY <1>7, RemovedShrinks DEF TypeOK, Shrinks
        <3> QED BY <1>7, <3>1 DEF GCReferrer, GCUntagged
    <2>2. gcReferrer' \in BOOLEAN /\ gcUntagged' \in BOOLEAN
        BY <1>7, Zenon DEF GCReferrer, GCUntagged, TypeOK
    <2> QED BY <1>7, <2>1, <2>2 DEF GCReferrer, GCUntagged, TypeOK
<1>8. ASSUME TypeOK, NEW d \in Digests, GCBlob(d)
      PROVE  TypeOK'
    BY <1>8, ConstantsAssumption DEF GCBlob, TypeOK
<1> QED BY <1>1, <1>2, <1>3, <1>4, <1>5, <1>6, <1>7, <1>8, <1>9 DEF GCPass

LEMMA TypeTickFail == TypeOK /\ (Tick \/ Fail) => TypeOK'
<1>1. ASSUME TypeOK, Tick
      PROVE  TypeOK'
    <2>1. \A a \in 0..MaxAge : Older(a) \in 0..MaxAge
        BY ConstantsAssumption DEF Older
    <2> HIDE DEF Older
    <2>2. /\ age' \in [Digests -> 0..MaxAge] /\ \A d \in Digests \ blobs' : age'[d] = 0
        BY <1>1, <2>1 DEF Tick, TypeOK
    <2>3. uploadAge' \in [Uploads -> 0..MaxAge]
        BY <1>1, <2>1 DEF Tick, TypeOK
    <2> QED BY <1>1, <2>2, <2>3 DEF Tick, TypeOK, locals
<1>2. ASSUME TypeOK, Fail
      PROVE  TypeOK'
    BY <1>2, ReturnType DEF Fail, TypeOK, store, ups
<1> QED BY <1>1, <1>2

-----------------------------------------------------------------------------
(* The inductive invariant.  What the lock holder keeps in its own copy of   *)
(* index.json names only manifests that index.json names, or the one it is   *)
(* about to add, whose blobs are there; and the directory is removed only    *)
(* once it holds no blob.                                                    *)

Backed(d) == d \in blobs /\ (d \in Validated => Refs[d] \subseteq blobs)

GCOnCopy == {"gcLoop", "gcReferrers", "gcUntagged", "gcIndex"}

CopyBacked ==
    /\ pc = "put" => /\ target \in Manifests /\ Backed(target)
                     /\ DigestsOf(mem) \subseteq DigestsOf(rows) \cup {target}
    /\ pc = "deleteBlob" => target \in Manifests
    /\ pc \in GCOnCopy => DigestsOf(mem) \subseteq DigestsOf(rows)

DirectoryKept == Walkable /\ (pc = "gcRemove" => blobs = {})

RepoInv == TypeOK /\ RowsBacked /\ IndexWellFormed /\ CopyBacked /\ DirectoryKept

\* The property, stated over the digests of the index.
LEMMA RowsBackedDigests ==
    ASSUME TypeOK
    PROVE  RowsBacked <=> \A d \in DigestsOf(rows) : Backed(d)
BY DEF RowsBacked, Backed, DigestsOf

\* An index without rows is well formed.
LEMMA EmptyWellFormed == WellFormed({})
BY DEF WellFormed

\* A step that leaves index.json, its copies and the blobs alone, or adds blobs.
LEMMA GrowKeepsInv ==
    ASSUME RepoInv, TypeOK', blobs \subseteq blobs', blobs' # {} => layout',
           UNCHANGED <<rows, mem, target>>,
           pc' = pc /\ (pc = "gcRemove" => blobs' = blobs)
    PROVE  RepoInv'
BY DEF RepoInv, RowsBacked, IndexWellFormed, WellFormed, CopyBacked, Backed, DigestsOf, GCOnCopy,
       DirectoryKept, Walkable

\* A step that deletes blobs which index.json does not reach, between operations or in
\* the last part of a GC pass.
LEMMA DeleteKeepsInv ==
    ASSUME RepoInv, TypeOK', blobs' \subseteq blobs, UNCHANGED <<layout, rows>>,
           \A r \in rows : \A d \in blobs \ blobs' :
                d # r.digest /\ (r.digest \in Validated => d \notin Refs[r.digest]),
           mem' = mem \/ mem' = {},
           pc' \notin GCOnCopy \cup {"put", "deleteBlob"},
           pc' = "gcRemove" => blobs' = {}
    PROVE  RepoInv'
<1>1. RowsBacked'
    BY DEF RepoInv, RowsBacked
<1>2. IndexWellFormed'
    BY EmptyWellFormed DEF RepoInv, IndexWellFormed
<1>3. CopyBacked'
    BY DEF CopyBacked
<1>4. DirectoryKept'
    BY DEF RepoInv, DirectoryKept, Walkable
<1> QED BY <1>1, <1>2, <1>3, <1>4 DEF RepoInv

\* What GC does not find referenced, no row needs.
LEMMA UnreferencedUnused ==
    ASSUME RepoInv, NEW d, d \notin ReferencedBlobs(rows), NEW r \in rows
    PROVE  d # r.digest /\ (r.digest \in Validated => d \notin Refs[r.digest])
<1>1. TypeOK /\ r.digest \in blobs
    BY DEF RepoInv, RowsBacked
<1> QED BY <1>1, ReferencedKeepsRows

\* A step that replaces index.json by rows whose manifests are there.
LEMMA RewriteKeepsInv ==
    ASSUME RepoInv, TypeOK', UNCHANGED <<layout, blobs>>,
           \A d \in DigestsOf(rows') : Backed(d),
           WellFormed(rows'), mem' = {} \/ mem' = mem,
           pc' \notin GCOnCopy \cup {"put", "gcRemove"},
           pc' = "deleteBlob" => target' \in Manifests
    PROVE  RepoInv'
<1>1. RowsBacked'
    BY DEF RowsBacked, Backed, DigestsOf
<1>2. IndexWellFormed'
    BY EmptyWellFormed DEF RepoInv, IndexWellFormed
<1>3. CopyBacked' /\ DirectoryKept'
    BY DEF RepoInv, CopyBacked, DirectoryKept, Walkable
<1> QED BY <1>1, <1>2, <1>3 DEF RepoInv

\* A step that works on the copy only.
LEMMA CopyKeepsInv ==
    ASSUME RepoInv, TypeOK', UNCHANGED <<layout, rows, blobs>>, WellFormed(mem'),
           pc' \notin {"deleteBlob", "gcRemove"},
           pc' = "put" => /\ target' \in Manifests /\ Backed(target')
                          /\ DigestsOf(mem') \subseteq DigestsOf(rows) \cup {target'},
           pc' \in GCOnCopy => DigestsOf(mem') \subseteq DigestsOf(rows)
    PROVE  RepoInv'
<1>1. RowsBacked' /\ IndexWellFormed' /\ DirectoryKept'
    BY DEF RepoInv, RowsBacked, IndexWellFormed, WellFormed, DirectoryKept, Walkable
<1>2. CopyBacked'
    BY DEF CopyBacked, Backed, DigestsOf
<1> QED BY <1>1, <1>2 DEF RepoInv

\* The invariant holds at the start.
LEMMA RepoInit == Init => RepoInv
<1> SUFFICES ASSUME Init
             PROVE  RepoInv
    OBVIOUS
<1>1. TypeOK
    BY TypeInit
<1>2. RowsBacked /\ IndexWellFormed /\ CopyBacked /\ DirectoryKept
    BY EmptyWellFormed DEF Init, RowsBacked, IndexWellFormed, CopyBacked, DirectoryKept, Walkable,
        GCOnCopy
<1> QED BY <1>1, <1>2 DEF RepoInv

\* Uploads keep it.
LEMMA RepoUploading == RepoInv /\ Uploading => RepoInv'
<1> SUFFICES ASSUME RepoInv, Uploading
             PROVE  RepoInv'
    OBVIOUS
<1>1. TypeOK'
    BY TypeUploading DEF RepoInv
<1> DEFINE Grows == /\ blobs \subseteq blobs' /\ (blobs' # {} => layout')
                    /\ UNCHANGED <<rows, mem, target, pc>>
                    /\ (pc = "gcRemove" => blobs' = blobs)
<1>2. Grows
    <2>1. ASSUME NEW b \in Blobs, CheckBlob(b)
          PROVE  Grows
        BY <2>1 DEF CheckBlob, StoreBlob, Idle, locals
    <2>2. ASSUME NEW u \in Uploads, WriteUpload(u) \/ DeleteBlobUpload(u)
          PROVE  Grows
        BY <2>2 DEF WriteUpload, DeleteBlobUpload, store, locals, RepoInv, DirectoryKept, Walkable
    <2>3. ASSUME NEW u \in Uploads, NEW b \in Blobs, FinishBlobUpload(u, b)
          PROVE  Grows
        BY <2>3 DEF FinishBlobUpload, StoreBlob, Idle, locals
    <2> QED BY <2>1, <2>2, <2>3 DEF Uploading
<1> QED BY <1>1, <1>2, GrowKeepsInv

\* So do pushes,
LEMMA RepoPushing == RepoInv /\ Pushing => RepoInv'
<1> SUFFICES ASSUME RepoInv, Pushing
             PROVE  RepoInv'
    OBVIOUS
<1>0. TypeOK /\ TypeOK'
    BY TypePushing DEF RepoInv, CopyBacked
<1>1. ASSUME InitRepo
      PROVE  RepoInv'
    BY <1>0, <1>1, GrowKeepsInv DEF InitRepo, locals
<1>2. ASSUME PutIndex
      PROVE  RepoInv'
    <2>1. target \in Manifests /\ Backed(target) /\ DigestsOf(mem) \subseteq DigestsOf(rows) \cup {target}
        BY <1>2 DEF PutIndex, RepoInv, CopyBacked
    <2>2. \A d \in DigestsOf(rows) : Backed(d)
        BY <1>0, RowsBackedDigests DEF RepoInv
    <2>3. /\ Row(target, NoTag) \in Rows
          /\ Row(target, NoTag).digest = target /\ Row(target, NoTag).tag = NoTag
        BY <2>1, RowType
    <2>4. \A d \in DigestsOf(rows') : Backed(d)
        <3>1. DigestsOf(rows') \subseteq DigestsOf(mem) \cup {target}
            BY <1>2, <2>3 DEF PutIndex, DigestsOf
        <3> QED BY <2>1, <2>2, <3>1
    <2>5. WellFormed(rows')
        <3>1. WellFormed(mem)
            BY DEF RepoInv, IndexWellFormed
        <3>2. CASE HasDigest(mem, target)
            BY <1>2, <3>1, <3>2 DEF PutIndex
        <3>3. CASE ~HasDigest(mem, target)
            <4>1. \A r \in mem : r.digest # target
                BY <3>3 DEF HasDigest, RowsOf
            <4> QED BY <1>2, <3>1, <3>3, <4>1, <2>3 DEF PutIndex, WellFormed
        <3> QED BY <3>2, <3>3
    <2>6. UNCHANGED <<layout, blobs>> /\ mem' = {} /\ pc' = "idle"
        BY <1>2 DEF PutIndex, Return
    <2> QED BY <1>0, <2>4, <2>5, <2>6, RewriteKeepsInv DEF GCOnCopy
<1>3. ASSUME NEW d \in Manifests, NEW T \in SUBSET Tags, PutStart(d, T)
      PROVE  RepoInv'
    <2>1. /\ blobs' = blobs \cup {d} /\ layout' = layout /\ layout /\ rows' = rows
          /\ pc' = "put" /\ target' = d /\ mem' = rows
        BY <1>3 DEF PutStart
    <2>2. RowsBacked'
        BY <2>1 DEF RepoInv, RowsBacked
    <2>3. IndexWellFormed'
        BY <2>1 DEF RepoInv, IndexWellFormed
    <2>4. CopyBacked'
        BY <1>3, <2>1 DEF PutStart, Valid, CopyBacked, Backed, DigestsOf, GCOnCopy
    <2>5. DirectoryKept'
        BY <2>1 DEF DirectoryKept, Walkable
    <2> QED BY <1>0, <2>2, <2>3, <2>4, <2>5 DEF RepoInv
<1>4. ASSUME NEW t \in Tags, PutTag(t)
      PROVE  RepoInv'
    <2>1. /\ pc = "put" /\ target \in Manifests /\ Backed(target)
          /\ DigestsOf(mem) \subseteq DigestsOf(rows) \cup {target}
        BY <1>4 DEF PutTag, RepoInv, CopyBacked
    <2>2. UNCHANGED <<layout, rows, blobs, pc, target>>
        BY <1>4 DEF PutTag, store
    <2>3. WellFormed(mem)
        BY DEF RepoInv, IndexWellFormed
    <2>4. WellFormed(mem') /\ DigestsOf(mem') \subseteq DigestsOf(mem) \cup {target}
        <3>1. CASE mem' = mem
            BY <2>3, <3>1
        <3>2. ASSUME NEW S \in SUBSET (mem \ TagRows(mem, t)),
                     mem' = (S \ {Row(target, NoTag)}) \cup {Row(target, t)}
              PROVE  WellFormed(mem') /\ DigestsOf(mem') \subseteq DigestsOf(mem) \cup {target}
            <4>1. /\ Row(target, t).digest = target /\ Row(target, t).tag = t /\ t # NoTag
                BY <2>1, RowType, ConstantsAssumption
            <4>2. \A r \in S : r \in mem /\ r \in Rows /\ r.tag # t
                BY <1>0 DEF TagRows, TypeOK
            <4>3. \A r \in S \ {Row(target, NoTag)} : r.digest = target => r.tag # NoTag
                BY <4>2, RowsEqual
            <4>4. WellFormed(mem')
                BY <2>3, <3>2, <4>1, <4>2, <4>3 DEF WellFormed
            <4>5. DigestsOf(mem') \subseteq DigestsOf(mem) \cup {target}
                BY <3>2, <4>1, <4>2 DEF DigestsOf
            <4> QED BY <4>4, <4>5
        <3> QED BY <1>0, <1>4, <2>1, <3>1, <3>2, PutTagRows
    <2> QED BY <1>0, <2>1, <2>2, <2>4, CopyKeepsInv DEF GCOnCopy
<1> QED BY <1>1, <1>2, <1>3, <1>4 DEF Pushing

\* deletes,
LEMMA RepoDeleting == RepoInv /\ Deleting => RepoInv'
<1> SUFFICES ASSUME RepoInv, Deleting
             PROVE  RepoInv'
    OBVIOUS
<1>0. TypeOK /\ TypeOK'
    BY TypeDeleting DEF RepoInv
<1>a. WellFormed(rows) /\ \A d \in DigestsOf(rows) : Backed(d)
    BY <1>0, RowsBackedDigests DEF RepoInv, IndexWellFormed
<1>1. ASSUME NEW t \in Tags, DeleteByTag(t)
      PROVE  RepoInv'
    <2>1. PICK r : rows' = UpdateIndexWithPruned(RemoveTag(rows, t), r.digest, r.digest)
        BY <1>1 DEF DeleteByTag
    <2>2. rows' \subseteq RemoveTag(rows, t)
        BY <2>1, PrunedSubset, Zenon
    <2>3. Shrinks(rows, RemoveTag(rows, t))
        BY <1>0, RemoveTagShrinks DEF TypeOK
    <2>4. Shrinks(rows, rows')
        BY <2>2, <2>3, SubsetShrinks, ShrinksTransitive DEF Shrinks
    <2>5. UNCHANGED <<layout, blobs, mem, pc>> /\ pc = "idle"
        BY <1>1 DEF DeleteByTag, Idle, locals
    <2> QED BY <1>0, <1>a, <2>4, <2>5, RewriteKeepsInv DEF Shrinks, GCOnCopy
<1>2. ASSUME NEW d \in Manifests, NEW c \in BOOLEAN, DeleteByDigest(d, c)
      PROVE  RepoInv'
    <2>1. rows' \subseteq rows
        BY <1>2, PrunedSubset DEF DeleteByDigest
    <2>2. Shrinks(rows, rows')
        BY <1>0, <2>1, SubsetShrinks DEF TypeOK
    <2>3. UNCHANGED <<layout, blobs, mem>> /\ pc' = "deleteBlob" /\ target' \in Manifests
        BY <1>2 DEF DeleteByDigest
    <2> QED BY <1>0, <1>a, <2>2, <2>3, RewriteKeepsInv DEF Shrinks, GCOnCopy
<1>3. ASSUME DeleteManifestBlob
      PROVE  RepoInv'
    <2>1. target \in Manifests
        BY <1>3 DEF DeleteManifestBlob, RepoInv, CopyBacked
    <2>2. \A r \in rows : r.digest \in Validated => target \notin Refs[r.digest]
        BY <2>1, ConstantsAssumption
    <2>3. \A d \in blobs \ blobs' : d = target /\ \A r \in rows : r.digest # target
        BY <1>3 DEF DeleteManifestBlob, HasDigest, RowsOf
    <2>4. /\ UNCHANGED <<layout, rows>> /\ mem' = {} /\ pc' = "idle" /\ blobs' \subseteq blobs
        BY <1>3 DEF DeleteManifestBlob, Return
    <2> QED BY <1>0, <2>2, <2>3, <2>4, DeleteKeepsInv DEF GCOnCopy
<1>4. ASSUME NEW d \in Digests, DeleteBlob(d)
      PROVE  RepoInv'
    <2>1. \A r \in rows : d # r.digest /\ (r.digest \in Validated => d \notin Refs[r.digest])
        BY <1>4, UnreferencedUnused DEF DeleteBlob
    <2>2. UNCHANGED <<layout, rows, mem, pc>> /\ pc = "idle" /\ blobs' = blobs \ {d}
        BY <1>4 DEF DeleteBlob, Idle, locals
    <2> QED BY <1>0, <2>1, <2>2, DeleteKeepsInv DEF GCOnCopy
<1> QED BY <1>1, <1>2, <1>3, <1>4 DEF Deleting

\* the steps of GC,
LEMMA RepoGC == RepoInv /\ (GCStart \/ GCPass) => RepoInv'
<1> SUFFICES ASSUME RepoInv, GCStart \/ GCPass
             PROVE  RepoInv'
    OBVIOUS
<1>0. TypeOK /\ TypeOK'
    BY TypeGC DEF RepoInv
<1>a. /\ WellFormed(rows) /\ WellFormed(mem)
      /\ \A d \in DigestsOf(rows) : Backed(d)
    BY <1>0, RowsBackedDigests DEF RepoInv, IndexWellFormed
<1>1. ASSUME GCStart
      PROVE  RepoInv'
    <2>1. Shrinks(rows, RetainTags(rows))
        BY <1>0, RetainTagsShrinks DEF TypeOK
    <2>2. UNCHANGED <<layout, rows, blobs>> /\ mem' = RetainTags(rows) /\ pc' = "gcLoop"
        BY <1>1 DEF GCStart, store
    <2> QED BY <1>0, <1>a, <2>1, <2>2, CopyKeepsInv DEF Shrinks, GCOnCopy
<1>2. ASSUME GCLoop \/ GCReferrersDone \/ GCUntaggedDone
      PROVE  RepoInv'
    <2>1. /\ UNCHANGED <<layout, rows, blobs, mem>> /\ pc \in GCOnCopy /\ pc' \in GCOnCopy
        BY <1>2 DEF GCLoop, GCReferrersDone, GCUntaggedDone, store, locals, GCOnCopy
    <2>2. DigestsOf(mem) \subseteq DigestsOf(rows)
        BY <2>1 DEF RepoInv, CopyBacked
    <2> QED BY <1>0, <1>a, <2>1, <2>2, CopyKeepsInv DEF GCOnCopy
<1>3. ASSUME NEW r \in left, GCReferrer(r) \/ GCUntagged(r)
      PROVE  RepoInv'
    <2>1. /\ UNCHANGED <<layout, rows, blobs, pc>> /\ pc \in GCOnCopy
          /\ mem' = mem \/ mem' = Removed(mem, r)
        BY <1>3 DEF GCReferrer, GCUntagged, store, GCOnCopy
    <2>2. Shrinks(mem, Removed(mem, r))
        BY <1>0, RemovedShrinks DEF TypeOK
    <2>3. DigestsOf(mem) \subseteq DigestsOf(rows)
        BY <2>1 DEF RepoInv, CopyBacked
    <2> QED BY <1>0, <1>a, <2>1, <2>2, <2>3, CopyKeepsInv DEF Shrinks, GCOnCopy
<1>4. ASSUME GCIndex
      PROVE  RepoInv'
    <2>1. /\ UNCHANGED <<layout, blobs>> /\ mem' = {} /\ pc' = "gcBlobs" /\ rows' \subseteq mem
        BY <1>4 DEF GCIndex
    <2>2. DigestsOf(mem) \subseteq DigestsOf(rows)
        BY <1>4 DEF GCIndex, RepoInv, CopyBacked, GCOnCopy
    <2>3. Shrinks(mem, rows')
        BY <1>0, <2>1, SubsetShrinks DEF TypeOK
    <2> QED BY <1>0, <1>a, <2>1, <2>2, <2>3, RewriteKeepsInv DEF Shrinks, GCOnCopy
<1>5. ASSUME NEW d \in Digests, GCBlob(d)
      PROVE  RepoInv'
    <2>1. \A r \in rows : d # r.digest /\ (r.digest \in Validated => d \notin Refs[r.digest])
        BY <1>5, UnreferencedUnused DEF GCBlob, Garbage
    <2>2. UNCHANGED <<layout, rows, mem, pc>> /\ pc = "gcBlobs" /\ blobs' = blobs \ {d}
        BY <1>5 DEF GCBlob, locals
    <2> QED BY <1>0, <2>1, <2>2, DeleteKeepsInv DEF GCOnCopy
<1>6. ASSUME GCIdle
      PROVE  RepoInv'
    <2>1. \A d \in Garbage : \A r \in rows :
            d # r.digest /\ (r.digest \in Validated => d \notin Refs[r.digest])
        BY UnreferencedUnused DEF Garbage
    <2>2. /\ UNCHANGED <<layout, rows, mem>> /\ blobs' = blobs \ Garbage
          /\ pc' = IF blobs' = {} THEN "gcRemove" ELSE "gcUploads"
        BY <1>6 DEF GCIdle, locals
    <2> HIDE DEF Garbage
    <2> QED BY <1>0, <2>1, <2>2, DeleteKeepsInv DEF GCOnCopy
<1>7. ASSUME GCBlobsDone \/ GCNotIdle \/ GCUploads
      PROVE  RepoInv'
    <2>1. /\ UNCHANGED <<layout, rows, blobs>> /\ (mem' = mem \/ mem' = {})
          /\ pc' \in {"gcIdle", "gcUploads", "idle"}
        BY <1>7 DEF GCBlobsDone, GCNotIdle, GCUploads, Return, store, locals
    <2> QED BY <1>0, <2>1, DeleteKeepsInv DEF GCOnCopy
<1>8. ASSUME GCRemove
      PROVE  RepoInv'
    <2>1. blobs' = {} /\ UNCHANGED <<rows, blobs, mem>> /\ pc' = "gcUploads"
        BY <1>8 DEF GCRemove, RepoInv, DirectoryKept, locals
    <2> QED BY <1>0, <1>a, <2>1 DEF RepoInv, RowsBacked, IndexWellFormed, CopyBacked, DirectoryKept,
            Walkable, GCOnCopy
<1> QED BY <1>1, <1>2, <1>3, <1>4, <1>5, <1>6, <1>7, <1>8 DEF GCPass

\* time, and failing calls.
LEMMA RepoTickFail == RepoInv /\ (Tick \/ Fail) => RepoInv'
<1> SUFFICES ASSUME RepoInv, Tick \/ Fail
             PROVE  RepoInv'
    OBVIOUS
<1>1. TypeOK'
    BY TypeTickFail DEF RepoInv
<1>2. /\ UNCHANGED <<layout, rows, blobs>> /\ (mem' = mem \/ mem' = {})
      /\ pc' = "idle"
    BY DEF Tick, Fail, Return, Idle, store, locals
<1> QED BY <1>1, <1>2, DeleteKeepsInv DEF GCOnCopy

\* So every step keeps it,
LEMMA RepoNext == RepoInv /\ [Next]_vars => RepoInv'
<1> SUFFICES ASSUME RepoInv, [Next]_vars
             PROVE  RepoInv'
    OBVIOUS
<1>1. CASE UNCHANGED vars
    BY <1>1 DEF vars, RepoInv, TypeOK, RowsBacked, IndexWellFormed, WellFormed, CopyBacked, Backed,
        DigestsOf, DirectoryKept, Walkable
<1> QED BY <1>1, RepoUploading, RepoPushing, RepoDeleting, RepoGC, RepoTickFail DEF Next

\* and it always holds.
LEMMA RepoInvariant == Spec => []RepoInv
BY RepoInit, RepoNext, PTL DEF Spec

\* Every variable of the model keeps its type: index.json holds rows of manifests with a
\* tag or none, no deleted file has an age, and the collector's copies stay what they are.
THEOREM TypeCorrect == Spec => []TypeOK
BY RepoInvariant, PTL DEF RepoInv

\* Whatever pushes, deletes, GC passes and failures do, each manifest that index.json lists
\* and the blobs PutImageManifest checked for it stay there.
THEOREM ListedStaysPullable == Spec => []RowsBacked
BY RepoInvariant, PTL DEF RepoInv

\* Tags stay unique, and a manifest without a tag has a single row, in index.json and in
\* the copies that PutImageManifest and the collector rewrite.
THEOREM IndexStaysWellFormed == Spec => []IndexWellFormed
BY RepoInvariant, PTL DEF RepoInv

\* No blob is left behind in a directory that is no repository any more.
THEOREM BlobsStayWalkable == Spec => []Walkable
BY RepoInvariant, PTL DEF RepoInv, DirectoryKept

\* Both at once: what index.json lists can be told apart, and what the repository holds can
\* be found by the next pass, whatever pushes, deletes, passes and failures came before.
THEOREM LayoutStaysSound == Spec => []LayoutSound
BY IndexStaysWellFormed, BlobsStayWalkable, PTL DEF LayoutSound

-----------------------------------------------------------------------------
(* What a GC pass may take out of index.json.  While it works on its copy,   *)
(* the tagged rows it holds are rows of index.json, a row it has dropped has *)
(* an excuse, and an untagged row it has still to visit has not come to      *)
(* share its digest with a tagged one, so that removing by digest takes no   *)
(* tag along.                                                                *)

Excused(r) == \/ r.tag \notin Retained
              \/ Subject[r.digest] # None
              \/ CosignSubject[r.tag] # None

Visiting == {"gcReferrers", "gcUntagged"}

CopyExcused ==
    /\ pc \notin Visiting => left = {}
    /\ pc \in GCOnCopy =>
         /\ \A r \in mem \cup left : r.tag # NoTag => r \in rows
         /\ \A r \in rows \ mem : Excused(r)
         /\ \A r \in left : r.tag = NoTag =>
                \A q \in mem : q.digest = r.digest => q.tag = NoTag

TagInv == RepoInv /\ CopyExcused

\* A step of the operations that GC excludes, or that leave its copy alone.
LEMMA OutsideKeepsExcuses ==
    ASSUME CopyExcused,
           \/ pc' \notin GCOnCopy /\ left' = {}
           \/ pc' \notin GCOnCopy /\ pc \notin GCOnCopy /\ left' = left
           \/ UNCHANGED <<pc, rows, mem, left>>
    PROVE  CopyExcused'
BY DEF CopyExcused, Excused, GCOnCopy, Visiting

\* removeManifest(r) drops only rows that have an excuse.
LEMMA RemovedExcused ==
    ASSUME TagInv, pc \in Visiting, NEW r \in left, r.tag = NoTag \/ Excused(r),
           NEW q \in rows \ Removed(mem, r)
    PROVE  Excused(q)
<1>1. /\ r \in Rows /\ mem \in SUBSET Rows /\ WellFormed(rows) /\ pc \in GCOnCopy
    BY DEF TagInv, RepoInv, TypeOK, IndexWellFormed, Visiting, GCOnCopy
<1>2. NoTag \notin Retained
    BY ConstantsAssumption
<1>3. CASE q \notin mem
    BY <1>1, <1>3 DEF TagInv, CopyExcused
<1>4. CASE q \in mem
    <2>1. \/ r.tag # NoTag /\ q.tag = r.tag
          \/ r.tag = NoTag /\ q.digest = r.digest
        BY <1>1, <1>4, RemovedShrinks
    <2>2. CASE r.tag # NoTag /\ q.tag = r.tag
        <3>1. r \in rows
            BY <1>1, <2>2 DEF TagInv, CopyExcused
        <3>2. q = r
            BY <1>1, <2>2, <3>1 DEF WellFormed
        <3> QED BY <2>2, <3>2
    <2>3. CASE r.tag = NoTag /\ q.digest = r.digest
        <3>1. q.tag = NoTag
            BY <1>1, <1>4, <2>3 DEF TagInv, CopyExcused
        <3> QED BY <1>2, <3>1 DEF Excused
    <2> QED BY <2>1, <2>2, <2>3
<1> QED BY <1>3, <1>4

\* The rows that GC takes from its copy of the index are excused by a policy.
LEMMA ExcusesGC == TagInv /\ (GCStart \/ GCPass) => CopyExcused'
<1> SUFFICES ASSUME TagInv, GCStart \/ GCPass
             PROVE  CopyExcused'
    OBVIOUS
<1>0. TypeOK /\ CopyExcused /\ WellFormed(mem)
    BY DEF TagInv, RepoInv, IndexWellFormed
<1>1. ASSUME GCStart
      PROVE  CopyExcused'
    <2>1. /\ Shrinks(rows, RetainTags(rows))
          /\ \A r \in rows : r \in RetainTags(rows) \/ r.tag \notin Retained
        BY <1>0, RetainTagsShrinks DEF TypeOK
    <2>2. /\ UNCHANGED <<rows, left>> /\ mem' = RetainTags(rows) /\ pc' = "gcLoop" /\ pc = "idle"
        BY <1>1 DEF GCStart, store, Idle
    <2>3. left = {}
        BY <1>0, <2>2 DEF CopyExcused, Visiting
    <2> QED BY <2>1, <2>2, <2>3 DEF CopyExcused, Excused, Shrinks, Visiting, GCOnCopy
<1>2. ASSUME GCLoop \/ GCReferrersDone
      PROVE  CopyExcused'
    <2>1. /\ UNCHANGED <<rows, mem>> /\ (left' = mem \/ left' = {})
          /\ pc \in GCOnCopy /\ pc' \in Visiting
        BY <1>2 DEF GCLoop, GCReferrersDone, store, GCOnCopy, Visiting
    <2>2. \A r \in mem : r.tag = NoTag => \A q \in mem : q.digest = r.digest => q.tag = NoTag
        BY <1>0 DEF WellFormed
    <2> QED BY <1>0, <2>1, <2>2 DEF CopyExcused, Excused
<1>3. ASSUME GCUntaggedDone
      PROVE  CopyExcused'
    BY <1>0, <1>3 DEF GCUntaggedDone, CopyExcused, Excused, GCOnCopy, Visiting, store, locals
<1>4. ASSUME NEW r \in left, GCReferrer(r) \/ GCUntagged(r)
      PROVE  CopyExcused'
    <2>1. /\ UNCHANGED <<rows, pc>> /\ left' \subseteq left /\ pc \in Visiting
        BY <1>4 DEF GCReferrer, GCUntagged, store, Visiting
    <2>2. \/ mem' = mem
          \/ mem' = Removed(mem, r) /\ (r.tag = NoTag \/ Excused(r))
        BY <1>4 DEF GCReferrer, GCUntagged, Removable, LostSubject, LostCosignSubject, Excused
    <2>3. CASE mem' = mem
        BY <1>0, <2>1, <2>3 DEF CopyExcused, Excused
    <2>4. CASE mem' = Removed(mem, r) /\ (r.tag = NoTag \/ Excused(r))
        <3>1. Shrinks(mem, mem')
            BY <1>0, <2>4, RemovedShrinks DEF TypeOK
        <3>2. \A q \in rows \ mem' : Excused(q)
            BY <2>1, <2>4, RemovedExcused
        <3> QED BY <1>0, <2>1, <3>1, <3>2 DEF CopyExcused, Excused, Shrinks, Visiting, GCOnCopy
    <2> QED BY <2>2, <2>3, <2>4
<1>5. ASSUME GCIndex \/ GCBlobsDone \/ GCIdle \/ GCNotIdle \/ GCRemove \/ GCUploads
             \/ \E d \in Digests : GCBlob(d)
      PROVE  CopyExcused'
    <2>1. left = {} /\ left' = {} /\ pc' \notin GCOnCopy
        BY <1>0, <1>5 DEF GCIndex, GCBlobsDone, GCIdle, GCNotIdle, GCRemove, GCUploads, GCBlob,
            Return, locals, CopyExcused, GCOnCopy, Visiting
    <2> QED BY <1>0, <2>1, OutsideKeepsExcuses
<1> QED BY <1>1, <1>2, <1>3, <1>4, <1>5 DEF GCPass

\* Every step keeps the invariant of the tags,
LEMMA ExcusesNext == TagInv /\ [Next]_vars => TagInv'
<1> SUFFICES ASSUME TagInv, [Next]_vars
             PROVE  CopyExcused'
    BY RepoNext DEF TagInv
<1>0. CopyExcused
    BY DEF TagInv
<1>1. CASE UNCHANGED vars
    BY <1>0, <1>1, OutsideKeepsExcuses DEF vars
<1>2. CASE Uploading
    BY <1>0, <1>2, OutsideKeepsExcuses DEF Uploading, CheckBlob, WriteUpload, DeleteBlobUpload,
        FinishBlobUpload, Idle, GCOnCopy, store, locals
<1>3. CASE Pushing
    BY <1>0, <1>3, OutsideKeepsExcuses DEF Pushing, InitRepo, PutIndex, PutStart, PutTag, Return,
        Idle, GCOnCopy, store, locals
<1>4. CASE Deleting
    BY <1>0, <1>4, OutsideKeepsExcuses DEF Deleting, DeleteByTag, DeleteByDigest,
        DeleteManifestBlob, DeleteBlob, Return, Idle, GCOnCopy, locals
<1>5. CASE Tick \/ Fail
    BY <1>0, <1>5, OutsideKeepsExcuses DEF Tick, Fail, Return, Idle, GCOnCopy, locals
<1> QED BY <1>1, <1>2, <1>3, <1>4, <1>5, ExcusesGC DEF Next

\* which always holds.
LEMMA TagInvariant == Spec => []TagInv
<1>1. Init => TagInv
    BY RepoInit DEF Init, TagInv, CopyExcused, GCOnCopy
<1> QED BY <1>1, ExcusesNext, PTL DEF Spec

\* A GC pass takes a tag out of index.json only if the retention policy drops it, its
\* manifest or its cosign tag refers to another manifest, or its manifest is stale.
THEOREM GCKeepsRetainedTags == Spec => GCKeepsTags
<1>1. ASSUME TagInv, [Next]_vars, pc = "gcIndex", NEW r \in rows \ rows'
      PROVE  \/ r.tag \notin Retained
             \/ Subject[r.digest] # None
             \/ CosignSubject[r.tag] # None
             \/ Stale(r)
    <2>1. rows' = {q \in mem : ~Stale(q)}
        BY <1>1 DEF Next, Uploading, CheckBlob, WriteUpload, DeleteBlobUpload, FinishBlobUpload,
            Pushing, InitRepo, PutIndex, PutStart, PutTag, Deleting, DeleteByTag, DeleteByDigest,
            DeleteManifestBlob, DeleteBlob, GCStart, GCPass, GCLoop, GCReferrer, GCReferrersDone,
            GCUntagged, GCUntaggedDone, GCIndex, GCBlob, GCBlobsDone, GCIdle, GCNotIdle, GCRemove,
            GCUploads, Tick, Fail, Idle, store, vars
    <2>2. CASE r \in mem
        BY <1>1, <2>1, <2>2
    <2>3. CASE r \notin mem
        BY <1>1, <2>3 DEF TagInv, CopyExcused, Excused, GCOnCopy
    <2> QED BY <2>2, <2>3
<1>2. TagInv /\ [Next]_vars =>
        (pc = "gcIndex" => \A r \in rows \ rows' : \/ r.tag \notin Retained
                                                   \/ Subject[r.digest] # None
                                                   \/ CosignSubject[r.tag] # None
                                                   \/ Stale(r))
    BY <1>1
<1> QED BY <1>2, TagInvariant, PTL DEF Spec, GCKeepsTags

-----------------------------------------------------------------------------
(* Children.  Taking a tag away never takes the last row of a digest; only   *)
(* removal by digest does, and the collector does that to a manifest whose   *)
(* subject is gone, or to one that is not among those it keeps.              *)

LEMMA HasDigestDef ==
    ASSUME NEW R, NEW d
    PROVE  HasDigest(R, d) <=> d \in DigestsOf(R)
BY DEF HasDigest, RowsOf, DigestsOf

\* Retention loses tags, not digests.
LEMMA RetainTagsDigests ==
    ASSUME NEW R \in SUBSET Rows
    PROVE  DigestsOf(R) \subseteq DigestsOf(RetainTags(R))
<1> SUFFICES ASSUME NEW d \in DigestsOf(R) PROVE d \in DigestsOf(RetainTags(R))
    OBVIOUS
<1> DEFINE gone == {r \in R : r.tag \in Tags \ Retained}
           D == DigestsOf(gone) \ DigestsOf(R \ gone)
<1>1. RetainTags(R) = (R \ gone) \cup {Row(e, NoTag) : e \in D}
    BY DEF RetainTags
<1>2. d \in Manifests
    BY RowsEqual DEF DigestsOf
<1>3. CASE d \in DigestsOf(R \ gone)
    BY <1>1, <1>3 DEF DigestsOf
<1>4. CASE d \notin DigestsOf(R \ gone)
    <2>1. d \in D
        BY <1>4 DEF DigestsOf
    <2>2. Row(d, NoTag) \in RetainTags(R) /\ Row(d, NoTag).digest = d
        BY <1>1, <1>2, <2>1, RowType
    <2> QED BY <2>2 DEF DigestsOf
<1> QED BY <1>3, <1>4

\* Removing a tag loses no digest.
LEMMA RemoveTagDigests ==
    ASSUME NEW R \in SUBSET Rows, WellFormed(R), NEW t \in Tags
    PROVE  DigestsOf(R) \subseteq DigestsOf(RemoveTag(R, t))
<1> SUFFICES ASSUME NEW g \in R PROVE g.digest \in DigestsOf(RemoveTag(R, t))
    BY DEF DigestsOf
<1>1. g.digest \in Manifests /\ t # NoTag
    BY RowsEqual, ConstantsAssumption
<1>2. CASE g.tag # t
    BY <1>2 DEF RemoveTag, TagRows, DigestsOf
<1>3. CASE g.tag = t /\ RowsOf(R, g.digest) = {g}
    <2>1. Row(g.digest, NoTag) \in RemoveTag(R, t)
        BY <1>3 DEF RemoveTag, TagRows
    <2>2. Row(g.digest, NoTag).digest = g.digest
        BY <1>1, RowType
    <2> QED BY <2>1, <2>2 DEF DigestsOf
<1>4. CASE g.tag = t /\ RowsOf(R, g.digest) # {g}
    <2>1. PICK q \in R : q.digest = g.digest /\ q # g
        BY <1>4 DEF RowsOf
    <2>2. q.tag # t
        BY <1>1, <1>4, <2>1 DEF WellFormed
    <2>3. q \in RemoveTag(R, t)
        BY <2>2 DEF RemoveTag, TagRows
    <2> QED BY <2>1, <2>3 DEF DigestsOf
<1> QED BY <1>2, <1>3, <1>4

\* removeManifest takes the last row of a digest only if it removes by that digest.
LEMMA RemovedDigests ==
    ASSUME NEW R \in SUBSET Rows, WellFormed(R), NEW r \in Rows, NEW d \in DigestsOf(R),
           d \notin DigestsOf(Removed(R, r))
    PROVE  r.tag = NoTag /\ d = r.digest
<1>1. CASE r.tag # NoTag
    <2>1. r.tag \in Tags
        BY <1>1, RowsEqual
    <2> QED BY <1>1, <2>1, RemoveTagDigests DEF Removed
<1>2. CASE r.tag = NoTag
    BY <1>2 DEF Removed, RowsOf, DigestsOf
<1> QED BY <1>1, <1>2

Listing(R) == DigestsOf(R) \cap Indexes

\* What index.json knows of the children of the indexes in the collector's copy, the copy knows.
ChildrenKept ==
    pc \in GCOnCopy =>
        \A i \in Listing(mem) : \A m \in Children[i] :
            m \in DigestsOf(rows) => m \in DigestsOf(mem) \/ Bereft(mem, m)

\* The manifests it keeps are the children, at least, of the indexes in its copy.
ChildrenListed == pc = "gcUntagged" => \A i \in Listing(mem) : Children[i] \subseteq keep

ChildInv == ChildrenKept /\ ChildrenListed

\* A manifest whose subject has no row has none with fewer digests either.
LEMMA BereftStays ==
    ASSUME NEW R, NEW S, NEW m, Bereft(R, m), DigestsOf(S) \subseteq DigestsOf(R)
    PROVE  Bereft(S, m)
BY HasDigestDef DEF Bereft

\* Outside GC's work on its copy nothing is claimed.
LEMMA ChildOutside ==
    ASSUME ChildInv, \/ pc' \notin GCOnCopy
                     \/ UNCHANGED <<pc, rows, mem, keep>>
    PROVE  ChildInv'
BY DEF ChildInv, ChildrenKept, ChildrenListed, Listing, GCOnCopy, DigestsOf, Bereft, HasDigest, RowsOf

\* The steps of GC keep the children of what they keep.
LEMMA ChildGC == RepoInv /\ left \subseteq Rows /\ ChildInv /\ (GCStart \/ GCPass) => ChildInv'
<1> SUFFICES ASSUME RepoInv, left \subseteq Rows, ChildInv, GCStart \/ GCPass
             PROVE  ChildInv'
    OBVIOUS
<1>0. TypeOK /\ WellFormed(mem) /\ mem \in SUBSET Rows /\ rows \in SUBSET Rows
    BY DEF RepoInv, IndexWellFormed, TypeOK
<1>1. ASSUME GCStart
      PROVE  ChildInv'
    <2>1. /\ UNCHANGED rows /\ mem' = RetainTags(rows) /\ pc' = "gcLoop"
        BY <1>1 DEF GCStart, store
    <2>2. DigestsOf(rows) \subseteq DigestsOf(RetainTags(rows))
        BY <1>0, RetainTagsDigests
    <2> QED BY <2>1, <2>2 DEF ChildInv, ChildrenKept, ChildrenListed
<1>2. ASSUME GCLoop \/ GCUntaggedDone
      PROVE  ChildInv'
    <2>1. /\ UNCHANGED <<rows, mem>> /\ pc \in GCOnCopy /\ pc' \in GCOnCopy \ {"gcUntagged"}
        BY <1>2 DEF GCLoop, GCUntaggedDone, store, locals, GCOnCopy
    <2> QED BY <2>1 DEF ChildInv, ChildrenKept, ChildrenListed, Listing
<1>3. ASSUME GCReferrersDone
      PROVE  ChildInv'
    <2>1. /\ UNCHANGED <<rows, mem>> /\ pc = "gcReferrers" /\ pc' = "gcUntagged"
          /\ keep' = ReferencedManifests(mem) \cup KeepUntagged
        BY <1>3 DEF GCReferrersDone, store
    <2>2. ASSUME NEW i \in Listing(mem) PROVE Children[i] \subseteq keep'
        <3>1. DigestsOf(mem) \subseteq Manifests
            BY <1>0, RowsEqual DEF DigestsOf
        <3>2. i \in Nested(DigestsOf(mem)) /\ i \in Indexes
            BY <2>2, <3>1, NestedContains DEF Listing
        <3>3. i \in DigestsOf(rows)
            BY <2>1, <2>2 DEF RepoInv, CopyBacked, GCOnCopy, Listing
        <3>4. i \in blobs
            BY <1>0, <3>3, RowsBackedDigests DEF RepoInv, Backed
        <3> QED BY <2>1, <3>2, <3>4 DEF ReferencedManifests
    <2>3. ChildrenListed'
        BY <2>1, <2>2 DEF ChildrenListed, Listing
    <2>4. ChildrenKept'
        BY <2>1 DEF ChildInv, ChildrenKept, GCOnCopy, Listing
    <2> QED BY <2>3, <2>4 DEF ChildInv
<1>4. ASSUME NEW r \in left, GCReferrer(r) \/ GCUntagged(r)
      PROVE  ChildInv'
    <2>1. /\ UNCHANGED <<rows, pc, keep>> /\ pc \in GCOnCopy /\ r \in Rows
          /\ mem' = mem \/ mem' = Removed(mem, r)
        BY <1>4 DEF GCReferrer, GCUntagged, store, GCOnCopy
    <2>2. CASE mem' = mem
        BY <2>1, <2>2, ChildOutside
    <2>3. CASE mem' = Removed(mem, r) /\ mem' # mem
        <3>1. DigestsOf(mem') \subseteq DigestsOf(mem)
            BY <1>0, <2>1, <2>3, RemovedShrinks DEF Shrinks
        <3>2. Listing(mem') \subseteq Listing(mem)
            BY <3>1 DEF Listing
        <3>3. ChildrenListed'
            BY <2>1, <3>2 DEF ChildInv, ChildrenListed, Listing
        <3>4. ASSUME NEW i \in Listing(mem'), NEW m \in Children[i], m \in DigestsOf(rows)
              PROVE  m \in DigestsOf(mem') \/ Bereft(mem', m)
            <4>1. i \in Listing(mem)
                BY <3>2, <3>4
            <4>2. m \in DigestsOf(mem) \/ Bereft(mem, m)
                BY <2>1, <3>4, <4>1 DEF ChildInv, ChildrenKept
            <4>3. CASE Bereft(mem, m)
                BY <3>1, <4>3, BereftStays
            <4>4. CASE m \in DigestsOf(mem) /\ m \notin DigestsOf(mem')
                <5>1. r.tag = NoTag /\ m = r.digest
                    BY <1>0, <2>1, <2>3, <4>4, RemovedDigests
                <5>2. CASE GCUntagged(r)
                    <6>1. m \notin keep /\ pc = "gcUntagged"
                        BY <2>3, <5>1, <5>2 DEF GCUntagged
                    <6> QED BY <3>4, <4>1, <6>1 DEF ChildInv, ChildrenListed
                <5>3. CASE GCReferrer(r)
                    <6>1. Bereft(mem, m)
                        BY <2>3, <5>1, <5>3
                        DEF GCReferrer, Removable, LostSubject, LostCosignSubject, Bereft
                    <6> QED BY <3>1, <6>1, BereftStays
                <5> QED BY <1>4, <5>2, <5>3
            <4> QED BY <4>2, <4>3, <4>4
        <3>5. ChildrenKept'
            BY <2>1, <3>4 DEF ChildrenKept, Listing
        <3> QED BY <3>3, <3>5 DEF ChildInv
    <2> QED BY <2>1, <2>2, <2>3
<1>5. ASSUME GCIndex \/ GCBlobsDone \/ GCIdle \/ GCNotIdle \/ GCRemove \/ GCUploads
             \/ \E d \in Digests : GCBlob(d)
      PROVE  ChildInv'
    <2>1. pc' \notin GCOnCopy
        BY <1>5 DEF GCIndex, GCBlobsDone, GCIdle, GCNotIdle, GCRemove, GCUploads, GCBlob, Return,
            GCOnCopy
    <2> QED BY <2>1, ChildOutside
<1> QED BY <1>1, <1>2, <1>3, <1>4, <1>5 DEF GCPass

\* So does every step.
LEMMA ChildNext == RepoInv /\ ChildInv /\ [Next]_vars => ChildInv'
<1> SUFFICES ASSUME RepoInv, ChildInv, [Next]_vars
             PROVE  ChildInv'
    OBVIOUS
<1>1. CASE UNCHANGED vars
    BY <1>1, ChildOutside DEF vars
<1>2. CASE Uploading
    BY <1>2, ChildOutside DEF Uploading, CheckBlob, WriteUpload, DeleteBlobUpload,
        FinishBlobUpload, Idle, GCOnCopy, store, locals
<1>3. CASE Pushing
    BY <1>3, ChildOutside DEF Pushing, InitRepo, PutIndex, PutStart, PutTag, Return, Idle,
        GCOnCopy, store, locals
<1>4. CASE Deleting
    BY <1>4, ChildOutside DEF Deleting, DeleteByTag, DeleteByDigest, DeleteManifestBlob,
        DeleteBlob, Return, Idle, GCOnCopy, locals
<1>5. CASE Tick \/ Fail
    BY <1>5, ChildOutside DEF Tick, Fail, Return, Idle, GCOnCopy, locals
<1>6. left \subseteq Rows
    BY DEF RepoInv, TypeOK
<1> QED BY <1>1, <1>2, <1>3, <1>4, <1>5, <1>6, ChildGC DEF Next

\* A GC pass never leaves an index in index.json without the row of a manifest that it lists
\* and that had one, unless that manifest has lost its own subject or all its children.
THEOREM GCKeepsListedChildren == Spec => GCKeepsChildren
<1>1. Init => RepoInv /\ ChildInv
    BY RepoInit DEF Init, ChildInv, ChildrenKept, ChildrenListed, GCOnCopy
<1>2. RepoInv /\ ChildInv /\ [Next]_vars => RepoInv' /\ ChildInv'
    BY RepoNext, ChildNext
<1>3. ASSUME RepoInv, ChildInv, [Next]_vars, pc = "gcIndex",
             NEW i \in DigestsOf(rows') \cap Indexes, NEW m \in Children[i], HasDigest(rows, m)
      PROVE  HasDigest(rows', m) \/ Bereft(rows', m) \/ Stale(Row(m, NoTag))
    <2>1. CASE rows' = rows
        BY <1>3, <2>1
    <2>2. CASE rows' # rows
        <3>1. rows' = {q \in mem : ~Stale(q)}
            BY <1>3, <2>2 DEF Next, Uploading, CheckBlob, WriteUpload, DeleteBlobUpload,
                FinishBlobUpload, Pushing, InitRepo, PutIndex, PutStart, PutTag, Deleting,
                DeleteByTag, DeleteByDigest, DeleteManifestBlob, DeleteBlob, GCStart, GCPass, GCLoop,
                GCReferrer, GCReferrersDone, GCUntagged, GCUntaggedDone, GCIndex, GCBlob, GCBlobsDone,
                GCIdle, GCNotIdle, GCRemove, GCUploads, Tick, Fail, Idle, store, vars
        <3>2. DigestsOf(rows') \subseteq DigestsOf(mem)
            BY <3>1 DEF DigestsOf
        <3>3. i \in Listing(mem) /\ m \in DigestsOf(rows)
            BY <1>3, <3>2, HasDigestDef DEF Listing
        <3>4. m \in DigestsOf(mem) \/ Bereft(mem, m)
            BY <1>3, <3>3 DEF ChildInv, ChildrenKept, GCOnCopy
        <3>5. CASE Bereft(mem, m)
            BY <3>2, <3>5, BereftStays
        <3>6. CASE m \in DigestsOf(mem)
            <4>1. PICK q \in mem : q.digest = m
                BY <3>6 DEF DigestsOf
            <4>2. CASE Stale(q)
                <5>1. m \in Manifests
                    BY <1>3, <4>1, RowsEqual DEF RepoInv, TypeOK
                <5>2. Row(m, NoTag).digest = m
                    BY <5>1, RowType
                <5> QED BY <4>1, <4>2, <5>2 DEF Stale
            <4>3. CASE ~Stale(q)
                <5>1. q \in rows'
                    BY <3>1, <4>3
                <5> QED BY <4>1, <5>1 DEF HasDigest, RowsOf
            <4> QED BY <4>2, <4>3
        <3> QED BY <3>4, <3>5, <3>6
    <2> QED BY <2>1, <2>2
<1>4. RepoInv /\ ChildInv /\ [Next]_vars =>
        (pc = "gcIndex" =>
            \A i \in DigestsOf(rows') \cap Indexes : \A m \in Children[i] :
                HasDigest(rows, m) => \/ HasDigest(rows', m)
                                      \/ Bereft(rows', m)
                                      \/ Stale(Row(m, NoTag)))
    BY <1>3
<1> QED BY <1>1, <1>2, <1>4, PTL DEF Spec, GCKeepsChildren

-----------------------------------------------------------------------------
(* The grace period.                                                         *)

\* A blob that was written and acknowledged since the last tick is there, and new.
RecentNew == \A b \in recent \cap Blobs : b \in blobs /\ age[b] = 0

\* No placeholders: a driver with links, or no dedupe.
OwnAges == ~(Dedupe /\ Remote)

\* Without placeholders, every step keeps such a blob new.
LEMMA RecentNext == OwnAges /\ RepoInv /\ RecentNew /\ [Next]_vars => RecentNew'
<1> SUFFICES ASSUME OwnAges, RepoInv, RecentNew, [Next]_vars
             PROVE  RecentNew'
    OBVIOUS
<1> USE DEF store, ups, locals
<1>0. TypeOK /\ Manifests \cap Blobs = {}
    BY ConstantsAssumption DEF RepoInv
<1>1. CASE UNCHANGED <<recent, blobs, age>>
    BY <1>1 DEF RecentNew
<1>2. ASSUME NEW u \in Uploads, NEW b \in Blobs, FinishBlobUpload(u, b)
      PROVE  RecentNew'
    <2>1. PICK a \in UploadedAges(u, b) : age' = [age EXCEPT ![b] = a]
        BY <1>2 DEF FinishBlobUpload, StoreBlob
    <2>2. b \in Digests /\ blobs' = blobs \cup {b}
        BY <1>2 DEF FinishBlobUpload, StoreBlob, Digests
    <2>3. CASE Fresh(u, b)
        <3>1. a = 0
            BY <2>1, <2>3 DEF UploadedAges, Fresh, OwnAges, RecentNew
        <3>2. recent' = recent \cup {b}
            BY <1>2, <2>3 DEF FinishBlobUpload
        <3> QED BY <1>0, <2>1, <2>2, <3>1, <3>2 DEF RecentNew, TypeOK
    <2>4. CASE ~Fresh(u, b)
        <3>1. recent' = recent \ {b}
            BY <1>2, <2>4 DEF FinishBlobUpload
        <3> QED BY <1>0, <2>1, <2>2, <3>1 DEF RecentNew, TypeOK
    <2> QED BY <2>3, <2>4
<1>a. ASSUME NEW b \in Blobs, CheckBlob(b)
      PROVE  RecentNew'
    <2>1. age' = [age EXCEPT ![b] = 0] /\ b \in Digests
        BY <1>a DEF CheckBlob, StoreBlob, LinkedAges, OwnAges, Digests
    <2> QED BY <1>0, <1>a, <2>1 DEF RecentNew, CheckBlob, StoreBlob, TypeOK
<1>3. ASSUME NEW d, blobs' = blobs \ {d}, age' = [age EXCEPT ![d] = 0], recent' = recent \ {d}
      PROVE  RecentNew'
    BY <1>0, <1>3 DEF RecentNew, TypeOK
<1>4. CASE PutIndex
    <2>1. target \in Manifests
        BY <1>4 DEF PutIndex, RepoInv, CopyBacked
    <2>2. recent' \cap Blobs = recent \cap Blobs
        BY <1>0, <1>4, <2>1 DEF PutIndex
    <2> QED BY <1>4, <2>2 DEF PutIndex, RecentNew
<1>5. ASSUME NEW d \in Manifests, NEW T \in SUBSET Tags, PutStart(d, T)
      PROVE  RecentNew'
    BY <1>5 DEF PutStart, RecentNew
<1>6. CASE DeleteManifestBlob
    <2>1. CASE HasDigest(rows, target)
        BY <1>1, <1>6, <2>1 DEF DeleteManifestBlob
    <2>2. CASE ~HasDigest(rows, target)
        BY <1>3, <1>6, <2>2 DEF DeleteManifestBlob
    <2> QED BY <2>1, <2>2
<1>7. CASE GCIdle
    <2>1. recent' = recent \ Garbage /\ blobs' = blobs \ Garbage
          /\ age' = [d \in Digests |-> IF d \in Garbage THEN 0 ELSE age[d]]
        BY <1>7 DEF GCIdle
    <2>2. \A b \in Blobs : b \in Digests
        BY DEF Digests
    <2> HIDE DEF Garbage
    <2> QED BY <2>1, <2>2 DEF RecentNew
<1>8. CASE Tick
    BY <1>8 DEF Tick, RecentNew
<1>9. CASE Uploading
    BY <1>1, <1>2, <1>a, <1>9 DEF Uploading, WriteUpload, DeleteBlobUpload
<1>10. CASE Pushing
    BY <1>1, <1>4, <1>5, <1>10 DEF Pushing, InitRepo, PutTag
<1>11. CASE Deleting
    BY <1>1, <1>3, <1>6, <1>11 DEF Deleting, DeleteByTag, DeleteByDigest, DeleteBlob
<1>12. CASE GCStart \/ GCPass
    BY <1>1, <1>3, <1>7, <1>12 DEF GCPass, GCStart, GCLoop, GCReferrer, GCReferrersDone, GCUntagged,
        GCUntaggedDone, GCIndex, GCBlob, GCBlobsDone, GCNotIdle, GCRemove, GCUploads
<1>13. CASE Fail
    BY <1>1, <1>13 DEF Fail
<1>14. CASE UNCHANGED vars
    BY <1>1, <1>14 DEF vars
<1> QED BY <1>8, <1>9, <1>10, <1>11, <1>12, <1>13, <1>14 DEF Next

\* With a delay, and unless dedupe makes placeholders on a remote driver, no step of a GC pass
\* deletes a blob whose last upload was written to and acknowledged since the last tick, whatever
\* the pass found in index.json and however it was interrupted. (What was written earlier has the
\* age of that write: Move keeps it, so the delay counts from there and not from the answer.)
THEOREM FreshBlobsKeepGrace == OwnAges /\ GCDelay > 0 => (Spec => GracePeriod)
<1> SUFFICES ASSUME OwnAges, GCDelay > 0
             PROVE  Spec => GracePeriod
    OBVIOUS
<1>1. Init => RepoInv /\ RecentNew
    BY RepoInit DEF Init, RecentNew
<1>2. RepoInv /\ RecentNew /\ [Next]_vars => RepoInv' /\ RecentNew'
    BY RepoNext, RecentNext
<1>3. ASSUME RepoInv, RecentNew, GCPass
      PROVE  (recent \cap Blobs) \ blobs' = {}
    <2>1. \A d \in Garbage : d \notin recent \cap Blobs
        <3>1. GCDelay \in Nat
            BY ConstantsAssumption
        <3> QED BY <1>3, <3>1 DEF Garbage, RecentNew
    <2>2. \A d \in blobs \ blobs' : d \in Garbage
        <3> HIDE DEF Garbage
        <3> QED BY <1>3 DEF GCPass, GCStart, GCLoop, GCReferrer, GCReferrersDone, GCUntagged,
                GCUntaggedDone, GCIndex, GCBlob, GCBlobsDone, GCNotIdle, GCRemove, GCUploads, GCIdle,
                store
    <2>3. \A b \in recent \cap Blobs : b \in blobs
        BY <1>3 DEF RecentNew
    <2> QED BY <2>1, <2>2, <2>3
<1>4. RepoInv /\ RecentNew /\ [Next]_vars => (GCPass => ((recent \cap Blobs) \ blobs' = {}))
    BY <1>3
<1> QED BY <1>1, <1>2, <1>4, PTL DEF Spec, GracePeriod

=============================================================================
