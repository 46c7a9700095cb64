------------------------------ MODULE RepoMeta ------------------------------
(* The record the metadata database keeps for a repository, and what its     *)
(* operations do to it.  The three backends (BoltDB, Redis, DynamoDB) apply  *)
(* the same functions to it; they differ in what is atomic.  A reference is  *)
(* a tag, or None for a reference by digest.                                 *)
EXTENDS Integers, FiniteSets

CONSTANTS Images,     \* digests of manifests and indexes
          Tags,
          Children,   \* [Images -> SUBSET Images], the manifests an index lists
          Subject,    \* [Images -> Images \cup {None}], what a referrer refers to
          SigOf,      \* [Images -> Images \cup {None}], what a signature signs
          CosignTags, \* the signatures that are pushed under a tag sha256-<digest>.sig
          None

\* A signature is kept with its validity, the signer being known or not.
Signatures == [sig: Images, trusted: BOOLEAN]

\* The record of a repository.  stats[i] is the download count of image i or None, refs[s][i] how
\* often referrer i of s was pushed, blobs the manifests whose size is known, sized the ones that
\* the size of the repository counts, hist[t] the digest of the newest entry of the tag history for
\* t (None after a delete).
RepoRecords ==
    [tags:  [Tags -> Images \cup {None}],
     stats: [Images -> Int \cup {None}],
     sigs:  [Images -> SUBSET Signatures],
     refs:  [Images -> [Images -> Int]],
     stars: Int,
     blobs: SUBSET Images,
     sized: SUBSET Images,
     hist:  [Tags -> Images \cup {None}]]

ASSUME RepoMetaAssumption ==
    /\ None \notin Images \cup Tags \cup RepoRecords
    /\ Children \in [Images -> SUBSET Images]
    /\ Subject \in [Images -> Images \cup {None}]
    /\ SigOf \in [Images -> Images \cup {None}]
    /\ CosignTags \subseteq Images

\* getProtoRepoMeta of an unknown repository.
EmptyMeta ==
    [tags  |-> [t \in Tags |-> None],
     stats |-> [i \in Images |-> None],
     sigs  |-> [i \in Images |-> {}],
     refs  |-> [s \in Images |-> [i \in Images |-> 0]],
     stars |-> 0,
     blobs |-> {},
     sized |-> {},
     hist  |-> [t \in Tags |-> None]]

Tagged(rm) == {rm.tags[t] : t \in Tags} \ {None}

\* The walks over SubBlobs: what is known and reachable from the images in D, the least set that
\* holds what D knows and the known children of its members.
Reachable(D, B) ==
    LET closed(S) == D \cap B \subseteq S /\ \A i \in S : Children[i] \cap B \subseteq S
    IN  {i \in B : \A S \in SUBSET B : closed(S) => i \in S}

\* The size, the vendors and the platforms are those of what the tags reach.
recalculateAggregateFields(rm) == [rm EXCEPT !.sized = Reachable(Tagged(rm), rm.blobs)]

AddImageMetaToRepoMeta(rm, ref, i) ==
    LET known == [rm EXCEPT !.blobs = @ \cup {i}]
    IN  IF ref = None THEN known ELSE recalculateAggregateFields(known)

\* What no tag reaches is forgotten.
RemoveImageFromRepoMeta(rm) ==
    LET left == Reachable(Tagged(rm), rm.blobs)
    IN  [rm EXCEPT !.blobs = left, !.sized = left]

\* MUTANT: the history only records tags that are new.
SetRepoReferenceNewTag(rm, ref, i) ==
    LET tagged == IF ref = None THEN rm
                  ELSE [rm EXCEPT !.tags[ref] = i,
                                  !.hist[ref] = IF rm.tags[ref] # None THEN @ ELSE i]
        stated == [tagged EXCEPT !.stats[i] = IF @ = None THEN 0 ELSE @]
    IN  AddImageMetaToRepoMeta(stated, ref, i)

\* A push counts a referrer once more, moves the tag and its history, and leaves the
\* statistics that are there.
SetRepoReference(rm, ref, i) ==
    LET counted == IF Subject[i] = None THEN rm
                   ELSE [rm EXCEPT !.refs[Subject[i]][i] = @ + 1]
        tagged  == IF ref = None THEN counted
                   ELSE [counted EXCEPT !.tags[ref] = i,
                                        !.hist[ref] = IF rm.tags[ref] = i THEN @ ELSE i]
        stated  == [tagged EXCEPT !.stats[i] = IF @ = None THEN 0 ELSE @]
    IN  AddImageMetaToRepoMeta(stated, ref, i)

\* A referrer is forgotten with its last tag or with its digest; an image without a tag
\* loses its statistics, its signatures and its referrers.
RemoveRepoReference(rm, ref, i) ==
    LET gone      == IF ref # None THEN {ref} ELSE {t \in Tags : rm.tags[t] = i}
        uncounted == IF Subject[i] = None THEN rm
                     ELSE [rm EXCEPT !.refs[Subject[i]][i] =
                             IF @ = 0 \/ ref = None THEN 0 ELSE @ - 1]
        untagged  == [uncounted EXCEPT
                        !.tags = [t \in Tags |-> IF t \in gone THEN None ELSE @[t]],
                        !.hist = [t \in Tags |-> IF t \in gone THEN None ELSE @[t]]]
        forgotten == IF i \in Tagged(untagged) THEN untagged
                     ELSE [untagged EXCEPT !.stats[i] = None, !.sigs[i] = {},
                                           !.refs[i] = [j \in Images |-> 0]]
    IN  RemoveImageFromRepoMeta(forgotten)

\* Parsing a repository starts from the tags that the storage has, the statistics and the
\* stars; signatures, referrers and the size are found again.  Blobs and history stay.
ResetRepoReferences(rm, keep) ==
    [rm EXCEPT !.tags = [t \in Tags |-> IF t \in keep THEN @[t] ELSE None],
               !.sigs = EmptyMeta.sigs, !.refs = EmptyMeta.refs, !.sized = {}]

\* A signature under the cosign tag replaces the one that was there: the first place of the
\* list is its own.  (Once that one was deleted another signature may have moved up to the
\* first place, and the code overwrites it; the set has no places, and keeps it.)
AddManifestSignature(rm, i, s) ==
    LET replaced == IF s \in CosignTags THEN CosignTags ELSE {}
    IN  IF \E g \in rm.sigs[i] : g.sig = s THEN rm
        ELSE [rm EXCEPT !.sigs[i] = {g \in @ : g.sig \notin replaced}
                                      \cup {[sig |-> s, trusted |-> FALSE]}]

\* (An image with signatures of other types only makes the code panic, which leaves the
\* record as it was.)
DeleteSignature(rm, i, s) == [rm EXCEPT !.sigs[i] = {g \in @ : g.sig # s}]

\* trusted is what VerifySignature answers, with the keys and certificates of the moment.
UpdateSignaturesValidity(rm, i, trusted) ==
    [rm EXCEPT !.sigs[i] = {[g EXCEPT !.trusted = (g.sig \in trusted)] : g \in @}]

\* The image the statistics are about, None if the metadata does not know it.
DownloadedImage(rm, ref, i) ==
    LET d == IF ref = None THEN i ELSE rm.tags[ref]
    IN  IF d = None THEN None
        ELSE IF rm.stats[d] # None \/ d \in Tagged(rm) THEN d ELSE None

UpdateStatsOnDownload(rm, d) ==
    [rm EXCEPT !.stats[d] = IF @ = None THEN 1 ELSE @ + 1]

\* The star of a user is added or removed together with the star of the repository.
AddStar(rm)    == [rm EXCEPT !.stars = @ + 1]
RemoveStar(rm) == [rm EXCEPT !.stars = @ - 1]

=============================================================================
