---------------------------- MODULE MCRepository -----------------------------
(***************************************************************************)
(* One repository, for TLC: pushes, uploads and deletes beside the garbage *)
(* collector, or one of the components around it: the retention policies   *)
(* of a pass, the paged and ranged reads, the conversion of what is kept   *)
(* of the repository in the metadata database, and the queries on that.    *)
(* They share no state here; a behaviour runs one of them.                 *)
(***************************************************************************)
EXTENDS RepoStore, TLC

CONSTANTS Off, main, sub, t1, t2, d1, d2, d3, r1, r2, ia, ib, ix, la, lb, amd, arm

VARIABLE part   \* the component that runs in this behaviour
VARIABLES policy, onDisk, indexed, known, statistics, stage, todo, gced, keptTags,
          cancelled, due
VARIABLES repos, tagList, blob, settings, changes, client
VARIABLES in, db, out, first, step
VARIABLES backend, tagged, exists, imeta, marks, pend, writes, pageFaults, query

\* An image, a signature of it that refers to it, and an index of the image.
SignedImages == {"m1", "s1"}
OneIndex == {"x1"}
SignedRefs == ("m1" :> {"b1"}) @@ ("s1" :> {})
IndexChildren == ("x1" :> {"m1"})
SignedSubject == ("m1" :> None) @@ ("s1" :> "m1") @@ ("x1" :> None)
CosignTag == ("v1" :> None) @@ ("v2" :> "m1")

R(n, k, pull, push) ==
    [pulled |-> n, pushed |-> k, pulledWithin |-> pull, pushedWithin |-> push]
Other == [repos |-> {"other"}, keepTags |-> <<>>, keepUntagged |-> None, deleteUntagged |-> FALSE]
ByTag == [repos |-> {"repo"}, deleteUntagged |-> TRUE, keepUntagged |-> R(1, 0, None, None),
          keepTags |-> <<[patterns |-> {{t1}}, rules |-> R(0, 0, 1, None)],
                         [patterns |-> {{t1, t2}}, rules |-> R(1, 1, None, None)]>>]
ByAge == [repos |-> {"repo"}, deleteUntagged |-> TRUE, keepUntagged |-> R(0, 0, None, 1),
          keepTags |-> <<[patterns |-> {}, rules |-> R(0, 1, 2, 1)]>>]
Plain == [repos |-> {"repo"}, deleteUntagged |-> FALSE, keepUntagged |-> None,
          keepTags |-> <<[patterns |-> {{t2}}, rules |-> R(0, 0, None, None)]>>]
RetentionConfigs ==
    {[policies |-> <<Other, ByTag, Plain>>, dryRun |-> FALSE, metaDB |-> TRUE],
     [policies |-> <<ByAge>>, dryRun |-> FALSE, metaDB |-> TRUE],
     [policies |-> <<ByTag>>, dryRun |-> TRUE, metaDB |-> TRUE],
     [policies |-> <<Plain>>, dryRun |-> FALSE, metaDB |-> FALSE],
     [policies |-> <<Other>>, dryRun |-> FALSE, metaDB |-> TRUE]}

\* Two tags and three manifests, one of them within the delay.
Policies == INSTANCE Retention
    WITH Tags <- {t1, t2}, Digests <- {d1, d2, d3},
        Repo <- "repo", Configs <- RetentionConfigs, Now <- 2, Young <- {d3},
        conf <- policy, disk <- onDisk, index <- indexed, tags <- known,
        stats <- statistics, pc <- stage, keep <- keptTags, done <- cancelled

ReadStores == <<main, sub>>
ReadNames == main :> <<1, 2, 3>> @@ sub :> <<4, 5, 6>>
ReadSpecs == {[from |-> f, to |-> t] : f \in {-1, 0, 2, 4}, t \in {-1, 1, 5}}

\* An index of an index and an image; a second image refers to the first and gives a layer another size.
D(d, n) == [dig |-> d, size |-> n]
ReadKids == "x" :> <<D("i", 2), D("m", 4)>> @@ "i" :> <<D("m", 4), D("n", 3)>>
            @@ "m" :> <<D("a", 4), D("b", 4)>> @@ "n" :> <<D("b", 5)>>
ReadRows == {D("x", 1), D("i", 2), D("m", 4), D("n", 3)}

\* Two stores of three repositories; the client may not read the last one of each, and that of the
\* first is no repository.
Reader == INSTANCE Reads
    WITH Stores <- ReadStores, Names <- ReadNames,
        Invalid <- {3}, Rows <- ReadRows, Kids <- ReadKids, Indexes <- {"x", "i"},
        SubjectOf <- "x" :> None @@ "i" :> "m" @@ "m" :> None @@ "n" :> "m",
        TypeOf <- "x" :> "p" @@ "i" :> "p" @@ "m" :> "p" @@ "n" :> "q",
        Readable <- {1, 2, 4, 5}, TagNames <- {1, 2, 3, 4}, Size <- 4,
        Specs <- ReadSpecs, Cves <- {1, 2, 3}, Severities <- {2, 6},
        MaxChanges <- 2, Pages <- 3, tags <- tagList, conf <- settings, c <- client

SomePlatforms == {[os |-> o, arch |-> "x", ver |-> v] : o \in {"l", "w"}, v \in {"", "1"}}

\* Every shape of image, index and repository record.
Convert == INSTANCE MetaConvert
    WITH Digests <- {"d1", "d2"},
        Tags <- {"v1", "v2"}, Platforms <- SomePlatforms

Ask(op, r, d, p) == [op |-> op, repo |-> r, tag |-> t1, dig |-> d, platform |-> p]
Queries ==
    {Ask("digest", r1, d, None) : d \in {ia, lb}}
    \cup {Ask(op, r1, ia, p) : op \in {"tag", "diff"}, p \in {None, arm}}
    \cup {Ask(op, r, ia, None) : op \in {"image", "list", "derived", "base", "expanded", "fixed"},
                                r \in {r1, r2}}
    \cup {Ask(op, r1, ia, None) : op \in {"repos", "bookmarked", "cve"}}

\* ib is built on ia, ix is an index of both; the user may read r1 only.
Query == INSTANCE Search
    WITH Repos <- {r1, r2}, Tags <- {t1},
        Readable <- {r1}, Images <- {ia, ib, ix}, Manifests <- {ia, ib},
        Vulnerable <- {ib}, Members <- ix :> {ia, ib},
        Layers <- ia :> <<la>> @@ ib :> <<la, lb>>,
        Platform <- ia :> amd @@ ib :> arm, Time <- ia :> 1 @@ ib :> 2 @@ ix :> 2,
        Backends <- {"bolt", "redis", "dynamodb"}, MaxWrites <- 1, MaxFaults <- 1,
        NoImage <- None, tags <- tagged, faults <- pageFaults, q <- query

PoliciesState == <<policy, onDisk, indexed, known, statistics, stage, todo, gced,
            keptTags, cancelled, due>>
ReaderState == <<repos, tagList, blob, settings, changes, client>>
ConvertState == <<in, db, out, first, step>>
QueryState == <<backend, tagged, exists, imeta, marks, pend, writes, pageFaults,
            query>>

-----------------------------------------------------------------------------
(* The variables of a component that does not run hold Off.               *)
PoliciesOff == /\ policy = Off /\ onDisk = Off /\ indexed = Off /\ known = Off
               /\ statistics = Off /\ stage = Off /\ todo = Off /\ gced = Off
               /\ keptTags = Off /\ cancelled = Off /\ due = Off
ReaderOff == /\ repos = Off /\ tagList = Off /\ blob = Off /\ settings = Off
             /\ changes = Off /\ client = Off
ConvertOff == /\ in = Off /\ db = Off /\ out = Off /\ first = Off /\ step = Off
QueryOff == /\ backend = Off /\ tagged = Off /\ exists = Off /\ imeta = Off /\ marks = Off
            /\ pend = Off /\ writes = Off /\ pageFaults = Off /\ query = Off

MCInit ==
    \/ part = "store" /\ Init /\ PoliciesOff /\ ReaderOff /\ ConvertOff /\ QueryOff
    \/ part = "retention" /\ Policies!Init /\ Init /\ ReaderOff /\ ConvertOff /\ QueryOff
    \/ part = "reads" /\ Reader!Init /\ Init /\ PoliciesOff /\ ConvertOff /\ QueryOff
    \/ part = "convert" /\ Convert!Init /\ Init /\ PoliciesOff /\ ReaderOff /\ QueryOff
    \/ part = "search" /\ Query!Init /\ Init /\ PoliciesOff /\ ReaderOff /\ ConvertOff

MCNext ==
    /\ UNCHANGED part
    /\ \/ part = "store" /\ Next /\ UNCHANGED <<PoliciesState, ReaderState, ConvertState, QueryState>>
       \/ part = "retention" /\ Policies!Next /\ UNCHANGED <<vars, ReaderState, ConvertState, QueryState>>
       \/ part = "reads" /\ Reader!Next /\ UNCHANGED <<vars, PoliciesState, ConvertState, QueryState>>
       \/ part = "convert" /\ Convert!Next /\ UNCHANGED <<vars, PoliciesState, ReaderState, QueryState>>
       \/ part = "search" /\ Query!Next /\ UNCHANGED <<vars, PoliciesState, ReaderState, ConvertState>>

MCVars == <<part, vars, PoliciesState, ReaderState, ConvertState, QueryState>>
MCSpec == MCInit /\ [][MCNext]_MCVars

-----------------------------------------------------------------------------
(* The properties of the components, each where its component runs.        *)

\* A retention pass that decides by what the metadata database says, while clients pull and the
\* pass may be cancelled: tags and untagged manifests that a rule retains, and manifests within
\* the delay, stay; the database never lists a tag the index has lost for long; a tag that the
\* policy retains when it is looked at is not removed by that step; a dry run removes nothing.
RetentionSound ==
    /\ [](part = "retention" => /\ Policies!TypeOK /\ Policies!RetainedKept
                                /\ Policies!YoungKept /\ Policies!MetaNotAhead)
    /\ [][part = "retention" => Policies!KeepsPromise /\ Policies!RunsDry]_MCVars

\* What a client is answered while repositories change. The pages of the catalog and of the tags
\* together give every name that was there throughout once and no other, a range is the bytes
\* asked for, the merged CVE lists and their difference are exact. A search shows only what the
\* user may read and what was tagged while it ran, finds what stayed, shows the stars and
\* bookmarks, never an image without its repository; base and derived images are converse, and
\* the pages of a result tile it.
AnswersSound ==
    /\ part = "reads" => /\ Reader!TypeOK /\ Reader!CatalogTiles /\ Reader!TagsTile
                         /\ Reader!RangesExact /\ Reader!CveListExact /\ Reader!DiffExact
                         /\ Reader!SweepTiles /\ Reader!ReferrersExact /\ Reader!StatSound
    /\ part = "search" => /\ Query!TypeOK /\ Query!Entitled /\ Query!ResultsWereTagged
                          /\ Query!StableFound /\ Query!MarksShown /\ Query!NeverDangling
                          /\ Query!BaseDerivedDual /\ Query!PagesTile

\* What is written to the metadata database comes back as it was: images and indexes with their
\* history and dates, the repository record with its counters; reading twice gives the same; the
\* views made from the record agree with it, the newest image is kept and a platform listed once.
ConversionExact ==
    part = "convert" => /\ Convert!TypeOK /\ Convert!ImageKept /\ Convert!AgeKept
                        /\ Convert!RepoKept /\ Convert!RereadSame /\ Convert!ViewsAgree
                        /\ Convert!LatestWins /\ Convert!PlatformsOnce

ASSUME Policies!RetentionAssumption
=============================================================================
