------------------------------- MODULE Search -------------------------------
(***************************************************************************)
(* The queries of the search extension (pkg/extensions/search/resolver.go) *)
(* against the metadata database, while pushes and deletes go on.  A query *)
(* is a sequence of reads: one View transaction per MetaDB call on BoltDB, *)
(* one HGETALL of the repositories and one HGET per image on Redis, pages  *)
(* of the repository table and one GetItem per image on DynamoDB, where    *)
(* reading a page may fail.  A repository record is the map of its tags;   *)
(* an image is a manifest or an index, by its digest, and its content      *)
(* never changes.  One user asks one query, who may read some of the       *)
(* repositories; what a page of the answer holds is at the end.            *)
(***************************************************************************)
EXTENDS Naturals, FiniteSets, SequencesExt

CONSTANTS Images, Manifests,  \* digests; those of single manifests
          Members,            \* index -> its manifests, nested ones included
          Layers,             \* manifest -> sequence of layers
          Platform,           \* manifest -> platform
          Time,               \* image -> time of its last update
          Vulnerable,
          Repos, Tags, Readable,
          Queries,       \* records [op, repo, tag, dig, platform]
          Backends,      \* databases to look at
          MaxWrites,     \* bound on the changes made meanwhile
          MaxFaults,     \* bound on the reads of a page that fail
          NoImage

VARIABLES backend,
          tags,      \* repo -> tag -> image or NoImage (the RepoMeta records)
          exists,    \* repositories that have a record
          imeta,     \* images that have an ImageMeta record
          marks,     \* repositories the user bookmarked
          pend,      \* SetRepoReference between its two writes, or <<>>
          writes, faults,
          q          \* the query

vars == <<backend, tags, exists, imeta, marks, pend, writes, faults, q>>

Pairs == Repos \X Tags
Pointed == {<<p[1], p[2], tags[p[1]][p[2]]>> : p \in {x \in Pairs : tags[x[1]][x[2]] # NoImage}}

\* stable and seen are history: what held all along, and what held at some time
Idle == [op |-> "none", pc |-> "idle", repo |-> NoImage, tag |-> NoImage, dig |-> NoImage,
         platform |-> NoImage, ref |-> {}, infos |-> {}, names |-> {}, unread |-> {}, todo |-> {},
         out |-> {}, err |-> "none", view |-> {}, stable |-> {}, seen |-> {},
         known |-> {}, unmarked |-> {}]

----------------------------------------------------------------------------
(* What cve.go makes of the results of scans: which tags have a CVE and    *)
(* which contain its fix.  An image is a manifest, or an index of          *)
(* manifests; Vulnerable holds the manifests that have the CVE or whose    *)
(* scan fails (isManifestVulnerable counts both).                          *)

ManifestsOf(i) == IF i \in Manifests THEN {i} ELSE Members[i]

isManifestVulnerable(m) == m \in Vulnerable

\* the tags with the CVE.  What is kept of an index is its own descriptor, with
\* no manifests, so that no manifest stands for it afterwards.
GetImageListForCVE(T) == {i \in T : i \in Manifests /\ isManifestVulnerable(i)}

\* the manifests of an image that have a record
Recorded(i, known) == ManifestsOf(i) \cap known
Latest(ms) == CHOOSE m \in ms : \A n \in ms : Time[n] <= Time[m]
mostRecentUpdate(ms) == Time[Latest(ms)]

\* an index counts with the newest of its vulnerable manifests, a manifest with
\* its own time
VulnTime(i, known) == mostRecentUpdate({m \in Recorded(i, known) : isManifestVulnerable(m)})
OldestVuln(i, known) ==
    LET V == {m \in Recorded(i, known) : isManifestVulnerable(m)} IN
    Time[CHOOSE m \in V : \A n \in V : Time[m] <= Time[n]]

\* The earliest of the vulnerable tags: an index replaces the current one as
\* soon as one of its manifests is older, and then counts with its newest.  The
\* list comes from a map, so it has any order.
Earliest(V, known) ==
    LET Older(e, i) == IF OldestVuln(i, known) < VulnTime(e, known) THEN i ELSE e
    IN {VulnTime(FoldLeft(Older, l[1], l), known) : l \in SetToSeqs(V)}

\* the manifests of the tags that contain the fix: not older than the earliest
\* vulnerable tag, and without the CVE
GetFixedTags(T, V, known) ==
    {{m \in UNION {Recorded(i, known) : i \in T} : Time[m] >= e /\ ~isManifestVulnerable(m)} :
        e \in Earliest(V, known)}

GetImageListWithCVEFixed(T, known) ==
    LET V == {i \in T : \E m \in Recorded(i, known) : isManifestVulnerable(m)} IN
    IF V = {} THEN {UNION {Recorded(i, known) : i \in T}} ELSE GetFixedTags(T, V, known)

----------------------------------------------------------------------------
(* What the filters accept.  i is the tagged image, m one of its manifests *)

FilterByDigest(d, i, m) == i = d \/ m = d \/ \E k \in DOMAIN Layers[m] : Layers[m][k] = d

IsPrefixOf(s, t) == Len(s) > 0 /\ Len(s) <= Len(t) /\ SubSeq(t, 1, Len(s)) = s

filterDerivedImages(b, m) == b # m /\ IsPrefixOf(Layers[b], Layers[m])
filterBaseImages(d, m) == d # m /\ IsPrefixOf(Layers[m], Layers[d])

\* every layer of m occurs in the image, in any order
filterBaseImagesForMeta(d, m) ==
    d # m /\ \A k \in DOMAIN Layers[m] : \E l \in DOMAIN Layers[d] : Layers[m][k] = Layers[d][l]

FilterByTagInfo(infos, m) == m \in infos
FilterByRepoAndTagInfo(r, repo, infos, m) == r = repo /\ m \in infos

\* ImgSumAcceptedByFilter: the platforms of the manifests that matched
ImgSumAcceptedByFilter(ms, platform) == platform = NoImage \/ \E m \in ms : Platform[m] = platform

derivedImageList(c, m) == \E b \in c.ref : filterDerivedImages(b, m)
baseImageList(c, m) == \E d \in c.ref : filterBaseImages(d, m)
baseOfMinuend(c, m) == \E d \in c.ref : filterBaseImagesForMeta(d, m)

Accepts(c, r, i, m) ==
    CASE c.op = "digest" -> FilterByDigest(c.dig, i, m)
      [] c.op = "derived" -> derivedImageList(c, m)
      [] c.op = "base" -> baseImageList(c, m)
      [] c.op = "diff" -> baseOfMinuend(c, m)
      [] c.op = "cve" -> FilterByTagInfo(c.infos, m)
      [] c.op = "fixed" -> FilterByRepoAndTagInfo(r, c.repo, c.infos, m)
      [] OTHER -> TRUE

\* which tags are looked at.  globalSearch: the query text names a tag, or a
\* repository and a tag
globalSearch(c, r, t) == t = c.tag /\ (c.op = "image" => r = c.repo)
getImageList(c, r) == r = c.repo
AcceptsTag(c, r, t) == /\ c.op \in {"tag", "image"} => globalSearch(c, r, t)
                       /\ c.op \in {"list", "diff"} => getImageList(c, r)

----------------------------------------------------------------------------
(* The writers (RepoMeta and MetaHooks model them in full): the image      *)
(* first, then the repository, in one transaction on BoltDB.               *)

Tagged(r, t, i) == [tags EXCEPT ![r][t] = i]
History(new) == [q EXCEPT !.stable = @ \cap new, !.seen = IF q.pc = "idle" THEN @ ELSE @ \cup new]
PointedIn(tg) == {<<p[1], p[2], tg[p[1]][p[2]]>> : p \in {x \in Pairs : tg[x[1]][x[2]] # NoImage}}

ImageFirst(r, t, i) == /\ imeta' = imeta \cup {i} /\ pend' = <<r, t, i>>
                       /\ UNCHANGED <<tags, exists, q>>

SetRepoReference == \E r \in Repos, t \in Tags, i \in Images :
    /\ writes < MaxWrites /\ pend = <<>> /\ tags[r][t] # i
    /\ writes' = writes + 1
    /\ IF backend = "bolt"
       THEN /\ imeta' = imeta \cup {i} /\ tags' = Tagged(r, t, i) /\ exists' = exists \cup {r}
            /\ q' = History(PointedIn(Tagged(r, t, i))) /\ UNCHANGED pend
       ELSE ImageFirst(r, t, i)
    /\ UNCHANGED <<backend, marks, faults>>

\* the second write of the clients without a transaction
SetRepoReferenceEnd ==
    /\ pend # <<>>
    /\ LET tg == Tagged(pend[1], pend[2], pend[3]) IN
       tags' = tg /\ q' = History(PointedIn(tg))
    /\ exists' = exists \cup {pend[1]} /\ imeta' = imeta \cup {pend[3]} /\ pend' = <<>>
    /\ UNCHANGED <<backend, marks, writes, faults>>

RemoveRepoReference == \E r \in Repos, t \in Tags :
    /\ writes < MaxWrites /\ tags[r][t] # NoImage
    /\ tags' = Tagged(r, t, NoImage) /\ q' = History(PointedIn(Tagged(r, t, NoImage)))
    /\ writes' = writes + 1
    /\ UNCHANGED <<backend, exists, imeta, marks, pend, faults>>

DeleteRepoMeta == \E r \in exists :
    /\ writes < MaxWrites /\ writes' = writes + 1
    /\ LET tg == [tags EXCEPT ![r] = [t \in Tags |-> NoImage]] IN
       tags' = tg /\ q' = History(PointedIn(tg))
    /\ exists' = exists \ {r}
    /\ UNCHANGED <<backend, imeta, marks, pend, faults>>

ToggleBookmarkRepo == \E r \in exists \cap Readable :
    /\ writes < MaxWrites /\ writes' = writes + 1
    /\ marks' = IF r \in marks THEN marks \ {r} ELSE marks \cup {r}
    /\ q' = IF q.pc = "idle" \/ r \in marks' THEN q ELSE [q EXCEPT !.unmarked = @ \cup {r}]
    /\ UNCHANGED <<backend, tags, exists, imeta, pend, faults>>

----------------------------------------------------------------------------
(* The query.                                                              *)

\* GetRepoMeta first, for the operations that start from one image or one
\* repository; these answer nothing about a repository that is not readable
OneRepo == {"derived", "base", "diff", "expanded"}
FirstRead(c) == CASE c.op \in OneRepo -> IF c.repo \in Readable THEN "row" ELSE "done"
                  [] c.op = "bookmarked" -> "marks"
                  [] c.op = "cve" -> "names"
                  [] c.op = "fixed" -> "vuln"
                  [] OTHER -> "scan"

Ask == \E c \in Queries :
    /\ q.pc = "idle"
    /\ q' = [Idle EXCEPT !.op = c.op, !.pc = FirstRead(c), !.repo = c.repo, !.tag = c.tag,
                         !.dig = c.dig, !.platform = c.platform, !.unread = Repos,
                         !.names = IF c.op = "fixed" THEN {c.repo} ELSE {},
                         !.stable = Pointed, !.seen = Pointed, !.known = imeta,
                         !.unmarked = Repos \ marks]
    /\ UNCHANGED <<backend, tags, exists, imeta, marks, pend, writes, faults>>

Quiet == UNCHANGED <<backend, tags, exists, imeta, marks, pend, writes>>
Fail(e) == q' = [q EXCEPT !.pc = "done", !.err = e, !.out = {}]

\* getImageSummary, resolveImageData, expandedRepoInfo: the record of the
\* repository, and what is asked for next
ReadRow ==
    /\ q.pc = "row" /\ Quiet /\ UNCHANGED faults
    /\ IF q.repo \notin exists THEN Fail("norepo")
       ELSE IF q.op = "expanded"
       THEN q' = [q EXCEPT !.pc = "scan", !.view = imeta, !.unread = {},
                           !.todo = {x \in Pointed : x[1] = q.repo}]
       ELSE IF tags[q.repo][q.tag] = NoImage THEN Fail("notag")
       ELSE q' = [q EXCEPT !.pc = "image", !.ref = {tags[q.repo][q.tag]}]

\* then its image: FilterImageMeta, or for a difference GetImageMeta and the
\* member of an index that has the platform asked for
ReadReference ==
    /\ q.pc = "image" /\ Quiet /\ UNCHANGED faults
    /\ \E i \in q.ref :
          LET ms == ManifestsOf(i) \cap imeta IN
          IF i \notin imeta THEN Fail("missing")
          ELSE IF q.op # "diff" \/ i \in Manifests
          THEN q' = [q EXCEPT !.pc = "scan", !.ref = ms]
          ELSE IF q.platform = NoImage THEN Fail("ambiguous")
          ELSE IF \A m \in ms : Platform[m] # q.platform THEN Fail("notag")
          ELSE \E m \in ms : Platform[m] = q.platform /\ q' = [q EXCEPT !.pc = "scan", !.ref = {m}]

\* GetBookmarkedRepos
ReadMarks == /\ q.pc = "marks" /\ Quiet /\ UNCHANGED faults
             /\ q' = [q EXCEPT !.pc = "scan", !.names = marks]

----------------------------------------------------------------------------
(* Reading the repositories: all in one step, or page by page.             *)

Newest(r) == LET T == {x \in Pointed : x[1] = r}
             IN {x \in T : \A y \in T : Time[y[3]] <= Time[x[3]]}

\* SearchRepos and FilterRepos want the newest image of each repository,
\* FilterTags and SearchTags the tags they were asked for
RepoLists == {"repos", "bookmarked"}
SearchRepos(rs) == UNION {Newest(r) : r \in rs \cap Readable}
FilterRepos(rs) == UNION {Newest(r) : r \in rs \cap Readable \cap q.names}
FilterTags(rs) == {x \in Pointed : x[1] \in rs \cap Readable /\ AcceptsTag(q, x[1], x[2])}
Wanted(rs) == IF q.op = "repos" THEN SearchRepos(rs)
              ELSE IF q.op = "bookmarked" THEN FilterRepos(rs) ELSE FilterTags(rs)

\* MUTANT: only the last page of a scan is kept.
KeepOnlyPage(rs) == [q EXCEPT !.unread = {}, !.todo = Wanted(rs), !.view = imeta,
                              !.names = IF q.pc = "names" THEN rs \cap exists \cap Readable ELSE @]

Keep(rs) == IF q.pc = "names"
            THEN [q EXCEPT !.unread = @ \ rs, !.names = @ \cup (rs \cap exists \cap Readable)]
            ELSE [q EXCEPT !.unread = @ \ rs, !.todo = @ \cup Wanted(rs), !.view = imeta]

ReadsTags == q.pc = "scan" /\ q.op \notin RepoLists \cup {"image"}
ReadsRepos == q.pc = "scan" /\ q.op = "repos"
ReadsMarked == q.pc = "scan" /\ q.op = "bookmarked"
ReadsNames == q.pc = "names"
ReadsOne == q.pc = "scan" /\ q.op = "image"
\* DynamoDB, First and Next of the iterator: one page after the other
NextPage == \E r \in q.unread : (q.todo = {} \/ ReadsRepos \/ ReadsMarked) /\ q' = Keep({r})

\* BoltDB: one transaction, whose view of the images is that of its start
BoltFilterTags == backend = "bolt" /\ ReadsTags /\ q' = Keep(Repos)
BoltSearchRepos == backend = "bolt" /\ ReadsRepos /\ q' = Keep(Repos)
BoltFilterRepos == backend = "bolt" /\ ReadsMarked /\ q' = Keep(Repos)
BoltSearchTags == backend = "bolt" /\ ReadsOne /\ q' = Keep(Repos)
BoltGetMultipleRepoMeta == backend = "bolt" /\ ReadsNames /\ q' = Keep(Repos)
\* Redis: HGetAll of the repositories, or HGet of one
RedisFilterTags == backend = "redis" /\ ReadsTags /\ q' = Keep(Repos)
RedisSearchRepos == backend = "redis" /\ ReadsRepos /\ q' = Keep(Repos)
RedisFilterRepos == backend = "redis" /\ ReadsMarked /\ q' = Keep(Repos)
RedisSearchTags == backend = "redis" /\ ReadsOne /\ q' = Keep(Repos)
RedisGetMultipleRepoMeta == backend = "redis" /\ ReadsNames /\ q' = Keep(Repos)
\* DynamoDB: pages, or GetItem of one
DynamoFilterTags == backend = "dynamodb" /\ ReadsTags /\ NextPage
DynamoSearchRepos == backend = "dynamodb" /\ ReadsRepos /\ NextPage
DynamoFilterRepos == backend = "dynamodb" /\ ReadsMarked /\ NextPage
DynamoSearchTags == backend = "dynamodb" /\ ReadsOne /\ q' = Keep(Repos)
DynamoGetMultipleRepoMeta == backend = "dynamodb" /\ ReadsNames /\ NextPage

ReadRepos ==
    /\ q.unread # {} /\ Quiet /\ UNCHANGED faults
    /\ \/ BoltFilterTags \/ BoltSearchRepos \/ BoltFilterRepos \/ BoltSearchTags \/ BoltGetMultipleRepoMeta
       \/ RedisFilterTags \/ RedisSearchRepos \/ RedisFilterRepos \/ RedisSearchTags \/ RedisGetMultipleRepoMeta
       \/ DynamoFilterTags \/ DynamoSearchRepos \/ DynamoFilterRepos \/ DynamoSearchTags \/ DynamoGetMultipleRepoMeta

\* A page that cannot be read fails the query; only SearchRepos takes a later
\* one for the end of the table
ScanFails ==
    /\ q.pc \in {"scan", "names"} /\ backend = "dynamodb" /\ faults < MaxFaults
    /\ q.unread # {} /\ (q.todo = {} \/ q.op \in RepoLists) /\ q.op # "image" /\ Quiet /\ faults' = faults + 1
    /\ IF q.unread = Repos \/ ~ReadsRepos THEN Fail("scan") ELSE q' = [q EXCEPT !.unread = {}]

\* getProtoImageMeta and getAllContainedMeta of one tag, and the filter
Visible == IF backend = "bolt" THEN q.view ELSE imeta
getAllContainedMeta(i) == ManifestsOf(i) \cap Visible
Matched(x) == {m \in getAllContainedMeta(x[3]) : Accepts(q, x[1], x[3], m)}
Row(x) == [repo |-> x[1], tag |-> x[2], img |-> x[3], mans |-> Matched(x)]

\* FilterTags joins the errors and goes on, SearchTags returns the first; an
\* index none of whose manifests match is left out, but not by SearchTags
ByFilterImageMeta == RepoLists \cup {"expanded"}
ReadImage ==
    /\ q.pc = "scan" /\ q.op \notin ByFilterImageMeta /\ Quiet /\ UNCHANGED faults
    /\ \E x \in q.todo :
          IF x[3] \notin Visible
          THEN IF q.op = "image" THEN Fail("missing")
               ELSE q' = [q EXCEPT !.todo = @ \ {x}, !.err = "missing"]
          ELSE q' = [q EXCEPT !.todo = @ \ {x},
                              !.out = IF Matched(x) = {} /\ q.op # "image" THEN @
                                      ELSE @ \cup {Row(x)}]

\* FilterImageMeta, once the repositories are read: an image that is missing
\* fails it.  One transaction on BoltDB, image by image on the others.
Fetch(xs) == IF \E x \in xs : x[3] \notin imeta THEN Fail("missing")
             ELSE q' = [q EXCEPT !.todo = @ \ xs, !.view = imeta,
                                 !.out = @ \cup {[repo |-> x[1], tag |-> x[2], img |-> x[3],
                                                  mans |-> ManifestsOf(x[3]) \cap imeta] : x \in xs}]
BoltFilterImageMeta == backend = "bolt" /\ Fetch(q.todo)
RedisFilterImageMeta == backend = "redis" /\ \E x \in q.todo : Fetch({x})
DynamoFilterImageMeta == backend = "dynamodb" /\ \E x \in q.todo : Fetch({x})
FilterImageMeta ==
    /\ q.pc = "scan" /\ q.op \in ByFilterImageMeta /\ q.unread = {} /\ q.todo # {}
    /\ Quiet /\ UNCHANGED faults
    /\ BoltFilterImageMeta \/ RedisFilterImageMeta \/ DynamoFilterImageMeta

\* of the base images, the one that has most layers in common with the image
Score(ms, ref) ==
    Max({Cardinality({k \in DOMAIN Layers[m] : \E d \in ref : Layers[m][k] \in Range(Layers[d])}) :
            m \in ms} \cup {0})
Best(rows, ref) == {x \in rows : Score(x.mans, ref) > 0
                                 /\ \A y \in rows : Score(y.mans, ref) <= Score(x.mans, ref)}

\* what has been read is filtered and paged
Answer ==
    /\ q.pc = "scan" /\ q.unread = {} /\ q.todo = {} /\ Quiet /\ UNCHANGED faults
    /\ \/ /\ q.err # "none" /\ Fail(q.err)
       \/ /\ q.err = "none" /\ q.op # "diff"
          /\ q' = [q EXCEPT !.pc = "done", !.out = {x \in @ : q.op \in RepoLists \/
                                                       ImgSumAcceptedByFilter(x.mans, q.platform)}]
       \/ /\ q.err = "none" /\ q.op = "diff"
          /\ \E S \in (IF Best(q.out, q.ref) = {} THEN {{}} ELSE {{x} : x \in Best(q.out, q.ref)}) :
                q' = [q EXCEPT !.pc = "done", !.out = S]

----------------------------------------------------------------------------
(* The CVE queries: the repositories, then per repository its tags again   *)
(* and the scans, then the tags of every repository with what was found.   *)

NamesRead == /\ q.pc = "names" /\ q.unread = {} /\ Quiet /\ UNCHANGED faults
             /\ q' = [q EXCEPT !.pc = "vuln", !.unread = Repos]

\* getImageListForCVE and getImageListWithCVEFixed; scans succeed.  A repository
\* that is gone by now fails the query.
ScanRepo ==
    /\ q.pc = "vuln" /\ Quiet /\ UNCHANGED faults
    /\ \/ /\ q.names = {} /\ q' = [q EXCEPT !.pc = "scan", !.unread = Repos]
       \/ \E r \in q.names :
             IF r \notin exists THEN Fail("norepo")
             ELSE LET T == {x[3] : x \in {y \in Pointed : y[1] = r}} IN
                  \E new \in (IF q.op = "cve" THEN {GetImageListForCVE(T)}
                              ELSE GetImageListWithCVEFixed(T, imeta)) :
                     q' = [q EXCEPT !.names = @ \ {r}, !.infos = @ \cup new]

----------------------------------------------------------------------------
Init == /\ backend \in Backends
        /\ tags \in [Repos -> [Tags -> Images \cup {NoImage}]]
        /\ exists = {r \in Repos : \E t \in Tags : tags[r][t] # NoImage}
        /\ imeta = {i \in Images : \E r \in Repos, t \in Tags :
                       tags[r][t] # NoImage /\ i \in {tags[r][t]} \cup ManifestsOf(tags[r][t])}
        /\ marks \in SUBSET (exists \cap Readable)
        /\ pend = <<>> /\ writes = 0 /\ faults = 0 /\ q = Idle

Next == \/ SetRepoReference \/ SetRepoReferenceEnd \/ RemoveRepoReference \/ DeleteRepoMeta
        \/ ToggleBookmarkRepo
        \/ Ask \/ ReadRow \/ ReadReference \/ ReadMarks \/ ReadRepos \/ ScanFails \/ ReadImage
        \/ FilterImageMeta \/ Answer \/ NamesRead \/ ScanRepo

Spec == Init /\ [][Next]_vars

----------------------------------------------------------------------------
(* Pages (pagination/*.go): the sorted list cut at offset, limit elements  *)
(* long.  Nothing asked for, no offset and no limit, is everything.        *)

Page(s, offset, limit) ==
    LET start == IF offset >= Len(s) THEN Len(s) ELSE offset
        end == IF offset >= Len(s) THEN Len(s)
               ELSE IF offset + limit >= Len(s) THEN Len(s) ELSE offset + limit
    IN IF start = 0 /\ end = 0 THEN s ELSE SubSeq(s, start + 1, end)

----------------------------------------------------------------------------
Phases == {"idle", "row", "image", "marks", "scan", "names", "vuln", "done"}
\* Every variable holds a value of the kind the code gives it.
TypeOK == /\ backend \in Backends /\ tags \in [Repos -> [Tags -> Images \cup {NoImage}]]
          /\ exists \subseteq Repos /\ imeta \subseteq Images /\ marks \subseteq Repos
          /\ q.pc \in Phases /\ q.unread \subseteq Repos /\ q.ref \subseteq Images
          /\ q.err \in {"none", "norepo", "notag", "missing", "ambiguous", "scan"}

\* An answer names only repositories the user may read, whichever path it took
\* and however the repositories were read.
Entitled == \A x \in q.out : x.repo \in Readable

\* Every image of an answer was under its tag at some time while the query ran:
\* reads spread over several transactions never make up a pair.
ResultsWereTagged == \A x \in q.out : <<x.repo, x.tag, x.img>> \in q.seen

\* The tag was there all along and its match does not depend on later pushes
\* (which images are affected is decided tag by tag, and for manifests)
MustFind(x) ==
    LET ms == {m \in ManifestsOf(x[3]) \cap q.known :
                  IF q.op = "cve" THEN x[3] \in Manifests /\ m \in Vulnerable
                  ELSE Accepts(q, x[1], x[3], m)} IN
    /\ x[1] \in Readable /\ AcceptsTag(q, x[1], x[2]) /\ ms # {}
    /\ q.op = "expanded" => x[1] = q.repo
    /\ IF q.op = "diff" THEN Score(ms, q.ref) > 0 ELSE ImgSumAcceptedByFilter(ms, q.platform)

\* y answers x: the tag itself, or a base image at least as good
Finds(y, x) == IF q.op = "diff" THEN Score(y.mans, q.ref) >= Score({x[3]} \cap Manifests, q.ref)
               ELSE y.repo = x[1] /\ y.tag = x[2] /\ y.img = x[3]

\* Pushes and deletes of other tags never hide an image: a tag that does not
\* change while the query runs and matches it is in the answer, unless the query
\* reports an error.
StableFound ==
    q.pc = "done" /\ q.err = "none" /\ q.op \notin RepoLists
    /\ (q.op \in OneRepo => q.repo \in Readable)
        => \A x \in q.stable : MustFind(x) => \E y \in q.out : Finds(y, x)

\* A repository that is bookmarked all along and keeps a tag is listed.
MarksShown ==
    q.pc = "done" /\ q.err = "none" /\ q.op = "bookmarked" =>
        \A x \in q.stable : x[1] \in Readable \ q.unmarked => \E y \in q.out : y.repo = x[1]

\* No query fails because a push is half done: the image is written first.
NeverDangling == q.err # "missing"

\* A derived image's base images include the image it derives from, and only
\* then: the two lists are written as separate functions.
BaseDerivedDual ==
    \A b, m \in imeta \cap Manifests : filterDerivedImages(b, m) <=> filterBaseImages(m, b)

\* Asking page after page shows each element once, and no page is longer than
\* its limit.
PagesTile ==
    q.pc = "idle" /\ writes = 0 => \A n \in 0..4, l \in 1..3 :
        LET s == [k \in 1..n |-> k]
            pages == [p \in 1..5 |-> Page(s, (p - 1) * l, l)] IN
        /\ \A k \in 1..n : Cardinality({p \in 1..5 : \E j \in DOMAIN pages[p] : pages[p][j] = k}) = 1
        /\ \A p \in 1..5 : Len(pages[p]) <= l
=============================================================================
