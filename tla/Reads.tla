-------------------------------- MODULE Reads -------------------------------
(***************************************************************************)
(* What a client reads page by page or range by range (pkg/api/routes.go), *)
(* while the registry changes: the catalog over the default store and the  *)
(* stores under subpaths, the tags of a repository, a blob by byte ranges, *)
(* the referrers of a manifest, and the CVEs of an image as the backends'  *)
(* results are merged, compared, summarised and paged (pkg/extensions/     *)
(* search/cve).  Beside the clients, a task generator goes through the     *)
(* repositories of a store, one a call.                                    *)
(*                                                                         *)
(* Stores is the sequence of stores, the default one first and the others  *)
(* by their path; Names gives each its repositories in the order of the    *)
(* walk.  Names and tags are numbers so that their order is theirs.        *)
(***************************************************************************)
EXTENDS Integers, FiniteSets, SequencesExt

CONSTANTS Stores,        \* sequence of stores
          Names,         \* store -> increasing sequence of the repositories it may hold
          Invalid,       \* those of them that are no names of repositories (lost+found)
          Readable,      \* repositories the client may read
          TagNames,      \* tags, numbers
          Size,          \* size of the blob
          Specs,         \* range specifications [from, to], -1 for an empty part
          Rows,          \* what index.json may hold: descriptors [dig, size]
          Kids,          \* image or index -> sequence of the descriptors in it
          Indexes,       \* the indexes among them
          SubjectOf,     \* image or index -> its subject
          TypeOf,        \* image or index -> its artifact type
          Cves,          \* ids of CVEs, numbers
          Severities,    \* 2..6: unknown to critical
          MaxChanges, Pages, None

VARIABLES repos, tags, blob,  \* what exists
          conf,               \* the store's settings for the blob: hydrate, mount, url
          changes,            \* bound
          c                   \* the client

vars == <<repos, tags, blob, conf, changes, c>>

AllNames == UNION {{Names[s][k] : k \in DOMAIN Names[s]} : s \in DOMAIN Names}

Idle == [op |-> "catalog", pc |-> "idle", n |-> 0, last |-> None, k |-> 1, left |-> 0, mark |-> None,
         page |-> <<>>, more |-> FALSE, got |-> <<>>, stay |-> {}, lost |-> FALSE,
         specs |-> <<>>, ranges |-> <<>>, sent |-> {}, code |-> 0, ranged |-> FALSE, head |-> FALSE]

----------------------------------------------------------------------------
(* The catalog                                                             *)

GetStorePath(r) ==
    IF r = None THEN Stores[1]
    ELSE CHOOSE s \in DOMAIN Names : \E k \in DOMAIN Names[s] : Names[s][k] = r

ValidateRepo(r) == r \in repos \ Invalid

GetRepositories(s) == SelectSeq(Names[s], LAMBDA r : ValidateRepo(r))

After(l, last) == SelectSeq(l, LAMBDA r : last = None \/ (last \in repos /\ r > last))

\* A page of one store: what comes after last, as long as last is still there.
\* The walk stops at the first thing it meets once the page is full, be it a
\* file of the last repository: a full page always says there is more.
GetNextRepositories(s, last, max) ==
    LET here == GetRepositories(s)
        l == SelectSeq(After(here, last), LAMBDA r : r \in Readable)
    IN IF max < 0 \/ Len(l) < max THEN [list |-> l, more |-> FALSE]
       ELSE [list |-> SubSeq(l, 1, max), more |-> here # <<>>]

\* the mark left for the stores that follow: they are skipped if the page is full
NextMark(p, left) == IF p.more /\ left <= 0 /\ p.list # <<>> THEN Last(p.list) ELSE None

Asked(s) ==
    /\ s = Stores[1] => GetStorePath(c.last) = s
    /\ s # Stores[1] => /\ c.mark = None \/ s = GetStorePath(c.last)
                        /\ c.left > 0 \/ c.n = -1

\* One store of listStorageRepositories, under the lock of that store only.
listStorageRepositories ==
    /\ c.op = "catalog" /\ c.pc = "page" /\ c.k <= Len(Stores)
    /\ LET s == Stores[c.k] IN
       \/ /\ Asked(s)
          /\ LET p == GetNextRepositories(s, c.mark, c.left)
                 left == c.left - Len(p.list)
             IN c' = [c EXCEPT !.k = @ + 1, !.left = left, !.mark = NextMark(p, left),
                               !.page = @ \o p.list, !.more = p.more]
       \/ /\ ~Asked(s)
          /\ c' = [c EXCEPT !.k = @ + 1]
    /\ UNCHANGED <<repos, tags, blob, changes, conf>>

\* The answer, with a link to the next page; the client follows it.
ListRepositories ==
    /\ c.op = "catalog" /\ c.pc = "page" /\ c.k > Len(Stores)
    /\ LET got == c.got \o c.page IN
       IF c.more /\ c.page # <<>>
       THEN c' = [c EXCEPT !.last = Last(c.page), !.mark = Last(c.page), !.k = 1, !.left = c.n,
                           !.page = <<>>, !.more = FALSE, !.got = got]
       ELSE c' = [c EXCEPT !.pc = "done", !.page = <<>>, !.got = got]
    /\ UNCHANGED <<repos, tags, blob, changes, conf>>

AskCatalog(n) ==
    /\ c.op = "catalog" /\ c.pc = "idle"
    /\ c' = [Idle EXCEPT !.op = "catalog", !.pc = "page", !.n = n, !.left = n, !.stay = repos]
    /\ UNCHANGED <<repos, tags, blob, changes, conf>>

----------------------------------------------------------------------------
(* A generator of tasks for every repository of a store: garbage           *)
(* collection, scrub, storage metrics                                      *)

\* the first one of the walk that is not processed; None at the end
GetNextRepository(s, processed) ==
    LET left == SelectSeq(GetRepositories(s), LAMBDA r : r \notin processed)
    IN IF left = <<>> THEN None ELSE left[1]

SweepNext ==
    /\ c.op = "sweep" /\ c.pc = "page"
    /\ LET r == GetNextRepository(Stores[1], Range(c.got)) IN
       c' = IF r = None THEN [c EXCEPT !.pc = "done"] ELSE [c EXCEPT !.got = Append(@, r)]
    /\ UNCHANGED <<repos, tags, blob, changes, conf>>

StartSweep ==
    /\ c.op = "sweep" /\ c.pc = "idle"
    /\ c' = [Idle EXCEPT !.op = "sweep", !.pc = "page", !.stay = repos]
    /\ UNCHANGED <<repos, tags, blob, changes, conf>>

----------------------------------------------------------------------------
(* Tags                                                                    *)

Sorted(S) == SetToSortSeq(S, LAMBDA a, b : a < b)

StartAfter(k) == k + 1

\* A page of tags: the whole list is read at once, and the last tag of the page
\* before has to be there.
ListTags ==
    /\ c.op = "tags" /\ c.pc = "page"
    /\ LET l == Sorted(tags)
           at == {k \in DOMAIN l : l[k] = c.last}
           start == IF c.last = None THEN 1 ELSE StartAfter(CHOOSE k \in at : TRUE)
       IN \/ /\ c.last # None /\ at = {}
             /\ c' = [c EXCEPT !.pc = "done", !.code = 404]
          \/ /\ c.last = None \/ at # {}
             /\ IF start - 1 + c.n < Len(l)
                THEN c' = [c EXCEPT !.got = @ \o SubSeq(l, start, start + c.n - 1),
                                    !.last = l[start + c.n - 1]]
                ELSE c' = [c EXCEPT !.got = @ \o SubSeq(l, start, Len(l)), !.pc = "done", !.code = 200]
    /\ UNCHANGED <<repos, tags, blob, changes, conf>>

AskTags(n) ==
    /\ c.op = "tags" /\ c.pc = "idle" /\ n > 0
    /\ c' = [Idle EXCEPT !.op = "tags", !.pc = "page", !.n = n, !.stay = tags]
    /\ UNCHANGED <<repos, tags, blob, changes, conf>>

----------------------------------------------------------------------------
(* Byte ranges of a blob                                                   *)

maxRangeSpecCount == 16

\* one specification: a suffix, an open range or a closed one
Resolve(r, size) ==
    LET start == IF r.from >= 0 THEN r.from ELSE IF r.to > size THEN 0 ELSE size - r.to
        end == IF r.from < 0 \/ r.to < 0 \/ r.to >= size THEN size - 1 ELSE r.to
    IN [start |-> start, end |-> end]

RangeOK(r, size) ==
    /\ r.from >= 0 \/ r.to > 0
    /\ r.from >= 0 /\ r.to >= 0 => r.to >= r.from
    /\ Resolve(r, size).start < size /\ Resolve(r, size).start <= Resolve(r, size).end

Touches(a, b) == b.start <= a.end + 1

\* sorted, and what overlaps or touches joined
coalesceRanges(rs) ==
    LET l == SetToSortSeq({rs[k] : k \in DOMAIN rs},
                 LAMBDA a, b : a.start < b.start \/ (a.start = b.start /\ a.end < b.end))
        Add(acc, r) ==
            IF acc = <<>> THEN <<r>>
            ELSE IF Touches(Last(acc), r)
            THEN [acc EXCEPT ![Len(acc)].end = IF r.end > @ THEN r.end ELSE @]
            ELSE Append(acc, r)
    IN FoldLeft(Add, <<>>, l)

parseRangeHeader(specs, size) ==
    IF size <= 0 \/ specs = <<>> \/ Len(specs) > maxRangeSpecCount
       \/ \E k \in DOMAIN specs : ~RangeOK(specs[k], size)
    THEN <<>>
    ELSE coalesceRanges([k \in DOMAIN specs |-> Resolve(specs[k], size)])

BytesOf(r) == r.start..r.end

\* Hydration: a blob another repository has is linked into this one by the read,
\* if the store is configured so and the user may mount it.
resolveBlobPresence ==
    IF conf.hydrate /\ conf.mount /\ "cache" \in blob THEN blob \cup {"here"} ELSE blob

CheckBlob ==
    /\ c.op = "blob" /\ c.pc = "idle"
    /\ blob' = resolveBlobPresence
    /\ c' = [c EXCEPT !.pc = "done", !.head = TRUE, !.code = IF "here" \in blob' THEN 200 ELSE 404]
    /\ UNCHANGED <<repos, tags, changes, conf>>

\* A request with a Range header looks first whether the blob is there, and how
\* long it is; it is never redirected.
GetBlobRanges(specs) ==
    /\ c.op = "blob" /\ c.pc = "idle"
    /\ blob' = resolveBlobPresence
    /\ LET rs == parseRangeHeader(specs, Size) IN
       c' = [c EXCEPT !.specs = specs, !.ranges = rs, !.ranged = TRUE,
                      !.pc = IF "here" \in blob' /\ rs # <<>> THEN "open" ELSE "done",
                      !.code = IF "here" \notin blob' THEN 404 ELSE IF rs = <<>> THEN 416 ELSE 0]
    /\ UNCHANGED <<repos, tags, changes, conf>>

\* Without one the client is sent to the storage's own address, if that is
\* configured and the storage has an address the client could follow.
GetBlobRedirectURL ==
    /\ c.op = "blob" /\ c.pc = "idle"
    /\ c' = IF conf.url # "off" /\ "here" \notin blob THEN [c EXCEPT !.pc = "done", !.code = 404]
            ELSE IF conf.url = "good" THEN [c EXCEPT !.pc = "done", !.code = 307]
            ELSE [c EXCEPT !.pc = "open"]
    /\ UNCHANGED <<repos, tags, blob, changes, conf>>

\* The whole blob, opened before the status is sent.
GetBlob ==
    /\ c.op = "blob" /\ c.pc = "open" /\ ~c.ranged
    /\ c' = IF "here" \in blob THEN [c EXCEPT !.pc = "done", !.code = 200, !.sent = 0..(Size - 1)]
            ELSE [c EXCEPT !.pc = "done", !.code = 404]
    /\ UNCHANGED <<repos, tags, blob, changes, conf>>

\* With one range the blob is opened before the status is sent.
OpenRange ==
    /\ c.op = "blob" /\ c.pc = "open" /\ Len(c.ranges) = 1
    /\ c' = IF "here" \in blob THEN [c EXCEPT !.pc = "done", !.code = 206, !.sent = BytesOf(c.ranges[1])]
            ELSE [c EXCEPT !.pc = "done", !.code = 404]
    /\ UNCHANGED <<repos, tags, blob, changes, conf>>

\* With more, the status goes first and each range is opened in its turn; if the
\* blob is gone by then the connection is closed in the middle of the answer.
writeMultipartRanges ==
    /\ c.op = "blob" /\ c.pc = "open" /\ Len(c.ranges) > 1
    /\ IF c.k > Len(c.ranges) THEN c' = [c EXCEPT !.pc = "done", !.code = 206]
       ELSE IF "here" \in blob THEN c' = [c EXCEPT !.k = @ + 1, !.sent = @ \cup BytesOf(c.ranges[c.k])]
       ELSE c' = [c EXCEPT !.pc = "done", !.code = 206, !.lost = TRUE]
    /\ UNCHANGED <<repos, tags, blob, changes, conf>>

----------------------------------------------------------------------------
(* What index.json leads to.  bad says of an image or index whether its    *)
(* blob is missing or cannot be parsed.                                    *)

Digs(descs) == [k \in DOMAIN descs |-> descs[k].dig]

\* The referrers of d, each once however many rows it has; a missing one is
\* passed over, one that cannot be parsed fails the request.
GetReferrers(rows, d, types, bad) ==
    LET Take(acc, m) ==
            IF m = d \/ m \in acc.seen THEN acc
            ELSE [seen |-> acc.seen \cup {m},
                  fails |-> acc.fails \/ bad[m] = "corrupt",
                  list |-> IF bad[m] = "no" /\ SubjectOf[m] = d /\ (types = {} \/ TypeOf[m] \in types)
                           THEN Append(acc.list, m) ELSE acc.list]
    IN FoldLeft(Take, [seen |-> {}, fails |-> FALSE, list |-> <<>>], Digs(rows))

AskReferrers(rows, d, types, bad) ==
    /\ c.op = "referrers" /\ c.pc = "idle"
    /\ LET r == GetReferrers(rows, d, types, bad) IN
       c' = [Idle EXCEPT !.op = "referrers", !.pc = "done", !.specs = <<rows, d, types, bad>>,
                         !.got = IF r.fails THEN <<>> ELSE r.list, !.code = IF r.fails THEN 500 ELSE 200]
    /\ UNCHANGED <<repos, tags, blob, changes, conf>>

\* the first descriptor of d in an image, its size; None if there is none or the image is bad
getBlobDescriptorFromManifest(m, d, bad) ==
    LET l == SelectSeq(Kids[m], LAMBDA x : x.dig = d)
    IN IF bad[m] # "no" \/ l = <<>> THEN None ELSE l[1].size

\* The search through the rows of an index and the indexes below them; what was
\* looked into once is not looked into again.  An index that cannot be parsed
\* ends the search of the rows it is among, a missing one is passed over.
RECURSIVE getBlobDescriptorFromIndex(_, _, _, _)
getBlobDescriptorFromIndex(descs, d, seen, bad) ==
    IF descs = <<>> THEN [size |-> None, seen |-> seen]
    ELSE LET x == descs[1]
             rest(sn) == getBlobDescriptorFromIndex(Tail(descs), d, sn, bad)
             now == seen \cup {x.dig}
             size == IF x.dig \in Indexes THEN None ELSE getBlobDescriptorFromManifest(x.dig, d, bad)
             below == getBlobDescriptorFromIndex(Kids[x.dig], d, now, bad)
         IN IF x.dig = d THEN [size |-> x.size, seen |-> seen]
            ELSE IF x.dig \in seen THEN rest(seen)
            ELSE IF x.dig \notin Indexes
            THEN IF size # None THEN [size |-> size, seen |-> now] ELSE rest(now)
            ELSE IF bad[x.dig] = "missing" THEN rest(now)
            ELSE IF bad[x.dig] = "corrupt" THEN [size |-> None, seen |-> now]
            ELSE IF below.size # None THEN below ELSE rest(below.seen)

\* A blob that is there and has Size bytes: one whose descriptor says otherwise
\* is corrupted, one without descriptor is taken as it is.
StatBlob(rows, d, bad) ==
    /\ c.op = "stat" /\ c.pc = "idle"
    /\ LET f == getBlobDescriptorFromIndex(rows, d, {}, bad) IN
       c' = [Idle EXCEPT !.op = "stat", !.pc = "done", !.specs = <<rows, d, bad>>,
                         !.code = IF f.size \in {None, Size} THEN 200 ELSE 404]
    /\ UNCHANGED <<repos, tags, blob, changes, conf>>

----------------------------------------------------------------------------
(* The CVEs of an image: id -> severity, 0 if the CVE was not found        *)

CompareSeverities(a, b) == b - a

mergeCVEMap(d, s) ==
    [i \in Cves |-> IF d[i] = 0 THEN s[i]
                    ELSE IF s[i] # 0 /\ CompareSeverities(d[i], s[i]) > 0 THEN s[i] ELSE d[i]]

Found(m) == {i \in Cves : m[i] # 0}
MaxSev(m, first) == LET Higher(a, i) == IF CompareSeverities(a, m[i]) > 0 THEN m[i] ELSE a
                    IN FoldLeft(Higher, first, SetToSeq(Found(m)))

\* 1 (none) for an image without findings
initCVESummaryFromCVEMap(m) ==
    IF Found(m) = {} THEN [count |-> 0, max |-> 1, by |-> [s \in Severities |-> 0]]
    ELSE [count |-> Cardinality(Found(m)), max |-> MaxSev(m, 2),
          by |-> [s \in Severities |-> Cardinality({i \in Found(m) : m[i] = s})]]

SortBySeverity(m) ==
    SetToSortSeq(Found(m), LAMBDA a, b :
        CompareSeverities(m[a], m[b]) < 0 \/ (CompareSeverities(m[a], m[b]) = 0 /\ a < b))

CvePage(s, offset, limit) ==
    LET start == IF offset >= Len(s) THEN Len(s) ELSE offset
        end == IF start + limit >= Len(s) THEN Len(s) ELSE start + limit
    IN IF start = 0 /\ end = 0 THEN s ELSE SubSeq(s, start + 1, end)

\* what one image has and the other has not
GetCVEDiffListForImages(m, s) ==
    LET d == [i \in Cves |-> IF s[i] = 0 THEN m[i] ELSE 0]
        by == [v \in Severities |-> Cardinality({i \in Found(d) : d[i] = v})]
    IN [list |-> d, max |-> MaxSev(d, 0), by |-> by]

CveMaps == [Cves -> {0} \cup Severities]

\* the pages of the merged results of two backends
AskCves(m1, m2, l) ==
    /\ c.op = "cves" /\ c.pc = "idle"
    /\ LET m == mergeCVEMap(m1, m2)
           s == SortBySeverity(m)
       IN c' = [Idle EXCEPT !.op = "cves", !.pc = "done", !.n = l, !.specs = <<m1, m2>>,
                            !.got = FlattenSeq([p \in 1..Pages |-> CvePage(s, (p - 1) * l, l)]),
                            !.ranges = <<initCVESummaryFromCVEMap(m), GetCVEDiffListForImages(m1, m2)>>]
    /\ UNCHANGED <<repos, tags, blob, changes, conf>>

----------------------------------------------------------------------------
(* The registry meanwhile                                                  *)

\* A change before the request is one of the initial states, so what changes is
\* what the request under way reads.  stay is history: what was there all along;
\* lost: the entry a link names went away.
Toggle(S, x) == IF x \in S THEN S \ {x} ELSE S \cup {x}

Seen(x) == [c EXCEPT !.stay = @ \ {x}, !.lost = @ \/ c.last = x \/ c.mark = x]

Underway(op) == changes > 0 /\ c.op = op /\ c.pc \notin {"idle", "done"}

ChangeRepo(r) ==
    /\ Underway("catalog") \/ Underway("sweep")
    /\ repos' = Toggle(repos, r) /\ c' = Seen(r) /\ changes' = changes - 1
    /\ UNCHANGED <<tags, blob, conf>>

ChangeTag(t) ==
    /\ Underway("tags")
    /\ tags' = Toggle(tags, t) /\ c' = Seen(t) /\ changes' = changes - 1
    /\ UNCHANGED <<repos, blob, conf>>

DeleteBlob ==
    /\ Underway("blob") /\ "here" \in blob
    /\ blob' = blob \ {"here"} /\ changes' = changes - 1
    /\ UNCHANGED <<repos, tags, conf, c>>

\* url: redirects are off, or the storage has no address (the local one) or one
\* that is no http address, or a good one
Conf(h, m, u) == [hydrate |-> h, mount |-> m, url |-> u]
Confs == {Conf(FALSE, FALSE, u) : u \in {"off", "none", "bad", "good"}} \cup {Conf(TRUE, m, "off") : m \in BOOLEAN}

\* The client makes one request; what that request does not read is left empty.
Init ==
    \E op \in {"catalog", "sweep", "tags", "blob", "referrers", "stat", "cves"} :
        /\ c = [Idle EXCEPT !.op = op] /\ changes = MaxChanges
        /\ repos \in IF op \in {"catalog", "sweep"} THEN SUBSET AllNames ELSE {{}}
        /\ tags \in IF op = "tags" THEN SUBSET TagNames ELSE {{}}
        /\ blob \in IF op = "blob" THEN SUBSET {"here", "cache"} ELSE {{}}
        /\ conf \in IF op = "blob" THEN Confs ELSE {Conf(FALSE, FALSE, "off")}

KnownDigests == {x.dig : x \in UNION {Range(Kids[m]) : m \in DOMAIN Kids}}
Faults == {[m \in DOMAIN Kids |-> IF m = f.at THEN f.why ELSE "no"] :
              f \in [at: DOMAIN Kids, why: {"no", "missing", "corrupt"}]}

Ask ==
    \/ StartSweep
    \/ c.op \in {"referrers", "stat"} /\ \E n \in 0..3 : \E rows \in [1..n -> Rows], bad \in Faults :
          \/ \E d \in DOMAIN Kids, types \in SUBSET Range(TypeOf) : AskReferrers(rows, d, types, bad)
          \/ \E d \in KnownDigests : StatBlob(rows, d, bad)
    \/ \E n \in (-1..2) \ {0} : AskCatalog(n) \/ AskTags(n)
    \/ CheckBlob \/ GetBlobRedirectURL
    \/ c.op = "blob" /\ \E n \in 0..3 : \E specs \in [1..n -> Specs] : GetBlobRanges(specs)
    \/ c.op = "cves" /\ \E m1, m2 \in CveMaps, l \in 1..2 : AskCves(m1, m2, l)

Next ==
    \/ c.pc = "idle" /\ Ask
    \/ listStorageRepositories \/ ListRepositories \/ SweepNext \/ ListTags
    \/ GetBlob \/ OpenRange \/ writeMultipartRanges
    \/ \E r \in AllNames : ChangeRepo(r)
    \/ \E t \in TagNames : ChangeTag(t)
    \/ DeleteBlob

Spec == Init /\ [][Next]_vars

----------------------------------------------------------------------------
(* Properties                                                              *)

\* Every variable holds a value of the kind the code gives it.
TypeOK ==
    /\ repos \subseteq AllNames /\ tags \subseteq TagNames /\ blob \subseteq {"here", "cache"} /\ conf \in Confs
    /\ c.pc \in {"idle", "page", "open", "done"}
    /\ c.code \in {0, 200, 206, 307, 404, 416, 500}

Times(s, x) == Cardinality({k \in DOMAIN s : s[k] = x})

\* A client that follows the links of the catalog to the end, through all the
\* stores, sees every repository it may read that was there all along exactly
\* once and nothing it may not read, unless the repository a link named was
\* deleted meanwhile (then the rest of its store is passed over).
CatalogTiles ==
    c.op = "catalog" /\ c.pc = "done" =>
        /\ \A k \in DOMAIN c.got : c.got[k] \in Readable \ Invalid /\ Times(c.got, c.got[k]) = 1
        /\ ~c.lost => \A r \in (c.stay \cap Readable) \ Invalid : Times(c.got, r) = 1

\* A generator makes one task for every repository of its store that is there
\* all along and none for what is no repository; one that is deleted and made
\* again gets no second task, and the sweep ends although others come and go.
SweepTiles ==
    c.op = "sweep" =>
        /\ \A k \in DOMAIN c.got : c.got[k] \notin Invalid /\ Times(c.got, c.got[k]) = 1
        /\ c.pc = "done" => \A r \in (c.stay \cap Range(Names[Stores[1]])) \ Invalid : Times(c.got, r) = 1

\* The list of referrers has every manifest that is there, names the subject and
\* has one of the types exactly once, whatever other rows there are; only a
\* manifest that cannot be parsed makes it fail.
ReferrersExact ==
    c.op = "referrers" /\ c.pc = "done" =>
        LET M == Range(Digs(c.specs[1])) \ {c.specs[2]}
            T == c.specs[3]
            bad == c.specs[4]
        IN IF c.code = 500 THEN \E m \in M : bad[m] = "corrupt"
           ELSE \A m \in DOMAIN Kids :
                  Times(c.got, m) = IF /\ m \in M /\ bad[m] = "no" /\ SubjectOf[m] = c.specs[2]
                                       /\ T = {} \/ TypeOf[m] \in T
                                    THEN 1 ELSE 0

\* All descriptors that a walk through the readable images and indexes meets.
Met(rows, bad) ==
    LET level[n \in 0..Cardinality(DOMAIN Kids)] ==
          IF n = 0 THEN Range(rows)
          ELSE level[n - 1] \cup UNION {Range(Kids[x.dig]) :
                  x \in {y \in level[n - 1] : y.dig \in DOMAIN Kids /\ bad[y.dig] = "no"}}
    IN level[Cardinality(DOMAIN Kids)]

\* A blob is called corrupted only if a descriptor says so; and if there are
\* descriptors and all of them say so it is, however deep they are and whatever
\* images share them, unless an index could not be parsed.
StatSound ==
    c.op = "stat" /\ c.pc = "done" =>
        LET bad == c.specs[3]
            says == {x.size : x \in {y \in Met(c.specs[1], bad) : y.dig = c.specs[2]}}
        IN /\ c.code = 404 => \E n \in says : n # Size
           /\ says # {} /\ Size \notin says /\ (\A m \in Indexes : bad[m] # "corrupt") => c.code = 404

\* The same for the tags of a repository, where a deleted mark is answered 404.
TagsTile ==
    c.op = "tags" /\ c.pc = "done" /\ c.code = 200 =>
        \A t \in c.stay : Times(c.got, t) = 1

Wanted == UNION {BytesOf(Resolve(c.specs[k], Size)) : k \in DOMAIN c.specs}

\* An answer of 206 that was not cut off has exactly the bytes asked for, one of
\* 200 all of them and one with another status none; the ranges are in order,
\* with a gap between each two, and a client that asked for ranges is never sent
\* to the storage, which might not keep them.
RangesExact ==
    c.op = "blob" /\ c.pc = "done" =>
        /\ c.code = 206 /\ ~c.lost => c.sent = Wanted /\ c.sent \subseteq 0..(Size - 1)
        /\ c.code = 200 => c.head \/ c.sent = 0..(Size - 1)
        /\ \A k \in 1..(Len(c.ranges) - 1) : c.ranges[k].end + 1 < c.ranges[k + 1].start
        /\ c.code \notin {200, 206} => c.sent = {}
        /\ c.ranged => c.code \notin {200, 307}

\* The pages of the CVEs of an image have each CVE some backend found once, the
\* graver ones first, with the highest severity any backend gave it; the counts
\* of the summary add up, its maximum is the first of the list; and merging does
\* not depend on the order of the backends.
CveListExact ==
    c.op = "cves" /\ c.pc = "done" =>
        LET m1 == c.specs[1]
            m2 == c.specs[2]
            sev(i) == IF m1[i] > m2[i] THEN m1[i] ELSE m2[i]
            sum == c.ranges[1]
        IN /\ \A i \in Cves : Times(c.got, i) = IF sev(i) # 0 THEN 1 ELSE 0
           /\ \A k, j \in DOMAIN c.got : k < j => sev(c.got[k]) >= sev(c.got[j])
           /\ sum.count = Len(c.got) /\ (c.got # <<>> => sum.max = sev(c.got[1]))
           /\ sum.count = FoldLeft(LAMBDA a, s : a + sum.by[s], 0, SetToSeq(Severities))

\* What an image has more than another, put together with what they share, is
\* what it has; the summary of the difference is that of its list.
DiffExact ==
    c.op = "cves" /\ c.pc = "done" =>
        LET m1 == c.specs[1]
            m2 == c.specs[2]
            d == c.ranges[2]
        IN /\ \A i \in Cves : d.list[i] = m1[i] \/ (m2[i] # 0 /\ d.list[i] = 0)
           /\ \A i \in Cves : d.list[i] # 0 => m2[i] = 0
           /\ d.by = initCVESummaryFromCVEMap(d.list).by
           /\ Found(d.list) # {} => d.max = initCVESummaryFromCVEMap(d.list).max
=============================================================================
