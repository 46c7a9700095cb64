------------------------------ MODULE CveScan -------------------------------
(***************************************************************************)
(* CVE scanning (pkg/extensions/search/cve): the generator that scans what *)
(* has no result yet, clients that ask for an image, the backends (trivy,  *)
(* and grype on base.Scanner) with their result caches and their           *)
(* singleflight groups, MultiScanner that merges them, VexScanner that     *)
(* removes what OpenVEX statements settle, the events of the decorated     *)
(* scanner, and the updates of the vulnerability databases.                *)
(*                                                                         *)
(* A backend's dbLock is held for a whole scan of a manifest and for a     *)
(* whole update, so each is one step; adding the result to the cache comes *)
(* after the lock is released.  The finding of backend b in manifest m by  *)
(* version v of its database is the token <<b, m, v>>, and m stands for    *)
(* the CVE found.  There is one repository, nested indexes are flattened,  *)
(* and the cache (a million entries) never evicts.                         *)
(***************************************************************************)
EXTENDS Naturals, Sequences, FiniteSets

CONSTANTS Manifests, Indexes,
          Members,       \* index -> sequence of its manifests
          Tagged,        \* images with a tag, what FilterTags goes over
          Scannable,     \* manifests whose layers the backends support
          Failing,       \* manifests no backend can scan
          Backends,      \* sequence of the enabled backends
          Broken,        \* backends whose database can never be loaded
          Workers, Clients,
          Asked,         \* images the clients ask for
          Statements,    \* VEX statements: [of, id, status, pins, depth]
          MaxDB,         \* newest version of the databases
          MaxUpdates, MaxResets, MaxAsks,  \* bounds on updates, runs, questions
          MaxTroubles,   \* bound on faults, cancelled calls, pruned manifests and VEX changes
          NoImage

CveScanAssumption ==
    /\ Tagged \subseteq Manifests \cup Indexes
    /\ Members \in [Indexes -> Seq(Manifests)]
    /\ {MaxDB, MaxUpdates, MaxResets, MaxAsks, MaxTroubles} \subseteq Nat

VARIABLES gen,      \* scanTaskGenerator: [scheduled, errors, done]
          upd,      \* DBUpdateTaskGenerator and its task: [status, k, err]
          db,       \* backend -> version of its database, 0 if there is none
          cache,    \* backend -> manifest -> version of the cached result, 0 if none
          flight,   \* backend -> manifest -> the scan in the singleflight group
          walk,     \* backend -> index -> the walk in the singleflight group
          procs,    \* calls of ScanImage by workers and clients
          blobs, listed,  \* manifests whose blob is there; those in index.json
          stmts,    \* statements attached as referrers
          sbom,     \* manifest -> number of SBOM referrers
          scans,    \* [seen, twice]: scanned since the last purge, or twice (history)
          left      \* what is left of each bound

vars == <<gen, upd, db, cache, flight, walk, procs, blobs, listed, stmts, sbom, scans, left>>

Procs == Workers \cup Clients
Names == {Backends[k] : k \in DOMAIN Backends}
Images == Manifests \cup Indexes
MembersOf(x) == {Members[x][k] : k \in DOMAIN Members[x]}
Leaves(i) == IF i \in Indexes THEN MembersOf(i) ELSE {i}

OffFlight == [pc |-> "off", v |-> 0, who |-> {}]
OffWalk == [pc |-> "off", todo |-> <<>>, got |-> {}, warm |-> TRUE, who |-> {}]
NoRes == [st |-> "none", got |-> {}, warm |-> FALSE]
Failed == [st |-> "err", got |-> {}, warm |-> FALSE]
NotFound == [st |-> "notfound", got |-> {}, warm |-> FALSE]
Ok(got, warm) == [st |-> "ok", got |-> got, warm |-> warm]

----------------------------------------------------------------------------
(* What is cached, and what can be scanned                                 *)

isManifestScannable(b, m) == cache[b][m] # 0 \/ m \in Scannable

isIndexScannable(b, x) == Members[x] = <<>> \/ \E m \in MembersOf(x) : isManifestScannable(b, m)

IsImageMediaScannable(b, i) ==
    IF i \in Indexes THEN isIndexScannable(b, i) ELSE isManifestScannable(b, i)

\* the union of the cached results, if every member that is here has one
cachedIndexAggregate(b, x) ==
    \A m \in MembersOf(x) \cap blobs : isManifestScannable(b, m) => cache[b][m] # 0

IsResultCached(b, i) ==
    IF i \in Indexes THEN cachedIndexAggregate(b, i) ELSE cache[b][i] # 0

MultiIsResultCached(i) == \A b \in Names : IsResultCached(b, i)
MultiIsScannable(i) == \E b \in Names : IsImageMediaScannable(b, i)

----------------------------------------------------------------------------
(* VEX                                                                     *)

vexUnwrapMaxDepth == 8
parseVEXDoc(s) == s.depth <= vexUnwrapMaxDepth
productMatchesSubject(pins, i) == pins = {} \/ i \in pins
vexSuppressions(S, i) ==
    {s.id : s \in {t \in S : /\ t.of = i
                             /\ parseVEXDoc(t)
                             /\ t.status \in {"not_affected", "fixed"}
                             /\ productMatchesSubject(t.pins, i)}}
applyVexSuppressions(ids, got) == {t \in got : t[2] \notin ids}

----------------------------------------------------------------------------
(* Calls.  stay, held and supp are history: the members of the image that  *)
(* were here, the CVEs suppressed all along by statements that were read,  *)
(* and those suppressed at some time                                       *)

Idle == [pc |-> "idle", img |-> NoImage, k |-> 1, res |-> [b \in Names |-> NoRes],
         out |-> Failed, gone |-> FALSE, stay |-> {}, held |-> {}, supp |-> {}]

Begun(i) == [Idle EXCEPT !.pc = "call", !.img = i, !.stay = Leaves(i) \cap blobs \cap listed,
                         !.held = vexSuppressions(stmts, i), !.supp = vexSuppressions(stmts, i)]

\* a backend answers: the next one is asked
Answered(c, r) == [c EXCEPT !.pc = "call", !.k = c.k + 1, !.res[Backends[c.k]] = r]

\* the matcher of FilterTags
getMatcherFunc(i) ==
    /\ i \notin gen.scheduled /\ i \notin gen.errors
    /\ ~MultiIsResultCached(i)
    /\ MultiIsScannable(i)

\* The generator hands a worker its next task, or is done.
GenNext(w) ==
    /\ procs[w].pc \in {"idle", "done"} /\ ~gen.done
    /\ \/ /\ ~\E i \in Tagged : getMatcherFunc(i)
          /\ gen' = [gen EXCEPT !.done = TRUE]
          /\ UNCHANGED procs
       \/ \E i \in {j \in Tagged : getMatcherFunc(j)} :
          /\ gen' = [gen EXCEPT !.scheduled = @ \cup {i}]
          /\ procs' = [procs EXCEPT ![w] = Begun(i)]
    /\ UNCHANGED <<upd, db, cache, flight, walk, blobs, listed, stmts, sbom, scans, left>>

\* The scheduler starts the generator again after its interval, whether or not
\* tasks of the last run are still at work.
GenReset ==
    /\ gen.done /\ left.reset > 0
    /\ gen' = [scheduled |-> {}, errors |-> {}, done |-> FALSE]
    /\ left' = [left EXCEPT !.reset = @ - 1]
    /\ UNCHANGED <<upd, db, cache, flight, walk, procs, blobs, listed, stmts, sbom, scans>>

\* A client asks for the CVEs of an image that can be scanned.
GetCVEListForImage(c, i) ==
    /\ procs[c].pc \in {"idle", "done"} /\ left.ask > 0
    /\ MultiIsScannable(i)
    /\ procs' = [procs EXCEPT ![c] = Begun(i)]
    /\ left' = [left EXCEPT !.ask = @ - 1]
    /\ UNCHANGED <<gen, upd, db, cache, flight, walk, blobs, listed, stmts, sbom, scans>>

\* who waits for the scan of m: a call, or the walk of an index
Join(f, p) == [f EXCEPT !.who = @ \cup {p}, !.pc = IF @ = "off" THEN "run" ELSE @]

\* ScanImage of the backend whose turn it is
ScanImage(p) ==
    LET c == procs[p]
        b == Backends[c.k]
    IN /\ c.pc = "call" /\ c.k <= Len(Backends)
       /\ \/ /\ c.img \in Manifests /\ cache[b][c.img] # 0
             /\ procs' = [procs EXCEPT
                    ![p] = Answered(c, Ok({<<b, c.img, cache[b][c.img]>>}, TRUE))]
             /\ UNCHANGED walk
          \/ /\ c.img \in Manifests /\ cache[b][c.img] = 0
             /\ procs' = [procs EXCEPT ![p].pc = "miss"]
             /\ UNCHANGED walk
          \/ /\ c.img \in Indexes
             /\ procs' = [procs EXCEPT ![p].pc = "wait"]
             /\ walk' = [walk EXCEPT ![b][c.img] =
                    IF @.pc = "off"
                    THEN [OffWalk EXCEPT !.pc = "walk", !.todo = Members[c.img], !.who = {p}]
                    ELSE [@ EXCEPT !.who = @ \cup {p}]]
       /\ UNCHANGED <<gen, upd, db, cache, flight, blobs, listed, stmts, sbom, scans, left>>

\* A call that missed the cache joins the flight of its manifest.
scanManifest(p) ==
    LET c == procs[p] IN
    /\ c.pc = "miss"
    /\ procs' = [procs EXCEPT ![p].pc = "wait"]
    /\ flight' = [flight EXCEPT ![Backends[c.k]][c.img] = Join(@, p)]
    /\ UNCHANGED <<gen, upd, db, cache, walk, blobs, listed, stmts, sbom, scans, left>>

\* The context of a call ends while it waits; the scan goes on for the others.
Cancel(p) ==
    /\ procs[p].pc = "wait"
    /\ procs[p].gone \/ left.trouble > 0
    /\ procs' = [procs EXCEPT ![p] = Answered([@ EXCEPT !.gone = TRUE], Failed)]
    /\ left' = [left EXCEPT !.trouble = IF procs[p].gone THEN @ ELSE @ - 1]
    /\ flight' = [b \in Names |-> [m \in Manifests |-> [flight[b][m] EXCEPT !.who = @ \ {p}]]]
    /\ walk' = [b \in Names |-> [x \in Indexes |-> [walk[b][x] EXCEPT !.who = @ \ {p}]]]
    /\ UNCHANGED <<gen, upd, db, cache, blobs, listed, stmts, sbom, scans>>

----------------------------------------------------------------------------
(* A scan of one manifest                                                  *)

\* base.Scanner leaves out a member that is no longer in index.json, trivy
\* fails on it
skipsPruned(b) == b = "grype"

\* A walk whose member was answered; a failure ends the walk.
WalkGot(b, w, r) ==
    IF r.st = "ok"
    THEN [w EXCEPT !.pc = "walk", !.got = @ \cup r.got, !.warm = @ /\ r.warm]
    ELSE IF r.st = "notfound" /\ skipsPruned(b)
    THEN [w EXCEPT !.pc = "walk"]
    ELSE [w EXCEPT !.pc = "fail"]

\* the flight of m ends with r: everyone who waits is told
Deliver(b, m, r) ==
    LET who == flight[b][m].who IN
    /\ flight' = [flight EXCEPT ![b][m] = OffFlight]
    /\ procs' = [p \in Procs |-> IF p \in who THEN Answered(procs[p], r) ELSE procs[p]]
    /\ walk' = [walk EXCEPT ![b] =
           [x \in Indexes |-> IF x \in who THEN WalkGot(b, @[x], r) ELSE @[x]]]

\* MUTANT: the flight does not look into the cache again.
NeverInCache(b, m) == FALSE

\* a result that appeared since the caller looked
InCache(b, m) == cache[b][m] # 0

\* What the backends make of a manifest, under their lock.  Trivy is given the
\* repository and the digest and looks the manifest up itself; for grype a
\* layout of the manifest's blobs is built first.
runTrivy(m) == IF db["trivy"] # 0 /\ m \in listed \ Failing THEN "ok" ELSE "err"

buildLayout(m) == IF m \in listed THEN "ok" ELSE "notfound"
grypeScanManifest(m) ==
    IF db["grype"] = 0 THEN "err"
    ELSE IF buildLayout(m) = "ok" /\ m \in Failing THEN "err"
    ELSE buildLayout(m)

scanManifestFn(b, m) ==
    {IF b = "trivy" THEN runTrivy(m) ELSE grypeScanManifest(m)}
    \cup IF left.trouble > 0 THEN {"fault"} ELSE {}

scanManifestDeduped(b, m) ==
    /\ flight[b][m].pc = "run"
    /\ \/ /\ InCache(b, m)
          /\ Deliver(b, m, Ok({<<b, m, cache[b][m]>>}, TRUE))
          /\ UNCHANGED <<scans, left>>
       \/ /\ ~InCache(b, m)
          /\ \E o \in scanManifestFn(b, m) :
             \/ /\ o = "ok"
                /\ flight' = [flight EXCEPT
                       ![b][m].pc = "add", ![b][m].v = db[b]]
                /\ scans' = [seen |-> scans.seen \cup {<<b, m>>}, twice |-> scans.twice \/ <<b, m>> \in scans.seen]
                /\ UNCHANGED <<procs, walk, left>>
             \/ /\ o # "ok"
                /\ Deliver(b, m, IF o = "notfound" THEN NotFound ELSE Failed)
                /\ left' = [left EXCEPT !.trouble = IF o = "fault" THEN @ - 1 ELSE @]
                /\ UNCHANGED scans
    /\ UNCHANGED <<gen, upd, db, cache, blobs, listed, stmts, sbom>>

HasSbom(m) == sbom[m] > 0

\* The SBOM of a scan by trivy is pushed unless the manifest has one; failing to
\* push it fails nothing.
storeSBOMAsOCIArtifact(b, m) ==
    \/ sbom' = [sbom EXCEPT ![m] = IF HasSbom(m) \/ m \notin listed \/ b # "trivy" THEN @ ELSE @ + 1]
       /\ UNCHANGED left
    \/ /\ b = "trivy" /\ left.trouble > 0
       /\ left' = [left EXCEPT !.trouble = @ - 1]
       /\ UNCHANGED sbom

\* The result goes to the cache: the lock has been released meanwhile.
AddToCache(b, m) ==
    /\ flight[b][m].pc = "add"
    /\ storeSBOMAsOCIArtifact(b, m)
    /\ cache' = [cache EXCEPT ![b][m] = flight[b][m].v]
    /\ Deliver(b, m, Ok({<<b, m, flight[b][m].v>>}, FALSE))
    /\ UNCHANGED <<gen, upd, db, blobs, listed, stmts, scans>>

----------------------------------------------------------------------------
(* A walk over the members of an index                                     *)

SkipMissing(b, m) == m \notin blobs \/ ~isManifestScannable(b, m)

scanIndexSeen(b, x) ==
    /\ walk[b][x].pc = "walk"
    /\ walk[b][x].todo # <<>>
    /\ LET m == Head(walk[b][x].todo)
           w == [walk[b][x] EXCEPT !.todo = Tail(@)]
       IN
       \/ /\ SkipMissing(b, m)
          /\ walk' = [walk EXCEPT ![b][x] = w]
       \/ /\ ~SkipMissing(b, m) /\ cache[b][m] # 0
          /\ walk' = [walk EXCEPT ![b][x] = WalkGot(b, w, Ok({<<b, m, cache[b][m]>>}, TRUE))]
       \/ /\ ~SkipMissing(b, m) /\ cache[b][m] = 0
          /\ walk' = [walk EXCEPT ![b][x].pc = "miss"]
    /\ UNCHANGED <<gen, upd, db, cache, flight, procs, blobs, listed, stmts, sbom, scans, left>>

\* and the walk joins the flight of a member it has no result for
scanMember(b, x) ==
    /\ walk[b][x].pc = "miss"
    /\ walk' = [walk EXCEPT ![b][x].pc = "wait", ![b][x].todo = Tail(@)]
    /\ flight' = [flight EXCEPT ![b][Head(walk[b][x].todo)] = Join(@, x)]
    /\ UNCHANGED <<gen, upd, db, cache, procs, blobs, listed, stmts, sbom, scans, left>>

\* the walk ends: its callers are told
scanIndexEnd(b, x) ==
    LET w == walk[b][x] IN
    /\ w.pc = "fail" \/ (w.pc = "walk" /\ w.todo = <<>>)
    /\ procs' = [p \in Procs |->
           IF p \in w.who
           THEN Answered(procs[p], IF w.pc = "fail" THEN Failed ELSE Ok(w.got, w.warm))
           ELSE procs[p]]
    /\ walk' = [walk EXCEPT ![b][x] = OffWalk]
    /\ UNCHANGED <<gen, upd, db, cache, flight, blobs, listed, stmts, sbom, scans, left>>

----------------------------------------------------------------------------
(* The merge, VEX, the event, and what the generator makes of a failure    *)

\* of the backends that succeeded
Merged(c) ==
    LET S == {b \in Names : c.res[b].st = "ok"} IN
    IF S = {} THEN Failed
    ELSE Ok(UNION {c.res[b].got : b \in S}, \A b \in S : c.res[b].warm)

addError(c, E) == IF Merged(c).st = "ok" THEN E ELSE E \cup {c.img}

DoWork(p, c) ==
    IF p \in Workers
    THEN [gen EXCEPT !.errors = addError(c, @), !.scheduled = @ \ {c.img}]
    ELSE gen

\* What the lookup of statements reads: a referrer or a layer that cannot be read is
\* skipped, and if the referrers cannot be listed nothing is suppressed.  The scan
\* goes on with the others.
readStatements == IF left.trouble > 0 THEN SUBSET stmts ELSE {stmts}

MultiScanImage(p) ==
    LET c == procs[p]
        r == Merged(c)
    IN /\ c.pc = "call" /\ c.k > Len(Backends)
       /\ \E S \in readStatements :
            LET ids == vexSuppressions(S, c.img) IN
            /\ procs' = [procs EXCEPT ![p].pc = "done", ![p].held = @ \cap ids,
                   ![p].out = [r EXCEPT !.got = applyVexSuppressions(ids, @)]]
            /\ left' = [left EXCEPT !.trouble = IF S = stmts THEN @ ELSE @ - 1]
       /\ gen' = DoWork(p, c)
       /\ UNCHANGED <<upd, db, cache, flight, walk, blobs, listed, stmts, sbom, scans>>

----------------------------------------------------------------------------
(* The updates of the databases                                            *)

PurgeCache(b) == [cache EXCEPT ![b] = [m \in Manifests |-> 0]]

\* a failed update is pending again, and is tried again after a wait
UpdateStatus(err) == IF err THEN "pending" ELSE "done"

\* one backend is asked after the other, and their errors are joined
MultiUpdateDB(err) ==
    upd' = IF upd.k < Len(Backends)
           THEN [status |-> "running", k |-> upd.k + 1, err |-> upd.err \/ err]
           ELSE [status |-> UpdateStatus(upd.err \/ err), k |-> 1, err |-> FALSE]

\* the database a download can bring, if the backend can load one
Loadable(b) == IF b \in Broken THEN {} ELSE {db[b], db[b] + 1} \cap 1..MaxDB

\* One backend loads the newest database, which may be the one it has, and
\* drops its results; or fails and keeps both.
UpdateDB ==
    /\ upd.status \in {"pending", "running"} /\ left.update > 0
    /\ LET b == Backends[upd.k] IN
       \/ /\ \E v \in Loadable(b) : db' = [db EXCEPT ![b] = v]
          /\ cache' = PurgeCache(b)
          /\ scans' = [scans EXCEPT !.seen = {s \in @ : s[1] # b}]
          /\ MultiUpdateDB(FALSE)
          /\ left' = [left EXCEPT !.update = IF upd.k = Len(Backends) THEN @ - 1 ELSE @]
       \/ /\ b \in Broken \/ left.trouble > 0
          /\ MultiUpdateDB(TRUE)
          /\ left' = [left EXCEPT !.trouble = IF b \in Broken THEN @ ELSE @ - 1,
                                  !.update = IF upd.k = Len(Backends) THEN @ - 1 ELSE @]
          /\ UNCHANGED <<db, cache, scans>>
    /\ UNCHANGED <<gen, procs, flight, walk, blobs, listed, stmts, sbom>>

UpdReset ==
    /\ upd.status = "done" /\ left.update > 0
    /\ upd' = [upd EXCEPT !.status = "pending"]
    /\ UNCHANGED <<gen, db, cache, flight, walk, procs, blobs, listed, stmts, sbom, scans, left>>

----------------------------------------------------------------------------
(* The registry meanwhile                                                  *)

Stayed(m) == [p \in Procs |-> [procs[p] EXCEPT !.stay = @ \ {m}]]

\* a manifest that only indexes name leaves index.json, and later its blob
Prune(m) ==
    /\ m \in listed /\ m \notin Tagged /\ left.trouble > 0
    /\ listed' = listed \ {m}
    /\ procs' = Stayed(m)
    /\ left' = [left EXCEPT !.trouble = @ - 1]
    /\ UNCHANGED <<gen, upd, db, cache, flight, walk, blobs, stmts, sbom, scans>>

Collect(m) ==
    /\ m \in blobs \ listed
    /\ blobs' = blobs \ {m}
    /\ UNCHANGED <<gen, upd, db, cache, flight, walk, procs, listed, stmts, sbom, scans, left>>

\* a statement is attached, or its referrer deleted
Attach(s) ==
    /\ left.trouble > 0
    /\ stmts' = IF s \in stmts THEN stmts \ {s} ELSE stmts \cup {s}
    /\ procs' = [p \in Procs |->
           LET now == vexSuppressions(stmts', procs[p].img)
           IN IF procs[p].pc \in {"call", "miss", "wait"}
              THEN [procs[p] EXCEPT !.held = @ \cap now, !.supp = @ \cup now]
              ELSE procs[p]]
    /\ left' = [left EXCEPT !.trouble = @ - 1]
    /\ UNCHANGED <<gen, upd, db, cache, flight, walk, blobs, listed, sbom, scans>>

----------------------------------------------------------------------------
Init ==
    /\ gen = [scheduled |-> {}, errors |-> {}, done |-> FALSE]
    /\ upd = [status |-> "pending", k |-> 1, err |-> FALSE]
    /\ db = [b \in Names |-> IF b \in Broken THEN 0 ELSE 1]
    /\ cache = [b \in Names |-> [m \in Manifests |-> 0]]
    /\ flight = [b \in Names |-> [m \in Manifests |-> OffFlight]]
    /\ walk = [b \in Names |-> [x \in Indexes |-> OffWalk]]
    /\ procs = [p \in Procs |-> Idle]
    /\ blobs = Manifests /\ listed = Manifests /\ stmts = {}
    /\ sbom = [m \in Manifests |-> 0]
    /\ scans = [seen |-> {}, twice |-> FALSE]
    /\ left = [update |-> MaxUpdates, reset |-> MaxResets, ask |-> MaxAsks, trouble |-> MaxTroubles]

CallStep(p) == ScanImage(p) \/ scanManifest(p) \/ MultiScanImage(p)
FlightStep(b) ==
    \/ \E m \in Manifests : scanManifestDeduped(b, m) \/ AddToCache(b, m)
    \/ \E x \in Indexes : scanIndexSeen(b, x) \/ scanMember(b, x) \/ scanIndexEnd(b, x)

Next ==
    \/ \E w \in Workers : GenNext(w)
    \/ GenReset
    \/ \E c \in Clients, i \in Asked : GetCVEListForImage(c, i)
    \/ \E p \in Procs : CallStep(p) \/ Cancel(p)
    \/ \E b \in Names : FlightStep(b)
    \/ UpdateDB \/ UpdReset
    \/ \E m \in Manifests : Prune(m) \/ Collect(m)
    \/ \E s \in Statements : Attach(s)

Spec == Init /\ [][Next]_vars

\* the scheduler keeps asking a generator that is not done, tasks and requests
\* run to their end, and so do the goroutines of the singleflight group
Fairness ==
    /\ \A w \in Workers : WF_vars(GenNext(w))
    /\ \A p \in Procs : WF_vars(CallStep(p))
    /\ \A b \in Names : WF_vars(FlightStep(b))
    /\ WF_vars(UpdateDB)

FairSpec == Spec /\ Fairness

----------------------------------------------------------------------------
(* Properties                                                              *)

\* Every variable holds a value of the kind the code gives it.
TypeOK ==
    /\ gen.scheduled \subseteq Tagged /\ gen.errors \subseteq Tagged
    /\ upd.status \in {"pending", "running", "done"}
    /\ \A b \in Names : db[b] \in 0..MaxDB
    /\ \A b \in Names, m \in Manifests :
        /\ cache[b][m] \in 0..MaxDB
        /\ flight[b][m].pc \in {"off", "run", "add"}
        /\ flight[b][m].who \subseteq Procs \cup Indexes
    /\ \A b \in Names, x \in Indexes : walk[b][x].pc \in {"off", "walk", "miss", "wait", "fail"}
    /\ \A p \in Procs : procs[p].pc \in {"idle", "call", "miss", "wait", "done"}
    /\ listed \subseteq blobs

\* No manifest is scanned twice by a backend with the same database unless a
\* purge came between: a caller that missed the cache finds, inside the
\* singleflight group, the result of the flight that has just ended (trivy
\* scanManifestUncached "This avoids a double scan of the image").
ScannedOnce == ~scans.twice

\* A waiter is known to a scan or a walk that is under way: nobody waits for a
\* flight that has ended.
NobodyStranded ==
    /\ \A p \in Procs : procs[p].pc = "wait" =>
        \E b \in Names : \/ \E m \in Manifests : flight[b][m].pc # "off" /\ p \in flight[b][m].who
                         \/ \E x \in Indexes : walk[b][x].pc # "off" /\ p \in walk[b][x].who
    /\ \A b \in Names, x \in Indexes : walk[b][x].pc = "wait" =>
        \E m \in Manifests : flight[b][m].pc # "off" /\ x \in flight[b][m].who

\* The result of an image has the findings of every backend that succeeded in
\* every member that was here all along, except those a statement for this
\* image suppressed at some time, however scans are shared, abandoned and
\* aggregated (scanIndexSeen, MultiScanner.ScanImage, VexScanner.ScanImage).
ResultWhole ==
    \A p \in Procs : procs[p].pc = "done" /\ procs[p].out.st = "ok" =>
        LET c == procs[p] IN
        \A b \in {n \in Names : c.res[n].st = "ok"}, m \in (c.stay \cap Scannable) \ c.supp :
            \E v \in 1..MaxDB : <<b, m, v>> \in c.out.got

\* No result has a finding that is of another image, or that was suppressed during
\* the whole call by a statement the lookup could read: it fails open, and a
\* statement it cannot read suppresses nothing (vexSuppressions).
ResultOwn ==
    \A p \in Procs : procs[p].pc = "done" =>
        \A t \in procs[p].out.got : t[2] \in Leaves(procs[p].img) \ procs[p].held

\* A manifest gets one SBOM referrer however often it is scanned.
OneSbom == \A m \in Manifests : sbom[m] <= 1

=============================================================================
