---------------------------- MODULE MCBackground -----------------------------
(***************************************************************************)
(* The work in the background, for TLC: the scheduler with a generator per *)
(* case that its code has to tell apart, or one of the jobs around it: the *)
(* startup walk of the dedupe store after dedupe was turned off, the       *)
(* metrics server, the CVE scans.  They share no state here; a behaviour   *)
(* runs one.                                                               *)
(***************************************************************************)
EXTENDS Scheduler, TLC

CONSTANTS Off, w1, w2, s1, m1, m2, x, cw, cc

VARIABLE part   \* the component that runs in this behaviour
VARIABLES blobFile, original, duplicates, marker, dedupe, rebuildDone, op,
          checking, startWalk, acked, faults, restarts, strayed, severed
VARIABLES enabled, age, tick, srv, copy, measured, stopped, snd, scr, sends,
          samples, refused, crossed
VARIABLES gen, upd, db, results, flight, indexWalk, procs, blobs, listed, stmts,
          sbom, scans, scanBounds

\* GC (periodic, with delays), the dedupe walk (once), the update of the CVE database (high).
MCGens == {"gc", "dedupe", "cvedb"}
MCLevel == [g \in MCGens |-> CASE g = "gc" -> 1 [] g = "dedupe" -> 1 [] g = "cvedb" -> 2]
FewTasks == [g \in MCGens |-> 1]

\* Without the dedupe walk; the update has two tasks.
TwoGens == {"gc", "cvedb"}
TwoLevel == [g \in TwoGens |-> IF g = "gc" THEN 1 ELSE 2]
TwoTasks == [g \in TwoGens |-> IF g = "gc" THEN 1 ELSE 2]

TurnedOff == {<<TRUE, TRUE>>, <<TRUE, FALSE>>, <<FALSE, FALSE>>}

\* Dedupe is turned off, and no cache is configured when it is off.
OffWalk == INSTANCE DedupeStore
    WITH Repos <- {"a", "b", "c"},
        Order <- <<"a", "b", "c">>, NoRepo <- None, IsManifest <- FALSE,
        Changes <- TurnedOff, CacheWhenOff <- FALSE, WalkKinds <- {"restore"},
        FaultOps <- {}, CacheLoss <- FALSE, MaxFaults <- 0, MaxRestarts <- 2,
        file <- blobFile, orig <- original, dups <- duplicates, walk <- startWalk

\* A goroutine that records two samples of any metric, and a scrape.
Meter == INSTANCE Metrics
    WITH Senders <- {s1}, Scrapers <- {w1},
        LabelVals <- {"a", "b"}, Latencies <- {1, 3}, Timeout <- 1,
        Varied <- {"http.requests", "http.method.latency"}, MaxSends <- 2,
        cache <- measured, log <- samples

\* Two scrapes at once, and a sample.
Scrape == INSTANCE Metrics
    WITH Senders <- {s1}, Scrapers <- {w1, w2},
        LabelVals <- {"a"}, Latencies <- {1}, Timeout <- 1,
        Varied <- {"http.method.latency"}, MaxSends <- 1, cache <- measured,
        log <- samples

Statement(i, id, status, pins, d) ==
    [of |-> i, id |-> id, status |-> status, pins |-> pins, depth |-> d]
Vex == {Statement(x, m1, "not_affected", {}, 8), Statement(x, m2, "fixed", {m2}, 1)}

\* An index of two images and two backends; a worker of the scheduler and a client ask, a step fails.
Scans == INSTANCE CveScan
    WITH Manifests <- {m1, m2}, Indexes <- {x},
        Members <- x :> <<m1, m2>>, Tagged <- {x}, Scannable <- {m1, m2},
        Failing <- {}, Backends <- <<"trivy", "grype">>, Broken <- {},
        Workers <- {cw}, Clients <- {cc}, Asked <- {x}, Statements <- Vex,
        MaxDB <- 1, MaxUpdates <- 0, MaxResets <- 0, MaxAsks <- 1,
        MaxTroubles <- 1, NoImage <- None, cache <- results, walk <- indexWalk,
        left <- scanBounds

\* The same without failures; the client may also ask for a member of the index.
Rescans == INSTANCE CveScan
    WITH Manifests <- {m1, m2}, Indexes <- {x},
        Members <- x :> <<m1, m2>>, Tagged <- {x}, Scannable <- {m1, m2},
        Failing <- {}, Backends <- <<"trivy", "grype">>, Broken <- {},
        Workers <- {cw}, Clients <- {cc}, Asked <- {m1, x}, Statements <- Vex,
        MaxDB <- 1, MaxUpdates <- 1, MaxResets <- 0, MaxAsks <- 1,
        MaxTroubles <- 0, NoImage <- None, cache <- results, walk <- indexWalk,
        left <- scanBounds

\* One backend, an update of its database and a failure.
Updates == INSTANCE CveScan
    WITH Manifests <- {m1, m2}, Indexes <- {x},
        Members <- x :> <<m1, m2>>, Tagged <- {x}, Scannable <- {m1, m2},
        Failing <- {}, Backends <- <<"trivy">>, Broken <- {}, Workers <- {cw},
        Clients <- {cc}, Asked <- {x}, Statements <- Vex, MaxDB <- 1,
        MaxUpdates <- 1, MaxResets <- 0, MaxAsks <- 1, MaxTroubles <- 1,
        NoImage <- None, cache <- results, walk <- indexWalk, left <- scanBounds

WalksState == <<blobFile, original, duplicates, marker, dedupe, rebuildDone, op,
            checking, startWalk, acked, faults, restarts, strayed, severed>>
MetersState == <<enabled, age, tick, srv, copy, measured, stopped, snd, scr, sends,
            samples, refused, crossed>>
ScannerState == <<gen, upd, db, results, flight, indexWalk, procs, blobs, listed,
            stmts, sbom, scans, scanBounds>>

-----------------------------------------------------------------------------
(* The variables of a component that does not run hold Off.               *)
WalksOff == /\ blobFile = Off /\ original = Off /\ duplicates = Off /\ marker = Off
            /\ dedupe = Off /\ rebuildDone = Off /\ op = Off /\ checking = Off
            /\ startWalk = Off /\ acked = Off /\ faults = Off /\ restarts = Off
            /\ strayed = Off /\ severed = Off
MetersOff == /\ enabled = Off /\ age = Off /\ tick = Off /\ srv = Off /\ copy = Off
             /\ measured = Off /\ stopped = Off /\ snd = Off /\ scr = Off /\ sends = Off
             /\ samples = Off /\ refused = Off /\ crossed = Off
ScannerOff == /\ gen = Off /\ upd = Off /\ db = Off /\ results = Off /\ flight = Off
              /\ indexWalk = Off /\ procs = Off /\ blobs = Off /\ listed = Off
              /\ stmts = Off /\ sbom = Off /\ scans = Off /\ scanBounds = Off

MCInit ==
    \/ part = "scheduler" /\ Init /\ WalksOff /\ MetersOff /\ ScannerOff
    \/ part = "restore" /\ OffWalk!Init /\ Init /\ MetersOff /\ ScannerOff
    \/ part = "samples" /\ Meter!NewMetricsServer /\ Init /\ WalksOff /\ ScannerOff
    \/ part = "scrapes" /\ Scrape!NewMetricsServer /\ Init /\ WalksOff /\ ScannerOff
    \/ part = "scan" /\ Scans!Init /\ Init /\ WalksOff /\ MetersOff
    \/ part = "rescan" /\ Rescans!Init /\ Init /\ WalksOff /\ MetersOff
    \/ part = "updates" /\ Updates!Init /\ Init /\ WalksOff /\ MetersOff

MCNext ==
    /\ UNCHANGED part
    /\ \/ part = "scheduler" /\ Next /\ UNCHANGED <<WalksState, MetersState, ScannerState>>
       \/ part = "restore" /\ OffWalk!Next /\ UNCHANGED <<vars, MetersState, ScannerState>>
       \/ part = "samples" /\ Meter!Next /\ UNCHANGED <<vars, WalksState, ScannerState>>
       \/ part = "scrapes" /\ Scrape!Next /\ UNCHANGED <<vars, WalksState, ScannerState>>
       \/ part = "scan" /\ Scans!Next /\ UNCHANGED <<vars, WalksState, MetersState>>
       \/ part = "rescan" /\ Rescans!Next /\ UNCHANGED <<vars, WalksState, MetersState>>
       \/ part = "updates" /\ Updates!Next /\ UNCHANGED <<vars, WalksState, MetersState>>

MCVars == <<part, vars, WalksState, MetersState, ScannerState>>
MCSpec == MCInit /\ [][MCNext]_MCVars
SchedulerSpec == part = "scheduler" /\ MCSpec

-----------------------------------------------------------------------------
(* The properties of the components, each where its component runs.        *)

\* Model values that no action tells apart.
MCSymmetry == Permutations({w1, w2})

\* Deduplication was turned off and no cache is left: deletes are held back until the restore
\* walk has been through, no content that was promised is lost, the marker of a complete restore
\* is written only when no placeholder is left, and no task of the walk fails.
RestoreSound ==
    part = "restore" => /\ OffWalk!TypeOK /\ OffWalk!NoContentLoss /\ OffWalk!MarkerSound
                        /\ OffWalk!WalkNeverFails

\* The metrics server never refuses a sample of a metric it knows, its cache is exactly what the
\* samples it took add up to, a scrape it accepted is owed an answer, and a scrape that is alone
\* is answered with the metrics and not with the empty answer of another one.
MetricsSound ==
    /\ part = "samples" => /\ Meter!TypeOK /\ Meter!NoneRefused /\ Meter!CacheExact
    /\ part = "scrapes" => /\ Scrape!TypeOK /\ Scrape!AnswerOwed /\ Scrape!AloneAnswered

\* An image is scanned once for all who ask at the same time and not again while its result is
\* cached; nobody waits for a flight that is over; a result has the findings of all members and
\* backends that could be asked, is the one of the image asked for with those VEX statements about
\* it applied that could be read, and one SBOM is stored per image.
ScansSound ==
    /\ part = "scan" => /\ Scans!TypeOK /\ Scans!ScannedOnce /\ Scans!NobodyStranded
                        /\ Scans!ResultWhole /\ Scans!ResultOwn /\ Scans!OneSbom
    /\ part = "rescan" => /\ Rescans!ScannedOnce
    /\ part = "updates" => /\ Updates!ScannedOnce /\ Updates!NobodyStranded
                           /\ Updates!ResultWhole /\ Updates!ResultOwn /\ Updates!OneSbom

ASSUME Scans!CveScanAssumption
=============================================================================
