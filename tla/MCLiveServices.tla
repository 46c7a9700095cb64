--------------------------- MODULE MCLiveServices ----------------------------
(***************************************************************************)
(* What must happen in the end in the services of the server, for TLC: the *)
(* tasks of the scheduler, the watchers of files, the life of the server,  *)
(* the metrics server, the CVE scans, the sync from an upstream registry,  *)
(* and a search of the client.  They share no state here; a behaviour runs *)
(* one of them.                                                            *)
(***************************************************************************)
EXTENDS Scheduler, TLC

CONSTANTS Off, NoPath, q, pth, m1, m2, x

VARIABLE part   \* the component that runs in this behaviour
VARIABLES htFile, htPath, htInfo, htCreds, htMu, htDone, htStopped, watcher,
          htTimer, gens, signalled, ended, htClosed, watched, htEvents, htLoop,
          caller, htChanges
VARIABLES disk, watch, tlsQueue, useInotify, open, tlsTimer, tlsLoop, tlsCert,
          modTime, inProgress, load, hs
VARIABLES confFile, ldapFile, mainPc, hr, hpc, newConf, debounce, event, lastRead,
          live, scheduler, schedulers, built, sig, http, reqs, recorder, recorders,
          wrapperClosed, metaOpen, early
VARIABLES command, cliMain, img, call, jobs, lim, job, coll, wg, outClosed,
          cliCancelled, errCh, shown, failed
VARIABLES enabled, age, tick, srv, copy, measured, stopped, snd, scr, sends,
          samples, refused, crossed
VARIABLES scanGen, upd, db, results, flight, indexWalk, procs, blobs, listed,
          stmts, sbom, scans, scanBounds
VARIABLES upstream, local, syncer, syncFlight, retrying, checked, upstreamCreds,
          orphans, window, reaped, budget

\* GC (periodic, with delays) and the update of the CVE database (high).
TwoGens == {"gc", "cvedb"}
TwoLevel == [g \in TwoGens |-> IF g = "gc" THEN 1 ELSE 2]
TwoTasks == [g \in TwoGens |-> IF g = "gc" THEN 1 ELSE 2]

\* One file, and a caller of Run, ChangeFile and Close.
Htpasswd == INSTANCE HtpasswdWatcher
    WITH Paths <- {pth}, Callers <- {q},
        MaxWrites <- 2, MaxRuns <- 2, MaxChanges <- 2, Attempts <- 2,
        file <- htFile, filePath <- htPath, fileInfo <- htInfo, creds <- htCreds,
        mu <- htMu, done <- htDone, stopped <- htStopped, debounce <- htTimer,
        closed <- htClosed, events <- htEvents, loop <- htLoop,
        changes <- htChanges

\* One handshake at a time, a new version of each file.
Tls == INSTANCE TlsWatcher
    WITH Handshakes <- {q}, MaxVer <- 3, Attempts <- 2,
        queue <- tlsQueue, debounce <- tlsTimer, loop <- tlsLoop

\* A request in flight, two edits of the configuration.
Life == INSTANCE Server
    WITH Requests <- {q}, MaxEdits <- 2, MaxCreds <- 1,
        MaxBuilds <- 2, conf <- confFile, creds <- ldapFile, main <- mainPc,
        new <- newConf, read <- lastRead

Img(r, t, k, s) == [repo |-> r, tag |-> t, kind |-> k, sig |-> s]
CliImages == {Img("r1", "a", "manifest", FALSE), Img("r1", "b", "index", FALSE),
              Img("r1", "c", "manifest", TRUE), Img("r2", "a", "other", FALSE),
              Img("r2", "b", "manifest", FALSE)}

\* Two repositories with images, an index, a signature and one that is neither; requests succeed.
Client == INSTANCE ClientSearch
    WITH Repos <- {"r1", "r2"},
        Images <- CliImages, Name <- [repo |-> "r1", tag |-> ""], MaxJobs <- 2,
        Fails <- FALSE, Timeouts <- FALSE, mode <- command, main <- cliMain,
        closed <- outClosed, cancelled <- cliCancelled

\* Two scrapes at once, and a sample.
Meter == INSTANCE Metrics
    WITH Senders <- {"s1"}, Scrapers <- {"r1", "r2"},
        LabelVals <- {"a"}, Latencies <- {1}, Timeout <- 1,
        Varied <- {"http.method.latency"}, MaxSends <- 1, cache <- measured,
        log <- samples

\* An index of an image that scans and one that does not; a worker and a client ask.
Scans == INSTANCE CveScan
    WITH Manifests <- {m1, m2}, Indexes <- {x},
        Members <- x :> <<m1, m2>>, Tagged <- {m2, x}, Scannable <- {m1, m2},
        Failing <- {m2}, Backends <- <<"trivy">>, Broken <- {}, Workers <- {"cw"},
        Clients <- {"cc"}, Asked <- {x}, Statements <- {}, MaxDB <- 1,
        MaxUpdates <- 1, MaxResets <- 1, MaxAsks <- 1, MaxTroubles <- 1,
        NoImage <- None, gen <- scanGen, cache <- results, walk <- indexWalk,
        left <- scanBounds

SyncChildren == [d \in {"i", "c", "m"} |-> IF d = "i" THEN {"c"} ELSE {}]
SyncKind == ("kt" :> "image") @@ ("kr" :> "referrers")
SyncRef == ("kt" :> "tag") @@ ("kr" :> "c")

\* Index i of c, and image m that refers to c; a request and the retries in the background.
Sync == INSTANCE SyncService
    WITH Requests <- {"q1"}, Periodic <- "periodic",
        Tag <- "tag", Keys <- {"kt", "kr"}, KeyKind <- SyncKind, KeyRef <- SyncRef,
        Digests <- {"i", "c", "m"}, Children <- SyncChildren, Targets <- {"i"},
        Platforms <- {"c"}, Subject <- "c", Referrer <- "m", Services <- {1}, CanRetry <- <<TRUE>>,
        MaxRequests <- 2, MaxFaults <- 1, MaxMoves <- 0, w <- syncer,
        flight <- syncFlight, creds <- upstreamCreds

HtpasswdState == <<htFile, htPath, htInfo, htCreds, htMu, htDone, htStopped,
            watcher, htTimer, gens, signalled, ended, htClosed, watched, htEvents,
            htLoop, caller, htChanges>>
TlsState == <<disk, watch, tlsQueue, useInotify, open, tlsTimer, tlsLoop, tlsCert,
            modTime, inProgress, load, hs>>
LifeState == <<confFile, ldapFile, mainPc, hr, hpc, newConf, debounce, event,
            lastRead, live, scheduler, schedulers, built, sig, http, reqs,
            recorder, recorders, wrapperClosed, metaOpen, early>>
ClientState == <<command, cliMain, img, call, jobs, lim, job, coll, wg, outClosed,
            cliCancelled, errCh, shown, failed>>
MeterState == <<enabled, age, tick, srv, copy, measured, stopped, snd, scr, sends,
            samples, refused, crossed>>
ScansState == <<scanGen, upd, db, results, flight, indexWalk, procs, blobs, listed,
            stmts, sbom, scans, scanBounds>>
SyncState == <<upstream, local, syncer, syncFlight, retrying, checked,
            upstreamCreds, orphans, window, reaped, budget>>

-----------------------------------------------------------------------------
(* The variables of a component that does not run hold Off.               *)
HtpasswdOff == /\ htFile = Off /\ htPath = Off /\ htInfo = Off /\ htCreds = Off
               /\ htMu = Off /\ htDone = Off /\ htStopped = Off /\ watcher = Off
               /\ htTimer = Off /\ gens = Off /\ signalled = Off /\ ended = Off
               /\ htClosed = Off /\ watched = Off /\ htEvents = Off /\ htLoop = Off
               /\ caller = Off /\ htChanges = Off
TlsOff == /\ disk = Off /\ watch = Off /\ tlsQueue = Off /\ useInotify = Off /\ open = Off
          /\ tlsTimer = Off /\ tlsLoop = Off /\ tlsCert = Off /\ modTime = Off
          /\ inProgress = Off /\ load = Off /\ hs = Off
LifeOff == /\ confFile = Off /\ ldapFile = Off /\ mainPc = Off /\ hr = Off /\ hpc = Off
           /\ newConf = Off /\ debounce = Off /\ event = Off /\ lastRead = Off /\ live = Off
           /\ scheduler = Off /\ schedulers = Off /\ built = Off /\ sig = Off /\ http = Off
           /\ reqs = Off /\ recorder = Off /\ recorders = Off /\ wrapperClosed = Off
           /\ metaOpen = Off /\ early = Off
ClientOff == /\ command = Off /\ cliMain = Off /\ img = Off /\ call = Off /\ jobs = Off
             /\ lim = Off /\ job = Off /\ coll = Off /\ wg = Off /\ outClosed = Off
             /\ cliCancelled = Off /\ errCh = Off /\ shown = Off /\ failed = Off
MeterOff == /\ enabled = Off /\ age = Off /\ tick = Off /\ srv = Off /\ copy = Off
            /\ measured = Off /\ stopped = Off /\ snd = Off /\ scr = Off /\ sends = Off
            /\ samples = Off /\ refused = Off /\ crossed = Off
ScansOff == /\ scanGen = Off /\ upd = Off /\ db = Off /\ results = Off /\ flight = Off
            /\ indexWalk = Off /\ procs = Off /\ blobs = Off /\ listed = Off /\ stmts = Off
            /\ sbom = Off /\ scans = Off /\ scanBounds = Off
SyncOff == /\ upstream = Off /\ local = Off /\ syncer = Off /\ syncFlight = Off
           /\ retrying = Off /\ checked = Off /\ upstreamCreds = Off /\ orphans = Off
           /\ window = Off /\ reaped = Off /\ budget = Off

MCInit ==
    \/ part = "scheduler" /\ Init /\ HtpasswdOff /\ TlsOff /\ LifeOff /\ ClientOff /\ MeterOff /\ ScansOff /\ SyncOff
    \/ part = "htpasswd" /\ Htpasswd!Init /\ Init /\ TlsOff /\ LifeOff /\ ClientOff /\ MeterOff /\ ScansOff /\ SyncOff
    \/ part = "tls" /\ Tls!Init /\ Init /\ HtpasswdOff /\ LifeOff /\ ClientOff /\ MeterOff /\ ScansOff /\ SyncOff
    \/ part = "server" /\ Life!Init /\ Init /\ HtpasswdOff /\ TlsOff /\ ClientOff /\ MeterOff /\ ScansOff /\ SyncOff
    \/ part = "client" /\ Client!Init /\ Init /\ HtpasswdOff /\ TlsOff /\ LifeOff /\ MeterOff /\ ScansOff /\ SyncOff
    \/ part = "metrics" /\ Meter!NewMetricsServer /\ Init /\ HtpasswdOff /\ TlsOff /\ LifeOff /\ ClientOff /\ ScansOff /\ SyncOff
    \/ part = "scan" /\ Scans!Init /\ Init /\ HtpasswdOff /\ TlsOff /\ LifeOff /\ ClientOff /\ MeterOff /\ SyncOff
    \/ part = "sync" /\ Sync!Init /\ Init /\ HtpasswdOff /\ TlsOff /\ LifeOff /\ ClientOff /\ MeterOff /\ ScansOff

MCNext ==
    /\ UNCHANGED part
    /\ \/ part = "scheduler" /\ Next /\ UNCHANGED <<HtpasswdState, TlsState, LifeState, ClientState, MeterState, ScansState, SyncState>>
       \/ part = "htpasswd" /\ Htpasswd!Next /\ UNCHANGED <<vars, TlsState, LifeState, ClientState, MeterState, ScansState, SyncState>>
       \/ part = "tls" /\ Tls!Next /\ UNCHANGED <<vars, HtpasswdState, LifeState, ClientState, MeterState, ScansState, SyncState>>
       \/ part = "server" /\ Life!Next /\ UNCHANGED <<vars, HtpasswdState, TlsState, ClientState, MeterState, ScansState, SyncState>>
       \/ part = "client" /\ Client!Next /\ UNCHANGED <<vars, HtpasswdState, TlsState, LifeState, MeterState, ScansState, SyncState>>
       \/ part = "metrics" /\ Meter!Next /\ UNCHANGED <<vars, HtpasswdState, TlsState, LifeState, ClientState, ScansState, SyncState>>
       \/ part = "scan" /\ Scans!Next /\ UNCHANGED <<vars, HtpasswdState, TlsState, LifeState, ClientState, MeterState, SyncState>>
       \/ part = "sync" /\ Sync!Next /\ UNCHANGED <<vars, HtpasswdState, TlsState, LifeState, ClientState, MeterState, ScansState>>

MCVars == <<part, vars, HtpasswdState, TlsState, LifeState, ClientState,
             MeterState, ScansState, SyncState>>
MCSpec == MCInit /\ [][MCNext]_MCVars

(* A step of one component, the others as they are.                        *)
InTasks(A) == part = "scheduler" /\ A /\ UNCHANGED <<part, HtpasswdState, TlsState, LifeState, ClientState, MeterState, ScansState, SyncState>>
InHtpasswd(A) == part = "htpasswd" /\ A /\ UNCHANGED <<part, vars, TlsState, LifeState, ClientState, MeterState, ScansState, SyncState>>
InTls(A) == part = "tls" /\ A /\ UNCHANGED <<part, vars, HtpasswdState, LifeState, ClientState, MeterState, ScansState, SyncState>>
InLife(A) == part = "server" /\ A /\ UNCHANGED <<part, vars, HtpasswdState, TlsState, ClientState, MeterState, ScansState, SyncState>>
InClient(A) == part = "client" /\ A /\ UNCHANGED <<part, vars, HtpasswdState, TlsState, LifeState, MeterState, ScansState, SyncState>>
InMeter(A) == part = "metrics" /\ A /\ UNCHANGED <<part, vars, HtpasswdState, TlsState, LifeState, ClientState, ScansState, SyncState>>
InScans(A) == part = "scan" /\ A /\ UNCHANGED <<part, vars, HtpasswdState, TlsState, LifeState, ClientState, MeterState, SyncState>>
InSync(A) == part = "sync" /\ A /\ UNCHANGED <<part, vars, HtpasswdState, TlsState, LifeState, ClientState, MeterState, ScansState>>

\* The fairness of each component's FairSpec (for the client, whose runs are finite, only that
\* it goes on), one formula for several of them, as only one component runs.
MCFairness ==
    /\ WF_MCVars(\/ InTasks(Dispatcher)
                 \/ InHtpasswd(Htpasswd!Finish(q))
                 \/ InTls(Tls!Loop)
                 \/ InLife(Life!Running(Life!Main))
                 \/ InClient(Client!Next)
                 \/ InMeter(Meter!TakeRequest("r1"))
                 \/ InScans(Scans!GenNext("cw"))
                 \/ InSync(Sync!Step("q1")))
    /\ WF_MCVars(\/ InTasks(Shutdown)
                 \/ InHtpasswd(Htpasswd!Loop(1))
                 \/ InTls(Tls!Handshake(q))
                 \/ InLife(Life!Running(Life!Loop))
                 \/ InMeter(Meter!TakeRequest("r2"))
                 \/ InScans(Scans!CallStep("cw"))
                 \/ InSync(Sync!Step("periodic")))
    /\ WF_MCVars(\/ InTasks(Work("w1"))
                 \/ InHtpasswd(Htpasswd!Loop(2))
                 \/ InLife(Life!Running(Life!Shutdown))
                 \/ InMeter(Meter!Reply("r1"))
                 \/ InScans(Scans!CallStep("cc"))
                 \/ InSync(Sync!Step("kt")))
    /\ WF_MCVars(\/ InHtpasswd(Htpasswd!LoopTick(1))
                 \/ InLife(Life!Running(Life!pollForChanges))
                 \/ InMeter(Meter!Reply("r2"))
                 \/ InScans(Scans!FlightStep("trivy"))
                 \/ InSync(Sync!Step("kr")))
    /\ WF_MCVars(\/ InHtpasswd(Htpasswd!LoopTick(2))
                 \/ InLife(Life!Running(reqs[q] > 1 /\ Life!Request(q)))
                 \/ InMeter(Meter!Encoded("r1"))
                 \/ InScans(Scans!UpdateDB)
                 \/ InSync(Sync!ReapOrphan))
    /\ WF_MCVars(\/ InLife(Life!Running(Life!RequestEnds(q)))
                 \/ InMeter(Meter!Encoded("r2")))
    /\ WF_MCVars(InMeter(Meter!TakeMetric("s1")))
    /\ WF_MCVars(InMeter(Meter!CheckIdle))
    /\ WF_MCVars(InMeter(Meter!Tick))
    /\ SF_MCVars(\/ InTasks(BecomeReady("gc"))
                 \/ InHtpasswd(\E g \in Htpasswd!Loops : Htpasswd!LoopStop(g))
                 \/ InLife(Life!Running(Life!LoopStop)))
    /\ SF_MCVars(InLife(Life!Running(Life!reloadEventRecorder \/ Life!ShutdownEvents)))
MCFairSpec == MCSpec /\ MCFairness

-----------------------------------------------------------------------------
(* The properties of the components, each where its component runs.        *)

\* Somebody waits: a caller of Shutdown, a task or a run of a generator that is not lost; a caller of Close; the
\* process that got a signal; a search of the client; a sample or a scrape; a call for a scan or
\* the run of the scan generator; a request to sync, a retry in the background, a session left behind.
Waiting ==
    \/ /\ part = "scheduler"
       /\ \/ stopper \notin {"none", "returned"}
          \/ ~shuttingDown /\ \E g \in Gens : \/ produced[g] > executed[g]
                                              \/ g \in submitted /\ Placed(g) /\ ~done[g]
    \/ part = "htpasswd" /\ caller[q].pc = "closewait"
    \/ part = "server" /\ sig \notin {"none", "done"} /\ mainPc # "exited"
    \/ /\ part = "metrics" /\ ~stopped
       /\ snd["s1"] # Meter!NoSample \/ \E r \in {"r1", "r2"} : scr[r].pc \notin {"idle", "done"}
    \/ part = "client" /\ ~Client!Returned
    \/ part = "scan" /\ (~scanGen.done \/ \E w \in Scans!Procs : procs[w].pc \notin {"idle", "done"})
    \/ part = "sync" /\ (orphans > 0 \/ \E w \in Sync!Syncers : Sync!Active(w))

\* Whoever waits is served in the end, in every component: Shutdown and Close return, the tasks
\* that were made are run and the runs completed, a signal ends the process, every search,
\* sample, scrape, scan and sync gets through, and an orphaned sync session is reaped.
NobodyWaits == []<>~Waiting

\* What a component follows has come to rest: the htpasswd file under a running loop, the pair
\* of TLS files, the configuration file; the metrics server is not stopped.
AtRest ==
    \/ part = "htpasswd" /\ \E g \in Htpasswd!Loops : Htpasswd!Watching(g)
    \/ part = "tls" /\ Tls!Settled
    \/ part = "server" /\ Life!Stable
    \/ part = "metrics" /\ ~stopped
Followed ==
    \/ part = "htpasswd" /\ Htpasswd!Reloaded
    \/ part = "tls" /\ tlsCert = disk["cert"].ver
    \/ part = "server" /\ live.cfg = confFile.ver
    \/ part = "metrics" /\ ~enabled

\* What came to rest is taken over for good: the last version of each file is the one in use,
\* whatever events were lost or came out of order, and metrics nobody scrapes are turned off.
Settles == <>[]AtRest => <>[]Followed

ASSUME Sync!SyncAssumption /\ Scans!CveScanAssumption
=============================================================================
