---------------------------- MODULE MCLiveStorage ----------------------------
(***************************************************************************)
(* The passes over the storage, for TLC: the startup walks of the dedupe   *)
(* store, which end and leave it in order whatever was cut off before, and *)
(* the garbage collector of a repository, which gets its work done.  A     *)
(* behaviour runs one of them.                                             *)
(***************************************************************************)
EXTENDS DedupeStore, TLC

CONSTANTS Off, None, NoTag

VARIABLE part   \* the component that runs in this behaviour
VARIABLES blobFile, original, duplicates, restored, setting, gateOpen, holder,
          linking, startWalk, promised, cutOff, parted, failed, starts
VARIABLES layout, rows, blobs, age, recent, uploads, uploadAge, pc, target, mem,
          tags, left, keep, gcReferrer, gcUntagged, failures

MCRepos == {"a", "b"}
MCOrder == <<"a", "b">>
StaysOn == {<<TRUE, TRUE>>}
Toggled == BOOLEAN \X BOOLEAN
TurnedOff == {<<TRUE, TRUE>>, <<TRUE, FALSE>>, <<FALSE, FALSE>>}

\* Dedupe stays on and nothing fails: three repositories and the first walk.
First == INSTANCE DedupeStore
    WITH Repos <- {"a", "b", "c"}, Order <- <<"a", "b", "c">>, Changes <- StaysOn,
        FaultOps <- {}, CacheLoss <- FALSE, MaxFaults <- 0,
        MaxRestarts <- 0, file <- blobFile, orig <- original, dups <- duplicates,
        marker <- restored, dedupe <- setting, rebuildDone <- gateOpen,
        op <- holder, checking <- linking, walk <- startWalk, acked <- promised,
        strayed <- cutOff, severed <- parted, faults <- failed,
        restarts <- starts

\* Two restarts, dedupe may be turned off; a manifest of two repositories.
Restarts == INSTANCE DedupeStore
    WITH Changes <- TurnedOff,
        IsManifest <- TRUE, WalkKinds <- {"dedupe", "restore"}, FaultOps <- {},
        CacheLoss <- FALSE, MaxFaults <- 0, MaxRestarts <- 2, file <- blobFile,
        orig <- original, dups <- duplicates, marker <- restored,
        dedupe <- setting, rebuildDone <- gateOpen, op <- holder,
        checking <- linking, walk <- startWalk, acked <- promised,
        strayed <- cutOff, severed <- parted, faults <- failed,
        restarts <- starts

\* An image, a signature of it that refers to it, and an index of the image.
Store == INSTANCE RepoStore
    WITH Blobs <- {"b1"}, Images <- {"m1", "s1"}, Indexes <- {"x1"},
        Refs <- ("m1" :> {"b1"}) @@ ("s1" :> {}), Children <- "x1" :> {"m1"},
        Subject <- ("m1" :> None) @@ ("s1" :> "m1") @@ ("x1" :> None),
        Validated <- {"m1", "s1"}, Tags <- {"v1"}, CosignSubject <- "v1" :> None,
        Uploads <- {"u1"}, Dedupe <- FALSE, Remote <- FALSE, Retained <- {"v1"},
        KeepUntagged <- {}, DeleteReferrers <- TRUE, DeleteUntagged <- TRUE,
        GCDelay <- 1, RetentionDelay <- 1, MaxAge <- 1, MaxFailures <- 1

WalksState == <<blobFile, original, duplicates, restored, setting, gateOpen, holder,
            linking, startWalk, promised, cutOff, parted, failed, starts>>
StoreState == <<layout, rows, blobs, age, recent, uploads, uploadAge, pc, target,
            mem, tags, left, keep, gcReferrer, gcUntagged, failures>>

-----------------------------------------------------------------------------
(* The variables of a component that does not run hold Off.               *)
WalksOff == /\ blobFile = Off /\ original = Off /\ duplicates = Off /\ restored = Off
            /\ setting = Off /\ gateOpen = Off /\ holder = Off /\ linking = Off
            /\ startWalk = Off /\ promised = Off /\ cutOff = Off /\ parted = Off
            /\ failed = Off /\ starts = Off
StoreOff == /\ layout = Off /\ rows = Off /\ blobs = Off /\ age = Off /\ recent = Off
            /\ uploads = Off /\ uploadAge = Off /\ pc = Off /\ target = Off
            /\ mem = Off /\ tags = Off /\ left = Off /\ keep = Off
            /\ gcReferrer = Off /\ gcUntagged = Off /\ failures = Off

MCInit ==
    \/ part = "dedupe" /\ Init /\ WalksOff /\ StoreOff
    \/ part = "first" /\ First!Init /\ Init /\ dedupe /\ StoreOff
    \/ part = "restarts" /\ Restarts!Init /\ Init /\ dedupe /\ StoreOff
    \/ part = "store" /\ Store!Init /\ Init /\ dedupe /\ WalksOff

MCNext ==
    /\ UNCHANGED part
    /\ \/ part = "dedupe" /\ Next /\ UNCHANGED <<WalksState, StoreState>>
       \/ part = "first" /\ First!Next /\ UNCHANGED <<vars, StoreState>>
       \/ part = "restarts" /\ Restarts!Next /\ UNCHANGED <<vars, StoreState>>
       \/ part = "store" /\ Store!Next /\ UNCHANGED <<vars, WalksState>>

MCVars == <<part, vars, WalksState, StoreState>>
MCSpec == MCInit /\ [][MCNext]_MCVars

(* A step of one component, the others as they are.                        *)
InFirst(A) == part = "first" /\ A /\ UNCHANGED <<part, vars, StoreState>>
InRestarts(A) == part = "restarts" /\ A /\ UNCHANGED <<part, vars, StoreState>>
InStore(A) == part = "store" /\ A /\ UNCHANGED <<part, vars, WalksState>>

\* Every process goes on; an operation that needs the store's lock, and the clock, get their
\* turn although others come between (the fairness of the components' FairSpec, whose strong
\* parts are taken together as only one component runs).
MCFairness ==
    /\ WF_MCVars(\/ InStore(Store!GCPass)
                 \/ InFirst(First!OpStep)
                 \/ InRestarts(Restarts!OpStep))
    /\ WF_MCVars(\/ InStore(Store!PutIndex)
                 \/ InFirst(First!Walk)
                 \/ InRestarts(Restarts!Walk))
    /\ WF_MCVars(InStore(Store!DeleteManifestBlob))
    /\ WF_MCVars(InStore(Store!PutTag("v1")))
    /\ SF_MCVars(\/ InStore(Store!GCStart)
                 \/ InFirst(First!DedupeStart)
                 \/ InRestarts(Restarts!DedupeStart))
    /\ SF_MCVars(\/ InStore(Store!Tick)
                 \/ InFirst(First!RestoreWrite)
                 \/ InRestarts(Restarts!RestoreWrite))
MCFairSpec == MCSpec /\ MCFairness

-----------------------------------------------------------------------------
(* The properties of the components, each where its component runs.        *)

\* A blob that stays unreferenced is collected in the end, although pushes, deletes and failures
\* come between the passes.
GarbageCollected == \A d \in Store!Digests : []<>(part = "store" => d \notin Store!Garbage)

\* Every pass over the storage comes to an end although uploads and deletes come between its
\* steps: the loop of a GC pass over referrers and untagged manifests stops, a startup walk
\* completes or its task fails, and a dedupe walk that nothing cuts off opens the gate, so that
\* the deletes it held back go through.
PassesEnd ==
    []<>/\ part = "store" => pc \notin {"gcLoop", "gcReferrers", "gcUntagged", "gcIndex"}
        /\ part = "first" => gateOpen
        /\ part = "restarts" => \/ startWalk.pc \in {"done", "failed", "off"}
                                \/ Restarts!WalkKind \notin {"dedupe", "restore"}

=============================================================================
