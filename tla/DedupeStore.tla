---------------------------- MODULE DedupeStore ----------------------------
(***************************************************************************)
(* Deduplication of ONE blob digest in an image store on a remote driver   *)
(* (S3, GCS), which has no links: pkg/storage/imagestore/imagestore.go.    *)
(*                                                                         *)
(* The blob has one path per repository.  A path is absent, holds the      *)
(* content, or is the zero-size placeholder that Driver.Link writes.  The  *)
(* dedupe cache (pkg/storage/cache) keeps for the digest the path of the   *)
(* original and the set of all its duplicates.  Every operation that       *)
(* writes holds the store lock, but it makes several calls to the driver   *)
(* and to the cache, and the process may fail or die between two of them.  *)
(* At every start a walk dedupes the paths (dedupe on) or fills the        *)
(* placeholders in again (dedupe off); until it has completed              *)
(* dedupeRebuildDone is false and some deletes are deferred.               *)
(***************************************************************************)
EXTENDS Integers, Sequences, FiniteSets

CONSTANTS
    Repos,          \* the repositories that may hold the blob
    NoRepo,         \* the empty path: no cache record, no original found
    Order,          \* the order in which the driver lists the repositories
    IsManifest,     \* the digest is a manifest, pushed and deleted by its own handlers
    Changes,        \* pairs <<old, new>>: how storage.dedupe may change at a restart
    CacheWhenOff,   \* the cache is configured although dedupe is off
    WalkKinds,      \* which startup walks the scheduler gets to: "dedupe", "restore"
    FaultOps,       \* the operations that may fail or be cut off between two calls
    CacheLoss,      \* a restart may find the cache database empty
    MaxFaults,      \* bound on failures within one behaviour
    MaxRestarts     \* bound on restarts within one behaviour

OpKinds == {"upload", "check", "delete", "walk", "marker"}

ASSUME ConstantsAssumption ==
    /\ NoRepo \notin Repos
    /\ Order \in Seq(Repos)
    /\ IsManifest \in BOOLEAN /\ CacheWhenOff \in BOOLEAN /\ CacheLoss \in BOOLEAN
    /\ Changes \subseteq BOOLEAN \X BOOLEAN
    /\ WalkKinds \subseteq {"dedupe", "restore"}
    /\ FaultOps \subseteq OpKinds
    /\ MaxFaults \in Nat /\ MaxRestarts \in Nat

VARIABLES
    file,           \* what each repository's path of the blob holds
    orig, dups,     \* the cache record: original path, all paths (original included)
    marker,         \* the restore-complete marker file
    dedupe,         \* storage.dedupe of the running process
    rebuildDone,    \* ImageStore.dedupeRebuildDone
    op,             \* the operation that holds the store's write lock
    checking,       \* repositories whose CheckBlob is between Link and PutBlob
    walk,           \* the startup walk: generator and task
    acked,          \* repositories that were told they have the blob, and have since neither
                    \* deleted it nor been told that an upload of it failed
    strayed,        \* dedupe was off, the cache was lost or a delete was cut off (history)
    severed,        \* a record and the content it stands for came apart (history)
    faults, restarts

cacheVars == <<orig, dups>>
procVars  == <<marker, dedupe, rebuildDone>>
history   == <<strayed, severed>>
vars == <<file, orig, dups, marker, dedupe, rebuildDone, op, checking, walk, acked,
          faults, restarts, strayed, severed>>

FileStates == {"absent", "empty", "content"}
Idle == [kind |-> "idle", repo |-> NoRepo, pc |-> "idle"]

WalkPCs == {"off", "list", "task", "dedupe", "record", "disk", "origin", "scan",
            "restore", "read", "write", "succeeded", "done", "failed"}
WalkStates == [pc: WalkPCs, i: Nat \ {0}, paths: Seq(Repos),
               original: Repos \cup {NoRepo}, buf: {"empty", "content"}]
NewWalk(pc) == [pc |-> pc, i |-> 1, paths |-> <<>>, original |-> NoRepo, buf |-> "empty"]

\* Every variable holds a value of the kind the code gives it.
TypeOK ==
    /\ file \in [Repos -> FileStates]
    /\ orig \in Repos \cup {NoRepo}
    /\ dups \subseteq Repos
    /\ marker \in {"absent", "complete", "invalid"}
    /\ dedupe \in BOOLEAN
    /\ rebuildDone \in BOOLEAN
    /\ op \in [kind: {"idle", "upload", "delete", "walk"}, repo: Repos \cup {NoRepo},
               pc: {"idle", "lookup", "move", "record", "remove", "walk"}]
    /\ checking \subseteq Repos
    /\ walk \in WalkStates
    /\ acked \subseteq Repos
    /\ faults \in Nat
    /\ restarts \in Nat
    /\ strayed \in BOOLEAN /\ severed \in BOOLEAN

-----------------------------------------------------------------------------
(* The cache.  PutBlob adds the path to the duplicates and makes it the      *)
(* original if there is none; DeleteBlob removes it and, if it was the       *)
(* original, promotes some other duplicate (bbolt: the first key, redis: a   *)
(* random member) or drops the record.                                       *)

HasCache == dedupe \/ CacheWhenOff

PutBlob(r) ==
    /\ orig' = IF orig = NoRepo THEN r ELSE orig
    /\ dups' = dups \cup {r}

HasBlob(r) == r \in dups

DeleteRecord(r) ==
    /\ dups' = dups \ {r}
    /\ \/ orig # r /\ orig' = orig
       \/ orig = r /\ dups \ {r} = {} /\ orig' = NoRepo
       \/ orig = r /\ orig' \in dups \ {r}

-----------------------------------------------------------------------------
(* The store lock: a writer excludes everybody, CheckBlob is a reader when   *)
(* dedupe is off, and a writer that waits (the restore walk) holds back new  *)
(* readers.                                                                  *)

WriteFree == op = Idle /\ checking = {}
ReadFree  == op = Idle /\ walk.pc # "write"

-----------------------------------------------------------------------------
(* Upload of a layer: FinishBlobUpload and FullBlobUpload, once the body has *)
(* been written under .uploads and its digest verified.                      *)

\* dedupe off: the upload is renamed to its path, whatever was there.
UploadMove(r) ==
    /\ ~IsManifest /\ ~dedupe
    /\ WriteFree
    /\ file' = [file EXCEPT ![r] = "content"]
    /\ acked' = acked \cup {r}
    /\ UNCHANGED <<cacheVars, procVars, op, checking, walk, faults, restarts, history>>

UploadStart(r) ==
    /\ ~IsManifest /\ dedupe
    /\ WriteFree
    /\ op' = [kind |-> "upload", repo |-> r, pc |-> "lookup"]
    /\ UNCHANGED <<file, cacheVars, procVars, checking, walk, acked, faults, restarts, history>>

\* DedupeBlob, no cache record: the record is written before the content is moved in place.
UploadMiss ==
    /\ op.kind = "upload" /\ op.pc = "lookup"
    /\ orig = NoRepo
    /\ PutBlob(op.repo)
    /\ op' = [op EXCEPT !.pc = "move"]
    /\ UNCHANGED <<file, procVars, checking, walk, acked, faults, restarts, history>>

UploadRename ==
    /\ op.kind = "upload" /\ op.pc = "move"
    /\ file' = [file EXCEPT ![op.repo] = "content"]
    /\ acked' = acked \cup {op.repo}
    /\ op' = Idle
    /\ UNCHANGED <<cacheVars, procVars, checking, walk, faults, restarts, history>>

\* The record names a path that is gone: it is dropped and the loop goes round again.
UploadStale ==
    /\ op.kind = "upload" /\ op.pc = "lookup"
    /\ orig # NoRepo /\ file[orig] = "absent"
    /\ DeleteRecord(orig)
    /\ UNCHANGED <<file, procVars, op, checking, walk, acked, faults, restarts, history>>

\* MUTANT: the upload is moved in place although there is an original.
UploadLinkMoves ==
    /\ op.kind = "upload" /\ op.pc = "lookup"
    /\ orig # NoRepo /\ file[orig] # "absent" /\ orig # op.repo
    /\ file' = [file EXCEPT ![op.repo] = "content"]
    /\ op' = [op EXCEPT !.pc = "record"]
    /\ UNCHANGED <<cacheVars, procVars, checking, walk, acked, faults, restarts, history>>

\* The record names another path: Link leaves a placeholder at this one.
UploadLink ==
    /\ op.kind = "upload" /\ op.pc = "lookup"
    /\ orig # NoRepo /\ file[orig] # "absent" /\ orig # op.repo
    /\ file' = [file EXCEPT ![op.repo] = "empty"]
    /\ op' = [op EXCEPT !.pc = "record"]
    /\ UNCHANGED <<cacheVars, procVars, checking, walk, acked, faults, restarts, history>>

UploadRecord ==
    /\ op.kind = "upload" /\ op.pc = "record"
    /\ PutBlob(op.repo)
    /\ acked' = acked \cup {op.repo}
    /\ op' = Idle
    /\ UNCHANGED <<file, procVars, checking, walk, faults, restarts, history>>

\* The record names this very path.  The new content replaces the old only if a
\* manifest of the repository describes the blob and the sizes differ.
UploadSame ==
    /\ op.kind = "upload" /\ op.pc = "lookup"
    /\ orig = op.repo /\ file[orig] # "absent"
    /\ \E described \in BOOLEAN :
         file' = [file EXCEPT ![op.repo] = IF described THEN "content" ELSE @]
    /\ acked' = acked \cup {op.repo}
    /\ op' = Idle
    /\ UNCHANGED <<cacheVars, procVars, checking, walk, faults, restarts, history>>

-----------------------------------------------------------------------------
(* CheckBlob: HEAD of a blob and cross-repository mount.                     *)

CheckLock == IF dedupe THEN WriteFree ELSE ReadFree

\* checkCacheBlob drops a record whose path is gone and reports the blob as not found.
CheckStale(r) ==
    /\ HasCache /\ CheckLock
    /\ file[r] # "content"
    /\ orig # NoRepo /\ file[orig] = "absent"
    /\ DeleteRecord(orig)
    /\ UNCHANGED <<file, procVars, op, checking, walk, acked, faults, restarts, history>>

\* The path has content: it is found, and the cache is not asked.
CheckFound(r) ==
    /\ CheckLock
    /\ file[r] = "content"
    /\ acked' = acked \cup {r}
    /\ UNCHANGED <<file, cacheVars, procVars, op, checking, walk, faults, restarts, history>>

\* copyBlob links the path to the original; an empty original is reported as not found.
CheckLink(r) ==
    /\ HasCache /\ CheckLock
    /\ r \notin checking
    /\ file[r] # "content"
    /\ orig # NoRepo /\ file[orig] # "absent"
    /\ file' = [file EXCEPT ![r] = "empty"]
    /\ checking' = IF file'[orig] = "empty" THEN checking ELSE checking \cup {r}
    /\ UNCHANGED <<cacheVars, procVars, op, walk, acked, faults, restarts, history>>

\* MUTANT: CheckBlob reports success without recording the path.
CheckRecordForgets(r) ==
    /\ r \in checking
    /\ checking' = checking \ {r}
    /\ acked' = acked \cup {r}
    /\ UNCHANGED <<file, cacheVars, procVars, op, walk, faults, restarts, history>>

CheckRecord(r) ==
    /\ r \in checking
    /\ PutBlob(r)
    /\ checking' = checking \ {r}
    /\ acked' = acked \cup {r}
    /\ UNCHANGED <<file, procVars, op, walk, faults, restarts, history>>

\* originalBlobInfo (GetBlob, GetBlobPartial, StatBlob) reads, except that it also
\* drops a record whose path is gone.
ReadStale(r) ==
    /\ HasCache /\ ReadFree
    /\ file[r] = "empty"
    /\ orig # NoRepo /\ file[orig] = "absent"
    /\ DeleteRecord(orig)
    /\ UNCHANGED <<file, procVars, op, checking, walk, acked, faults, restarts, history>>

\* The blob can be served from repository r: originalBlobInfo does not fail.
Readable(r) ==
    \/ file[r] = "content"
    \/ file[r] = "empty" /\ HasCache /\ orig # NoRepo /\ file[orig] = "content"

-----------------------------------------------------------------------------
(* Manifests are written and deleted by PutImageManifest and                 *)
(* DeleteImageManifest, which do not consult the cache.                      *)

PutManifest(r) ==
    /\ IsManifest
    /\ WriteFree
    /\ file' = [file EXCEPT ![r] = "content"]
    /\ acked' = acked \cup {r}
    /\ UNCHANGED <<cacheVars, procVars, op, checking, walk, faults, restarts, history>>

DeleteManifest(r) ==
    /\ IsManifest
    /\ WriteFree
    /\ file[r] # "absent"
    /\ file' = [file EXCEPT ![r] = "absent"]
    /\ acked' = acked \ {r}
    /\ severed' = (severed \/ r \in dups)
    /\ UNCHANGED <<cacheVars, procVars, op, checking, walk, faults, restarts, strayed>>

-----------------------------------------------------------------------------
(* deleteBlobChecked: DeleteBlob, CleanupRepo and RemoveIdleRepository.      *)

\* A content path the cache does not know may be the only copy behind placeholders:
\* its delete is deferred until the walk has completed.
Deferred(r) ==
    /\ file[r] = "content" /\ ~rebuildDone
    /\ HasCache => orig = NoRepo

DeleteStart(r) ==
    /\ WriteFree
    /\ file[r] # "absent"
    /\ ~Deferred(r)
    /\ IF HasCache /\ HasBlob(r)
         THEN /\ DeleteRecord(r)
              /\ op' = IF orig # r \/ orig' = NoRepo
                         THEN [kind |-> "delete", repo |-> r, pc |-> "remove"]
                         ELSE IF file[orig'] = "empty"
                                THEN [kind |-> "delete", repo |-> r, pc |-> "move"]
                                ELSE Idle
         ELSE /\ UNCHANGED cacheVars
              /\ op' = [kind |-> "delete", repo |-> r, pc |-> "remove"]
    /\ acked' = acked \ {r}
    /\ UNCHANGED <<file, procVars, checking, walk, faults, restarts, history>>

\* The content moves to the duplicate that the cache has promoted to original.
DeleteMove ==
    /\ op.kind = "delete" /\ op.pc = "move"
    /\ file' = [file EXCEPT ![orig] = file[op.repo], ![op.repo] = "absent"]
    /\ op' = Idle
    /\ UNCHANGED <<cacheVars, procVars, checking, walk, acked, faults, restarts, history>>

DeleteRemove ==
    /\ op.kind = "delete" /\ op.pc = "remove"
    /\ file' = [file EXCEPT ![op.repo] = "absent"]
    /\ op' = Idle
    /\ UNCHANGED <<cacheVars, procVars, checking, walk, acked, faults, restarts, history>>

-----------------------------------------------------------------------------
(* The startup walk.  DedupeTaskGenerator lists the repositories one by one, *)
(* without the lock, and generates one task for the digest from the paths it *)
(* found; OnRunComplete runs, asynchronously, once that task has succeeded.  *)

WalkKind == IF dedupe THEN "dedupe" ELSE "restore"
Path == walk.paths[walk.i]
Goto(pc) == [walk EXCEPT !.pc = pc]
NextPath(pc) == [walk EXCEPT !.pc = pc, !.i = @ + 1]
MorePaths == walk.i <= Len(walk.paths)

WalkList ==
    /\ walk.pc = "list" /\ WalkKind \in WalkKinds
    /\ walk.i <= Len(Order)
    /\ walk' = [walk EXCEPT !.i = @ + 1,
                  !.paths = IF file[Order[walk.i]] = "absent" THEN @
                                                              ELSE Append(@, Order[walk.i])]
    /\ UNCHANGED <<file, cacheVars, procVars, op, checking, acked, faults, restarts, history>>

\* No path of the digest: the generator has no task and the run is complete.
WalkListed ==
    /\ walk.pc = "list" /\ WalkKind \in WalkKinds
    /\ walk.i > Len(Order)
    /\ walk' = [walk EXCEPT !.i = 1, !.pc = IF walk.paths = <<>> THEN "succeeded"
                                            ELSE IF dedupe THEN "task" ELSE "origin"]
    /\ UNCHANGED <<file, cacheVars, procVars, op, checking, acked, faults, restarts, history>>

WalkComplete ==
    /\ walk.pc = "succeeded"
    /\ rebuildDone' = TRUE
    /\ marker' \in IF dedupe THEN {marker}
                   ELSE {"complete"} \cup (IF "marker" \in FaultOps THEN {marker} ELSE {})
    /\ walk' = Goto("done")
    /\ UNCHANGED <<file, cacheVars, dedupe, op, checking, acked, faults, restarts, history>>

-----------------------------------------------------------------------------
(* dedupeBlobs, under the lock: RunDedupeForDigest with dedupe on.           *)

DedupeStart ==
    /\ walk.pc = "task"
    /\ WriteFree
    /\ op' = [kind |-> "walk", repo |-> NoRepo, pc |-> "walk"]
    /\ walk' = Goto("dedupe")
    /\ UNCHANGED <<file, cacheVars, procVars, checking, acked, faults, restarts, history>>

DedupeSkip ==
    /\ walk.pc = "dedupe" /\ MorePaths
    /\ file[Path] = "absent"
    /\ walk' = NextPath("dedupe")
    /\ UNCHANGED <<file, cacheVars, procVars, op, checking, acked, faults, restarts, history>>

\* A placeholder and no original yet: getOriginalBlob asks the cache first ...
DedupeLookup ==
    /\ walk.pc = "dedupe" /\ MorePaths
    /\ file[Path] = "empty" /\ walk.original = NoRepo
    /\ \/ /\ orig # NoRepo /\ file[orig] # "absent"
          /\ walk' = [walk EXCEPT !.original = orig]
          /\ UNCHANGED cacheVars
       \/ /\ orig # NoRepo /\ file[orig] = "absent"
          /\ DeleteRecord(orig)
          /\ walk' = Goto("disk")
       \/ /\ orig = NoRepo
          /\ walk' = Goto("disk")
          /\ UNCHANGED cacheVars
    /\ UNCHANGED <<file, procVars, op, checking, acked, faults, restarts, history>>

HoldsContent(j) == file[walk.paths[j]] = "content"
FirstContent(j) == HoldsContent(j) /\ \A k \in 1..(j-1) : ~HoldsContent(k)

\* ... and then the listed paths; without any content the task fails.
DedupeFromDisk ==
    /\ walk.pc = "disk"
    /\ \/ /\ \A j \in DOMAIN walk.paths : ~HoldsContent(j)
          /\ walk' = Goto("failed") /\ op' = Idle
          /\ UNCHANGED cacheVars
       \/ \E j \in DOMAIN walk.paths :
          /\ FirstContent(j)
          /\ walk' = [walk EXCEPT !.pc = "dedupe", !.original = walk.paths[j]]
          /\ IF orig = NoRepo THEN PutBlob(walk.paths[j]) ELSE UNCHANGED cacheVars
          /\ UNCHANGED op
    /\ UNCHANGED <<file, procVars, checking, acked, faults, restarts, history>>

\* MUTANT: the walk does not record the placeholder.
DedupePlaceholderForgets ==
    /\ walk.pc = "dedupe" /\ MorePaths
    /\ file[Path] = "empty" /\ walk.original # NoRepo
    /\ walk' = NextPath("dedupe")
    /\ UNCHANGED <<file, cacheVars, procVars, op, checking, acked, faults, restarts, history>>

DedupePlaceholder ==
    /\ walk.pc = "dedupe" /\ MorePaths
    /\ file[Path] = "empty" /\ walk.original # NoRepo
    /\ IF HasBlob(Path) THEN UNCHANGED cacheVars ELSE PutBlob(Path)
    /\ walk' = NextPath("dedupe")
    /\ UNCHANGED <<file, procVars, op, checking, acked, faults, restarts, history>>

\* A path with content: once there is an original it is linked, that is emptied, also
\* if it is the path that the cache names as the original.
DedupeLink ==
    /\ walk.pc = "dedupe" /\ MorePaths
    /\ file[Path] = "content"
    /\ file' = IF walk.original # NoRepo THEN [file EXCEPT ![Path] = "empty"] ELSE file
    /\ walk' = Goto("record")
    /\ severed' = (severed \/ (walk.original # NoRepo /\ Path = orig))
    /\ UNCHANGED <<cacheVars, procVars, op, checking, acked, faults, restarts, strayed>>

DedupeRecord ==
    /\ walk.pc = "record"
    /\ IF HasBlob(Path) THEN UNCHANGED cacheVars ELSE PutBlob(Path)
    /\ walk' = [walk EXCEPT !.pc = "dedupe", !.i = @ + 1, !.original = Path]
    /\ UNCHANGED <<file, procVars, op, checking, acked, faults, restarts, history>>

DedupeEnd ==
    /\ walk.pc = "dedupe" /\ ~MorePaths
    /\ walk' = Goto("succeeded")
    /\ op' = Idle
    /\ UNCHANGED <<file, cacheVars, procVars, checking, acked, faults, restarts, history>>

-----------------------------------------------------------------------------
(* restoreDedupedBlobs: dedupe off.  Only the write itself takes the lock.   *)

RestoreLookup ==
    /\ walk.pc = "origin"
    /\ \/ /\ HasCache /\ orig # NoRepo /\ file[orig] # "absent"
          /\ walk' = [walk EXCEPT !.pc = "restore", !.original = orig]
          /\ UNCHANGED cacheVars
       \/ /\ HasCache /\ orig # NoRepo /\ file[orig] = "absent"
          /\ DeleteRecord(orig)
          /\ walk' = Goto("scan")
       \/ /\ ~HasCache \/ orig = NoRepo
          /\ walk' = Goto("scan")
          /\ UNCHANGED cacheVars
    /\ UNCHANGED <<file, procVars, op, checking, acked, faults, restarts, history>>

\* MUTANT: the size of the path is not looked at.
RestoreScanAny ==
    /\ walk.pc = "scan" /\ MorePaths
    /\ walk' = IF file[Path] # "absent"
                 THEN [walk EXCEPT !.pc = "restore", !.i = 1, !.original = Path]
                 ELSE NextPath("scan")
    /\ UNCHANGED <<file, cacheVars, procVars, op, checking, acked, faults, restarts, history>>

RestoreScan ==
    /\ walk.pc = "scan" /\ MorePaths
    /\ walk' = IF file[Path] = "content"
                 THEN [walk EXCEPT !.pc = "restore", !.i = 1, !.original = Path]
                 ELSE NextPath("scan")
    /\ UNCHANGED <<file, cacheVars, procVars, op, checking, acked, faults, restarts, history>>

\* No content found: nothing to restore if every path is gone, an error otherwise.
RestoreNoOrigin ==
    /\ walk.pc = "scan" /\ ~MorePaths
    /\ walk' = Goto(IF \E j \in DOMAIN walk.paths : file[walk.paths[j]] # "absent"
                      THEN "failed" ELSE "succeeded")
    /\ UNCHANGED <<file, cacheVars, procVars, op, checking, acked, faults, restarts, history>>

RestoreStat ==
    /\ walk.pc = "restore" /\ MorePaths
    /\ walk' = IF file[Path] = "empty" THEN Goto("read") ELSE NextPath("restore")
    /\ UNCHANGED <<file, cacheVars, procVars, op, checking, acked, faults, restarts, history>>

RestoreRead ==
    /\ walk.pc = "read"
    /\ walk' = IF file[walk.original] = "absent" THEN Goto("failed")
               ELSE [walk EXCEPT !.pc = "write", !.buf = file[walk.original]]
    /\ UNCHANGED <<file, cacheVars, procVars, op, checking, acked, faults, restarts, history>>

\* MUTANT: no re-check under the lock.
RestoreWriteUnchecked ==
    /\ walk.pc = "write"
    /\ WriteFree
    /\ file' = [file EXCEPT ![Path] = walk.buf]
    /\ walk' = NextPath("restore")
    /\ UNCHANGED <<cacheVars, procVars, op, checking, acked, faults, restarts, history>>

\* The re-check under the lock stops only at a path that has content by now: a path
\* that has been deleted meanwhile is written again.
RestoreWrite ==
    /\ walk.pc = "write"
    /\ WriteFree
    /\ file' = IF file[Path] = "content" THEN file ELSE [file EXCEPT ![Path] = walk.buf]
    /\ walk' = NextPath("restore")
    /\ UNCHANGED <<cacheVars, procVars, op, checking, acked, faults, restarts, history>>

RestoreEnd ==
    /\ walk.pc = "restore" /\ ~MorePaths
    /\ walk' = Goto("succeeded")
    /\ UNCHANGED <<file, cacheVars, procVars, op, checking, acked, faults, restarts, history>>

-----------------------------------------------------------------------------
(* Failures and restarts.                                                    *)

\* The operation that holds the lock is between a call that writes a record or a file
\* and the one that makes the other match.
Halfway == \/ op.pc \in {"move", "record"}
           \/ op.kind = "walk" /\ walk.pc = "record"

\* The next call of the operation that holds the lock fails: it returns its error.  A failed
\* upload may have replaced content by a placeholder: its repository can count on nothing.
OpFails ==
    /\ op.kind \in FaultOps /\ faults < MaxFaults
    /\ op' = Idle
    /\ walk' = IF op.kind = "walk" THEN Goto("failed") ELSE walk
    /\ faults' = faults + 1
    /\ strayed' = (strayed \/ op.kind = "delete")
    /\ severed' = (severed \/ Halfway)
    /\ acked' = IF op.kind = "upload" THEN acked \ {op.repo} ELSE acked
    /\ UNCHANGED <<file, cacheVars, procVars, checking, restarts>>

CheckFails(r) ==
    /\ r \in checking
    /\ "check" \in FaultOps /\ faults < MaxFaults
    /\ checking' = checking \ {r}
    /\ faults' = faults + 1
    /\ UNCHANGED <<file, cacheVars, procVars, op, walk, acked, restarts, history>>

\* RunDedupeBlobs, at every start: the marker is removed (or, if that fails, made
\* invalid) with dedupe on, and obeyed with dedupe off.
StartProcess(setting) ==
    /\ dedupe' = setting
    /\ rebuildDone' = (~setting /\ marker = "complete")
    /\ walk' = NewWalk(IF ~setting /\ marker = "complete" THEN "off" ELSE "list")
    /\ marker' \in IF ~setting THEN {marker}
                   ELSE {"absent"} \cup (IF "marker" \in FaultOps /\ marker # "absent"
                                           THEN {"invalid", marker} ELSE {})

\* The process stops, between operations or, as a fault, in the middle of one.
Restart ==
    /\ restarts < MaxRestarts /\ restarts' = restarts + 1
    /\ LET interrupted == {k \in {op.kind} : k # "idle"}
                          \cup (IF checking = {} THEN {} ELSE {"check"})
       IN  /\ interrupted \subseteq FaultOps
           /\ interrupted # {} => faults < MaxFaults
           /\ faults' = IF interrupted = {} THEN faults ELSE faults + 1
    /\ \E setting \in BOOLEAN : <<dedupe, setting>> \in Changes /\ StartProcess(setting)
    /\ op' = Idle /\ checking' = {}
    /\ \/ UNCHANGED cacheVars
       \/ CacheLoss /\ orig' = NoRepo /\ dups' = {}
    /\ strayed' = (strayed \/ ~dedupe' \/ op.kind = "delete" \/ dups' # dups)
    /\ severed' = (severed \/ Halfway \/ ~HasCache' \/ dups' # dups)
    /\ UNCHANGED <<file, acked>>

-----------------------------------------------------------------------------
Init ==
    /\ file = [r \in Repos |-> "absent"]
    /\ orig = NoRepo /\ dups = {}
    /\ marker = "absent"
    /\ dedupe \in {c[1] : c \in Changes}
    /\ rebuildDone = FALSE
    /\ op = Idle /\ checking = {}
    /\ walk = NewWalk("list")
    /\ acked = {}
    /\ faults = 0 /\ restarts = 0 /\ strayed = ~dedupe
    /\ severed = ~HasCache

Upload == \/ \E r \in Repos : UploadMove(r) \/ UploadStart(r)
          \/ UploadMiss \/ UploadRename \/ UploadStale
          \/ UploadLink \/ UploadRecord \/ UploadSame
Check  == \E r \in Repos : \/ CheckFound(r) \/ CheckStale(r) \/ CheckLink(r)
                           \/ CheckRecord(r) \/ ReadStale(r)
Manifest == \E r \in Repos : PutManifest(r) \/ DeleteManifest(r)
Delete == (\E r \in Repos : DeleteStart(r)) \/ DeleteMove \/ DeleteRemove

\* The request handlers.
Serve == Upload \/ Check \/ Manifest \/ Delete

DedupeWalk == \/ DedupeStart \/ DedupeSkip \/ DedupeLookup \/ DedupeFromDisk
              \/ DedupePlaceholder \/ DedupeLink \/ DedupeRecord \/ DedupeEnd
RestoreWalk == \/ RestoreLookup \/ RestoreScan \/ RestoreNoOrigin
               \/ RestoreStat \/ RestoreRead \/ RestoreWrite \/ RestoreEnd
Walk == WalkList \/ WalkListed \/ DedupeWalk \/ RestoreWalk \/ WalkComplete

Faults == OpFails \/ (\E r \in Repos : CheckFails(r)) \/ Restart

Next == Serve \/ Walk \/ Faults

Spec == Init /\ [][Next]_vars

\* Goroutines that hold the lock or need no lock go on; the lock is handed to whoever
\* waits for it (sync.RWMutex does not starve a waiting writer).
OpStep == \/ UploadMiss \/ UploadRename \/ UploadStale \/ UploadLink \/ UploadRecord \/ UploadSame
          \/ DeleteMove \/ DeleteRemove
          \/ \E r \in Repos : CheckRecord(r)
FairSpec == /\ Spec
            /\ WF_vars(OpStep) /\ WF_vars(Walk)
            /\ SF_vars(DedupeStart) /\ SF_vars(RestoreWrite)

-----------------------------------------------------------------------------
(* Properties.                                                               *)

\* A repository that was told it has the blob (its upload or its CheckBlob succeeded)
\* and has not asked to delete it can read it: originalBlobInfo finds content at the
\* path or at the original the cache names.
AckedReadable == (op = Idle /\ HasCache) => \A r \in acked : Readable(r)

\* As long as some repository was promised the blob, its path is there and some path
\* still holds the content, so that the restore walk can fill every placeholder in.
NoContentLoss ==
    op = Idle => /\ \A r \in acked : file[r] # "absent"
                 /\ acked # {} => \E r \in Repos : file[r] = "content"

\* The five ways in which a record and the content come apart (severed) are the only
\* ones in which a promise is broken: an upload, a delete or the dedupe walk is cut off
\* between two calls that belong together, the dedupe walk empties the path that the
\* cache names as the original, a manifest is deleted at a path that the walk has
\* recorded, the cache is lost, or the store runs without it.
PromisesKept == ~severed => AckedReadable
LastCopyKept == ~severed => NoContentLoss

\* As long as dedupe stays on, the cache is kept and no delete is cut off, the content of the
\* digest is stored at most once.
StoredOnce ==
    (~strayed /\ op = Idle) => Cardinality({r \in Repos : file[r] = "content"}) <= 1

\* The gate of deleteBlobChecked: once the walk has opened it, content that the cache
\* knows nothing of has no placeholder behind it, so that its delete takes nothing away.
GateSound ==
    (dedupe /\ rebuildDone /\ op = Idle /\ orig = NoRepo) => \A r \in acked : file[r] # "empty"

\* "storage holds no deduped blobs, so deletes are safe without a walk": the marker
\* that makes RunDedupeBlobs skip the restore walk means that no placeholder is left.
MarkerSound == marker = "complete" => \A r \in Repos : file[r] # "empty"

-----------------------------------------------------------------------------
(* The inductive invariant behind PromisesKept and LastCopyKept.             *)

UploadAt(pc) == op.kind = "upload" /\ op.pc = pc
DeleteAt(pc) == op.kind = "delete" /\ op.pc = pc

OpShape ==
    \/ op = Idle
    \/ /\ op.repo \in Repos /\ checking = {} /\ ~IsManifest
       /\ UploadAt("lookup") \/ UploadAt("move") \/ UploadAt("record")
    \/ /\ op.repo \in Repos /\ checking = {}
       /\ DeleteAt("move") \/ DeleteAt("remove")
    \/ op.kind = "walk" /\ op.pc = "walk" /\ checking = {}

CacheShape ==
    /\ orig = NoRepo => dups = {}
    /\ orig # NoRepo => orig \in dups

\* The original holds the content, except between the two calls that put it there.
OriginHolds ==
    CASE UploadAt("move") -> orig = op.repo /\ dups = {op.repo}
      [] DeleteAt("move") -> /\ orig # NoRepo /\ file[orig] = "empty"
                             /\ file[op.repo] = "content"
      [] OTHER            -> orig # NoRepo => file[orig] = "content"

DupsPresent == ~UploadAt("move") => \A r \in dups : file[r] # "absent"

AckedBacked ==
    \A r \in acked : \/ file[r] = "content"
                     \/ file[r] = "empty" /\ r \in dups /\ ~UploadAt("move")
                     \/ UploadAt("record") /\ r = op.repo
                     \/ walk.pc = "record" /\ r = Path

InFlight ==
    /\ op.kind = "delete" => op.repo \notin dups /\ op.repo \notin acked
    /\ UploadAt("record") => orig # NoRepo /\ op.repo # orig /\ file[op.repo] = "empty"
    /\ \A r \in checking : file[r] = "empty" /\ orig # NoRepo

\* The dedupe walk holds the lock; once it has an original there is a record, and what it
\* is about to record is there.  The restore walk runs with dedupe off and meets no upload
\* halfway: its lookup in the cache, which takes no lock, would drop the record of one.
WalkApart ==
    /\ op.kind = "upload" => dedupe
    /\ walk.pc \in {"task", "dedupe", "record", "disk"} => dedupe
    /\ walk.pc \in {"origin", "scan", "restore", "read", "write"} => ~dedupe
    /\ walk.pc \in {"dedupe", "record", "disk"} <=> op.kind = "walk"
    /\ walk.pc \in {"list", "task", "disk"} => walk.original = NoRepo
    /\ walk.pc \in {"dedupe", "record"} /\ walk.original # NoRepo => orig # NoRepo
    /\ walk.pc = "record" => /\ file[Path] # "absent"
                             /\ walk.original = NoRepo => file[Path] = "content"

\* A record always leads to content: the original of a recorded digest holds it, every
\* recorded path is there, and every promised path is full or recorded, except between
\* the calls of the one operation that DedupeBlob, CheckBlob, deleteBlobChecked or
\* dedupeBlobs has in flight.
Joined == /\ HasCache /\ OpShape /\ CacheShape /\ OriginHolds /\ DupsPresent
          /\ AckedBacked /\ InFlight /\ WalkApart
ServeInv == TypeOK /\ (~severed => Joined)

-----------------------------------------------------------------------------
(* Liveness, and what the walks promise.                                     *)

\* A walk's task fails only for want of a content source; the paths that are deleted
\* under it are skipped ("Skipping keeps the run progressing").
WalkNeverFails == walk.pc # "failed"

=============================================================================
