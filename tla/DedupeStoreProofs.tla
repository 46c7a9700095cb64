------------------------- MODULE DedupeStoreProofs -------------------------
(* Proofs about DedupeStore, for any number of repositories, failures and    *)
(* restarts.                                                                 *)
EXTENDS DedupeStore, FiniteSetTheorems, TLAPS

-----------------------------------------------------------------------------
(* Type correctness of the whole specification.  It needs to know that an    *)
(* operation in flight names a repository and that the walk's index is in    *)
(* its list whenever it is about to use it.                                  *)

WalkShape ==
    /\ walk.pc \in {"record", "read", "write"} => walk.i <= Len(walk.paths)
    /\ walk.pc \in {"restore", "read", "write"} => walk.original \in Repos
    /\ op.kind \in {"upload", "delete"} => op.repo \in Repos

TypeInv == TypeOK /\ WalkShape

\* PutBlob of the cache keeps the types of its record.
LEMMA PutBlobType ==
    ASSUME TypeOK, NEW r \in Repos, PutBlob(r)
    PROVE  orig' \in Repos \cup {NoRepo} /\ dups' \subseteq Repos
BY DEF TypeOK, PutBlob

\* So does deleting an entry.
LEMMA DeleteRecordType ==
    ASSUME TypeOK, NEW r, DeleteRecord(r)
    PROVE  orig' \in Repos \cup {NoRepo} /\ dups' \subseteq Repos
BY DEF TypeOK, DeleteRecord

\* A thread that does nothing.
LEMMA IdleType ==
    Idle \in [kind: {"idle", "upload", "delete", "walk"}, repo: Repos \cup {NoRepo},
              pc: {"idle", "lookup", "move", "record", "remove", "walk"}]
BY DEF Idle

\* Type correctness at the start,
LEMMA TypeInit == Init => TypeInv
<1> SUFFICES ASSUME Init
             PROVE  TypeInv
    OBVIOUS
<1>1. dedupe \in BOOLEAN
    <2>1. PICK c \in Changes : dedupe = c[1]
        BY DEF Init
    <2>2. c \in BOOLEAN \X BOOLEAN
        BY <2>1, ConstantsAssumption
    <2> QED BY <2>1, <2>2
<1>2. walk \in WalkStates
    BY DEF Init, NewWalk, WalkPCs, WalkStates, FileStates
<1> QED BY <1>1, <1>2, IdleType, Zenon DEF Init, TypeInv, TypeOK, WalkShape, FileStates, NewWalk, Idle

\* of uploads,
LEMMA TypeUpload == TypeInv /\ Upload => TypeInv'
<1> USE IdleType DEF TypeInv, TypeOK, WalkShape, FileStates, cacheVars, procVars, history
<1>1. ASSUME TypeInv, NEW r \in Repos, UploadMove(r)
      PROVE  TypeInv'
    BY <1>1 DEF UploadMove
<1>2. ASSUME TypeInv, NEW r \in Repos, UploadStart(r)
      PROVE  TypeInv'
    BY <1>2 DEF UploadStart
<1>3. ASSUME TypeInv, UploadMiss
      PROVE  TypeInv'
    BY <1>3, PutBlobType DEF UploadMiss
<1>4. ASSUME TypeInv, UploadRename
      PROVE  TypeInv'
    BY <1>4 DEF UploadRename, Idle
<1>5. ASSUME TypeInv, UploadStale
      PROVE  TypeInv'
    BY <1>5, DeleteRecordType DEF UploadStale
<1>6. ASSUME TypeInv, UploadLink
      PROVE  TypeInv'
    BY <1>6 DEF UploadLink
<1>7. ASSUME TypeInv, UploadRecord
      PROVE  TypeInv'
    BY <1>7, PutBlobType DEF UploadRecord, Idle
<1>8. ASSUME TypeInv, UploadSame
      PROVE  TypeInv'
    BY <1>8 DEF UploadSame, Idle
<1> QED BY <1>1, <1>2, <1>3, <1>4, <1>5, <1>6, <1>7, <1>8 DEF Upload

\* and of the other requests.
LEMMA TypeRequests == TypeInv /\ (Check \/ Manifest \/ Delete) => TypeInv'
<1> USE IdleType DEF TypeInv, TypeOK, WalkShape, FileStates, cacheVars, procVars, history
<1>1. ASSUME TypeInv, NEW r \in Repos, CheckStale(r) \/ ReadStale(r)
      PROVE  TypeInv'
    BY <1>1, DeleteRecordType DEF CheckStale, ReadStale
<1>2. ASSUME TypeInv, NEW r \in Repos, CheckLink(r)
      PROVE  TypeInv'
    BY <1>2 DEF CheckLink
<1>3. ASSUME TypeInv, NEW r \in Repos, CheckRecord(r)
      PROVE  TypeInv'
    BY <1>3, PutBlobType DEF CheckRecord
<1>4. ASSUME TypeInv, NEW r \in Repos, PutManifest(r) \/ DeleteManifest(r)
      PROVE  TypeInv'
    <2>1. severed' \in BOOLEAN
        BY <1>4, Zenon DEF PutManifest, DeleteManifest
    <2> QED BY <1>4, <2>1 DEF PutManifest, DeleteManifest
<1>5. ASSUME TypeInv, NEW r \in Repos, DeleteStart(r)
      PROVE  TypeInv'
    <2>1. orig' \in Repos \cup {NoRepo} /\ dups' \subseteq Repos
        BY <1>5, DeleteRecordType DEF DeleteStart
    <2>2. op' \in {Idle, [kind |-> "delete", repo |-> r, pc |-> "remove"],
                   [kind |-> "delete", repo |-> r, pc |-> "move"]}
        BY <1>5 DEF DeleteStart
    <2> QED BY <1>5, <2>1, <2>2 DEF DeleteStart, Idle
<1>6. ASSUME TypeInv, DeleteMove
      PROVE  TypeInv'
    BY <1>6 DEF DeleteMove, Idle
<1>7. ASSUME TypeInv, DeleteRemove
      PROVE  TypeInv'
    BY <1>7 DEF DeleteRemove, Idle
<1>8. ASSUME TypeInv, NEW r \in Repos, CheckFound(r)
      PROVE  TypeInv'
    BY <1>8 DEF CheckFound
<1> QED BY <1>1, <1>2, <1>3, <1>4, <1>5, <1>6, <1>7, <1>8 DEF Check, Manifest, Delete

\* A path of the walk is a repository.
LEMMA PathType ==
    ASSUME walk \in WalkStates, NEW j \in Nat \ {0}, j <= Len(walk.paths)
    PROVE  walk.paths[j] \in Repos
BY DEF WalkStates

\* The walk after Goto.
LEMMA GotoType ==
    ASSUME walk \in WalkStates, NEW pc \in WalkPCs
    PROVE  /\ Goto(pc) \in WalkStates
           /\ Goto(pc).pc = pc /\ Goto(pc).i = walk.i
           /\ Goto(pc).paths = walk.paths /\ Goto(pc).original = walk.original
BY DEF Goto, WalkStates

\* The walk at its next path.
LEMMA NextPathType ==
    ASSUME walk \in WalkStates, NEW pc \in WalkPCs
    PROVE  /\ NextPath(pc) \in WalkStates
           /\ NextPath(pc).pc = pc
           /\ NextPath(pc).original = walk.original
<1> DEFINE n == walk.i + 1
<1>1. n \in Nat \ {0}
    BY DEF WalkStates
<1>2. NextPath(pc) = [walk EXCEPT !.pc = pc, !.i = n]
    BY DEF NextPath
<1> HIDE DEF n
<1> QED BY <1>1, <1>2 DEF WalkStates

\* The walk at another path.
LEMMA IndexType ==
    ASSUME walk \in WalkStates, NEW pc \in WalkPCs, NEW i \in Nat \ {0}
    PROVE  /\ [walk EXCEPT !.i = i, !.pc = pc] \in WalkStates
           /\ [walk EXCEPT !.i = i, !.pc = pc].pc = pc
BY DEF WalkStates

\* Type correctness of the listing,
LEMMA TypeList == TypeInv /\ (WalkList \/ WalkListed \/ WalkComplete) => TypeInv'
<1>1. ASSUME TypeInv, WalkList
      PROVE  TypeInv'
    <2>1. Order[walk.i] \in Repos
        BY <1>1, ConstantsAssumption DEF WalkList, TypeInv, TypeOK, WalkStates
    <2> DEFINE n == walk.i + 1
               ps == IF file[Order[walk.i]] = "absent" THEN walk.paths
                                                       ELSE Append(walk.paths, Order[walk.i])
    <2>a. n \in Nat \ {0} /\ ps \in Seq(Repos)
        BY <1>1, <2>1 DEF TypeInv, TypeOK, WalkStates
    <2>b. walk' = [walk EXCEPT !.i = n, !.paths = ps] /\ walk \in WalkStates /\ walk.pc = "list"
        BY <1>1 DEF WalkList, TypeInv, TypeOK
    <2> HIDE DEF n, ps
    <2>2. walk' \in WalkStates /\ walk'.pc = "list"
        BY <2>a, <2>b DEF WalkStates
    <2> QED BY <1>1, <2>2 DEF WalkList, TypeInv, TypeOK, WalkShape, cacheVars, procVars, history
<1>2. ASSUME TypeInv, WalkListed
      PROVE  TypeInv'
    <2> DEFINE pc == IF walk.paths = <<>> THEN "succeeded" ELSE IF dedupe THEN "task" ELSE "origin"
    <2>a. pc \in {"succeeded", "task", "origin"}
        OBVIOUS
    <2>b. walk' = [walk EXCEPT !.i = 1, !.pc = pc] /\ walk \in WalkStates
        BY <1>2 DEF WalkListed, TypeInv, TypeOK
    <2> HIDE DEF pc
    <2>1. walk' \in WalkStates /\ walk'.pc \in {"succeeded", "task", "origin"}
        <3>1. pc \in WalkPCs
            BY <2>a DEF WalkPCs
        <3>2. 1 \in Nat \ {0}
            OBVIOUS
        <3>3. /\ [walk EXCEPT !.i = 1, !.pc = pc] \in WalkStates
              /\ [walk EXCEPT !.i = 1, !.pc = pc].pc = pc
            BY <2>b, <3>1, <3>2, IndexType, Zenon
        <3> QED BY <2>a, <2>b, <3>3
    <2> QED BY <1>2, <2>1 DEF WalkListed, TypeInv, TypeOK, WalkShape, cacheVars, procVars, history
<1>3. ASSUME TypeInv, WalkComplete
      PROVE  TypeInv'
    <2>1. walk' \in WalkStates /\ walk'.pc = "done"
        BY <1>3, GotoType DEF WalkComplete, TypeInv, TypeOK, WalkPCs
    <2>2. marker' \in {"absent", "complete", "invalid"}
        BY <1>3 DEF WalkComplete, TypeInv, TypeOK
    <2> QED BY <1>3, <2>1, <2>2 DEF WalkComplete, TypeInv, TypeOK, WalkShape, cacheVars, history
<1> QED BY <1>1, <1>2, <1>3

\* of the walk that dedupes,
LEMMA TypeDedupeWalk == TypeInv /\ DedupeWalk => TypeInv'
<1> USE IdleType DEF TypeInv, TypeOK, WalkShape, cacheVars, procVars, history
<1>1. ASSUME TypeInv, DedupeStart
      PROVE  TypeInv'
    <2>1. walk' \in WalkStates /\ walk'.pc = "dedupe"
        BY <1>1, GotoType DEF DedupeStart, WalkPCs
    <2> QED BY <1>1, <2>1 DEF DedupeStart
<1>2. ASSUME TypeInv, DedupeSkip
      PROVE  TypeInv'
    <2>1. walk' \in WalkStates /\ walk'.pc = "dedupe"
        BY <1>2, NextPathType DEF DedupeSkip, WalkPCs
    <2> QED BY <1>2, <2>1 DEF DedupeSkip
<1>3. ASSUME TypeInv, DedupeEnd
      PROVE  TypeInv'
    <2>1. walk' \in WalkStates /\ walk'.pc = "succeeded"
        BY <1>3, GotoType DEF DedupeEnd, WalkPCs
    <2> QED BY <1>3, <2>1 DEF DedupeEnd, Idle
<1>4. ASSUME TypeInv, DedupeLookup
      PROVE  TypeInv'
    <2>a. "disk" \in WalkPCs /\ walk.pc = "dedupe" /\ orig \in Repos \cup {NoRepo}
        BY <1>4 DEF DedupeLookup, WalkPCs
    <2>b. walk' = [walk EXCEPT !.original = orig] \/ walk' = Goto("disk")
        BY <1>4 DEF DedupeLookup
    <2>1. walk' \in WalkStates /\ walk'.pc \in {"dedupe", "disk"}
        BY <1>4, <2>a, <2>b, GotoType DEF WalkStates
    <2>2. orig' \in Repos \cup {NoRepo} /\ dups' \subseteq Repos
        BY <1>4, DeleteRecordType DEF DedupeLookup
    <2> QED BY <1>4, <2>1, <2>2 DEF DedupeLookup
<1>5. ASSUME TypeInv, DedupeFromDisk
      PROVE  TypeInv'
    <2>1. CASE walk' = Goto("failed") /\ op' = Idle /\ UNCHANGED cacheVars
        <3>1. walk' \in WalkStates /\ walk'.pc = "failed"
            BY <1>5, <2>1, GotoType DEF WalkPCs
        <3> QED BY <1>5, <2>1, <3>1 DEF DedupeFromDisk, Idle
    <2>2. ASSUME NEW j \in DOMAIN walk.paths,
                 walk' = [walk EXCEPT !.pc = "dedupe", !.original = walk.paths[j]],
                 IF orig = NoRepo THEN PutBlob(walk.paths[j]) ELSE UNCHANGED cacheVars,
                 UNCHANGED op
          PROVE  TypeInv'
        <3>1. walk.paths[j] \in Repos
            BY <1>5, <2>2 DEF WalkStates
        <3>2. orig' \in Repos \cup {NoRepo} /\ dups' \subseteq Repos
            BY <1>5, <2>2, <3>1, PutBlobType
        <3>3. walk' \in WalkStates /\ walk'.pc = "dedupe"
            BY <1>5, <2>2, <3>1 DEF WalkStates, WalkPCs
        <3>4. UNCHANGED <<file, procVars, op, checking, acked, faults, restarts, history>>
            BY <1>5, <2>2 DEF DedupeFromDisk
        <3> QED BY <1>5, <3>2, <3>3, <3>4
    <2> QED BY <1>5, <2>1, <2>2 DEF DedupeFromDisk
<1>6. ASSUME TypeInv, DedupePlaceholder
      PROVE  TypeInv'
    <2>1. Path \in Repos
        BY <1>6, PathType DEF DedupePlaceholder, Path, MorePaths, WalkStates
    <2>2. orig' \in Repos \cup {NoRepo} /\ dups' \subseteq Repos
        BY <1>6, <2>1, PutBlobType DEF DedupePlaceholder
    <2>3. walk' \in WalkStates /\ walk'.pc = "dedupe"
        BY <1>6, NextPathType DEF DedupePlaceholder, WalkPCs
    <2> QED BY <1>6, <2>2, <2>3 DEF DedupePlaceholder
<1>7. ASSUME TypeInv, DedupeLink
      PROVE  TypeInv'
    <2>1. /\ walk' \in WalkStates /\ walk'.pc = "record"
          /\ walk'.i = walk.i /\ walk'.paths = walk.paths
        BY <1>7, GotoType DEF DedupeLink, WalkPCs
    <2>2. file' \in [Repos -> FileStates]
        BY <1>7 DEF DedupeLink, FileStates
    <2> QED BY <1>7, <2>1, <2>2 DEF DedupeLink, MorePaths
<1>8. ASSUME TypeInv, DedupeRecord
      PROVE  TypeInv'
    <2>1. Path \in Repos
        BY <1>8, PathType DEF DedupeRecord, Path, WalkStates
    <2>2. orig' \in Repos \cup {NoRepo} /\ dups' \subseteq Repos
        BY <1>8, <2>1, PutBlobType DEF DedupeRecord
    <2> DEFINE n == walk.i + 1
    <2>a. n \in Nat \ {0} /\ "dedupe" \in WalkPCs
        BY <1>8 DEF WalkStates, WalkPCs
    <2>b. walk' = [walk EXCEPT !.pc = "dedupe", !.i = n, !.original = Path]
        BY <1>8 DEF DedupeRecord
    <2> HIDE DEF n
    <2>3. walk' \in WalkStates /\ walk'.pc = "dedupe"
        <3> DEFINE d == "dedupe"
                   p == Path
        <3>1. walk \in WalkStates /\ d \in WalkPCs /\ p \in Repos /\ d = "dedupe"
            BY <1>8, <2>1, <2>a
        <3>2. walk' = [walk EXCEPT !.pc = d, !.i = n, !.original = p]
            BY <2>b
        <3> HIDE DEF d, p, TypeInv, TypeOK, WalkShape
        <3> QED BY <2>a, <3>1, <3>2 DEF WalkStates
    <2> QED BY <1>8, <2>2, <2>3 DEF DedupeRecord
<1> QED BY <1>1, <1>2, <1>3, <1>4, <1>5, <1>6, <1>7, <1>8 DEF DedupeWalk

\* of the walk that restores,
LEMMA TypeRestoreWalk == TypeInv /\ RestoreWalk => TypeInv'
<1> USE DEF TypeInv, TypeOK, WalkShape, cacheVars, procVars, history
<1>1. ASSUME TypeInv, RestoreLookup
      PROVE  TypeInv'
    <2>1. /\ walk' \in WalkStates /\ walk'.pc \in {"restore", "scan"}
          /\ walk'.pc = "restore" => walk'.original \in Repos
        <3>1. CASE orig # NoRepo /\ walk' = [walk EXCEPT !.pc = "restore", !.original = orig]
            BY <1>1, <3>1 DEF WalkStates, WalkPCs
        <3>2. CASE walk' = Goto("scan")
            BY <1>1, <3>2, GotoType DEF WalkPCs
        <3> QED BY <1>1, <3>1, <3>2 DEF RestoreLookup
    <2>2. orig' \in Repos \cup {NoRepo} /\ dups' \subseteq Repos
        BY <1>1, DeleteRecordType DEF RestoreLookup
    <2> QED BY <1>1, <2>1, <2>2 DEF RestoreLookup
<1>2. ASSUME TypeInv, RestoreScan
      PROVE  TypeInv'
    <2>1. Path \in Repos
        BY <1>2, PathType DEF RestoreScan, Path, MorePaths, WalkStates
    <2>2. /\ walk' \in WalkStates /\ walk'.pc \in {"restore", "scan"}
          /\ walk'.pc = "restore" => walk'.original \in Repos
        <3>1. "restore" \in WalkPCs /\ "scan" \in WalkPCs /\ 1 \in Nat \ {0} /\ walk \in WalkStates
            BY <1>2 DEF WalkPCs
        <3>2. CASE walk' = [walk EXCEPT !.pc = "restore", !.i = 1, !.original = Path]
            <4> DEFINE d == "restore"
                       n == 1
                       p == Path
            <4>1. d \in WalkPCs /\ p \in Repos /\ n \in Nat \ {0} /\ d = "restore"
                BY <2>1, <3>1
            <4>2. walk' = [walk EXCEPT !.pc = d, !.i = n, !.original = p]
                BY <3>2
            <4> HIDE DEF d, n, p, TypeInv, TypeOK, WalkShape
            <4> QED BY <3>1, <4>1, <4>2 DEF WalkStates
        <3>3. CASE walk' = NextPath("scan")
            BY <3>1, <3>3, NextPathType
        <3> QED BY <1>2, <3>2, <3>3 DEF RestoreScan
    <2> QED BY <1>2, <2>2 DEF RestoreScan
<1>3. ASSUME TypeInv, RestoreNoOrigin
      PROVE  TypeInv'
    <2>1. walk' \in WalkStates /\ walk'.pc \in {"failed", "succeeded"}
        BY <1>3, GotoType DEF RestoreNoOrigin, WalkPCs
    <2> QED BY <1>3, <2>1 DEF RestoreNoOrigin
<1>4. ASSUME TypeInv, RestoreStat
      PROVE  TypeInv'
    <2>1. /\ walk' \in WalkStates /\ walk'.pc \in {"read", "restore"}
          /\ walk'.original = walk.original
          /\ walk'.pc = "read" => walk'.i <= Len(walk'.paths)
        BY <1>4, GotoType, NextPathType DEF RestoreStat, MorePaths, WalkPCs
    <2> QED BY <1>4, <2>1 DEF RestoreStat
<1>5. ASSUME TypeInv, RestoreRead
      PROVE  TypeInv'
    <2>1. CASE file[walk.original] = "absent"
        <3>1. walk' \in WalkStates /\ walk'.pc = "failed"
            BY <1>5, <2>1, GotoType DEF RestoreRead, WalkPCs
        <3> QED BY <1>5, <3>1 DEF RestoreRead
    <2>2. CASE file[walk.original] # "absent"
        <3>1. /\ walk' \in WalkStates /\ walk'.pc = "write"
              /\ walk'.original = walk.original
              /\ walk'.i = walk.i /\ walk'.paths = walk.paths
            <4>1. file[walk.original] \in {"empty", "content"}
                BY <1>5, <2>2 DEF RestoreRead, FileStates
            <4> QED BY <1>5, <2>2, <4>1 DEF RestoreRead, WalkPCs, WalkStates
        <3> QED BY <1>5, <3>1 DEF RestoreRead
    <2> QED BY <2>1, <2>2
<1>6. ASSUME TypeInv, RestoreWrite
      PROVE  TypeInv'
    <2>1. /\ walk' \in WalkStates /\ walk'.pc = "restore"
          /\ walk'.original = walk.original
        BY <1>6, NextPathType DEF RestoreWrite, WalkPCs
    <2>2. file' \in [Repos -> FileStates]
        BY <1>6 DEF RestoreWrite, WalkStates, FileStates
    <2> QED BY <1>6, <2>1, <2>2 DEF RestoreWrite
<1>7. ASSUME TypeInv, RestoreEnd
      PROVE  TypeInv'
    <2>1. walk' \in WalkStates /\ walk'.pc = "succeeded"
        BY <1>7, GotoType DEF RestoreEnd, WalkPCs
    <2> QED BY <1>7, <2>1 DEF RestoreEnd
<1> QED BY <1>1, <1>2, <1>3, <1>4, <1>5, <1>6, <1>7 DEF RestoreWalk

\* of crashes and failing calls,
LEMMA TypeFaults == TypeInv /\ Faults => TypeInv'
<1> USE IdleType DEF TypeInv, TypeOK, WalkShape, cacheVars, procVars, history
<1>1. ASSUME TypeInv, OpFails
      PROVE  TypeInv'
    <2>1. walk' \in WalkStates /\ (walk' = walk \/ walk'.pc = "failed")
        BY <1>1, GotoType DEF OpFails, WalkPCs
    <2> QED BY <1>1, <2>1 DEF OpFails, Idle
<1>2. ASSUME TypeInv, NEW r \in Repos, CheckFails(r)
      PROVE  TypeInv'
    BY <1>2 DEF CheckFails
<1>3. ASSUME TypeInv, Restart
      PROVE  TypeInv'
    <2>1. PICK setting \in BOOLEAN : StartProcess(setting)
        BY <1>3 DEF Restart
    <2>2. walk' \in WalkStates
        BY <2>1 DEF StartProcess, NewWalk, WalkPCs, WalkStates, FileStates
    <2>3. walk'.pc \in {"off", "list"}
        BY <2>1 DEF StartProcess, NewWalk
    <2>4. faults' \in Nat /\ restarts' \in Nat
        BY <1>3 DEF Restart
    <2>5. dedupe' \in BOOLEAN /\ rebuildDone' \in BOOLEAN
        BY <2>1, Zenon DEF StartProcess
    <2>6. marker' \in {"absent", "complete", "invalid"}
        BY <1>3, <2>1 DEF StartProcess
    <2>7. op' = Idle /\ checking' = {} /\ file' = file /\ acked' = acked
        BY <1>3 DEF Restart
    <2>8. orig' \in Repos \cup {NoRepo} /\ dups' \subseteq Repos
        BY <1>3 DEF Restart
    <2>9. strayed' \in BOOLEAN /\ severed' \in BOOLEAN
        BY <1>3, Zenon DEF Restart
    <2> QED BY <1>3, <2>2, <2>3, <2>4, <2>5, <2>6, <2>7, <2>8, <2>9 DEF Idle
<1> QED BY <1>1, <1>2, <1>3 DEF Faults

\* of steps of others,
LEMMA TypeStutter == TypeInv /\ UNCHANGED vars => TypeInv'
BY DEF TypeInv, TypeOK, WalkShape, vars

\* and so of every step.
LEMMA TypeStep == TypeInv /\ [Next]_vars => TypeInv'
BY TypeUpload, TypeRequests, TypeList, TypeDedupeWalk, TypeRestoreWalk, TypeFaults, TypeStutter
DEF Next, Serve, Walk

\* Every behaviour of the store, walks, failures and restarts included, is well typed.
THEOREM TypeCorrect == Spec => []TypeOK
<1>1. TypeInv /\ [Next]_vars => TypeInv'
    BY TypeStep
<1>2. TypeInv => TypeOK
    BY DEF TypeInv
<1> QED BY TypeInit, <1>1, <1>2, PTL DEF Spec

-----------------------------------------------------------------------------
(* PromisesKept and LastCopyKept, for every deployment: Joined is inductive  *)
(* as long as no record and its content come apart.                          *)

ServeInd == /\ HasCache /\ OpShape /\ CacheShape /\ OriginHolds /\ DupsPresent
            /\ AckedBacked /\ InFlight

\* That every acknowledged blob can be served holds at the start, if there is a cache.
LEMMA ServeInit == Init /\ ~severed => ServeInd /\ WalkApart
<1> SUFFICES ASSUME Init, ~severed
             PROVE  ServeInd /\ WalkApart
    OBVIOUS
<1>1. HasCache
    BY Zenon DEF Init, HasCache
<1>2. walk.pc = "list" /\ walk.original = NoRepo
    BY DEF Init, NewWalk
<1> QED BY <1>1, <1>2, ConstantsAssumption
DEF Init, ServeInd, OpShape, CacheShape, OriginHolds, DupsPresent, AckedBacked, InFlight,
    UploadAt, DeleteAt, Idle, WalkApart

\* Uploads keep it,
LEMMA ServeUpload == TypeInv /\ ServeInd /\ WalkApart /\ Upload => ServeInd'
<1> USE ConstantsAssumption DEF TypeInv, TypeOK, FileStates, ServeInd, OpShape, CacheShape,
        OriginHolds, DupsPresent, AckedBacked, InFlight, UploadAt, DeleteAt, Idle,
        cacheVars, procVars, history, HasCache, WalkApart, Path
<1>1. ASSUME TypeInv, ServeInd, WalkApart, NEW r \in Repos, UploadMove(r)
      PROVE  ServeInd'
    BY <1>1 DEF UploadMove, WriteFree
<1>2. ASSUME TypeInv, ServeInd, WalkApart, NEW r \in Repos, UploadStart(r)
      PROVE  ServeInd'
    BY <1>2 DEF UploadStart, WriteFree
<1>3. ASSUME TypeInv, ServeInd, WalkApart, UploadMiss
      PROVE  ServeInd'
    BY <1>3 DEF UploadMiss, PutBlob
<1>4. ASSUME TypeInv, ServeInd, WalkApart, UploadRename
      PROVE  ServeInd'
    BY <1>4 DEF UploadRename
<1>5. ASSUME TypeInv, ServeInd, WalkApart, UploadStale
      PROVE  ServeInd'
    BY <1>5 DEF UploadStale
<1>6. ASSUME TypeInv, ServeInd, WalkApart, UploadLink
      PROVE  ServeInd'
    BY <1>6 DEF UploadLink
<1>7. ASSUME TypeInv, ServeInd, WalkApart, UploadRecord
      PROVE  ServeInd'
    BY <1>7 DEF UploadRecord, PutBlob
<1>8. ASSUME TypeInv, ServeInd, WalkApart, UploadSame
      PROVE  ServeInd'
    BY <1>8 DEF UploadSame
<1> QED BY <1>1, <1>2, <1>3, <1>4, <1>5, <1>6, <1>7, <1>8 DEF Upload

\* so do checks and manifests, unless one is deleted that the dedupe walk has recorded,
LEMMA ServeCheck ==
    TypeInv /\ ServeInd /\ WalkApart /\ (Check \/ Manifest) /\ ~severed' => ServeInd'
<1> USE ConstantsAssumption DEF TypeInv, TypeOK, FileStates, ServeInd, OpShape, CacheShape,
        OriginHolds, DupsPresent, AckedBacked, InFlight, UploadAt, DeleteAt, Idle,
        cacheVars, procVars, history, CheckLock, WriteFree, ReadFree, HasCache, WalkApart, Path
<1>1. ASSUME TypeInv, ServeInd, WalkApart, NEW r \in Repos, CheckStale(r) \/ ReadStale(r)
      PROVE  ServeInd'
    BY <1>1 DEF CheckStale, ReadStale
<1>2. ASSUME TypeInv, ServeInd, WalkApart, NEW r \in Repos, CheckLink(r)
      PROVE  ServeInd'
    BY <1>2 DEF CheckLink
<1>3. ASSUME TypeInv, ServeInd, WalkApart, NEW r \in Repos, CheckRecord(r)
      PROVE  ServeInd'
    BY <1>3 DEF CheckRecord, PutBlob
<1>4. ASSUME TypeInv, ServeInd, WalkApart, NEW r \in Repos, PutManifest(r) \/ CheckFound(r)
      PROVE  ServeInd'
    BY <1>4 DEF PutManifest, CheckFound
<1>5. ASSUME TypeInv, ServeInd, WalkApart, NEW r \in Repos, DeleteManifest(r), ~severed'
      PROVE  ServeInd'
    <2>1. r \notin dups
        BY <1>5 DEF DeleteManifest
    <2> QED BY <1>5, <2>1 DEF DeleteManifest
<1> QED BY <1>1, <1>2, <1>3, <1>4, <1>5 DEF Check, Manifest

\* deletes, which move the content to a duplicate first,
LEMMA ServeDelete == TypeInv /\ ServeInd /\ WalkApart /\ Delete => ServeInd'
<1> USE ConstantsAssumption DEF TypeInv, TypeOK, FileStates, ServeInd, OpShape, CacheShape,
        OriginHolds, DupsPresent, AckedBacked, InFlight, UploadAt, DeleteAt, Idle,
        cacheVars, procVars, history, WriteFree, WalkApart, Path
<1>1. ASSUME TypeInv, ServeInd, WalkApart, NEW r \in Repos, DeleteStart(r)
      PROVE  ServeInd'
    <2>0. HasCache /\ HasCache'
        BY <1>1 DEF DeleteStart, HasCache
    <2>1. CASE ~HasBlob(r)
        BY <1>1, <2>0, <2>1 DEF DeleteStart, HasBlob
    <2>2. CASE HasBlob(r) /\ orig # r
        BY <1>1, <2>0, <2>2 DEF DeleteStart, HasBlob, DeleteRecord
    <2>3. CASE HasBlob(r) /\ orig = r /\ orig' = NoRepo
        BY <1>1, <2>0, <2>3 DEF DeleteStart, HasBlob, DeleteRecord
    <2>4. CASE HasBlob(r) /\ orig = r /\ orig' # NoRepo
        <3>1. /\ orig' \in dups' /\ dups' = dups \ {r} /\ file' = file /\ acked' = acked \ {r}
              /\ walk' = walk /\ checking' = checking /\ op = Idle /\ checking = {}
            BY <1>1, <2>0, <2>4 DEF DeleteStart, HasBlob, DeleteRecord
        <3>2. op' = IF file[orig'] = "empty"
                      THEN [kind |-> "delete", repo |-> r, pc |-> "move"] ELSE Idle
            BY <1>1, <2>0, <2>4 DEF DeleteStart, HasBlob
        <3>3. file[r] = "content" /\ file[orig'] # "absent"
            BY <1>1, <2>4, <3>1 DEF DeleteStart
        <3> QED BY <1>1, <2>0, <2>4, <3>1, <3>2, <3>3
    <2> QED BY <2>1, <2>2, <2>3, <2>4
<1>2. ASSUME TypeInv, ServeInd, WalkApart, DeleteMove
      PROVE  ServeInd'
    BY <1>2 DEF DeleteMove, HasCache
<1>3. ASSUME TypeInv, ServeInd, WalkApart, DeleteRemove
      PROVE  ServeInd'
    BY <1>3 DEF DeleteRemove, HasCache
<1> QED BY <1>1, <1>2, <1>3 DEF Delete

\* failures and restarts, unless an operation is cut off halfway or the cache is gone,
LEMMA ServeFaults == TypeInv /\ ServeInd /\ WalkApart /\ Faults /\ ~severed' => ServeInd'
<1> USE ConstantsAssumption DEF TypeInv, TypeOK, ServeInd, OpShape, CacheShape,
        OriginHolds, DupsPresent, AckedBacked, InFlight, UploadAt, DeleteAt, Idle,
        cacheVars, procVars, history, Path, WalkApart
<1>1. ASSUME TypeInv, ServeInd, WalkApart, OpFails, ~severed'
      PROVE  ServeInd'
    <2>1. op' = Idle /\ UNCHANGED <<file, orig, dups, checking>> /\ acked' \subseteq acked
        BY <1>1 DEF OpFails
    <2>2. op.pc \notin {"move", "record"} /\ walk.pc # "record"
        BY <1>1 DEF OpFails, Halfway
    <2>3. HasCache'
        BY <1>1 DEF OpFails, HasCache
    <2> QED BY <1>1, <2>1, <2>2, <2>3
<1>2. ASSUME TypeInv, ServeInd, WalkApart, NEW r \in Repos, CheckFails(r)
      PROVE  ServeInd'
    BY <1>2 DEF CheckFails, HasCache
<1>3. ASSUME TypeInv, ServeInd, WalkApart, Restart, ~severed'
      PROVE  ServeInd'
    <2>1. op' = Idle /\ checking' = {} /\ UNCHANGED <<file, dups, acked>> /\ HasCache'
        BY <1>3 DEF Restart
    <2>2. op.pc \notin {"move", "record"} /\ walk.pc # "record"
        BY <1>3 DEF Restart, Halfway
    <2>3. orig' = orig
        BY <1>3, <2>1 DEF Restart
    <2> QED BY <1>3, <2>1, <2>2, <2>3
<1> QED BY <1>1, <1>2, <1>3 DEF Faults

\* steps of others,
LEMMA ServeStutter == ServeInd /\ UNCHANGED vars => ServeInd'
BY DEF ServeInd, OpShape, CacheShape, OriginHolds, DupsPresent, AckedBacked, InFlight,
       UploadAt, DeleteAt, vars, HasCache, Path

\* the dedupe walk, unless it empties the path that the cache names as the original,
LEMMA ServeDedupe == TypeInv /\ ServeInd /\ WalkApart /\ DedupeWalk /\ ~severed' => ServeInd'
<1> USE ConstantsAssumption DEF ServeInd, OpShape, CacheShape, OriginHolds, DupsPresent,
        AckedBacked, InFlight, UploadAt, DeleteAt, cacheVars, procVars, history, HasCache
<1>1. ASSUME TypeInv, ServeInd, WalkApart, DedupeStart
      PROVE  ServeInd'
    BY <1>1 DEF DedupeStart, WriteFree, Goto, TypeInv, TypeOK, WalkStates, Idle
<1>2. ASSUME TypeInv, ServeInd, WalkApart, DedupeSkip
      PROVE  ServeInd'
    <2>1. walk'.pc # "record" /\ walk.pc # "record"
        BY <1>2 DEF DedupeSkip, NextPath, TypeInv, TypeOK, WalkStates
    <2> QED BY <1>2, <2>1 DEF DedupeSkip
<1>3. ASSUME TypeInv, ServeInd, WalkApart, DedupeLookup
      PROVE  ServeInd'
    <2>1. op.kind = "walk" /\ walk.pc = "dedupe"
        BY <1>3 DEF DedupeLookup, WalkApart
    <2>2. orig # NoRepo => file[orig] # "absent"
        BY <1>3, <2>1 DEF TypeInv, TypeOK
    <2>3. UNCHANGED <<orig, dups>> /\ walk'.pc # "record"
        BY <1>3, <2>2 DEF DedupeLookup, Goto, TypeInv, TypeOK, WalkStates
    <2> QED BY <1>3, <2>1, <2>3 DEF DedupeLookup
<1>4. ASSUME TypeInv, ServeInd, WalkApart, DedupeFromDisk
      PROVE  ServeInd'
    <2>1. op.kind = "walk" /\ walk.pc = "disk" /\ walk'.pc # "record"
        BY <1>4 DEF DedupeFromDisk, WalkApart, Goto, TypeInv, TypeOK, WalkStates
    <2>2. CASE UNCHANGED cacheVars
        <3>1. UNCHANGED <<file, orig, dups, dedupe, checking, acked>> /\ op' \in {op, Idle}
            BY <1>4, <2>2 DEF DedupeFromDisk
        <3> QED BY <1>4, <2>1, <3>1 DEF Idle
    <2>3. ASSUME NEW j \in DOMAIN walk.paths, FirstContent(j), orig = NoRepo,
                 PutBlob(walk.paths[j]), UNCHANGED op
          PROVE  ServeInd'
        <3>1. walk.paths[j] \in Repos
            BY <1>4 DEF TypeInv, TypeOK, WalkStates
        <3>2. file[walk.paths[j]] = "content"
            BY <2>3 DEF FirstContent, HoldsContent
        <3> QED BY <1>4, <2>1, <2>3, <3>1, <3>2 DEF DedupeFromDisk, PutBlob
    <2> QED BY <1>4, <2>2, <2>3 DEF DedupeFromDisk
<1>5. ASSUME TypeInv, ServeInd, WalkApart, DedupePlaceholder
      PROVE  ServeInd'
    <2>1. /\ op.kind = "walk" /\ orig # NoRepo /\ walk.pc = "dedupe" /\ walk'.pc # "record"
          /\ Path \in Repos
        BY <1>5, PathType DEF DedupePlaceholder, MorePaths, Path, WalkApart, NextPath, TypeInv, TypeOK,
                              WalkStates
    <2>2. orig' = orig /\ dups' \in {dups, dups \cup {Path}}
        BY <1>5, <2>1 DEF DedupePlaceholder, PutBlob
    <2>3. UNCHANGED <<file, op, checking, acked, dedupe>> /\ file[Path] = "empty"
        BY <1>5 DEF DedupePlaceholder
    <2> QED BY <1>5, <2>1, <2>2, <2>3
<1>6. ASSUME TypeInv, ServeInd, WalkApart, DedupeLink, ~severed'
      PROVE  ServeInd'
    <2>1. op.kind = "walk" /\ walk.pc = "dedupe" /\ Path \in Repos
        BY <1>6, PathType DEF DedupeLink, MorePaths, Path, WalkApart, TypeInv, TypeOK, WalkStates
    <2>2. walk'.pc = "record" /\ Path' = Path
        BY <1>6 DEF DedupeLink, Goto, Path, TypeInv, TypeOK, WalkStates
    <2>3. /\ UNCHANGED <<orig, dups, op, checking, acked, dedupe>>
          /\ file' = file \/ (file' = [file EXCEPT ![Path] = "empty"] /\ Path # orig)
        BY <1>6 DEF DedupeLink
    <2> QED BY <1>6, <2>1, <2>2, <2>3 DEF TypeInv, TypeOK, FileStates
<1>7. ASSUME TypeInv, ServeInd, WalkApart, DedupeRecord
      PROVE  ServeInd'
    <2>1. op.kind = "walk" /\ walk.pc = "record" /\ Path \in Repos /\ walk'.pc # "record"
        BY <1>7, PathType DEF DedupeRecord, Path, WalkApart, WalkShape, TypeInv, TypeOK, WalkStates
    <2>2. UNCHANGED <<file, op, checking, acked, dedupe>> /\ Path \in dups'
        BY <1>7 DEF DedupeRecord, HasBlob, PutBlob
    <2>3. dups' \in {dups, dups \cup {Path}}
        BY <1>7 DEF DedupeRecord, PutBlob
    <2>4. file[Path] # "absent" /\ (orig = NoRepo => file[Path] = "content")
        BY <1>7, <2>1 DEF WalkApart
    <2>5. orig' = IF orig = NoRepo THEN Path ELSE orig
        BY <1>7 DEF DedupeRecord, PutBlob, HasBlob
    <2> QED BY <1>7, <2>1, <2>2, <2>3, <2>4, <2>5 DEF TypeInv, TypeOK, FileStates
<1>8. ASSUME TypeInv, ServeInd, WalkApart, DedupeEnd
      PROVE  ServeInd'
    <2>1. op.kind = "walk" /\ walk.pc = "dedupe" /\ walk'.pc # "record"
        BY <1>8 DEF DedupeEnd, WalkApart, Goto, TypeInv, TypeOK, WalkStates
    <2> QED BY <1>8, <2>1 DEF DedupeEnd, Idle
<1> QED BY <1>1, <1>2, <1>3, <1>4, <1>5, <1>6, <1>7, <1>8 DEF DedupeWalk

\* and the restore walk, which meets no upload halfway.
LEMMA ServeRestore ==
    TypeInv /\ ServeInd /\ WalkApart
      /\ (WalkList \/ WalkListed \/ WalkComplete \/ RestoreWalk) => ServeInd'
<1> USE ConstantsAssumption DEF ServeInd, OpShape, CacheShape, OriginHolds, DupsPresent,
        AckedBacked, InFlight, UploadAt, DeleteAt, cacheVars, procVars, history, HasCache
<1> SUFFICES ASSUME TypeInv, ServeInd, WalkApart,
                    WalkList \/ WalkListed \/ WalkComplete \/ RestoreWalk
             PROVE  ServeInd'
    OBVIOUS
<1>0. walk.pc # "record" /\ walk'.pc # "record"
    BY DEF TypeInv, TypeOK, WalkStates, WalkList, WalkListed, WalkComplete, RestoreWalk,
        RestoreLookup, RestoreScan, RestoreNoOrigin, RestoreStat, RestoreRead, RestoreWrite,
        RestoreEnd, Goto, NextPath
<1>1. CASE WalkList \/ WalkListed \/ WalkComplete
    BY <1>0, <1>1 DEF WalkList, WalkListed, WalkComplete
<1>3. CASE RestoreLookup
    <2>1. op.kind # "upload"
        BY <1>3 DEF RestoreLookup, WalkApart
    <2>2. orig # NoRepo => file[orig] # "absent"
        BY <1>3, <2>1 DEF TypeInv, TypeOK
    <2>3. UNCHANGED cacheVars
        BY <1>3, <2>2 DEF RestoreLookup
    <2> QED BY <1>0, <1>3, <2>3 DEF RestoreLookup
<1>4. CASE RestoreScan \/ RestoreNoOrigin \/ RestoreStat \/ RestoreRead \/ RestoreEnd
    BY <1>0, <1>4 DEF RestoreScan, RestoreNoOrigin, RestoreStat, RestoreRead, RestoreEnd
<1>5. CASE RestoreWrite
    <2>1. Path \in Repos
        BY <1>5, PathType DEF TypeInv, TypeOK, WalkShape, RestoreWrite, Path, WalkStates
    <2>2. walk.buf \in {"empty", "content"}
        BY <1>5 DEF TypeInv, TypeOK, WalkStates
    <2>3. op = Idle /\ checking = {} /\ UNCHANGED <<orig, dups, op, checking, acked, dedupe>>
        BY <1>5 DEF RestoreWrite, WriteFree
    <2>4. file' = IF file[Path] = "content" THEN file ELSE [file EXCEPT ![Path] = walk.buf]
        BY <1>5 DEF RestoreWrite
    <2> QED BY <1>0, <1>5, <2>1, <2>2, <2>3, <2>4 DEF TypeInv, TypeOK, FileStates, Idle
<1> QED BY <1>1, <1>3, <1>4, <1>5 DEF RestoreWalk

\* The walks stay apart from the requests:
LEMMA ApartServe == TypeInv /\ ServeInd /\ WalkApart /\ Serve => WalkApart'
<1> SUFFICES ASSUME TypeInv, ServeInd, WalkApart, Serve
             PROVE  WalkApart'
    OBVIOUS
<1>1. op.kind # "walk" /\ op'.kind # "walk" /\ UNCHANGED <<walk, dedupe>>
    BY DEF Serve, Upload, UploadMove, UploadStart, UploadMiss, UploadRename, UploadStale,
        UploadLink, UploadRecord, UploadSame, Check, CheckFound, CheckStale, CheckLink,
        CheckRecord, ReadStale, CheckLock, WriteFree, ReadFree, Manifest, PutManifest,
        DeleteManifest, Delete, DeleteStart, DeleteMove, DeleteRemove, Idle, procVars,
        ServeInd, OpShape, UploadAt, DeleteAt, TypeInv, TypeOK
<1>2. op'.kind = "upload" => dedupe
    BY DEF Serve, Upload, UploadMove, UploadStart, UploadMiss, UploadRename, UploadStale,
        UploadLink, UploadRecord, UploadSame, Check, CheckFound, CheckStale, CheckLink,
        CheckRecord, ReadStale, WriteFree, Manifest, PutManifest, DeleteManifest, Delete,
        DeleteStart, DeleteMove, DeleteRemove, Idle, WalkApart, TypeInv, TypeOK
<1> QED BY <1>1, <1>2 DEF WalkApart

\* the dedupe walk,
LEMMA ApartDedupe == TypeInv /\ ServeInd /\ WalkApart /\ DedupeWalk => WalkApart'
<1> USE DEF cacheVars, procVars, history
<1> SUFFICES ASSUME TypeInv, ServeInd, WalkApart, DedupeWalk
             PROVE  WalkApart'
    OBVIOUS
<1>0. walk \in WalkStates /\ dedupe' = dedupe
    BY DEF TypeInv, TypeOK, DedupeWalk, DedupeStart, DedupeSkip, DedupeLookup,
           DedupeFromDisk, DedupePlaceholder, DedupeLink, DedupeRecord, DedupeEnd
<1>1. CASE DedupeStart
    BY <1>0, <1>1 DEF DedupeStart, Goto, WalkStates, WalkApart
<1>2. CASE DedupeSkip
    BY <1>0, <1>2 DEF DedupeSkip, NextPath, WalkStates, WalkApart
<1>3. CASE DedupeLookup
    BY <1>0, <1>3, ConstantsAssumption DEF DedupeLookup, Goto, WalkStates, WalkApart
<1>4. CASE DedupeFromDisk
    <2>1. CASE walk' = Goto("failed") /\ op' = Idle
        BY <1>0, <1>4, <2>1 DEF DedupeFromDisk, Goto, WalkStates, WalkApart, Idle
    <2>2. ASSUME NEW j \in DOMAIN walk.paths,
                 walk' = [walk EXCEPT !.pc = "dedupe", !.original = walk.paths[j]],
                 IF orig = NoRepo THEN PutBlob(walk.paths[j]) ELSE UNCHANGED cacheVars,
                 UNCHANGED op
          PROVE  WalkApart'
        <3>1. walk.paths[j] \in Repos
            BY <1>0, <2>2 DEF WalkStates
        <3>2. orig' # NoRepo
            BY <2>2, <3>1, ConstantsAssumption DEF PutBlob
        <3>3. walk'.pc = "dedupe" /\ walk.pc = "disk" /\ UNCHANGED op
            BY <1>0, <1>4, <2>2 DEF DedupeFromDisk, WalkStates
        <3> QED BY <1>0, <3>2, <3>3 DEF WalkApart
    <2> QED BY <1>4, <2>1, <2>2 DEF DedupeFromDisk
<1>5. CASE DedupePlaceholder
    <2>1. orig # NoRepo /\ orig' = orig
        BY <1>5 DEF DedupePlaceholder, PutBlob, WalkApart
    <2> QED BY <1>0, <1>5, <2>1 DEF DedupePlaceholder, NextPath, WalkStates, WalkApart
<1>6. CASE DedupeLink
    <2>1. Path \in Repos /\ Path' = Path /\ walk'.pc = "record" /\ walk'.original = walk.original
        BY <1>0, <1>6, PathType DEF DedupeLink, MorePaths, Goto, Path, WalkStates, TypeInv, TypeOK
    <2>2. file'[Path] # "absent" /\ (walk.original = NoRepo => file'[Path] = "content")
        BY <1>6, <2>1 DEF DedupeLink, TypeInv, TypeOK, FileStates
    <2>3. UNCHANGED <<orig, op>> /\ walk.pc = "dedupe"
        BY <1>6 DEF DedupeLink
    <2> QED BY <1>0, <2>1, <2>2, <2>3 DEF WalkApart
<1>7. CASE DedupeRecord
    <2>1. Path \in Repos
        BY <1>0, <1>7, PathType DEF DedupeRecord, Path, WalkShape, TypeInv, WalkStates
    <2>2. orig' # NoRepo
        BY <1>7, <2>1, ConstantsAssumption DEF DedupeRecord, PutBlob, HasBlob, ServeInd, CacheShape
    <2>3. walk'.pc = "dedupe" /\ UNCHANGED op /\ walk.pc = "record"
        BY <1>0, <1>7 DEF DedupeRecord, WalkStates
    <2> QED BY <1>0, <2>2, <2>3 DEF WalkApart
<1>8. CASE DedupeEnd
    BY <1>0, <1>8 DEF DedupeEnd, Goto, WalkStates, WalkApart, Idle
<1> QED BY <1>1, <1>2, <1>3, <1>4, <1>5, <1>6, <1>7, <1>8 DEF DedupeWalk

\* the restore walk,
LEMMA ApartRestore ==
    TypeInv /\ WalkApart /\ (WalkList \/ WalkListed \/ WalkComplete \/ RestoreWalk) => WalkApart'
<1> USE DEF cacheVars, procVars, history
<1> SUFFICES ASSUME TypeInv, WalkApart, WalkList \/ WalkListed \/ WalkComplete \/ RestoreWalk
             PROVE  WalkApart'
    OBVIOUS
<1>0. walk \in WalkStates
    BY DEF TypeInv, TypeOK
<1>1. CASE WalkList
    BY <1>0, <1>1 DEF WalkList, WalkStates, WalkApart
<1>2. CASE WalkListed
    <2>1. walk'.pc \in {"succeeded", "task", "origin"} /\ walk'.original = walk.original
        BY <1>0, <1>2 DEF WalkListed, WalkStates
    <2>2. (walk'.pc = "task" => dedupe) /\ (walk'.pc = "origin" => ~dedupe)
        BY <1>0, <1>2 DEF WalkListed, WalkStates
    <2> QED BY <1>2, <2>1, <2>2 DEF WalkListed, WalkApart
<1>3. CASE WalkComplete
    BY <1>0, <1>3 DEF WalkComplete, Goto, WalkStates, WalkApart
<1>4. CASE RestoreWalk
    <2>2. walk'.pc \in {"restore", "scan", "failed", "succeeded", "read", "write"}
        BY <1>0, <1>4 DEF RestoreWalk, RestoreLookup, RestoreScan, RestoreNoOrigin,
            RestoreStat, RestoreRead, RestoreWrite, RestoreEnd, Goto, NextPath, WalkStates
    <2>3. /\ UNCHANGED <<op, dedupe>>
          /\ walk.pc \in {"origin", "scan", "restore", "read", "write"}
        BY <1>4 DEF RestoreWalk, RestoreLookup, RestoreScan, RestoreNoOrigin,
            RestoreStat, RestoreRead, RestoreWrite, RestoreEnd
    <2> QED BY <2>2, <2>3 DEF WalkApart
<1> QED BY <1>1, <1>2, <1>3, <1>4

\* and failures and restarts.
LEMMA ApartFaults == TypeInv /\ WalkApart /\ (Faults \/ UNCHANGED vars) => WalkApart'
<1> USE DEF cacheVars, procVars, history
<1> SUFFICES ASSUME TypeInv, WalkApart, Faults \/ UNCHANGED vars
             PROVE  WalkApart'
    OBVIOUS
<1>1. CASE OpFails
    BY <1>1 DEF OpFails, Goto, Idle, TypeInv, TypeOK, WalkStates, WalkApart
<1>2. ASSUME NEW r \in Repos, CheckFails(r)
      PROVE  WalkApart'
    BY <1>2 DEF CheckFails, WalkApart, Path
<1>3. CASE Restart
    <2>1. walk'.pc \in {"off", "list"} /\ walk'.original = NoRepo /\ op' = Idle
        BY <1>3 DEF Restart, StartProcess, NewWalk
    <2> QED BY <2>1 DEF WalkApart, Idle
<1>4. CASE UNCHANGED vars
    BY <1>4 DEF vars, WalkApart, Path
<1> QED BY <1>1, <1>2, <1>3, <1>4 DEF Faults

StrongInv == TypeInv /\ (~severed => ServeInd /\ WalkApart)

\* The whole invariant holds at the start,
LEMMA StrongInit == Init => StrongInv
BY TypeInit, ServeInit DEF StrongInv

\* what came apart stays apart,
LEMMA SeveredStays == severed /\ [Next]_vars => severed'
BY DEF vars, history, Next, Serve, Upload, UploadMove, UploadStart, UploadMiss, UploadRename,
    UploadStale, UploadLink, UploadRecord, UploadSame, Check, CheckFound, CheckStale, CheckLink,
    CheckRecord, ReadStale, Manifest, PutManifest, DeleteManifest, Delete, DeleteStart,
    DeleteMove, DeleteRemove, Walk, WalkList, WalkListed, WalkComplete, DedupeWalk,
    DedupeStart, DedupeSkip, DedupeLookup, DedupeFromDisk, DedupePlaceholder, DedupeLink,
    DedupeRecord, DedupeEnd, RestoreWalk, RestoreLookup, RestoreScan, RestoreNoOrigin,
    RestoreStat, RestoreRead, RestoreWrite, RestoreEnd, Faults, OpFails, CheckFails, Restart

\* every step keeps it,
LEMMA StrongStep == StrongInv /\ [Next]_vars => StrongInv'
<1> SUFFICES ASSUME StrongInv, [Next]_vars
             PROVE  StrongInv'
    OBVIOUS
<1>1. TypeInv'
    BY TypeStep DEF StrongInv
<1>2. ASSUME ~severed'
      PROVE  ServeInd' /\ WalkApart'
    <2>1. TypeInv /\ ServeInd /\ WalkApart
        BY <1>2, SeveredStays DEF StrongInv
    <2>2. CASE Serve
        BY <1>2, <2>1, <2>2, ServeUpload, ServeCheck, ServeDelete, ApartServe DEF Serve
    <2>3. CASE DedupeWalk
        BY <1>2, <2>1, <2>3, ServeDedupe, ApartDedupe
    <2>4. CASE WalkList \/ WalkListed \/ WalkComplete \/ RestoreWalk
        BY <2>1, <2>4, ServeRestore, ApartRestore
    <2>5. CASE Faults
        BY <1>2, <2>1, <2>5, ServeFaults, ApartFaults
    <2>6. CASE UNCHANGED vars
        BY <2>1, <2>6, ServeStutter, ApartFaults
    <2> QED BY <2>2, <2>3, <2>4, <2>5, <2>6 DEF Next, Walk
<1> QED BY <1>1, <1>2 DEF StrongInv

\* and it implies the properties.
LEMMA StrongImplies == StrongInv => PromisesKept /\ LastCopyKept /\ ServeInv
<1> SUFFICES ASSUME StrongInv
             PROVE  PromisesKept /\ LastCopyKept /\ ServeInv
    OBVIOUS
<1>1. ServeInv
    BY DEF StrongInv, TypeInv, ServeInd, ServeInv, Joined
<1>2. ASSUME ~severed
      PROVE  AckedReadable /\ NoContentLoss
    BY <1>2, ConstantsAssumption
    DEF StrongInv, TypeInv, TypeOK, ServeInd, CacheShape, OriginHolds, DupsPresent,
        AckedBacked, UploadAt, DeleteAt, Idle, WalkApart, AckedReadable, NoContentLoss, Readable
<1> QED BY <1>1, <1>2 DEF PromisesKept, LastCopyKept

\* As long as no record and its content have come apart, the cache tells the truth at every
\* step and not only between operations: the inductive invariant, of which the next two
\* theorems are consequences.
THEOREM ServeInvHolds == Spec => []ServeInv
<1>1. StrongInv => ServeInv
    BY StrongImplies
<1> QED BY <1>1, StrongInit, StrongStep, PTL DEF Spec

\* The store keeps every promise: a repository that was told it has the blob can read it,
\* whatever uploads, checks and deletes of other repositories and both walks do, and however
\* often calls fail or the process restarts and turns dedupe on and off.  A promise is broken
\* only after one of the five events that severed names.
THEOREM AckedStaysReadable == Spec => []PromisesKept
<1>1. StrongInv => PromisesKept
    BY StrongImplies
<1> QED BY <1>1, StrongInit, StrongStep, PTL DEF Spec

\* With the same exceptions the last copy of a promised blob is never taken away.
THEOREM ContentIsKept == Spec => []LastCopyKept
<1>1. StrongInv => LastCopyKept
    BY StrongImplies
<1> QED BY <1>1, StrongInit, StrongStep, PTL DEF Spec

-----------------------------------------------------------------------------
(* The dedupe walk at start-up: what its completion means to the gate of     *)
(* deleteBlobChecked, and that content is stored once.                       *)

\* The digest is a layer or a config, and the driver lists every repository.
Listed == ~IsManifest /\ \A r \in Repos : \E j \in 1..Len(Order) : Order[j] = r

\* A promised path is there; so is the one that a request is about to record or to delete.
Present ==
    /\ \A r \in acked \cup checking : file[r] # "absent"
    /\ UploadAt("record") \/ op.kind = "delete" => file[op.repo] # "absent"
    /\ op.kind = "delete" => op.repo \notin acked
    /\ DeleteAt("move") => file[orig] # "absent"

\* The original is recorded.  An upload that has missed has made the record.
Recorded ==
    /\ orig # NoRepo => orig \in dups
    /\ orig = NoRepo => dups = {}
    /\ UploadAt("move") => op.repo \in dups
    /\ op.kind # "idle" => checking = {}
    /\ op.kind = "upload" => dedupe /\ op.pc \in {"lookup", "move", "record"}
    /\ op.kind = "delete" => op.pc \in {"move", "remove"}
    /\ DeleteAt("move") => orig # NoRepo /\ orig # op.repo

\* The walk still has to come to path r.
Ahead(r) ==
    \/ walk.pc = "failed"
    \/ /\ walk.pc = "list"
       /\ \/ \E j \in 1..Len(walk.paths) : walk.paths[j] = r
          \/ \E j \in walk.i..Len(Order) : Order[j] = r
    \/ /\ walk.pc \in {"task", "dedupe", "record", "disk"}
       /\ \E j \in walk.i..Len(walk.paths) : walk.paths[j] = r

\* A promised path that the cache does not have needs the walk, unless it holds the content.
\* An upload that links the path records it next.
Unbacked(r) == r \notin dups /\ file[r] # "content" /\ ~(UploadAt("record") /\ r = op.repo)

\* With dedupe on, the walk still has to come to such a path.
Pending ==
    dedupe => /\ walk.pc \notin {"off", "origin", "scan", "restore", "read", "write"}
              /\ rebuildDone => walk.pc = "done"
              /\ \A r \in acked : Unbacked(r) => Ahead(r)

\* The dedupe walk works under the lock.
WalkLocks == walk.pc \in {"dedupe", "record", "disk"} <=> op.kind = "walk"

GateInv == Present /\ Recorded /\ Pending /\ WalkLocks

\* What follows from the shape of the cache record when a path is put or deleted.
LEMMA PutBlobFacts ==
    ASSUME TypeOK, Recorded, NEW r \in Repos, PutBlob(r)
    PROVE  /\ orig' # NoRepo /\ orig' \in dups' /\ dups' = dups \cup {r}
           /\ orig' = IF orig = NoRepo THEN r ELSE orig
BY ConstantsAssumption DEF TypeOK, Recorded, PutBlob

\* What deleting an entry leaves of the cache's record.
LEMMA DeleteRecordFacts ==
    ASSUME TypeOK, Recorded, NEW r \in Repos, DeleteRecord(r)
    PROVE  /\ dups' = dups \ {r} /\ orig' # r
           /\ orig' # NoRepo => orig' \in dups'
           /\ orig' = NoRepo => dups' = {}
           /\ orig # r => orig' = orig
BY ConstantsAssumption DEF TypeOK, Recorded, DeleteRecord

\* A request that the walk does not take part in.
LEMMA PendingKept ==
    ASSUME Pending, UNCHANGED <<walk, dedupe, rebuildDone>>,
           dedupe => \A r \in acked' : Unbacked(r)' => r \in acked /\ Unbacked(r)
    PROVE  Pending'
BY DEF Pending, Ahead

\* Where the walks go.
LEMMA NextPathSteps ==
    ASSUME walk \in WalkStates, NEW pc \in WalkPCs
    PROVE  NextPath(pc).i = walk.i + 1 /\ NextPath(pc).paths = walk.paths
BY DEF NextPath, WalkStates

\* Where a step of the restoring walk leads.
LEMMA RestorePCs ==
    ASSUME TypeOK, RestoreWalk
    PROVE  walk'.pc \in {"scan", "restore", "read", "write", "succeeded", "failed"}
<1>0. walk \in WalkStates
    BY DEF TypeOK
<1>1. \A pc \in WalkPCs : Goto(pc).pc = pc /\ NextPath(pc).pc = pc
    BY <1>0, GotoType, NextPathType
<1>2. \A o : /\ [walk EXCEPT !.pc = "restore", !.original = o].pc = "restore"
             /\ [walk EXCEPT !.pc = "restore", !.i = 1, !.original = o].pc = "restore"
             /\ [walk EXCEPT !.pc = "write", !.buf = o].pc = "write"
    BY <1>0 DEF WalkStates
<1>3. {"scan", "restore", "read", "write", "succeeded", "failed"} \subseteq WalkPCs
    BY DEF WalkPCs
<1>4. CASE RestoreLookup
    <2>1. walk' = [walk EXCEPT !.pc = "restore", !.original = orig] \/ walk' = Goto("scan")
        BY <1>4 DEF RestoreLookup
    <2>2. [walk EXCEPT !.pc = "restore", !.original = orig].pc = "restore"
        BY <1>2
    <2>3. Goto("scan").pc = "scan"
        BY <1>1, <1>3
    <2> QED BY <2>1, <2>2, <2>3
<1>5. CASE RestoreScan
    BY <1>1, <1>2, <1>3, <1>5 DEF RestoreScan
<1>6. CASE RestoreNoOrigin \/ RestoreStat \/ RestoreWrite \/ RestoreEnd
    BY <1>1, <1>3, <1>6 DEF RestoreNoOrigin, RestoreStat, RestoreWrite, RestoreEnd
<1>7. CASE RestoreRead
    BY <1>1, <1>2, <1>3, <1>7 DEF RestoreRead
<1> QED BY <1>4, <1>5, <1>6, <1>7 DEF RestoreWalk

\* The invariant of the gate holds at the start.
LEMMA GateInit == Init => GateInv
<1> SUFFICES ASSUME Init PROVE GateInv
    OBVIOUS
<1>1. op.kind = "idle" /\ walk.pc = "list"
    BY DEF Init, Idle, NewWalk
<1> QED BY <1>1 DEF Init, GateInv, Present, Recorded, Pending, WalkLocks, UploadAt, DeleteAt

\* Uploads keep it,
LEMMA GateUpload ==
    ASSUME Listed, TypeInv, GateInv, Upload
    PROVE  GateInv'
<1> USE DEF cacheVars, procVars, history
<1>0. TypeOK /\ Present /\ Recorded /\ Pending /\ WalkLocks /\ Idle.kind = "idle"
    BY DEF TypeInv, GateInv, Idle
<1>1. ASSUME NEW r \in Repos, UploadMove(r) PROVE GateInv'
    <2>1. Present' /\ Recorded' /\ WalkLocks'
        BY <1>0, <1>1 DEF WalkLocks, UploadMove, WriteFree, Present, Recorded, UploadAt, DeleteAt, TypeOK
    <2>2. Pending'
        BY <1>0, <1>1, PendingKept DEF UploadMove, Unbacked, UploadAt, TypeOK
    <2> QED BY <2>1, <2>2 DEF GateInv
<1>2. ASSUME NEW r \in Repos, UploadStart(r) PROVE GateInv'
    <2>1. Present' /\ Recorded' /\ WalkLocks'
        BY <1>0, <1>2 DEF WalkLocks, UploadStart, WriteFree, Present, Recorded, UploadAt, DeleteAt
    <2>2. Pending'
        <3>1. op.kind = "idle" /\ op'.pc = "lookup" /\ UNCHANGED <<file, dups, acked>>
            BY <1>0, <1>2 DEF UploadStart, WriteFree
        <3>2. \A q \in acked' : Unbacked(q)' => q \in acked /\ Unbacked(q)
            BY <3>1 DEF Unbacked, UploadAt
        <3> QED BY <1>0, <1>2, <3>2, PendingKept DEF UploadStart
    <2> QED BY <2>1, <2>2 DEF GateInv
<1>3. ASSUME UploadMiss PROVE GateInv'
    <2>0. op.repo \in Repos /\ op' = [op EXCEPT !.pc = "move"] /\ op.kind = "upload" /\ op.pc = "lookup"
        BY <1>3 DEF UploadMiss, TypeInv, WalkShape
    <2>1. op'.kind = "upload" /\ op'.pc = "move" /\ op'.repo = op.repo
        BY <2>0, <1>0 DEF TypeOK
    <2>2. orig' # NoRepo /\ orig' \in dups' /\ dups' = dups \cup {op.repo}
        BY <1>0, <1>3, <2>0, PutBlobFacts DEF UploadMiss
    <2>3. Present' /\ Recorded' /\ WalkLocks'
        BY <1>0, <1>3, <2>0, <2>1, <2>2 DEF WalkLocks, UploadMiss, Present, Recorded, UploadAt, DeleteAt
    <2>4. Pending'
        BY <1>0, <1>3, <2>2, PendingKept DEF UploadMiss, Unbacked, UploadAt, TypeOK
    <2> QED BY <2>3, <2>4 DEF GateInv
<1>4. ASSUME UploadRename PROVE GateInv'
    <2>0. op.repo \in Repos /\ op.repo \in dups /\ checking = {}
        BY <1>0, <1>4 DEF UploadRename, TypeInv, WalkShape, Recorded, UploadAt
    <2>1. Present' /\ Recorded' /\ WalkLocks'
        BY <1>0, <1>4, <2>0 DEF WalkLocks, UploadRename, Present, Recorded, UploadAt, DeleteAt, TypeOK
    <2>2. Pending'
        BY <1>0, <1>4, <2>0, PendingKept DEF UploadRename, Unbacked, UploadAt, TypeOK
    <2> QED BY <2>1, <2>2 DEF GateInv
<1>5. ASSUME UploadStale PROVE GateInv'
    <2>0. orig \in Repos /\ orig \notin acked /\ file[orig] = "absent"
        BY <1>0, <1>5 DEF UploadStale, Present, TypeOK
    <2>1. dups' = dups \ {orig} /\ (orig' # NoRepo => orig' \in dups') /\ (orig' = NoRepo => dups' = {})
        BY <1>0, <1>5, <2>0, DeleteRecordFacts DEF UploadStale
    <2>2. Present' /\ Recorded' /\ WalkLocks'
        BY <1>0, <1>5, <2>1 DEF WalkLocks, UploadStale, Present, Recorded, UploadAt, DeleteAt
    <2>3. Pending'
        BY <1>0, <1>5, <2>0, <2>1, PendingKept DEF UploadStale, Unbacked, UploadAt, TypeOK
    <2> QED BY <2>2, <2>3 DEF GateInv
<1>6. ASSUME UploadLink PROVE GateInv'
    <2>0. op.repo \in Repos /\ op' = [op EXCEPT !.pc = "record"] /\ op.kind = "upload"
        BY <1>6 DEF UploadLink, TypeInv, WalkShape
    <2>1. op'.kind = "upload" /\ op'.pc = "record" /\ op'.repo = op.repo
        BY <2>0, <1>0 DEF TypeOK
    <2>2. \A r \in Repos : file'[r] = IF r = op.repo THEN "empty" ELSE file[r]
        BY <1>0, <1>6, <2>0 DEF UploadLink, TypeOK
    <2>3. acked \subseteq Repos /\ checking \subseteq Repos
        BY <1>0 DEF TypeOK
    <2>4. Present'
        BY <1>0, <1>6, <2>0, <2>1, <2>2, <2>3 DEF UploadLink, Present, DeleteAt, UploadAt
    <2>5. Recorded' /\ WalkLocks'
        BY <1>0, <1>6, <2>0, <2>1 DEF WalkLocks, UploadLink, Recorded, UploadAt, DeleteAt
    <2>6. Pending'
        BY <1>0, <1>6, PendingKept DEF UploadLink, Unbacked, UploadAt, TypeOK
    <2> QED BY <2>4, <2>5, <2>6 DEF GateInv
<1>7. ASSUME UploadRecord PROVE GateInv'
    <2>0. op.repo \in Repos /\ checking = {} /\ file[op.repo] # "absent"
        BY <1>0, <1>7 DEF UploadRecord, TypeInv, WalkShape, Recorded, Present, UploadAt
    <2>1. orig' # NoRepo /\ orig' \in dups' /\ dups' = dups \cup {op.repo}
        BY <1>0, <1>7, <2>0, PutBlobFacts DEF UploadRecord
    <2>2. Present' /\ Recorded' /\ WalkLocks'
        BY <1>0, <1>7, <2>0, <2>1 DEF WalkLocks, UploadRecord, Present, Recorded, UploadAt, DeleteAt
    <2>3. Pending'
        BY <1>0, <1>7, <2>1, PendingKept DEF UploadRecord, Unbacked, UploadAt, TypeOK
    <2> QED BY <2>2, <2>3 DEF GateInv
<1>8. ASSUME UploadSame PROVE GateInv'
    <2>0. op.repo \in Repos /\ checking = {} /\ op.repo \in dups /\ file[op.repo] # "absent"
        BY <1>0, <1>8, ConstantsAssumption DEF UploadSame, TypeInv, WalkShape, Recorded
    <2>1. \A r \in Repos : file[r] # "absent" => file'[r] # "absent"
        BY <1>0, <1>8, <2>0 DEF UploadSame, TypeOK
    <2>2. Present' /\ Recorded' /\ WalkLocks'
        BY <1>0, <1>8, <2>0, <2>1 DEF WalkLocks, UploadSame, Present, Recorded, UploadAt, DeleteAt, TypeOK
    <2>3. Pending'
        BY <1>0, <1>8, <2>0, PendingKept DEF UploadSame, Unbacked, UploadAt, TypeOK
    <2> QED BY <2>2, <2>3 DEF GateInv
<1> QED BY <1>1, <1>2, <1>3, <1>4, <1>5, <1>6, <1>7, <1>8 DEF Upload

\* A record whose path is gone is dropped: nobody was promised that path.
LEMMA GateStale ==
    ASSUME TypeInv, GateInv, op = Idle, orig # NoRepo, file[orig] = "absent", DeleteRecord(orig),
           UNCHANGED <<file, procVars, history, op, checking, walk, acked>>
    PROVE  GateInv'
<1> USE DEF procVars, history
<1>0. TypeOK /\ Present /\ Recorded /\ Pending /\ WalkLocks /\ op.kind = "idle"
    BY DEF TypeInv, GateInv, Idle
<1>1. orig \in Repos /\ orig \notin acked
    BY <1>0 DEF Present, TypeOK
<1>2. dups' = dups \ {orig} /\ (orig' # NoRepo => orig' \in dups') /\ (orig' = NoRepo => dups' = {})
    BY <1>0, <1>1, DeleteRecordFacts
<1>3. Present' /\ Recorded' /\ WalkLocks'
    BY <1>0, <1>2 DEF WalkLocks, Present, Recorded, UploadAt, DeleteAt
<1>4. Pending'
    BY <1>0, <1>1, <1>2, PendingKept DEF Unbacked, UploadAt, TypeOK
<1> QED BY <1>3, <1>4 DEF GateInv

\* the other requests,
LEMMA GateRequests ==
    ASSUME Listed, TypeInv, GateInv, Check \/ Manifest \/ Delete
    PROVE  GateInv'
<1> USE DEF cacheVars, procVars, history
<1>0. TypeOK /\ Present /\ Recorded /\ Pending /\ WalkLocks /\ Idle.kind = "idle"
    BY DEF TypeInv, GateInv, Idle
<1>1. ASSUME NEW r \in Repos, CheckStale(r) \/ ReadStale(r) PROVE GateInv'
    BY <1>1, GateStale DEF CheckStale, ReadStale, CheckLock, WriteFree, ReadFree
<1>2. ASSUME NEW r \in Repos, CheckLink(r) PROVE GateInv'
    <2>1. op = Idle
        BY <1>2 DEF CheckLink, CheckLock, WriteFree, ReadFree
    <2>2. \A q \in Repos : file'[q] = IF q = r THEN "empty" ELSE file[q]
        BY <1>0, <1>2 DEF CheckLink, TypeOK
    <2>3. checking' \subseteq checking \cup {r} /\ acked \subseteq Repos /\ checking \subseteq Repos
        BY <1>0, <1>2 DEF CheckLink, TypeOK
    <2>4. Present'
        BY <1>0, <1>2, <2>1, <2>2, <2>3 DEF CheckLink, Present, UploadAt, DeleteAt
    <2>5. Recorded' /\ WalkLocks'
        BY <1>0, <1>2, <2>1 DEF WalkLocks, CheckLink, Recorded, UploadAt, DeleteAt
    <2>6. Pending'
        BY <1>0, <1>2, PendingKept DEF CheckLink, Unbacked, UploadAt, TypeOK
    <2> QED BY <2>4, <2>5, <2>6 DEF GateInv
<1>3. ASSUME NEW r \in Repos, CheckRecord(r) PROVE GateInv'
    <2>1. orig' # NoRepo /\ orig' \in dups' /\ dups' = dups \cup {r}
        BY <1>0, <1>3, PutBlobFacts DEF CheckRecord
    <2>2. op.kind = "idle"
        BY <1>0, <1>3 DEF CheckRecord, Recorded
    <2>3. Present' /\ Recorded' /\ WalkLocks'
        BY <1>0, <1>3, <2>1, <2>2 DEF WalkLocks, CheckRecord, Present, Recorded, UploadAt, DeleteAt
    <2>4. Pending'
        BY <1>0, <1>3, <2>1, PendingKept DEF CheckRecord, Unbacked, UploadAt, TypeOK
    <2> QED BY <2>3, <2>4 DEF GateInv
<1>4. ASSUME NEW r \in Repos, PutManifest(r) \/ DeleteManifest(r) PROVE GateInv'
    BY <1>4 DEF PutManifest, DeleteManifest, Listed
<1>5. ASSUME NEW r \in Repos, DeleteStart(r) PROVE GateInv'
    <2>1. op = Idle /\ op.kind = "idle" /\ checking = {} /\ file[r] # "absent" /\ acked' = acked \ {r}
          /\ UNCHANGED <<file, marker, dedupe, rebuildDone, checking, walk>>
        BY <1>0, <1>5 DEF DeleteStart, WriteFree
    <2>2. dups \ {r} \subseteq dups' /\ (orig' # NoRepo => orig' \in dups')
          /\ (orig' = NoRepo => dups' = {})
        BY <1>0, <1>5, DeleteRecordFacts DEF DeleteStart, Recorded
    <2>3. \/ op' = Idle
          \/ op' = [kind |-> "delete", repo |-> r, pc |-> "remove"]
          \/ /\ op' = [kind |-> "delete", repo |-> r, pc |-> "move"]
             /\ orig' # NoRepo /\ orig' # r /\ file[orig'] = "empty"
        BY <1>0, <1>5, DeleteRecordFacts DEF DeleteStart
    <2>4. op'.kind \in {"idle", "delete"} /\ (op'.kind = "delete" => op'.repo = r /\ op'.pc \in {"move", "remove"})
          /\ (op'.kind = "delete" /\ op'.pc = "move"
                => orig' # NoRepo /\ orig' # r /\ file[orig'] = "empty")
        BY <1>0, <2>3
    <2>5. Present'
        BY <1>0, <2>1, <2>4 DEF Present, UploadAt, DeleteAt
    <2>6. Recorded' /\ WalkLocks'
        BY <1>0, <2>1, <2>2, <2>4 DEF WalkLocks, Recorded, UploadAt, DeleteAt
    <2>7. Pending'
        BY <1>0, <2>1, <2>2, PendingKept DEF Unbacked, UploadAt, TypeOK
    <2> QED BY <2>5, <2>6, <2>7 DEF GateInv
<1>6. ASSUME DeleteMove PROVE GateInv'
    <2>1. op.repo \in Repos /\ orig \in Repos /\ orig # op.repo /\ file[op.repo] # "absent"
          /\ op.repo \notin acked /\ checking = {}
        BY <1>0, <1>6 DEF DeleteMove, Recorded, Present, DeleteAt, TypeOK, TypeInv, WalkShape
    <2>2. \A q \in Repos : q # op.repo /\ file[q] # "absent" => file'[q] # "absent"
        BY <1>0, <1>6, <2>1 DEF DeleteMove, TypeOK
    <2>3. Present' /\ Recorded' /\ WalkLocks'
        BY <1>0, <1>6, <2>1, <2>2 DEF WalkLocks, DeleteMove, Present, Recorded, UploadAt, DeleteAt, TypeOK
    <2>4. Pending'
        <3>1. orig \in dups /\ op.kind = "delete" /\ UNCHANGED <<dups, acked>>
            BY <1>0, <1>6, <2>1, ConstantsAssumption DEF DeleteMove, Recorded
        <3>2. \A q \in acked : q \notin dups => file'[q] = file[q]
            BY <1>0, <1>6, <2>1, <3>1 DEF DeleteMove, TypeOK
        <3>3. \A q \in acked' : Unbacked(q)' => q \in acked /\ Unbacked(q)
            BY <3>1, <3>2 DEF Unbacked, UploadAt
        <3> QED BY <1>0, <1>6, <3>3, PendingKept DEF DeleteMove
    <2> QED BY <2>3, <2>4 DEF GateInv
<1>7. ASSUME DeleteRemove PROVE GateInv'
    <2>1. op.repo \in Repos /\ op.repo \notin acked /\ checking = {}
        BY <1>0, <1>7 DEF DeleteRemove, Recorded, Present, DeleteAt, TypeOK, TypeInv, WalkShape
    <2>2. \A q \in Repos : q # op.repo => file'[q] = file[q]
        BY <1>0, <1>7, <2>1 DEF DeleteRemove, TypeOK
    <2>3. Present' /\ Recorded' /\ WalkLocks'
        BY <1>0, <1>7, <2>1, <2>2 DEF WalkLocks, DeleteRemove, Present, Recorded, UploadAt, DeleteAt, TypeOK
    <2>4. Pending'
        <3>1. op.kind = "delete" /\ UNCHANGED <<dups, acked>>
            BY <1>7 DEF DeleteRemove
        <3>2. \A q \in acked' : Unbacked(q)' => q \in acked /\ Unbacked(q)
            BY <1>0, <2>1, <2>2, <3>1 DEF Unbacked, UploadAt, TypeOK
        <3> QED BY <1>0, <1>7, <3>2, PendingKept DEF DeleteRemove
    <2> QED BY <2>3, <2>4 DEF GateInv
<1>8. ASSUME NEW r \in Repos, CheckFound(r) PROVE GateInv'
    <2>1. op = Idle /\ file[r] = "content" /\ acked' = acked \cup {r}
          /\ UNCHANGED <<file, cacheVars, procVars, op, checking, walk>>
        BY <1>8 DEF CheckFound, CheckLock, WriteFree, ReadFree
    <2>2. Present' /\ Recorded' /\ WalkLocks'
        BY <1>0, <2>1 DEF WalkLocks, Present, Recorded, UploadAt, DeleteAt
    <2>3. Pending'
        BY <1>0, <2>1, PendingKept DEF Unbacked, UploadAt, TypeOK
    <2> QED BY <2>2, <2>3 DEF GateInv
<1> QED BY <1>1, <1>2, <1>3, <1>4, <1>5, <1>6, <1>7, <1>8 DEF Check, Manifest, Delete

\* A step of the walk that leaves the files and the requests alone.
LEMMA GateWalking ==
    ASSUME TypeInv, GateInv, UNCHANGED <<file, cacheVars, dedupe, op, checking, acked>>,
           Pending', WalkLocks'
    PROVE  GateInv'
<1>1. Present' /\ Recorded'
    <2>1. dedupe' = dedupe
        OBVIOUS
    <2> QED BY <2>1 DEF GateInv, Present, Recorded, UploadAt, DeleteAt, cacheVars
<1> QED BY <1>1 DEF GateInv

\* the listing,
LEMMA GateList ==
    ASSUME Listed, TypeInv, GateInv, WalkList \/ WalkListed \/ WalkComplete
    PROVE  GateInv'
<1> USE DEF procVars, history
<1>0. /\ TypeOK /\ Present /\ Recorded /\ Pending /\ WalkLocks /\ walk \in WalkStates
      /\ walk.paths \in Seq(Repos) /\ walk.i \in Nat \ {0} /\ Order \in Seq(Repos)
    BY ConstantsAssumption DEF TypeInv, GateInv, TypeOK, WalkStates
<1>1. ASSUME WalkList PROVE GateInv'
    <2> DEFINE o == Order[walk.i]
               ps == IF file[o] = "absent" THEN walk.paths ELSE Append(walk.paths, o)
    <2>1. walk.pc = "list" /\ walk' = [walk EXCEPT !.i = walk.i + 1, !.paths = ps] /\ walk.i <= Len(Order)
          /\ UNCHANGED <<file, cacheVars, marker, dedupe, rebuildDone, op, checking, acked>>
        BY <1>1 DEF WalkList
    <2>2. o \in Repos /\ ps \in Seq(Repos)
        BY <1>0, <2>1
    <2>3. walk'.pc = "list" /\ walk'.i = walk.i + 1 /\ walk'.paths = ps
        BY <1>0, <2>1 DEF WalkStates
    <2>4. ASSUME NEW r \in Repos, file[r] # "absent", Ahead(r) PROVE Ahead(r)'
        <3>1. CASE \E j \in 1..Len(walk.paths) : walk.paths[j] = r
            <4>1. PICK j \in 1..Len(walk.paths) : walk.paths[j] = r
                BY <3>1
            <4>2. j \in 1..Len(ps) /\ ps[j] = r
                BY <1>0, <2>2, <4>1
            <4> HIDE DEF ps
            <4> QED BY <2>3, <4>2 DEF Ahead
        <3>2. CASE \E j \in walk.i..Len(Order) : Order[j] = r
            <4>1. PICK j \in walk.i..Len(Order) : Order[j] = r
                BY <3>2
            <4>2. CASE j = walk.i
                <5>1. Len(ps) \in 1..Len(ps) /\ ps[Len(ps)] = r
                    BY <1>0, <2>2, <2>4, <4>1, <4>2
                <5> HIDE DEF ps
                <5> QED BY <2>3, <5>1 DEF Ahead
            <4>3. CASE j # walk.i
                <5>1. j \in walk'.i..Len(Order)
                    BY <1>0, <2>3, <4>1, <4>3
                <5> QED BY <2>3, <4>1, <5>1 DEF Ahead
            <4> QED BY <4>2, <4>3
        <3> QED BY <2>1, <2>4, <3>1, <3>2 DEF Ahead
    <2>5. Pending'
        BY <1>0, <2>1, <2>3, <2>4 DEF Pending, Present, TypeOK, cacheVars, Unbacked, UploadAt
    <2>6. WalkLocks'
        BY <1>0, <2>1, <2>3 DEF WalkLocks
    <2> QED BY <2>1, <2>5, <2>6, GateWalking
<1>2. ASSUME WalkListed PROVE GateInv'
    <2> DEFINE pc == IF walk.paths = <<>> THEN "succeeded" ELSE IF dedupe THEN "task" ELSE "origin"
    <2>1. walk.pc = "list" /\ walk' = [walk EXCEPT !.i = 1, !.pc = pc] /\ walk.i > Len(Order)
          /\ UNCHANGED <<file, cacheVars, marker, dedupe, rebuildDone, op, checking, acked>>
        BY <1>2 DEF WalkListed
    <2>2. walk'.pc = pc /\ walk'.i = 1 /\ walk'.paths = walk.paths
        BY <1>0, <2>1 DEF WalkStates
    <2>3. ASSUME dedupe, NEW r \in acked, Ahead(r) PROVE Ahead(r)'
        <3>1. ~\E j \in walk.i..Len(Order) : Order[j] = r
            BY <1>0, <2>1
        <3>2. PICK j \in 1..Len(walk.paths) : walk.paths[j] = r
            BY <2>1, <2>3, <3>1 DEF Ahead
        <3>3. walk.paths # <<>>
            BY <3>2
        <3> QED BY <2>2, <2>3, <3>2, <3>3 DEF Ahead
    <2>4. Pending'
        <3>1. dedupe => pc \in {"succeeded", "task"}
            OBVIOUS
        <3>2. dedupe => ~rebuildDone
            BY <1>0, <2>1 DEF Pending
        <3> QED BY <1>0, <2>1, <2>2, <2>3, <3>1, <3>2 DEF Pending, cacheVars, Unbacked, UploadAt
    <2>5. WalkLocks'
        BY <1>0, <2>1, <2>2 DEF WalkLocks
    <2> QED BY <2>1, <2>4, <2>5, GateWalking
<1>3. ASSUME WalkComplete PROVE GateInv'
    <2>1. walk.pc = "succeeded" /\ walk' = Goto("done")
          /\ UNCHANGED <<file, cacheVars, dedupe, op, checking, acked>>
        BY <1>3 DEF WalkComplete
    <2>2. walk'.pc = "done"
        BY <1>0, <2>1, GotoType DEF WalkPCs
    <2>3. dedupe => \A r \in acked : ~Unbacked(r)
        BY <1>0, <2>1 DEF Pending, Ahead
    <2>4. Pending'
        BY <2>1, <2>2, <2>3 DEF Pending, cacheVars, Unbacked, UploadAt
    <2>5. WalkLocks'
        BY <1>0, <2>1, <2>2 DEF WalkLocks
    <2> QED BY <2>1, <2>4, <2>5, GateWalking
<1> QED BY <1>1, <1>2, <1>3

\* The walk comes to the next path, once the cache has the last one or nobody was promised it.
LEMMA PendingNext ==
    ASSUME TypeOK, Pending, walk.pc \in {"task", "dedupe", "record", "disk"}, walk.i <= Len(walk.paths),
           walk'.pc = "dedupe", walk'.i = walk.i + 1, walk'.paths = walk.paths,
           UNCHANGED <<dedupe, rebuildDone, acked>>,
           \A r \in acked : Unbacked(r)' => Unbacked(r) /\ r # Path
    PROVE  Pending'
<1>1. walk.i \in Nat \ {0} /\ Len(walk.paths) \in Nat
    BY DEF TypeOK, WalkStates
<1>2. ASSUME dedupe, NEW r \in acked, Unbacked(r)' PROVE Ahead(r)'
    <2>1. Ahead(r) /\ r # Path
        BY <1>2 DEF Pending
    <2>2. PICK j \in walk.i..Len(walk.paths) : walk.paths[j] = r
        BY <2>1 DEF Ahead
    <2>3. j # walk.i
        BY <2>1, <2>2 DEF Path
    <2>4. j \in walk'.i..Len(walk'.paths)
        BY <1>1, <2>2, <2>3
    <2> QED BY <2>2, <2>4 DEF Ahead
<1>3. dedupe => ~rebuildDone
    BY DEF Pending
<1> QED BY <1>2, <1>3 DEF Pending

\* The walk stays at its path.
LEMMA PendingStays ==
    ASSUME TypeOK, Pending, walk.pc \in {"task", "dedupe", "record", "disk"},
           walk'.pc \in {"task", "dedupe", "record", "disk"}, walk'.i = walk.i, walk'.paths = walk.paths,
           UNCHANGED <<dedupe, rebuildDone, acked>>,
           \A r \in acked : Unbacked(r)' => Unbacked(r) \/ (r = Path /\ walk.i <= Len(walk.paths))
    PROVE  Pending'
<1>1. walk.i \in Nat \ {0} /\ Len(walk.paths) \in Nat
    BY DEF TypeOK, WalkStates
<1>2. ASSUME dedupe, NEW r \in acked, Unbacked(r)' PROVE Ahead(r)'
    <2>1. CASE Unbacked(r)
        BY <1>2, <2>1 DEF Pending, Ahead
    <2>2. CASE r = Path /\ walk.i <= Len(walk.paths)
        <3>1. walk.i \in walk.i..Len(walk.paths)
            BY <1>1, <2>2
        <3> QED BY <2>2, <3>1 DEF Ahead, Path
    <2> QED BY <1>2, <2>1, <2>2
<1>3. dedupe => ~rebuildDone
    BY DEF Pending
<1> QED BY <1>2, <1>3 DEF Pending

\* the walk that dedupes,
LEMMA GateDedupe ==
    ASSUME Listed, TypeInv, GateInv, DedupeWalk
    PROVE  GateInv'
<1> USE DEF procVars, history, cacheVars
<1>0. /\ TypeOK /\ Present /\ Recorded /\ Pending /\ WalkLocks /\ walk \in WalkStates
      /\ walk.paths \in Seq(Repos) /\ walk.i \in Nat \ {0} /\ Idle.kind = "idle"
    BY DEF TypeInv, GateInv, TypeOK, WalkStates, Idle
<1>1. ASSUME DedupeStart PROVE GateInv'
    <2>1. walk'.pc = "dedupe" /\ walk'.i = walk.i /\ walk'.paths = walk.paths /\ op'.kind = "walk"
          /\ walk.pc = "task" /\ checking = {}
        BY <1>0, <1>1, GotoType DEF DedupeStart, WalkPCs, WriteFree
    <2>2. Present' /\ Recorded' /\ WalkLocks'
        BY <1>0, <1>1, <2>1 DEF DedupeStart, Present, Recorded, WalkLocks, UploadAt, DeleteAt
    <2>3. Pending'
        BY <1>0, <1>1, <2>1, PendingStays DEF DedupeStart, WriteFree, Unbacked, UploadAt
    <2> QED BY <2>2, <2>3 DEF GateInv
<1>2. ASSUME DedupeSkip PROVE GateInv'
    <2>1. walk'.pc = "dedupe" /\ walk'.i = walk.i + 1 /\ walk'.paths = walk.paths
        BY <1>0, <1>2, NextPathType, NextPathSteps DEF DedupeSkip, WalkPCs
    <2>2. Path \notin acked
        BY <1>0, <1>2 DEF DedupeSkip, Present
    <2>3. Pending'
        BY <1>0, <1>2, <2>1, <2>2, PendingNext DEF DedupeSkip, MorePaths, Unbacked, UploadAt
    <2>4. WalkLocks'
        BY <1>0, <1>2, <2>1 DEF DedupeSkip, WalkLocks
    <2> QED BY <1>2, <2>3, <2>4, GateWalking DEF DedupeSkip
<1>3. ASSUME DedupeLookup PROVE GateInv'
    <2>1. walk.pc = "dedupe" /\ walk'.pc \in {"dedupe", "disk"} /\ walk'.i = walk.i
          /\ walk'.paths = walk.paths /\ op.kind = "walk"
        <3>1. walk' = [walk EXCEPT !.original = orig] \/ walk' = Goto("disk")
            BY <1>3 DEF DedupeLookup
        <3>2. walk.pc = "dedupe" /\ op.kind = "walk"
            BY <1>0, <1>3 DEF DedupeLookup, WalkLocks
        <3>3. CASE walk' = [walk EXCEPT !.original = orig]
            BY <1>0, <3>2, <3>3 DEF WalkStates
        <3>4. CASE walk' = Goto("disk")
            BY <1>0, <3>2, <3>4, GotoType DEF WalkPCs
        <3> QED BY <3>1, <3>3, <3>4
    <2>2. \/ orig' = orig /\ dups' = dups
          \/ orig # NoRepo /\ file[orig] = "absent" /\ DeleteRecord(orig)
        BY <1>3 DEF DedupeLookup
    <2>3. /\ orig' # NoRepo => orig' \in dups'
          /\ orig' = NoRepo => dups' = {}
          /\ acked \ dups' \subseteq acked \ dups
        <3>1. CASE orig' = orig /\ dups' = dups
            BY <1>0, <3>1 DEF Recorded
        <3>2. CASE orig # NoRepo /\ file[orig] = "absent" /\ DeleteRecord(orig)
            <4>1. orig \in Repos /\ orig \notin acked
                BY <1>0, <3>2 DEF TypeOK, Present
            <4> QED BY <1>0, <3>2, <4>1, DeleteRecordFacts
        <3> QED BY <2>2, <3>1, <3>2
    <2>4. Present' /\ Recorded' /\ WalkLocks'
        BY <1>0, <1>3, <2>1, <2>3 DEF DedupeLookup, Present, Recorded, WalkLocks, UploadAt, DeleteAt
    <2>5. Pending'
        BY <1>0, <1>3, <2>1, <2>3, PendingStays DEF DedupeLookup, Unbacked, UploadAt
    <2> QED BY <2>4, <2>5 DEF GateInv
<1>4. ASSUME DedupeFromDisk PROVE GateInv'
    <2>0. walk.pc = "disk" /\ op.kind = "walk" /\ checking = {}
          /\ UNCHANGED <<file, marker, dedupe, rebuildDone, checking, acked>>
        BY <1>0, <1>4 DEF DedupeFromDisk, WalkLocks, Recorded
    <2>1. CASE walk' = Goto("failed") /\ op' = Idle /\ UNCHANGED cacheVars
        <3>1. walk'.pc = "failed"
            BY <1>0, <2>1, GotoType DEF WalkPCs
        <3>2. Present' /\ Recorded' /\ WalkLocks'
            BY <1>0, <2>0, <2>1, <3>1 DEF Present, Recorded, WalkLocks, UploadAt, DeleteAt
        <3>3. Pending'
            BY <1>0, <2>0, <2>1, <3>1 DEF Pending, Ahead
        <3> QED BY <3>2, <3>3 DEF GateInv
    <2>2. ASSUME NEW j \in DOMAIN walk.paths,
                 walk' = [walk EXCEPT !.pc = "dedupe", !.original = walk.paths[j]],
                 IF orig = NoRepo THEN PutBlob(walk.paths[j]) ELSE UNCHANGED cacheVars,
                 UNCHANGED op
          PROVE  GateInv'
        <3>1. walk.paths[j] \in Repos
            BY <1>0, <2>2
        <3>2. walk'.pc = "dedupe" /\ walk'.i = walk.i /\ walk'.paths = walk.paths
            BY <1>0, <2>2 DEF WalkStates
        <3>3. /\ orig' # NoRepo => orig' \in dups'
              /\ orig' = NoRepo => dups' = {}
              /\ dups \subseteq dups'
            BY <1>0, <2>2, <3>1, PutBlobFacts DEF Recorded
        <3>4. Present' /\ Recorded' /\ WalkLocks'
            BY <1>0, <2>0, <2>2, <3>2, <3>3 DEF Present, Recorded, WalkLocks, UploadAt, DeleteAt
        <3>5. Pending'
            BY <1>0, <2>0, <2>2, <3>2, <3>3, PendingStays DEF Unbacked, UploadAt
        <3> QED BY <3>4, <3>5 DEF GateInv
    <2> QED BY <1>4, <2>1, <2>2 DEF DedupeFromDisk
<1>5. ASSUME DedupePlaceholder PROVE GateInv'
    <2>0. Path \in Repos /\ walk.pc = "dedupe" /\ op.kind = "walk" /\ walk.i <= Len(walk.paths)
        BY <1>0, <1>5, PathType DEF DedupePlaceholder, Path, MorePaths, WalkStates, WalkLocks
    <2>1. walk'.pc = "dedupe" /\ walk'.i = walk.i + 1 /\ walk'.paths = walk.paths
        BY <1>0, <1>5, NextPathType, NextPathSteps DEF DedupePlaceholder, WalkPCs
    <2>2. /\ orig' # NoRepo => orig' \in dups'
          /\ orig' = NoRepo => dups' = {}
          /\ dups \subseteq dups' /\ Path \in dups'
        BY <1>0, <1>5, <2>0, PutBlobFacts DEF DedupePlaceholder, Recorded, HasBlob
    <2>3. Present' /\ Recorded' /\ WalkLocks'
        BY <1>0, <1>5, <2>0, <2>1, <2>2
        DEF DedupePlaceholder, Present, Recorded, WalkLocks, UploadAt, DeleteAt
    <2>4. Pending'
        BY <1>0, <1>5, <2>0, <2>1, <2>2, PendingNext DEF DedupePlaceholder, Unbacked, UploadAt
    <2> QED BY <2>3, <2>4 DEF GateInv
<1>6. ASSUME DedupeLink PROVE GateInv'
    <2>0. walk.pc = "dedupe" /\ op.kind = "walk"
        BY <1>0, <1>6 DEF DedupeLink, WalkLocks
    <2>1. walk'.pc = "record" /\ walk'.i = walk.i /\ walk'.paths = walk.paths
        BY <1>0, <1>6, GotoType DEF DedupeLink, WalkPCs
    <2>2. \A r \in Repos : file[r] # "absent" => file'[r] # "absent"
        BY <1>0, <1>6 DEF DedupeLink, TypeOK
    <2>3. Present' /\ Recorded' /\ WalkLocks'
        BY <1>0, <1>6, <2>0, <2>1, <2>2
        DEF DedupeLink, Present, Recorded, WalkLocks, UploadAt, DeleteAt, TypeOK
    <2>4. Pending'
        <3>1. \A r \in acked : r # Path => file'[r] = file[r]
            BY <1>0, <1>6 DEF DedupeLink, TypeOK
        <3>2. UNCHANGED <<dups, op, acked, dedupe, rebuildDone>> /\ walk.i <= Len(walk.paths)
            BY <1>6 DEF DedupeLink, MorePaths
        <3> QED BY <1>0, <2>0, <2>1, <3>1, <3>2, PendingStays DEF Unbacked, UploadAt
    <2> QED BY <2>3, <2>4 DEF GateInv
<1>7. ASSUME DedupeRecord PROVE GateInv'
    <2>0. Path \in Repos /\ walk.pc = "record" /\ op.kind = "walk" /\ walk.i <= Len(walk.paths)
        BY <1>0, <1>7, PathType DEF DedupeRecord, Path, WalkStates, WalkLocks, TypeInv, WalkShape
    <2>1. walk'.pc = "dedupe" /\ walk'.i = walk.i + 1 /\ walk'.paths = walk.paths
        BY <1>0, <1>7 DEF DedupeRecord, WalkStates
    <2>2. /\ orig' # NoRepo => orig' \in dups'
          /\ orig' = NoRepo => dups' = {}
          /\ dups \subseteq dups' /\ Path \in dups'
        BY <1>0, <1>7, <2>0, PutBlobFacts DEF DedupeRecord, Recorded, HasBlob
    <2>3. Present' /\ Recorded' /\ WalkLocks'
        BY <1>0, <1>7, <2>0, <2>1, <2>2
        DEF DedupeRecord, Present, Recorded, WalkLocks, UploadAt, DeleteAt
    <2>4. Pending'
        BY <1>0, <1>7, <2>0, <2>1, <2>2, PendingNext DEF DedupeRecord, Unbacked, UploadAt
    <2> QED BY <2>3, <2>4 DEF GateInv
<1>8. ASSUME DedupeEnd PROVE GateInv'
    <2>0. walk.pc = "dedupe" /\ op.kind = "walk" /\ checking = {} /\ ~(walk.i <= Len(walk.paths))
        BY <1>0, <1>8 DEF DedupeEnd, WalkLocks, Recorded, MorePaths
    <2>1. walk'.pc = "succeeded"
        BY <1>0, <1>8, GotoType DEF DedupeEnd, WalkPCs
    <2>2. dedupe => (\A r \in acked : ~Unbacked(r)) /\ ~rebuildDone
        <3>1. ~\E j \in walk.i..Len(walk.paths) : TRUE
            BY <1>0, <2>0
        <3> QED BY <1>0, <2>0, <3>1 DEF Pending, Ahead
    <2>3. Present' /\ Recorded' /\ WalkLocks'
        BY <1>0, <1>8, <2>0, <2>1 DEF DedupeEnd, Present, Recorded, WalkLocks, UploadAt, DeleteAt
    <2>4. Pending'
        BY <1>0, <1>8, <2>0, <2>1, <2>2 DEF DedupeEnd, Pending, Unbacked, UploadAt
    <2> QED BY <2>3, <2>4 DEF GateInv
<1> QED BY <1>1, <1>2, <1>3, <1>4, <1>5, <1>6, <1>7, <1>8 DEF DedupeWalk

\* the walk that restores,
LEMMA GateRestore ==
    ASSUME Listed, TypeInv, GateInv, RestoreWalk
    PROVE  GateInv'
<1> USE DEF procVars, history, cacheVars
<1>0. /\ TypeOK /\ Present /\ Recorded /\ Pending /\ WalkLocks /\ walk \in WalkStates
      /\ Idle.kind = "idle"
    BY DEF TypeInv, GateInv, TypeOK, WalkStates, Idle
<1>1. walk.pc \in {"origin", "scan", "restore", "read", "write"}
    BY DEF RestoreWalk, RestoreLookup, RestoreScan, RestoreNoOrigin, RestoreStat, RestoreRead,
           RestoreWrite, RestoreEnd
<1>2. ~dedupe /\ op.kind # "upload" /\ op.kind # "walk"
    BY <1>0, <1>1 DEF Pending, Recorded, WalkLocks
<1>3. UNCHANGED <<marker, dedupe, rebuildDone, op, checking, acked>>
    BY DEF RestoreWalk, RestoreLookup, RestoreScan, RestoreNoOrigin, RestoreStat, RestoreRead,
           RestoreWrite, RestoreEnd
<1>4. Pending'
    BY <1>2, <1>3 DEF Pending
<1>5. WalkLocks'
    <2>1. walk'.pc \in {"scan", "restore", "read", "write", "succeeded", "failed"}
        BY <1>0, RestorePCs
    <2> QED BY <1>2, <1>3, <2>1 DEF WalkLocks
<1>6. CASE UNCHANGED <<file, cacheVars>>
    BY <1>3, <1>4, <1>5, <1>6, GateWalking
<1>7. CASE RestoreLookup /\ orig # NoRepo /\ file[orig] = "absent" /\ DeleteRecord(orig)
    <2>1. orig \in Repos /\ ~DeleteAt("move") /\ file' = file
        BY <1>0, <1>7 DEF TypeOK, Present, RestoreLookup
    <2>2. (orig' # NoRepo => orig' \in dups') /\ (orig' = NoRepo => dups' = {})
        BY <1>0, <1>7, <2>1, DeleteRecordFacts
    <2>3. Present' /\ Recorded'
        BY <1>0, <1>2, <1>3, <2>1, <2>2 DEF Present, Recorded, UploadAt, DeleteAt
    <2> QED BY <1>4, <1>5, <2>3 DEF GateInv
<1>8. CASE RestoreWrite
    <2>1. op = Idle /\ checking = {} /\ UNCHANGED cacheVars
        BY <1>8 DEF RestoreWrite, WriteFree
    <2>2. \A r \in Repos : file[r] # "absent" => file'[r] # "absent"
        <3>1. walk.buf # "absent"
            BY <1>0 DEF WalkStates
        <3> QED BY <1>0, <1>8, <3>1 DEF RestoreWrite, TypeOK
    <2>3. Present' /\ Recorded'
        BY <1>0, <1>3, <2>1, <2>2 DEF Present, Recorded, UploadAt, DeleteAt, TypeOK
    <2> QED BY <1>4, <1>5, <2>3 DEF GateInv
<1> QED BY <1>6, <1>7, <1>8 DEF RestoreWalk, RestoreLookup, RestoreScan, RestoreNoOrigin,
           RestoreStat, RestoreRead, RestoreEnd

\* crashes and failing calls,
LEMMA GateFaults ==
    ASSUME Listed, TypeInv, GateInv, Faults
    PROVE  GateInv'
<1> USE DEF procVars, history, cacheVars
<1>0. /\ TypeOK /\ Present /\ Recorded /\ Pending /\ WalkLocks /\ walk \in WalkStates
      /\ Idle.kind = "idle"
    BY DEF TypeInv, GateInv, TypeOK, Idle
<1>1. ASSUME OpFails PROVE GateInv'
    <2>1. op'.kind = "idle" /\ UNCHANGED <<file, orig, dups, dedupe, rebuildDone, checking>>
          /\ acked' \subseteq acked /\ (op.kind = "upload" => op.repo \notin acked')
        BY <1>0, <1>1 DEF OpFails
    <2>2. walk' = walk \/ walk'.pc = "failed"
        BY <1>0, <1>1, GotoType DEF OpFails, WalkPCs
    <2>3. op.kind = "walk" => walk'.pc = "failed"
        BY <1>0, <1>1, GotoType DEF OpFails, WalkPCs
    <2>4. Present' /\ Recorded'
        BY <1>0, <2>1 DEF Present, Recorded, UploadAt, DeleteAt
    <2>5. WalkLocks'
        BY <1>0, <2>1, <2>2, <2>3 DEF WalkLocks
    <2>6. Pending'
        <3>1. op.kind = "walk" => ~(dedupe /\ rebuildDone)
            BY <1>0 DEF WalkLocks, Pending
        <3>2. op.kind # "walk" => walk' = walk
            BY <1>1 DEF OpFails
        <3>3. CASE op.kind = "walk"
            BY <1>0, <2>1, <2>3, <3>1, <3>3 DEF Pending, Ahead
        <3>4. CASE op.kind # "walk"
            <4>1. \A r \in acked' : Unbacked(r)' => r \in acked /\ Unbacked(r)
                BY <2>1 DEF Unbacked, UploadAt
            <4> QED BY <1>0, <2>1, <3>2, <3>4, <4>1, PendingKept
        <3> QED BY <3>3, <3>4
    <2> QED BY <2>4, <2>5, <2>6 DEF GateInv
<1>2. ASSUME NEW r \in Repos, CheckFails(r) PROVE GateInv'
    <2>1. Present' /\ Recorded' /\ WalkLocks'
        BY <1>0, <1>2 DEF CheckFails, Present, Recorded, WalkLocks, UploadAt, DeleteAt
    <2>2. Pending'
        BY <1>0, <1>2, PendingKept DEF CheckFails, Unbacked, UploadAt, TypeOK
    <2> QED BY <2>1, <2>2 DEF GateInv
<1>3. ASSUME Restart PROVE GateInv'
    <2>1. PICK setting \in BOOLEAN : StartProcess(setting)
        BY <1>3 DEF Restart
    <2>2. op' = Idle /\ checking' = {} /\ UNCHANGED <<file, acked>>
        BY <1>3 DEF Restart
    <2>3. \/ orig' = orig /\ dups' = dups
          \/ orig' = NoRepo /\ dups' = {}
        BY <1>3 DEF Restart
    <2>4. Present' /\ Recorded'
        BY <1>0, <2>2, <2>3 DEF Present, Recorded, UploadAt, DeleteAt
    <2>5. dedupe' = setting /\ (setting => ~rebuildDone')
          /\ walk' = NewWalk(IF ~setting /\ marker = "complete" THEN "off" ELSE "list")
        BY <2>1 DEF StartProcess
    <2>6. walk'.pc \in {"off", "list"} /\ (setting => walk'.pc = "list") /\ walk'.i = 1
        BY <2>5 DEF NewWalk
    <2>7. ASSUME NEW r \in Repos, setting PROVE Ahead(r)'
        BY <2>6, <2>7 DEF Ahead, Listed
    <2>8. Pending'
        BY <1>0, <2>2, <2>5, <2>6, <2>7 DEF Pending, TypeOK
    <2>9. WalkLocks'
        BY <1>0, <2>2, <2>6 DEF WalkLocks
    <2> QED BY <2>4, <2>8, <2>9 DEF GateInv
<1> QED BY <1>1, <1>2, <1>3 DEF Faults

\* and so every step.
LEMMA GateStep == Listed /\ TypeInv /\ GateInv /\ [Next]_vars => GateInv'
<1> SUFFICES ASSUME Listed, TypeInv, GateInv, [Next]_vars PROVE GateInv'
    OBVIOUS
<1>1. CASE UNCHANGED vars
    BY <1>1, PendingKept DEF vars, GateInv, Present, Recorded, WalkLocks, UploadAt, DeleteAt, Unbacked, TypeOK
<1> QED BY <1>1, GateUpload, GateRequests, GateList, GateDedupe, GateRestore, GateFaults
    DEF Next, Serve, Walk

\* Once the walk has opened the gate of deleteBlobChecked, the cache has every promised path that
\* holds no content: content it knows nothing of has no placeholder behind it.  However often the
\* process restarts with dedupe on or off, the cache is lost, and uploads, checks, deletes and
\* walks are cut off.
THEOREM GateStaysSound == Listed => (Spec => []GateSound)
<1> SUFFICES ASSUME Listed
             PROVE  Spec => []GateSound
    OBVIOUS
<1>1. Init => TypeInv /\ GateInv
    BY TypeInit, GateInit
<1>2. TypeInv /\ GateInv /\ [Next]_vars => TypeInv' /\ GateInv'
    BY TypeStep, GateStep
<1>3. TypeInv /\ GateInv => GateSound
    <2> SUFFICES ASSUME GateInv, dedupe, rebuildDone, op = Idle, orig = NoRepo, NEW r \in acked
                 PROVE  file[r] # "empty"
        BY DEF GateSound
    <2>1. dups = {} /\ walk.pc = "done" /\ op.kind = "idle"
        BY DEF GateInv, Recorded, Pending, Idle
    <2>2. ~Unbacked(r)
        BY <2>1 DEF GateInv, Pending, Ahead
    <2> QED BY <2>1, <2>2 DEF Unbacked, UploadAt
<1> QED BY <1>1, <1>2, <1>3, PTL DEF Spec

-----------------------------------------------------------------------------
(* One copy.                                                                 *)

\* Dedupe is on, and the path that the walk has just linked is there.
WalkHolds == dedupe /\ (walk.pc = "record" => file[Path] # "absent")

\* Every duplicate is there, and a path that a check has linked is empty.
DupsThere ==
    /\ \A r \in dups : r # orig => file[r] # "absent"
    /\ \A r \in checking : file[r] = "empty"
    /\ UploadAt("move") => op.repo = orig
    /\ DeleteAt("move") => file[orig] = "empty"
    /\ op.kind = "delete" => op.repo \notin dups

\* Only the original holds content; while the original is deleted, only the path it leaves.
OnlyOrig ==
    \A r \in Repos : file[r] = "content" =>
        IF DeleteAt("move") THEN r = op.repo
        ELSE r = orig \/ (DeleteAt("remove") /\ r = op.repo /\ orig = NoRepo)

Once == DupsThere /\ OnlyOrig
OnceInv == WalkHolds /\ Once
StraightInv == ~strayed => OnceInv

\* A record whose path is gone is dropped: no path holds content.
LEMMA OnceStale ==
    ASSUME TypeOK, GateInv, Once, op.kind # "delete", orig # NoRepo, file[orig] = "absent",
           DeleteRecord(orig), ~(op.kind = "upload" /\ op.pc = "move"), UNCHANGED <<file, op, checking>>
    PROVE  Once'
<1>1. Recorded /\ orig \in Repos
    BY DEF GateInv, TypeOK
<1>2. dups' = dups \ {orig}
    BY <1>1, DeleteRecordFacts
<1>3. \A r \in Repos : file[r] # "content"
    BY <1>1 DEF Once, OnlyOrig, DeleteAt
<1>4. OnlyOrig'
    BY <1>3 DEF OnlyOrig
<1>5. DupsThere'
    BY <1>2 DEF Once, DupsThere, UploadAt, DeleteAt
<1> QED BY <1>4, <1>5 DEF Once

\* A path without content, or the original, is recorded.
LEMMA OncePut ==
    ASSUME TypeOK, GateInv, Once, op.kind # "delete", op'.kind # "delete",
           NEW r \in Repos, file[r] # "absent", PutBlob(r), checking' \subseteq checking,
           ~(op.kind = "upload" /\ op.pc = "move"), ~(op'.kind = "upload" /\ op'.pc = "move"), UNCHANGED file
    PROVE  Once'
<1>1. Recorded
    BY DEF GateInv
<1>2. dups' = dups \cup {r} /\ orig' = IF orig = NoRepo THEN r ELSE orig
    BY <1>1, PutBlobFacts
<1>3. \A q \in Repos : file[q] = "content" => q = orig /\ orig # NoRepo
    BY ConstantsAssumption DEF Once, OnlyOrig, DeleteAt, TypeOK
<1>4. OnlyOrig'
    BY <1>2, <1>3 DEF OnlyOrig, DeleteAt
<1>5. DupsThere'
    BY <1>1, <1>2 DEF Once, DupsThere, Recorded, UploadAt, DeleteAt
<1> QED BY <1>4, <1>5 DEF Once

\* Nothing that the invariant speaks of changes, unless the operation ends.
LEMMA OnceKept ==
    ASSUME TypeOK, Once, op' = op \/ (op.kind # "delete" /\ op'.kind \in {"idle", "walk"}),
           checking' \subseteq checking, UNCHANGED <<file, orig, dups>>
    PROVE  Once'
BY DEF Once, DupsThere, OnlyOrig, UploadAt, DeleteAt

\* The invariant of the single copy holds at the start.
LEMMA OnceInit == Init => StraightInv
<1> SUFFICES ASSUME Init, ~strayed PROVE OnceInv
    BY DEF StraightInv
<1>1. op.kind = "idle" /\ walk.pc = "list"
    BY DEF Init, Idle, NewWalk
<1>2. dedupe
    BY DEF Init
<1>3. Once
    BY <1>1 DEF Init, Once, DupsThere, OnlyOrig, UploadAt, DeleteAt
<1> QED BY <1>1, <1>2, <1>3 DEF OnceInv, WalkHolds

\* Uploads keep it,
LEMMA OnceUpload ==
    ASSUME TypeInv, GateInv, OnceInv, Upload
    PROVE  OnceInv'
<1> USE DEF cacheVars, procVars, history
<1>0. /\ TypeOK /\ Present /\ Recorded /\ WalkLocks /\ WalkHolds /\ Once /\ DupsThere /\ OnlyOrig
      /\ Idle.kind = "idle" /\ dedupe
    BY DEF TypeInv, GateInv, OnceInv, Once, WalkHolds, Idle
<1>1. ASSUME Once', UNCHANGED <<dedupe, walk>>, op.kind # "walk" PROVE OnceInv'
    BY <1>0, <1>1 DEF OnceInv, WalkHolds, WalkLocks
<1>2. ASSUME NEW r \in Repos, UploadMove(r) PROVE OnceInv'
    BY <1>0, <1>2 DEF UploadMove
<1>3. ASSUME NEW r \in Repos, UploadStart(r) PROVE OnceInv'
    <2>1. op.kind = "idle" /\ op'.kind = "upload" /\ op'.pc = "lookup"
        BY <1>0, <1>3 DEF UploadStart, WriteFree
    <2>2. Once'
        BY <1>0, <1>3, <2>1 DEF UploadStart, Once, DupsThere, OnlyOrig, UploadAt, DeleteAt
    <2> QED BY <1>1, <1>3, <2>1, <2>2 DEF UploadStart
<1>4. ASSUME UploadMiss PROVE OnceInv'
    <2>0. op.repo \in Repos /\ op' = [op EXCEPT !.pc = "move"] /\ op.kind = "upload" /\ op.pc = "lookup"
          /\ checking = {} /\ orig = NoRepo /\ dups = {}
        BY <1>0, <1>4 DEF UploadMiss, TypeInv, WalkShape, Recorded
    <2>1. op'.kind = "upload" /\ op'.pc = "move" /\ op'.repo = op.repo
        BY <2>0, <1>0 DEF TypeOK
    <2>2. orig' = op.repo /\ dups' = {op.repo} /\ UNCHANGED <<file, checking, walk, dedupe>>
        BY <2>0, <1>4 DEF UploadMiss, PutBlob
    <2>3. \A r \in Repos : file[r] # "content"
        BY <1>0, <2>0, ConstantsAssumption DEF OnlyOrig, DeleteAt
    <2>4. Once'
        BY <2>0, <2>1, <2>2, <2>3 DEF Once, DupsThere, OnlyOrig, UploadAt, DeleteAt
    <2> QED BY <1>1, <2>0, <2>2, <2>4
<1>5. ASSUME UploadRename PROVE OnceInv'
    <2>0. op.repo \in Repos /\ op.kind = "upload" /\ op.repo = orig /\ op'.kind = "idle"
          /\ file' = [file EXCEPT ![op.repo] = "content"]
          /\ UNCHANGED <<orig, dups, checking, walk, dedupe>>
        BY <1>0, <1>5 DEF UploadRename, TypeInv, WalkShape, DupsThere, UploadAt
    <2>1. \A r \in Repos : r # orig => file'[r] = file[r]
        BY <1>0, <2>0 DEF TypeOK
    <2>2. dups \subseteq Repos /\ checking = {}
        BY <1>0, <2>0 DEF TypeOK, Recorded
    <2>3. OnlyOrig'
        BY <1>0, <2>0, <2>1 DEF OnlyOrig, DeleteAt
    <2>4. DupsThere'
        BY <1>0, <2>0, <2>1, <2>2 DEF DupsThere, UploadAt, DeleteAt
    <2> QED BY <1>1, <2>0, <2>3, <2>4 DEF Once
<1>6. ASSUME UploadStale PROVE OnceInv'
    <2>1. Once'
        BY <1>0, <1>6, OnceStale DEF UploadStale
    <2> QED BY <1>1, <1>6, <2>1 DEF UploadStale
<1>7. ASSUME UploadLink PROVE OnceInv'
    <2>0. op.repo \in Repos /\ op' = [op EXCEPT !.pc = "record"] /\ op.kind = "upload" /\ op.repo # orig
          /\ file' = [file EXCEPT ![op.repo] = "empty"] /\ checking = {}
          /\ UNCHANGED <<orig, dups, checking, walk, dedupe>>
        BY <1>0, <1>7 DEF UploadLink, TypeInv, WalkShape, Recorded
    <2>1. op'.kind = "upload" /\ op'.pc = "record" /\ op'.repo = op.repo
        BY <2>0, <1>0 DEF TypeOK
    <2>2. \A r \in Repos : file'[r] = IF r = op.repo THEN "empty" ELSE file[r]
        BY <1>0, <2>0 DEF TypeOK
    <2>3. dups \subseteq Repos
        BY <1>0 DEF TypeOK
    <2>4. OnlyOrig'
        BY <1>0, <2>0, <2>1, <2>2 DEF OnlyOrig, DeleteAt
    <2>5. DupsThere'
        BY <1>0, <2>0, <2>1, <2>2, <2>3 DEF DupsThere, UploadAt, DeleteAt
    <2> QED BY <1>1, <2>0, <2>4, <2>5 DEF Once
<1>8. ASSUME UploadRecord PROVE OnceInv'
    <2>0. op.repo \in Repos /\ file[op.repo] # "absent" /\ op.kind = "upload" /\ op.pc = "record"
          /\ op'.kind = "idle"
        BY <1>0, <1>8 DEF UploadRecord, TypeInv, WalkShape, Present, UploadAt
    <2>1. Once'
        BY <1>0, <1>8, <2>0, OncePut DEF UploadRecord
    <2> QED BY <1>1, <1>8, <2>1 DEF UploadRecord
<1>9. ASSUME UploadSame PROVE OnceInv'
    <2>0. op.repo \in Repos /\ op.kind = "upload" /\ op.repo = orig /\ op'.kind = "idle" /\ checking = {}
          /\ UNCHANGED <<orig, dups, checking, walk, dedupe>>
        BY <1>0, <1>9 DEF UploadSame, TypeInv, WalkShape, Recorded
    <2>1. \A r \in Repos : r # orig => file'[r] = file[r]
        BY <1>0, <1>9, <2>0 DEF TypeOK, UploadSame
    <2>2. dups \subseteq Repos
        BY <1>0 DEF TypeOK
    <2>3. OnlyOrig'
        BY <1>0, <2>0, <2>1 DEF OnlyOrig, DeleteAt
    <2>4. DupsThere'
        BY <1>0, <2>0, <2>1, <2>2 DEF DupsThere, UploadAt, DeleteAt
    <2> QED BY <1>1, <2>0, <2>3, <2>4 DEF Once
<1> QED BY <1>2, <1>3, <1>4, <1>5, <1>6, <1>7, <1>8, <1>9 DEF Upload

\* the other requests,
LEMMA OnceRequests ==
    ASSUME ~IsManifest, TypeInv, GateInv, OnceInv, Check \/ Manifest \/ Delete
    PROVE  OnceInv'
<1> USE DEF cacheVars, procVars, history
<1>0. /\ TypeOK /\ Present /\ Recorded /\ WalkLocks /\ WalkHolds /\ Once /\ DupsThere /\ OnlyOrig
      /\ Idle.kind = "idle" /\ dedupe
    BY DEF TypeInv, GateInv, OnceInv, Once, WalkHolds, Idle
<1>1. ASSUME Once', UNCHANGED <<dedupe, walk>>, op.kind # "walk" PROVE OnceInv'
    BY <1>0, <1>1 DEF OnceInv, WalkHolds, WalkLocks
<1>2. ASSUME NEW r \in Repos, CheckStale(r) \/ ReadStale(r) PROVE OnceInv'
    <2>0. op.kind = "idle"
        BY <1>0, <1>2 DEF CheckStale, ReadStale, CheckLock, WriteFree, ReadFree
    <2>1. Once'
        BY <1>0, <1>2, <2>0, OnceStale DEF CheckStale, ReadStale
    <2> QED BY <1>1, <1>2, <2>0, <2>1 DEF CheckStale, ReadStale
<1>3. ASSUME NEW r \in Repos, CheckLink(r) PROVE OnceInv'
    <2>0. op.kind = "idle" /\ checking = {} /\ file[r] # "content"
          /\ file' = [file EXCEPT ![r] = "empty"] /\ checking' \subseteq {r}
          /\ UNCHANGED <<orig, dups, op, walk, dedupe>>
        BY <1>0, <1>3 DEF CheckLink, CheckLock, WriteFree
    <2>1. \A q \in Repos : file'[q] = IF q = r THEN "empty" ELSE file[q]
        BY <1>0, <2>0 DEF TypeOK
    <2>2. dups \subseteq Repos
        BY <1>0 DEF TypeOK
    <2>3. OnlyOrig'
        BY <1>0, <2>0, <2>1 DEF OnlyOrig, DeleteAt
    <2>4. DupsThere'
        BY <1>0, <2>0, <2>1, <2>2 DEF DupsThere, UploadAt, DeleteAt
    <2> QED BY <1>1, <2>0, <2>3, <2>4 DEF Once
<1>4. ASSUME NEW r \in Repos, CheckRecord(r) PROVE OnceInv'
    <2>0. op.kind = "idle" /\ file[r] # "absent"
        BY <1>0, <1>4 DEF CheckRecord, Recorded, Present
    <2>1. Once'
        BY <1>0, <1>4, <2>0, OncePut DEF CheckRecord
    <2> QED BY <1>1, <1>4, <2>0, <2>1 DEF CheckRecord
<1>5. ASSUME NEW r \in Repos, PutManifest(r) \/ DeleteManifest(r) PROVE OnceInv'
    BY <1>5 DEF PutManifest, DeleteManifest
<1>6. ASSUME NEW r \in Repos, DeleteStart(r) PROVE OnceInv'
    <2>0. op.kind = "idle" /\ checking = {} /\ file[r] # "absent" /\ HasCache
          /\ UNCHANGED <<file, dedupe, checking, walk>>
        BY <1>0, <1>6 DEF DeleteStart, WriteFree, HasCache
    <2>1. \A q \in Repos : file[q] = "content" => q = orig
        BY <1>0, <2>0 DEF OnlyOrig, DeleteAt
    <2>2. CASE r \notin dups
        <3>1. op' = [kind |-> "delete", repo |-> r, pc |-> "remove"] /\ UNCHANGED <<orig, dups>>
            BY <1>6, <2>2 DEF DeleteStart, HasBlob
        <3>2. op'.kind = "delete" /\ op'.repo = r /\ op'.pc = "remove"
            BY <3>1
        <3>3. Once'
            BY <1>0, <2>0, <2>1, <2>2, <3>1, <3>2 DEF Once, DupsThere, OnlyOrig, UploadAt, DeleteAt
        <3> QED BY <1>1, <2>0, <3>3
    <2>3. CASE r \in dups
        <3>1. /\ DeleteRecord(r)
              /\ op' = IF orig # r \/ orig' = NoRepo
                         THEN [kind |-> "delete", repo |-> r, pc |-> "remove"]
                         ELSE IF file[orig'] = "empty"
                                THEN [kind |-> "delete", repo |-> r, pc |-> "move"]
                                ELSE Idle
            BY <1>6, <2>0, <2>3 DEF DeleteStart, HasBlob
        <3>2. dups' = dups \ {r} /\ orig' # r /\ (orig' # NoRepo => orig' \in dups')
              /\ (orig # r => orig' = orig)
            BY <1>0, <3>1, DeleteRecordFacts
        <3>3. CASE orig # r \/ orig' = NoRepo
            <4>1. op' = [kind |-> "delete", repo |-> r, pc |-> "remove"]
                BY <3>1, <3>3
            <4>2. op'.kind = "delete" /\ op'.repo = r /\ op'.pc = "remove"
                BY <4>1
            <4>3. OnlyOrig'
                BY <2>0, <2>1, <3>2, <3>3, <4>2 DEF OnlyOrig, DeleteAt
            <4>4. DupsThere'
                BY <1>0, <2>0, <3>2, <3>3, <4>2 DEF DupsThere, Recorded, UploadAt, DeleteAt
            <4> QED BY <1>1, <2>0, <4>3, <4>4 DEF Once
        <3>4. CASE orig = r /\ orig' # NoRepo
            <4>1. orig' \in dups /\ orig' # orig /\ orig' \in Repos
                BY <1>0, <3>2, <3>4 DEF TypeOK
            <4>2. file[orig'] # "absent" /\ file[orig'] # "content"
                BY <1>0, <2>1, <4>1 DEF DupsThere
            <4>3. file[orig'] = "empty"
                BY <1>0, <4>1, <4>2 DEF TypeOK, FileStates
            <4>4. op' = [kind |-> "delete", repo |-> r, pc |-> "move"]
                BY <3>1, <3>4, <4>3
            <4>5. op'.kind = "delete" /\ op'.repo = r /\ op'.pc = "move"
                BY <4>4
            <4>6. OnlyOrig'
                BY <2>0, <2>1, <3>4, <4>5 DEF OnlyOrig, DeleteAt
            <4>7. DupsThere'
                BY <1>0, <2>0, <3>2, <3>4, <4>3, <4>5 DEF DupsThere, UploadAt, DeleteAt
            <4> QED BY <1>1, <2>0, <4>6, <4>7 DEF Once
        <3> QED BY <3>3, <3>4
    <2> QED BY <2>2, <2>3
<1>7. ASSUME DeleteMove PROVE OnceInv'
    <2>0. op.repo \in Repos /\ orig \in Repos /\ orig # op.repo /\ op.repo \notin dups /\ checking = {}
          /\ op.kind = "delete" /\ op.pc = "move" /\ op'.kind = "idle"
          /\ UNCHANGED <<orig, dups, checking, walk, dedupe>>
        BY <1>0, <1>7 DEF DeleteMove, Recorded, DupsThere, DeleteAt, TypeOK, TypeInv, WalkShape
    <2>1. \A q \in Repos : file'[q] = IF q = op.repo THEN "absent"
                                      ELSE IF q = orig THEN file[op.repo] ELSE file[q]
        BY <1>0, <1>7, <2>0 DEF DeleteMove, TypeOK
    <2>2. dups \subseteq Repos
        BY <1>0 DEF TypeOK
    <2>3. OnlyOrig'
        BY <1>0, <2>0, <2>1 DEF OnlyOrig, DeleteAt
    <2>4. DupsThere'
        BY <1>0, <2>0, <2>1, <2>2 DEF DupsThere, UploadAt, DeleteAt
    <2> QED BY <1>1, <2>0, <2>3, <2>4 DEF Once
<1>8. ASSUME DeleteRemove PROVE OnceInv'
    <2>0. op.repo \in Repos /\ op.repo \notin dups /\ checking = {}
          /\ op.kind = "delete" /\ op.pc = "remove" /\ op'.kind = "idle"
          /\ UNCHANGED <<orig, dups, checking, walk, dedupe>>
        BY <1>0, <1>8 DEF DeleteRemove, Recorded, DupsThere, DeleteAt, TypeOK, TypeInv, WalkShape
    <2>1. \A q \in Repos : file'[q] = IF q = op.repo THEN "absent" ELSE file[q]
        BY <1>0, <1>8, <2>0 DEF DeleteRemove, TypeOK
    <2>2. dups \subseteq Repos
        BY <1>0 DEF TypeOK
    <2>3. OnlyOrig'
        BY <1>0, <2>0, <2>1 DEF OnlyOrig, DeleteAt
    <2>4. DupsThere'
        BY <1>0, <2>0, <2>1, <2>2 DEF DupsThere, UploadAt, DeleteAt
    <2> QED BY <1>1, <2>0, <2>3, <2>4 DEF Once
<1>9. ASSUME NEW r \in Repos, CheckFound(r) PROVE OnceInv'
    <2>1. op.kind = "idle" /\ UNCHANGED <<file, cacheVars, dedupe, op, checking, walk>>
        BY <1>0, <1>9 DEF CheckFound, CheckLock, WriteFree
    <2>2. Once'
        BY <1>0, <2>1, OnceKept
    <2> QED BY <1>1, <2>1, <2>2
<1> QED BY <1>2, <1>3, <1>4, <1>5, <1>6, <1>7, <1>8, <1>9 DEF Check, Manifest, Delete

\* the walks,
LEMMA OnceWalk ==
    ASSUME TypeInv, GateInv, OnceInv, Walk
    PROVE  OnceInv'
<1> USE DEF cacheVars, procVars, history
<1>0. /\ TypeOK /\ Present /\ Recorded /\ WalkLocks /\ WalkHolds /\ Once /\ DupsThere /\ OnlyOrig
      /\ Idle.kind = "idle" /\ dedupe /\ walk \in WalkStates /\ WalkShape
    BY DEF TypeInv, GateInv, OnceInv, Once, WalkHolds, Idle, TypeOK
<1>1. ASSUME Once', dedupe' = dedupe, walk'.pc # "record" PROVE OnceInv'
    BY <1>0, <1>1 DEF OnceInv, WalkHolds
<1>2. CASE WalkList
    <2>1. walk'.pc = "list" /\ UNCHANGED <<file, orig, dups, op, checking, dedupe>>
        BY <1>0, <1>2 DEF WalkList, WalkStates
    <2> QED BY <1>0, <1>1, <2>1, OnceKept
<1>3. CASE WalkListed
    <2>1. walk'.pc # "record" /\ UNCHANGED <<file, orig, dups, op, checking, dedupe>>
        BY <1>0, <1>3 DEF WalkListed, WalkStates
    <2> QED BY <1>0, <1>1, <2>1, OnceKept
<1>4. CASE WalkComplete
    <2>1. walk'.pc = "done" /\ UNCHANGED <<file, orig, dups, op, checking, dedupe>>
        BY <1>0, <1>4, GotoType DEF WalkComplete, WalkPCs
    <2> QED BY <1>0, <1>1, <2>1, OnceKept
<1>5. CASE RestoreWalk
    <2>1. walk.pc \in {"origin", "scan", "restore", "read", "write"}
        BY <1>5 DEF RestoreWalk, RestoreLookup, RestoreScan, RestoreNoOrigin, RestoreStat, RestoreRead,
               RestoreWrite, RestoreEnd
    <2> QED BY <1>0, <2>1 DEF GateInv, Pending
<1>6. CASE DedupeStart
    <2>1. walk'.pc = "dedupe" /\ op.kind = "idle" /\ op'.kind = "walk"
          /\ UNCHANGED <<file, orig, dups, checking, dedupe>>
        BY <1>0, <1>6, GotoType DEF DedupeStart, WalkPCs, WriteFree
    <2> QED BY <1>0, <1>1, <2>1, OnceKept
<1>7. CASE DedupeSkip
    <2>1. walk'.pc = "dedupe" /\ UNCHANGED <<file, orig, dups, op, checking, dedupe>>
        BY <1>0, <1>7, NextPathType DEF DedupeSkip, WalkPCs
    <2> QED BY <1>0, <1>1, <2>1, OnceKept
<1>8. CASE DedupeLookup
    <2>1. op.kind = "walk" /\ UNCHANGED <<file, op, checking, dedupe>>
        BY <1>0, <1>8 DEF DedupeLookup, WalkLocks
    <2>2. walk'.pc \in {"dedupe", "disk"}
        <3>1. walk' = [walk EXCEPT !.original = orig] \/ walk' = Goto("disk")
            BY <1>8 DEF DedupeLookup
        <3>2. CASE walk' = [walk EXCEPT !.original = orig]
            BY <1>0, <1>8, <3>2 DEF WalkStates, DedupeLookup
        <3>3. CASE walk' = Goto("disk")
            BY <1>0, <3>3, GotoType DEF WalkPCs
        <3> QED BY <3>1, <3>2, <3>3
    <2>3. \/ UNCHANGED <<orig, dups>>
          \/ orig # NoRepo /\ file[orig] = "absent" /\ DeleteRecord(orig)
        BY <1>8 DEF DedupeLookup
    <2>4. Once'
        BY <1>0, <2>1, <2>3, OnceKept, OnceStale
    <2> QED BY <1>1, <2>1, <2>2, <2>4
<1>9. CASE DedupeFromDisk
    <2>0. op.kind = "walk" /\ UNCHANGED <<file, checking, dedupe>>
        BY <1>0, <1>9 DEF DedupeFromDisk, WalkLocks
    <2>1. CASE walk' = Goto("failed") /\ op' = Idle /\ UNCHANGED cacheVars
        <3>1. walk'.pc = "failed"
            BY <1>0, <2>1, GotoType DEF WalkPCs
        <3> QED BY <1>0, <1>1, <2>0, <2>1, <3>1, OnceKept
    <2>2. ASSUME NEW j \in DOMAIN walk.paths, HoldsContent(j),
                 walk' = [walk EXCEPT !.pc = "dedupe", !.original = walk.paths[j]],
                 IF orig = NoRepo THEN PutBlob(walk.paths[j]) ELSE UNCHANGED cacheVars,
                 UNCHANGED op
          PROVE  OnceInv'
        <3>1. walk'.pc = "dedupe"
            BY <1>0, <2>2 DEF WalkStates
        <3>2. walk.paths[j] \in Repos /\ file[walk.paths[j]] = "content"
            BY <1>0, <2>2 DEF WalkStates, HoldsContent
        <3>3. orig # NoRepo
            BY <1>0, <2>0, <3>2, ConstantsAssumption DEF OnlyOrig, DeleteAt
        <3>4. Once'
            BY <1>0, <2>0, <2>2, <3>3, OnceKept
        <3> QED BY <1>1, <2>0, <3>1, <3>4
    <2> QED BY <1>9, <2>1, <2>2 DEF DedupeFromDisk, FirstContent
<1>10. CASE DedupePlaceholder
    <2>0. Path \in Repos /\ op.kind = "walk" /\ file[Path] = "empty"
          /\ UNCHANGED <<file, op, checking, dedupe>>
        BY <1>0, <1>10, PathType DEF DedupePlaceholder, Path, MorePaths, WalkStates, WalkLocks
    <2>1. walk'.pc = "dedupe"
        BY <1>0, <1>10, NextPathType DEF DedupePlaceholder, WalkPCs
    <2>2. UNCHANGED <<orig, dups>> \/ PutBlob(Path)
        BY <1>10 DEF DedupePlaceholder
    <2>3. Once'
        BY <1>0, <2>0, <2>2, OnceKept, OncePut
    <2> QED BY <1>1, <2>0, <2>1, <2>3
<1>11. CASE DedupeLink
    <2>0. Path \in Repos /\ op.kind = "walk" /\ file[Path] = "content" /\ checking = {}
          /\ UNCHANGED <<orig, dups, op, checking, dedupe>>
        BY <1>0, <1>11, PathType DEF DedupeLink, Path, MorePaths, WalkStates, WalkLocks, Recorded
    <2>1. walk'.pc = "record" /\ walk'.i = walk.i /\ walk'.paths = walk.paths
        BY <1>0, <1>11, GotoType DEF DedupeLink, WalkPCs
    <2>2. Path' = Path
        BY <2>1 DEF Path
    <2>3. \A q \in Repos : file'[q] = file[q] \/ (q = Path /\ file'[q] = "empty")
        BY <1>0, <1>11, <2>0 DEF DedupeLink, TypeOK
    <2>4. WalkHolds'
        BY <1>0, <2>0, <2>2, <2>3 DEF WalkHolds
    <2>5. OnlyOrig'
        BY <1>0, <2>0, <2>3 DEF OnlyOrig, DeleteAt
    <2>6. DupsThere'
        <3>1. dups \subseteq Repos
            BY <1>0 DEF TypeOK
        <3> QED BY <1>0, <2>0, <2>3, <3>1 DEF DupsThere, UploadAt, DeleteAt
    <2> QED BY <2>4, <2>5, <2>6 DEF OnceInv, Once
<1>12. CASE DedupeRecord
    <2>0. Path \in Repos /\ op.kind = "walk" /\ file[Path] # "absent"
          /\ UNCHANGED <<file, op, checking, dedupe>>
        BY <1>0, <1>12, PathType DEF DedupeRecord, Path, WalkShape, WalkStates, WalkLocks, WalkHolds
    <2>1. walk'.pc = "dedupe"
        BY <1>0, <1>12 DEF DedupeRecord, WalkStates
    <2>2. UNCHANGED <<orig, dups>> \/ PutBlob(Path)
        BY <1>12 DEF DedupeRecord
    <2>3. Once'
        BY <1>0, <2>0, <2>2, OnceKept, OncePut
    <2> QED BY <1>1, <2>0, <2>1, <2>3
<1>13. CASE DedupeEnd
    <2>1. walk'.pc = "succeeded" /\ op.kind = "walk" /\ op'.kind = "idle"
          /\ UNCHANGED <<file, orig, dups, checking, dedupe>>
        BY <1>0, <1>13, GotoType DEF DedupeEnd, WalkPCs, WalkLocks
    <2> QED BY <1>0, <1>1, <2>1, OnceKept
<1> QED BY <1>2, <1>3, <1>4, <1>5, <1>6, <1>7, <1>8, <1>9, <1>10, <1>11, <1>12, <1>13
    DEF Walk, DedupeWalk

\* and faults that do not stray.
LEMMA OnceFaults ==
    ASSUME ~strayed', TypeInv, GateInv, OnceInv, Faults
    PROVE  OnceInv'
<1> USE DEF cacheVars, procVars, history
<1>0. /\ TypeOK /\ Present /\ Recorded /\ WalkLocks /\ WalkHolds /\ Once /\ DupsThere /\ OnlyOrig
      /\ Idle.kind = "idle" /\ dedupe /\ walk \in WalkStates
    BY DEF TypeInv, GateInv, OnceInv, Once, WalkHolds, Idle, TypeOK
<1>1. ASSUME OpFails PROVE OnceInv'
    <2>1. op.kind # "delete" /\ op'.kind = "idle" /\ UNCHANGED <<file, orig, dups, checking, dedupe>>
        BY <1>0, <1>1 DEF OpFails
    <2>2. walk' = walk \/ walk'.pc = "failed"
        BY <1>0, <1>1, GotoType DEF OpFails, WalkPCs
    <2>3. Once'
        BY <1>0, <2>1, OnceKept
    <2>4. WalkHolds'
        BY <1>0, <2>1, <2>2 DEF WalkHolds, Path
    <2> QED BY <2>3, <2>4 DEF OnceInv
<1>2. ASSUME NEW r \in Repos, CheckFails(r) PROVE OnceInv'
    <2>1. checking' \subseteq checking /\ UNCHANGED <<file, orig, dups, op, dedupe, walk>>
        BY <1>2 DEF CheckFails
    <2>2. Once'
        BY <1>0, <2>1, OnceKept
    <2>3. WalkHolds'
        BY <1>0, <2>1 DEF WalkHolds, Path
    <2> QED BY <2>2, <2>3 DEF OnceInv
<1>3. ASSUME Restart PROVE OnceInv'
    <2>0. dedupe' /\ op.kind # "delete" /\ dups' = dups
        BY <1>3 DEF Restart
    <2>1. op'.kind = "idle" /\ checking' = {} /\ UNCHANGED <<file, orig, dups>>
        BY <1>0, <1>3, <2>0 DEF Restart, Recorded
    <2>2. op.kind # "delete"
        BY <2>0
    <2>3. Once'
        BY <1>0, <2>1, <2>2, OnceKept
    <2>4. PICK setting \in BOOLEAN : <<dedupe, setting>> \in Changes /\ StartProcess(setting)
        BY <1>3 DEF Restart
    <2>5. setting /\ dedupe'
        BY <2>0, <2>4 DEF StartProcess
    <2>6. walk'.pc = "list"
        BY <2>4, <2>5 DEF StartProcess, NewWalk
    <2> QED BY <2>3, <2>5, <2>6 DEF OnceInv, WalkHolds
<1> QED BY <1>1, <1>2, <1>3 DEF Faults

\* So every step keeps it.
LEMMA OnceStep == ~IsManifest /\ TypeInv /\ GateInv /\ StraightInv /\ [Next]_vars => StraightInv'
<1> SUFFICES ASSUME ~IsManifest, TypeInv, GateInv, StraightInv, [Next]_vars, ~strayed'
             PROVE  OnceInv'
    BY DEF StraightInv
<1>1. CASE UNCHANGED vars
    <2>1. OnceInv
        BY <1>1 DEF vars, StraightInv
    <2>2. Once'
        BY <1>1, <2>1, OnceKept DEF vars, OnceInv, TypeInv
    <2> QED BY <1>1, <2>1, <2>2 DEF vars, OnceInv, WalkHolds, Path
<1>2. CASE Next
    <2>1. OnceInv
        <3>1. strayed => strayed'
            BY <1>2 DEF Next, Serve, Upload, Check, Manifest, Delete, Walk, DedupeWalk, RestoreWalk, Faults,
                UploadMove, UploadStart, UploadMiss, UploadRename, UploadStale, UploadLink,
                UploadRecord, UploadSame, CheckFound, CheckStale, CheckLink, CheckRecord, ReadStale,
                PutManifest, DeleteManifest, DeleteStart, DeleteMove, DeleteRemove, WalkList,
                WalkListed, WalkComplete, DedupeStart, DedupeSkip, DedupeLookup, DedupeFromDisk,
                DedupePlaceholder, DedupeLink, DedupeRecord, DedupeEnd, RestoreLookup, RestoreScan,
                RestoreNoOrigin, RestoreStat, RestoreRead, RestoreWrite, RestoreEnd, OpFails,
                CheckFails, Restart, history
        <3> QED BY <3>1 DEF StraightInv
    <2> QED BY <1>2, <2>1, OnceUpload, OnceRequests, OnceWalk, OnceFaults DEF Next, Serve
<1> QED BY <1>1, <1>2

\* As long as dedupe stays on, the cache is kept and no delete is cut off, a digest's content is
\* stored at most once whenever nobody holds the lock, for any number of repositories that upload,
\* check and delete it, restarts, and uploads, checks and walks that are cut off.
THEOREM StoredAtMostOnce == Listed => (Spec => []StoredOnce)
<1> SUFFICES ASSUME Listed
             PROVE  Spec => []StoredOnce
    OBVIOUS
<1>1. Init => TypeInv /\ GateInv /\ StraightInv
    BY TypeInit, GateInit, OnceInit
<1>2. TypeInv /\ GateInv /\ StraightInv /\ [Next]_vars => TypeInv' /\ GateInv' /\ StraightInv'
    BY TypeStep, GateStep, OnceStep DEF Listed
<1>3. TypeInv /\ GateInv /\ StraightInv => StoredOnce
    <2> SUFFICES ASSUME OnceInv, op = Idle
                 PROVE  Cardinality({r \in Repos : file[r] = "content"}) <= 1
        BY DEF StoredOnce, StraightInv
    <2>1. op.kind = "idle"
        BY DEF Idle
    <2>2. {r \in Repos : file[r] = "content"} \subseteq {orig}
        BY <2>1 DEF OnceInv, Once, OnlyOrig, DeleteAt
    <2>3. IsFiniteSet({orig}) /\ Cardinality({orig}) = 1
        BY FS_Singleton
    <2> QED BY <2>2, <2>3, FS_Subset
<1> QED BY <1>1, <1>2, <1>3, PTL DEF Spec

=============================================================================
