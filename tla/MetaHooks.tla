----------------------------- MODULE MetaHooks ------------------------------
(* The image store and the metadata database are two stores without a common *)
(* transaction.  A request writes the first, then a hook writes the second   *)
(* and undoes the first if that fails; requests interleave between the two.  *)
(* At start-up the database is brought in line with the storage.  A step is  *)
(* one critical section of the image store or one transaction of the         *)
(* database.                                                                 *)
EXTENDS RepoMeta, Sequences, SequencesExt

CONSTANTS Repos,
          Reqs,          \* the requests that are served at once
          TagLists,      \* the lists of tag= parameters that a push by digest carries
          MaxRepos,      \* storage.maxRepos, enforced on pushes
          FastRestart,   \* storage.fastRestart
          MaxRequests,   \* bound of requests
          MaxFaults,     \* bound of failed reads and writes
          MaxRestarts    \* bound of restarts

ASSUME MetaHooksAssumption ==
    /\ None \notin Repos \cup Reqs
    /\ TagLists \subseteq Seq(Tags)
    /\ MaxRepos \in Nat /\ MaxRequests \in Nat /\ MaxFaults \in Nat /\ MaxRestarts \in Nat

VARIABLES
    rows,      \* rows[r]: index.json of repository r, None if r has no layout
    meta,      \* meta[r]: the record of r, None if there is none
    known,     \* the images whose own metadata is in the database
    fresh,     \* fresh[r]: the record of r was updated after index.json of r
    stamp,     \* the database carries the fast-restart stamp of this binary and storage
    mu,        \* the request that holds quotaMu
    req,       \* req[q]: what request q is doing
    phase,     \* "parse" during start-up, "serve" after it
    todo,      \* parseStorage: repositories that are left
    left,      \* parseRepo: the repository and the rows that are left, None outside
    missed,    \* parseStats: a repository failed in this walk
    torn,      \* repositories a parse of which was cut short, or a push of several tags
               \* to which was cut short or not rolled back completely (history)
    raced,     \* repositories on which a request began while another one was in
               \* progress, or before the two stores agreed again (history)
    uncounted, \* repositories the record of which was deleted, or a push to which went on
               \* without a count because the database could not be read (history)
    requests, faults, restarts

walk     == <<phase, todo, left, missed>>
bounds   == <<requests, faults, restarts>>
history  == <<torn, raced, uncounted>>
database == <<meta, known, fresh, stamp>>
vars     == <<rows, database, mu, req, walk, history, bounds>>

Rows == [tag: Tags \cup {None}, img: Images]
Row(t, i) == [tag |-> t, img |-> i]

Steps == {"idle", "quota", "lock", "put", "cleanup", "snapshot", "hook", "validity", "undo",
          "unput", "unhook", "unhookRestore", "unrelease", "reput", "rehook", "reundo",
          "delete", "forget", "restore", "release"}

\* applied and prior are the locals of OnUpdateManifestDigestTags; base, alone and failed
\* are history: the tags of the repository when the request began (None if the stores did
\* not agree on them), that no other request was served meanwhile, and the step that failed.
NoRequest == [pc |-> "idle", op |-> "none", repo |-> None, ref |-> None, img |-> None,
              tags |-> <<>>, at |-> 0, applied |-> <<>>, prior |-> [t \in Tags |-> None],
              base |-> None, alone |-> FALSE, failed |-> None]

-----------------------------------------------------------------------------
(* The image store (RepoStore models it in detail), under its lock.          *)

HasRow(R, i) == \E x \in R : x.img = i

\* PutImageManifest: a tag moves; a row without a tag gives way to one with a tag.
PutTags(R, i, T) ==
    LET kept == {x \in R : x.tag \notin T /\ x # Row(None, i)}
    IN  IF T # {} THEN kept \cup {Row(t, i) : t \in T}
        ELSE IF HasRow(R, i) THEN R ELSE R \cup {Row(None, i)}

\* DeleteImageManifest by tag keeps the manifest, without a tag, after its last tag.
RemoveTag(R, t) ==
    LET kept == {x \in R : x.tag # t}
    IN  kept \cup {Row(None, x.img) : x \in {y \in R : y.tag = t /\ ~HasRow(kept, y.img)}}

RemoveRef(R, ref, i) == IF ref = None THEN {x \in R : x.img # i} ELSE RemoveTag(R, ref)

\* The manifest is not there, or an index of the repository lists it.
Refused(R, ref, i) ==
    \/ R = None
    \/ ~(IF ref = None THEN HasRow(R, i) ELSE \E x \in R : x.tag = ref)
    \/ ref = None /\ \E x \in R : x.img # i /\ i \in Children[x.img]

StoreTags(R) == [t \in Tags |-> IF \E x \in R : x.tag = t
                                THEN (CHOOSE x \in R : x.tag = t).img ELSE None]

WriteIndex(r, R) == /\ rows' = [rows EXCEPT ![r] = R]
                    /\ fresh' = [fresh EXCEPT ![r] = @ /\ R = rows[r]]

MetaTags(r) == IF meta[r] = None THEN [t \in Tags |-> None] ELSE meta[r].tags

\* The storage and the database give the tags of r the same images.
Agree(r) == IF rows[r] = None THEN meta[r] = None ELSE StoreTags(rows[r]) = MetaTags(r)

-----------------------------------------------------------------------------
Init ==
    /\ rows = [r \in Repos |-> None]
    /\ meta = [r \in Repos |-> None]
    /\ known = {}
    /\ fresh = [r \in Repos |-> FALSE]
    /\ stamp = FALSE
    /\ mu = None
    /\ req = [q \in Reqs |-> NoRequest]
    /\ phase = "parse" /\ todo = Repos /\ left = None /\ missed = FALSE
    /\ torn = {} /\ raced = {} /\ uncounted = {}
    /\ requests = 0 /\ faults = 0 /\ restarts = 0

Goto(q, step) == req' = [req EXCEPT ![q].pc = step]

\* MUTANT: the mutex of the quota stays locked.
EndLocked(q) == /\ req' = [req EXCEPT ![q] = NoRequest]
                /\ mu' = mu

\* The request ends; the quota middleware releases its mutex.
End(q) == /\ req' = [req EXCEPT ![q] = NoRequest]
          /\ mu' = IF mu = q THEN None ELSE mu

\* A write to the store or to the database fails.
Fault == /\ faults < MaxFaults /\ faults' = faults + 1
         /\ UNCHANGED <<requests, restarts>>

\* The step of request q fails, and the request goes on at another one.
Failed(q, step) ==
    /\ Fault
    /\ req' = [req EXCEPT ![q].pc = step, ![q].failed = IF @ = None THEN req[q].pc ELSE @]

\* DeleteImageManifest of a request that undoes its own push, for which a refusal is an
\* error like another.
DeleteRef(q, ref) ==
    LET x == req[q] IN
    IF Refused(rows[x.repo], ref, x.img) THEN UNCHANGED <<rows, fresh>>
    ELSE WriteIndex(x.repo, RemoveRef(rows[x.repo], ref, x.img))

Record(r) == IF meta[r] = None THEN EmptyMeta ELSE meta[r]

\* One transaction on the record of r; setRepoLastUpdated is part of it.
Commit(r, rm) == /\ meta' = [meta EXCEPT ![r] = rm]
                 /\ fresh' = [fresh EXCEPT ![r] = TRUE]

\* A request is served: it is alone if no other one is in progress.
Begin(q, new) ==
    /\ phase = "serve" /\ req[q].pc = "idle" /\ requests < MaxRequests
    /\ requests' = requests + 1
    /\ LET busy == {p \in Reqs : req[p].pc # "idle"}
       IN  /\ req' = [p \in Reqs |->
                IF p = q THEN [new EXCEPT !.alone = (busy = {}),
                                          !.base = IF Agree(new.repo) THEN MetaTags(new.repo)
                                                   ELSE None]
                ELSE IF p \in busy THEN [req[p] EXCEPT !.alone = FALSE] ELSE req[p]]
           /\ raced' = raced \cup ({new.repo} \cap ({req[p].repo : p \in busy}
                                                  \cup {r \in Repos : ~Agree(r)}))
    /\ UNCHANGED <<rows, database, mu, walk, torn, uncounted, faults, restarts>>

-----------------------------------------------------------------------------
(* PUT of a manifest: the quota, the store, the hook.                        *)

\* repoQuotaMiddleware and UpdateManifest.  The layout is there: the blobs were uploaded.
UpdateManifest(q, r, i, ref, tags) ==
    Begin(q, [NoRequest EXCEPT !.pc = "quota", !.op = "push", !.repo = r, !.img = i,
                               !.ref = ref, !.tags = tags])

\* A repository that has a record is not counted again.
QuotaKnown(q) ==
    /\ req[q].pc = "quota"
    /\ Goto(q, IF meta[req[q].repo] # None THEN "put" ELSE "lock")
    /\ UNCHANGED <<rows, database, mu, walk, history, bounds>>

\* The record cannot be read: the push goes on without the mutex and without a count.
QuotaUnknown(q) ==
    /\ req[q].pc = "quota"
    /\ Fault /\ Goto(q, "put")
    /\ uncounted' = uncounted \cup {req[q].repo}
    /\ UNCHANGED <<rows, database, mu, walk, torn, raced>>

\* The mutex is held until the request ends.
QuotaCount(q) ==
    /\ req[q].pc = "lock" /\ mu = None
    /\ IF meta[req[q].repo] # None \/ Cardinality({r \in Repos : meta[r] # None}) < MaxRepos
         THEN Goto(q, "put") /\ mu' = q
         ELSE End(q)
    /\ UNCHANGED <<rows, database, walk, history, bounds>>

\* The records cannot be counted: the push goes on, with the mutex.
QuotaUncounted(q) ==
    /\ req[q].pc = "lock" /\ mu = None
    /\ Fault /\ Goto(q, "put") /\ mu' = q
    /\ uncounted' = uncounted \cup {req[q].repo}
    /\ UNCHANGED <<rows, database, walk, torn, raced>>

\* PutImageManifest; the blobs uploads keep or make the layout.
PutImageManifest(q) ==
    LET x == req[q]
        R == IF rows[x.repo] = None THEN {} ELSE rows[x.repo]
        T == IF x.ref = None THEN ToSet(x.tags) ELSE {x.ref}
    IN  /\ x.pc = "put"
        /\ WriteIndex(x.repo, PutTags(R, x.img, T))
        /\ Goto(q, IF x.tags = <<>> THEN "hook" ELSE "snapshot")
        /\ UNCHANGED <<meta, known, stamp, mu, walk, history, bounds>>

\* An unexpected error of the store, and the clean-up of UpdateManifest.
PutFails(q) ==
    /\ req[q].pc = "put" /\ Failed(q, "cleanup")
    /\ UNCHANGED <<rows, database, mu, walk, history>>

\* The reference of the request is deleted, whatever it pointed to.
Cleanup(q) ==
    LET x == req[q] IN
    /\ x.pc = "cleanup"
    /\ DeleteRef(q, x.ref)
    /\ End(q)
    /\ UNCHANGED <<meta, known, stamp, walk, history, bounds>>

\* priorTagManifestsFromMetaDB.
Snapshot(q) ==
    LET x == req[q] IN
    /\ x.pc = "snapshot"
    /\ req' = [req EXCEPT ![q].pc = "hook", ![q].at = 1,
                          ![q].prior = [t \in Tags |-> IF t \in ToSet(x.tags)
                                                       THEN MetaTags(x.repo)[t] ELSE None]]
    /\ UNCHANGED <<rows, database, mu, walk, history, bounds>>

SnapshotFails(q) ==
    /\ req[q].pc = "snapshot" /\ Fault /\ End(q)
    /\ UNCHANGED <<rows, database, walk, history>>

\* The reference the hook is called with.
HookRef(x) == IF x.tags = <<>> THEN x.ref ELSE x.tags[x.at]

\* A hook of the push is done: the next tag, or the answer.
HookDone(q) ==
    LET x == req[q]
    IN  IF x.at < Len(x.tags)
          THEN /\ req' = [req EXCEPT ![q].pc = "hook", ![q].at = @ + 1,
                                     ![q].applied = Append(@, HookRef(x))]
               /\ UNCHANGED mu
          ELSE End(q)

\* SetImageMetaFromInput of an image: SetRepoReference.
SetImageMeta(q) ==
    LET x == req[q] IN
    /\ x.pc = "hook" /\ SigOf[x.img] = None
    /\ Commit(x.repo, SetRepoReference(Record(x.repo), HookRef(x), x.img))
    /\ known' = known \cup {x.img}
    /\ HookDone(q)
    /\ UNCHANGED <<rows, stamp, walk, history, bounds>>

\* SetImageMetaFromInput of a signature: AddManifestSignature, which leaves the time of the
\* last update alone, then UpdateSignaturesValidity.
SetSignatureMeta(q) ==
    LET x == req[q] IN
    /\ x.pc = "hook" /\ SigOf[x.img] # None
    /\ meta' = [meta EXCEPT ![x.repo] = AddManifestSignature(Record(x.repo), SigOf[x.img], x.img)]
    /\ Goto(q, "validity")
    /\ UNCHANGED <<rows, known, fresh, stamp, mu, walk, history, bounds>>

\* An image that is not known, or a trust store that is not set, changes nothing; a
\* repository whose record is gone is an error, and the signature is undone.  If the entry
\* of the image is gone from the record the code panics: the transaction is rolled back and
\* the request is over, which is a step of this action too.
UpdateValidity(q) ==
    LET x == req[q] IN
    /\ x.pc = "validity"
    /\ IF SigOf[x.img] \notin known THEN UNCHANGED meta /\ HookDone(q)
       ELSE IF meta[x.repo] = None THEN Goto(q, "undo") /\ UNCHANGED <<meta, mu>>
       ELSE /\ \E trusted \in SUBSET {x.img} :
                 meta' = [meta EXCEPT ![x.repo] =
                            UpdateSignaturesValidity(@, SigOf[x.img], trusted)]
            /\ HookDone(q)
    /\ UNCHANGED <<rows, known, fresh, stamp, walk, history, bounds>>

HookFails(q) ==
    /\ req[q].pc \in {"hook", "validity"} /\ Failed(q, "undo")
    /\ UNCHANGED <<rows, database, mu, walk, history>>

\* The push fails; of several tags each is undone.
Undone(q) ==
    IF req[q].tags = <<>> THEN End(q)
    ELSE /\ req' = [req EXCEPT ![q].pc = "unput", ![q].at = Len(req[q].tags)]
         /\ UNCHANGED mu

\* OnUpdateManifest deletes the reference from the store.
Undo(q) ==
    /\ req[q].pc = "undo"
    /\ DeleteRef(q, HookRef(req[q]))
    /\ Undone(q)
    /\ UNCHANGED <<meta, known, stamp, walk, history, bounds>>

-----------------------------------------------------------------------------
(* rollbackDigestManifestTags, after the hook of one of the tags failed.     *)

\* The next tag to delete, or the first one to take out of the metadata.
Unputted(q) ==
    LET x == req[q] IN
    req' = [req EXCEPT ![q] =
              IF x.at > 1 THEN [x EXCEPT !.at = @ - 1]
              ELSE IF x.applied # <<>> THEN [x EXCEPT !.pc = "unhook", !.at = Len(x.applied)]
              ELSE [x EXCEPT !.pc = "reput", !.at = 1]]

\* Every tag of the push is deleted from the store, the last one first.
Unput(q) ==
    /\ req[q].pc = "unput"
    /\ DeleteRef(q, req[q].tags[req[q].at])
    /\ Unputted(q)
    /\ UNCHANGED <<meta, known, stamp, mu, walk, history, bounds>>

\* The next tag to take out of the metadata, or the first one to restore.
Unhooked(q) ==
    req' = [req EXCEPT ![q] = IF @.at > 1 THEN [@ EXCEPT !.pc = "unhook", !.at = @ - 1]
                              ELSE [@ EXCEPT !.pc = "reput", !.at = 1]]

\* RemoveRepoReference in a transaction: an unknown repository or image changes nothing.
Forget(r, ref, i) ==
    IF meta[r] = None \/ i \notin known THEN UNCHANGED <<meta, fresh>>
    ELSE Commit(r, RemoveRepoReference(meta[r], ref, i))

\* OnDeleteManifest for a tag whose metadata was set.
Unhook(q) ==
    LET x == req[q] IN
    /\ x.pc = "unhook"
    /\ Forget(x.repo, x.applied[x.at], x.img)
    /\ Goto(q, "unrelease")
    /\ UNCHANGED <<rows, known, stamp, mu, walk, history, bounds>>

UnhookFails(q) ==
    /\ req[q].pc = "unhook" /\ Failed(q, "unhookRestore")
    /\ torn' = torn \cup {req[q].repo}
    /\ UNCHANGED <<rows, database, mu, walk, raced, uncounted>>

UnhookRestore(q) ==
    LET x == req[q]
        R == IF rows[x.repo] = None THEN {} ELSE rows[x.repo]
    IN  /\ x.pc = "unhookRestore"
        /\ WriteIndex(x.repo, PutTags(R, x.img, {x.applied[x.at]}))
        /\ Unhooked(q)
        /\ UNCHANGED <<meta, known, stamp, mu, walk, history, bounds>>

\* The next tag to restore, or the answer.
Restored(q) ==
    IF req[q].at < Len(req[q].tags)
      THEN /\ req' = [req EXCEPT ![q].pc = "reput", ![q].at = @ + 1]
           /\ UNCHANGED mu
      ELSE End(q)

\* MUTANT: the tags that were moved are not put back.
ReputNothing(q) ==
    /\ req[q].pc = "reput"
    /\ Restored(q)
    /\ UNCHANGED <<rows, database, walk, history, bounds>>

\* A tag that the push moved is put back, if the manifest it had is still there.
Reput(q) ==
    LET x    == req[q]
        last == x.prior[x.tags[x.at]]
    IN  /\ x.pc = "reput"
        /\ IF last = None \/ rows[x.repo] = None
             THEN Restored(q) /\ UNCHANGED <<rows, fresh>>
             ELSE /\ WriteIndex(x.repo, PutTags(rows[x.repo], last, {x.tags[x.at]}))
                  /\ Goto(q, "rehook") /\ UNCHANGED mu
        /\ UNCHANGED <<meta, known, stamp, walk, history, bounds>>

Rehook(q) ==
    LET x    == req[q]
        last == x.prior[x.tags[x.at]]
    IN  /\ x.pc = "rehook"
        /\ Commit(x.repo, SetRepoReference(Record(x.repo), x.tags[x.at], last))
        /\ known' = known \cup {last}
        /\ Restored(q)
        /\ UNCHANGED <<rows, stamp, walk, history, bounds>>

RehookFails(q) ==
    /\ req[q].pc = "rehook" /\ Failed(q, "reundo")
    /\ torn' = torn \cup {req[q].repo}
    /\ UNCHANGED <<rows, database, mu, walk, raced, uncounted>>

Reundo(q) ==
    /\ req[q].pc = "reundo"
    /\ DeleteRef(q, req[q].tags[req[q].at])
    /\ Restored(q)
    /\ UNCHANGED <<meta, known, stamp, walk, history, bounds>>

-----------------------------------------------------------------------------
(* DELETE of a manifest: the store, the hook, the idle repository.           *)

\* DeleteManifest: GetImageManifest tells which image the reference is, before the lock of
\* the delete is taken.
DeleteManifest(q, r, ref, i) ==
    /\ rows[r] # None
    /\ IF ref = None THEN HasRow(rows[r], i) ELSE Row(ref, i) \in rows[r]
    /\ Begin(q, [NoRequest EXCEPT !.pc = "delete", !.op = "delete", !.repo = r, !.ref = ref,
                                  !.img = i])

\* DeleteImageManifest: the manifest may be gone, or be part of an index.
DeleteImageManifest(q) ==
    LET x == req[q]
        R == rows[x.repo]
    IN  /\ x.pc = "delete"
        /\ IF Refused(R, x.ref, x.img) THEN End(q) /\ UNCHANGED <<rows, fresh>>
           ELSE /\ WriteIndex(x.repo, RemoveRef(R, x.ref, x.img))
                /\ Goto(q, "forget") /\ UNCHANGED mu
        /\ UNCHANGED <<meta, known, stamp, walk, history, bounds>>

\* OnDeleteManifest: the metadata of the image the request looked up before.
OnDeleteManifest(q) ==
    LET x == req[q] IN
    /\ x.pc = "forget"
    /\ IF SigOf[x.img] = None THEN Forget(x.repo, x.ref, x.img)
       ELSE /\ meta' = [meta EXCEPT ![x.repo] =
                           IF @ = None THEN None ELSE DeleteSignature(@, SigOf[x.img], x.img)]
            /\ UNCHANGED fresh
    /\ Goto(q, "release")
    /\ UNCHANGED <<rows, known, stamp, mu, walk, history, bounds>>

\* The failure to delete a signature is only reported.
ForgetFails(q) ==
    /\ req[q].pc = "forget"
    /\ Failed(q, IF SigOf[req[q].img] = None THEN "restore" ELSE "release")
    /\ UNCHANGED <<rows, database, mu, walk, history>>

\* The store is given back the reference of the request.
Restore(q) ==
    LET x == req[q]
        R == IF rows[x.repo] = None THEN {} ELSE rows[x.repo]
    IN  /\ x.pc = "restore"
        /\ WriteIndex(x.repo, PutTags(R, x.img, {x.ref} \ {None}))
        /\ End(q)
        /\ UNCHANGED <<meta, known, stamp, walk, history, bounds>>

AfterRelease(q) == IF req[q].pc = "release" THEN End(q) ELSE Unhooked(q) /\ UNCHANGED mu

\* Under the store lock, the layout goes first and the record with it.
ReleaseIdleRepository(q) ==
    LET r == req[q].repo IN
    /\ req[q].pc \in {"release", "unrelease"}
    /\ rows[r] = {}
    /\ rows' = [rows EXCEPT ![r] = None]
    /\ meta' = [meta EXCEPT ![r] = None]
    /\ fresh' = [fresh EXCEPT ![r] = FALSE]
    /\ uncounted' = uncounted \cup {r}
    /\ AfterRelease(q)
    /\ UNCHANGED <<known, stamp, walk, torn, raced, bounds>>

\* The repository has manifests, or an upload or a sync session of it is in progress.
KeepRepository(q) ==
    /\ req[q].pc \in {"release", "unrelease"}
    /\ AfterRelease(q)
    /\ UNCHANGED <<rows, database, walk, history, bounds>>

\* The layout is gone and the record stays.
ReleaseFails(q) ==
    LET r == req[q].repo IN
    /\ req[q].pc \in {"release", "unrelease"} /\ rows[r] = {}
    /\ Fault
    /\ rows' = [rows EXCEPT ![r] = None]
    /\ fresh' = [fresh EXCEPT ![r] = FALSE]
    /\ AfterRelease(q)
    /\ UNCHANGED <<meta, known, stamp, walk, history>>

-----------------------------------------------------------------------------
(* The failure of a step that undoes another one is logged, and the request  *)
(* goes on.  Of a push of several tags it leaves the rollback incomplete.    *)

UndoSteps == {"cleanup", "undo", "unput", "unhookRestore", "reput", "reundo", "restore"}

GoOn(q) == LET x == req[q] IN
    \/ x.pc \in {"cleanup", "restore"} /\ End(q)
    \/ x.pc = "undo" /\ Undone(q)
    \/ x.pc = "unput" /\ Unputted(q) /\ UNCHANGED mu
    \/ x.pc = "unhookRestore" /\ Unhooked(q) /\ UNCHANGED mu
    \/ x.pc \in {"reput", "reundo"} /\ Restored(q)

UndoFails(q) ==
    LET x == req[q] IN
    /\ x.pc \in UndoSteps
    /\ x.pc = "reput" => x.prior[x.tags[x.at]] # None
    /\ Fault /\ GoOn(q)
    /\ torn' = IF x.tags = <<>> THEN torn ELSE torn \cup {x.repo}
    /\ UNCHANGED <<rows, database, walk, raced, uncounted>>

-----------------------------------------------------------------------------
(* Start-up.                                                                 *)

\* The process dies and starts again.  With a matching stamp the walk is skipped.
Restart ==
    /\ restarts < MaxRestarts
    /\ restarts' = restarts + 1
    /\ req' = [q \in Reqs |-> NoRequest] /\ mu' = None
    /\ phase' = IF FastRestart /\ stamp THEN "serve" ELSE "parse"
    /\ todo' = IF FastRestart /\ stamp THEN {} ELSE Repos
    /\ left' = None /\ missed' = FALSE
    /\ torn' = torn \cup (IF left = None THEN {} ELSE {left.repo})
                    \cup {req[q].repo : q \in {p \in Reqs : req[p].pc # "idle" /\ req[p].tags # <<>>}}
    /\ UNCHANGED <<rows, database, raced, uncounted, requests, faults>>

\* The records of repositories that the storage does not have are deleted first.
DropRecord(r) ==
    /\ phase = "parse" /\ r \in todo
    /\ rows[r] = None
    /\ meta' = [meta EXCEPT ![r] = None] /\ fresh' = [fresh EXCEPT ![r] = FALSE]
    /\ uncounted' = IF meta[r] = None THEN uncounted ELSE uncounted \cup {r}
    /\ todo' = todo \ {r}
    /\ UNCHANGED <<rows, known, stamp, mu, req, phase, left, missed, torn, raced, bounds>>

Walking(r) == /\ phase = "parse" /\ left = None /\ r \in todo
              /\ rows[r] # None /\ \A s \in todo : rows[s] # None

\* MUTANT: the repository is skipped because it has a record.
SkipRepoRecorded(r) ==
    /\ Walking(r) /\ meta[r] # None
    /\ todo' = todo \ {r}
    /\ UNCHANGED <<rows, database, mu, req, phase, left, missed, history, bounds>>

\* parseStorage: the record is newer than index.json.
SkipRepo(r) ==
    /\ Walking(r) /\ fresh[r]
    /\ todo' = todo \ {r}
    /\ UNCHANGED <<rows, database, mu, req, phase, left, missed, history, bounds>>

\* parseRepo: the tags that the storage does not have are dropped.
ParseRepo(r) ==
    /\ Walking(r) /\ ~fresh[r]
    /\ meta' = [meta EXCEPT ![r] =
                  IF @ = None THEN None
                  ELSE ResetRepoReferences(@, {t \in Tags : StoreTags(rows[r])[t] # None})]
    /\ left' = [repo |-> r, rows |-> rows[r]]
    /\ UNCHANGED <<rows, known, fresh, stamp, mu, req, phase, todo, missed, history, bounds>>

\* parseRepo: one manifest of the index.
ParseManifest(x) ==
    LET r == left.repo IN
    /\ phase = "parse" /\ left # None /\ x \in left.rows
    /\ IF SigOf[x.img] = None
         THEN /\ Commit(r, SetRepoReference(Record(r), x.tag, x.img))
              /\ known' = known \cup {x.img}
         ELSE /\ LET rm == AddManifestSignature(Record(r), SigOf[x.img], x.img)
                 IN  \E trusted \in SUBSET {x.img} :
                       meta' = [meta EXCEPT ![r] =
                                  IF SigOf[x.img] \in known
                                  THEN UpdateSignaturesValidity(rm, SigOf[x.img], trusted)
                                  ELSE rm]
              /\ UNCHANGED <<known, fresh>>
    /\ left' = [left EXCEPT !.rows = @ \ {x}]
    /\ UNCHANGED <<rows, stamp, mu, req, phase, todo, missed, history, bounds>>

ParseRepoDone ==
    /\ phase = "parse" /\ left # None /\ left.rows = {}
    /\ todo' = todo \ {left.repo} /\ torn' = torn \ {left.repo}
    /\ left' = None
    /\ UNCHANGED <<rows, database, mu, req, phase, missed, raced, uncounted, bounds>>

\* A manifest cannot be read or its metadata not be set: the repository is given up.
ParseFails ==
    /\ phase = "parse" /\ left # None
    /\ Fault
    /\ todo' = todo \ {left.repo} /\ torn' = torn \cup {left.repo}
    /\ left' = None /\ missed' = TRUE
    /\ UNCHANGED <<rows, database, mu, req, phase, raced, uncounted>>

\* MaybeParseStorage: the stamp is written after a complete walk only.
ParseDone ==
    /\ phase = "parse" /\ todo = {} /\ left = None
    /\ stamp' = (stamp \/ ~missed)
    /\ phase' = "serve"
    /\ UNCHANGED <<rows, meta, known, fresh, mu, req, todo, left, missed, history, bounds>>

-----------------------------------------------------------------------------
Push(q) == \/ QuotaKnown(q) \/ QuotaCount(q) \/ PutImageManifest(q) \/ Cleanup(q)
           \/ Snapshot(q) \/ SetImageMeta(q) \/ SetSignatureMeta(q) \/ UpdateValidity(q)
           \/ Undo(q)

RollBack(q) == \/ Unput(q) \/ Unhook(q) \/ UnhookRestore(q) \/ Reput(q) \/ Rehook(q)
               \/ Reundo(q)

Delete(q) == \/ DeleteImageManifest(q) \/ OnDeleteManifest(q) \/ Restore(q)
             \/ ReleaseIdleRepository(q) \/ KeepRepository(q)

Fails(q) == \/ QuotaUnknown(q) \/ QuotaUncounted(q) \/ PutFails(q) \/ SnapshotFails(q)
            \/ HookFails(q) \/ UnhookFails(q) \/ RehookFails(q) \/ UndoFails(q)
            \/ ForgetFails(q) \/ ReleaseFails(q)

\* Clients push signatures by digest.  A request takes any free name: which, makes no
\* difference to it.
Free == {q \in Reqs : req[q].pc = "idle"}
Arrive ==
    /\ Free # {}
    /\ LET q == CHOOSE p \in Free : TRUE IN
       \E r \in Repos, i \in Images :
        \/ UpdateManifest(q, r, i, None, <<>>)
        \/ SigOf[i] = None /\ \E t \in Tags : UpdateManifest(q, r, i, t, <<>>)
        \/ SigOf[i] = None /\ \E L \in TagLists : UpdateManifest(q, r, i, None, L)
        \/ \E ref \in Tags \cup {None} : DeleteManifest(q, r, ref, i)

Parse == \/ \E r \in Repos : DropRecord(r) \/ SkipRepo(r) \/ ParseRepo(r)
         \/ left # None /\ \E x \in left.rows : ParseManifest(x)
         \/ ParseRepoDone \/ ParseDone

Next == \/ Arrive
        \/ \E q \in Reqs : Push(q) \/ RollBack(q) \/ Delete(q) \/ Fails(q)
        \/ Parse \/ ParseFails \/ Restart

Spec == Init /\ [][Next]_vars

\* The handler of a request is a goroutine and the walk is the main one: some goroutine
\* that can go on does.
Work == Parse \/ \E q \in Reqs : Push(q) \/ RollBack(q) \/ Delete(q)
FairSpec == Spec /\ WF_vars(Work)

-----------------------------------------------------------------------------
(* Properties.                                                               *)

\* Every variable holds a value of the kind the code gives it.
TypeOK ==
    /\ \A r \in Repos : rows[r] = None \/ rows[r] \subseteq Rows
    /\ \A r \in Repos : meta[r] # None => /\ meta[r].tags \in [Tags -> Images \cup {None}]
                                          /\ meta[r].blobs \subseteq Images
                                          /\ \A i \in Images : meta[r].sigs[i] \subseteq Signatures
    /\ known \subseteq Images /\ fresh \in [Repos -> BOOLEAN] /\ stamp \in BOOLEAN
    /\ mu \in Reqs \cup {None}
    /\ \A q \in Reqs : req[q].pc \in Steps /\ (req[q].pc # "idle" => req[q].repo \in Repos)
    /\ phase \in {"parse", "serve"} /\ todo \subseteq Repos

\* boltdb.go appendTagHistory: whatever moved a tag (a push, a rollback, a parse), the
\* newest entry of the history is where the tag is.
HistoryTracksTags ==
    \A r \in Repos : meta[r] # None =>
        \A t \in Tags : meta[r].tags[t] # None => meta[r].hist[t] = meta[r].tags[t]

\* common.go recalculateAggregateFields: while zot serves, the size of a repository counts
\* every image with a tag and nothing that no tag reaches, unless a parse of the repository
\* was cut short.  A manifest that comes after an index that lists it is not counted before
\* the next change of a tag.
SizeOfTags ==
    phase = "serve" => \A r \in Repos \ torn :
        meta[r] # None => /\ Tagged(meta[r]) \subseteq meta[r].sized
                          /\ meta[r].sized \subseteq Reachable(Tagged(meta[r]), meta[r].blobs)

\* quota.go: pushes never take the number of records past storage.maxRepos, leaving out the
\* repositories a push to which was let in because the database could not be read, and those
\* whose record was deleted: a push that found the record may come back after that.
QuotaHeld ==
    restarts = 0 => Cardinality({r \in Repos \ uncounted : meta[r] # None}) <= MaxRepos

\* The records keep their books under overlapping pushes, deletes, rollbacks, crashes and the
\* parse at start-up: the history, the size and the number of repositories are right.
RecordsSound == TypeOK /\ HistoryTracksTags /\ SizeOfTags /\ QuotaHeld

\* A request ends, and not by a crash or by a failure of its last step.
Ends(q) == /\ req[q].pc # "idle" /\ req'[q].pc = "idle"
           /\ UNCHANGED <<restarts, faults>>

\* hooks.go: a request that no other one overlaps leaves the storage and the database in
\* agreement, also when the metadata of one tag of many cannot be set or that of a deleted
\* tag cannot be removed; the tags are then what they were.
AgreementKept ==
    [][\A q \in Reqs, r \in Repos :
        LET x == req[q]
            f == x.failed
        IN  (Ends(q) /\ x.repo = r /\ x.alone /\ x.base # None /\ faults <= 1
                /\ \/ f = None
                   \/ x.tags # <<>> /\ f = "hook"
                   \/ x.op = "delete" /\ x.ref # None /\ f = "forget")
            => /\ Agree(r)'
               /\ f # None => (MetaTags(r)' = x.base)]_vars

\* parse.go: a complete walk brings the database in line with the storage, whatever request
\* failed, with the steps that undo it, or was cut short by a crash before it.  Excepted are
\* repositories on which another request came before that was repaired, a parse or a push of
\* several tags was cut short, or the rollback of a push of several tags failed in turn: the
\* record may then be newer than index.json, and the walk goes past the repository.
WalkRepairs ==
    [][(ParseDone /\ ~missed) => \A r \in Repos \ (raced \cup torn) : Agree(r)]_vars

\* The requests in progress all end, once no more come: the mutex of the quota, held over
\* the whole push, is given back.
RequestsEnd == (\E q \in Reqs : req[q].pc # "idle") ~> (\A q \in Reqs : req[q].pc = "idle")
=============================================================================
