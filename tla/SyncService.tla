---------------------------- MODULE SyncService -----------------------------
(* Mirroring of one repository from upstream registries: manifest requests   *)
(* that sync on demand, the retries in the background, the periodic task,    *)
(* the staging sessions with their reaper, the credentials of the client.    *)
(* An index is staged without its children (sparse); an image is staged with *)
(* its config and layers, here one blob of the same name.  The flights       *)
(* inside a service (imageFlight) never join two of the callers below, whose *)
(* options differ; they are left out.                                        *)
EXTENDS Integers, FiniteSets, Sequences

CONSTANTS Requests, Periodic,      \* HTTP requests; the periodic task
          Keys, KeyKind, KeyRef,   \* on-demand keys; each has a background worker of that name
          Tag, Digests, Children,  \* Children[d]: the manifests of an index, {} for an image
          Targets,                 \* the digests the tag of a registry may lead to
          Platforms,               \* images of a platform that the configuration allows
          Subject, Referrer,       \* upstream lists Referrer, an image, for Subject
          Services, CanRetry,      \* upstream registries in the order of the configuration
          MaxRequests, MaxFaults, MaxMoves, None

Indexes  == {d \in Digests : Children[d] # {}}
Images   == Digests \ Indexes
Syncers  == Requests \cup Keys \cup {Periodic}
Refs     == Digests \cup {Tag}
Last     == Cardinality(Services)

SyncAssumption ==
    /\ Services = 1..Last /\ Last > 0 /\ CanRetry \in [Services -> BOOLEAN]
    /\ KeyKind \in [Keys -> {"image", "referrers"}] /\ KeyRef \in [Keys -> Refs]
    /\ Children \in [Digests -> SUBSET Digests]
    /\ Targets \subseteq Digests /\ Platforms \subseteq Images /\ Subject \in Digests /\ Referrer \in Images
    /\ {MaxRequests, MaxFaults, MaxMoves} \subseteq Nat /\ None \notin Refs \cup Syncers

VARIABLES
    upstream,   \* upstream[s]: what the tag leads to in registry s
    local,      \* the local store: blobs, manifests, where the tag leads, metadata
    w,          \* w[x]: what worker x is doing
    flight,     \* flight[k]: who runs the sync of key k
    retrying,   \* keys in requestStore
    checked,    \* <<s, r>>: service s has validated r within manifestCheckInterval
    creds,      \* whether the credentials are valid; the client that was built from them
    orphans,    \* staging sessions that nobody uses
    window,     \* what upstream had since the system was last quiet (history)
    reaped,     \* the reaper has taken a session that was in use (history)
    budget

vars == <<upstream, local, w, flight, retrying, checked, creds, orphans,
          window, reaped, budget>>
ghost == <<window, reaped>>

Rest == [pc |-> "idle", key |-> None, ref |-> None, svc |-> 1, dig |-> None, kids |-> {},
         staged |-> {}, client |-> 0, res |-> "none", answer |-> None]

InitWith(up) ==
    /\ upstream = up
    /\ local = [blobs |-> {}, mans |-> {}, tag |-> None, meta |-> {}]
    /\ w = [x \in Syncers |-> Rest] /\ flight = [k \in Keys |-> None]
    /\ retrying = {} /\ checked = {} /\ creds = [valid |-> TRUE, client |-> 0]
    /\ orphans = 0 /\ window = {up[s] : s \in Services} /\ reaped = FALSE
    /\ budget = [requests |-> 0, faults |-> 0, moves |-> 0, periodic |-> 0]

Init == \E up \in [Services -> Targets] : InitWith(up)

-----------------------------------------------------------------------------
(* What is there.                                                            *)

Has(ref)     == IF ref = Tag THEN local.tag # None ELSE ref \in local.mans
Leads(ref)   == IF ref = Tag THEN local.tag ELSE IF ref \in local.mans THEN ref ELSE None
Remote(s, ref) == IF ref = Tag THEN upstream[s] ELSE ref
Readers      == {x \in Syncers : w[x].pc = "copy"}
IsSkippable(e) == e \in {"notfound", "unauthorized", "unsigned"}
Active(x)    == w[x].pc \notin {"idle", "served"}
Quiet        == (\A x \in Syncers : w[x].pc = "idle") /\ checked = {}

ShouldCheckUpstreamManifest(ref) == \A s \in Services : <<s, ref>> \notin checked

\* CanSkipImage: the local reference already has the digest.
CanSkipImage(ref, d) == Leads(ref) = d

\* syncReferrers: the referrers of d that are not here yet.
ReferrersOf(d) == {r \in {Referrer} : d = Subject /\ ~CanSkipImage(r, r)}

\* One level of an index: nested indexes, which have no platform, and the allowed images.
filterChildrenToSync(d) == Children[d] \cap (Indexes \cup Platforms)

\* Level by level from the root; what cannot be listed has no children.
expandIndexChildren(root, missing) ==
    LET level[n \in 0..Cardinality(Digests)] ==
          IF n = 0 THEN {root}
          ELSE level[n - 1] \cup UNION {filterChildrenToSync(d) : d \in level[n - 1] \ missing}
    IN  level[Cardinality(Digests)] \ {root}

Fault   == budget.faults < MaxFaults /\ budget' = [budget EXCEPT !.faults = @ + 1]
Goto(x, l) == w' = [w EXCEPT ![x].pc = l]

-----------------------------------------------------------------------------
(* getImageManifest and getReferrers of the routes.                          *)

Request(q, k) ==
    /\ w[q] = Rest /\ budget.requests < MaxRequests
    /\ budget' = [budget EXCEPT !.requests = @ + 1]
    /\ w' = [w EXCEPT ![q] = [Rest EXCEPT !.pc = "lookup", !.key = k, !.ref = KeyRef[k]]]
    /\ window' = IF Quiet THEN {upstream[s] : s \in Services} ELSE window
    /\ UNCHANGED <<upstream, local, flight, retrying, checked, creds, orphans, reaped>>

\* A digest that is here, or a reference that was validated a moment ago, is served at once.
Lookup(q) ==
    /\ q \in Requests /\ w[q].pc = "lookup"
    /\ LET r == w[q].ref
           here == /\ KeyKind[w[q].key] = "image" /\ Has(r)
                   /\ r # Tag \/ ~ShouldCheckUpstreamManifest(r)
       IN  w' = [w EXCEPT ![q].pc = IF here THEN "serve" ELSE "join"]
    /\ UNCHANGED <<upstream, local, flight, retrying, checked, creds, orphans, ghost, budget>>

\* flight.Do: the first one runs the sync, the others share its result.
doOnDemandFlight(x) ==
    /\ w[x].pc = "join"
    /\ IF flight[w[x].key] = None
       THEN /\ flight' = [flight EXCEPT ![w[x].key] = x]
            /\ w' = [w EXCEPT ![x].pc = "refresh", ![x].svc = 1, ![x].res = "none"]
       ELSE Goto(x, "wait") /\ UNCHANGED flight
    /\ UNCHANGED <<upstream, local, retrying, checked, creds, orphans, ghost, budget>>

\* refreshRegistryTemporaryCredentials: expired ones are replaced, and the client with them,
\* under the write lock; a refresh that fails is logged, and the sync goes on.
refreshRegistryTemporaryCredentials(x) ==
    /\ w[x].pc = "refresh"
    /\ Goto(x, "resolve")
    /\ \/ creds.valid /\ UNCHANGED <<creds, budget>>
       \/ /\ ~creds.valid /\ Readers = {}
          /\ \/ creds' = [valid |-> TRUE, client |-> creds.client + 1] /\ UNCHANGED budget
             \/ Fault /\ UNCHANGED creds
    /\ UNCHANGED <<upstream, local, flight, retrying, checked, orphans, ghost>>

\* A sync attempt of worker x is over with result e.
Attempt(x, e) == w' = [w EXCEPT ![x].pc = "tried", ![x].res = e, ![x].staged = {}]

\* Under the read lock: HeadManifest, the media type, onlySigned.  The reference is pinned to
\* the digest that was found.  The periodic task releases the lock before it ensures the image.
HeadManifest(x) ==
    /\ w[x].pc = "resolve"
    /\ LET d == Remote(w[x].svc, w[x].ref)
       IN  \/ /\ ~creds.valid /\ Attempt(x, "unauthorized") /\ UNCHANGED budget
           \/ /\ creds.valid
              /\ w' = [w EXCEPT ![x].pc = IF x = Periodic THEN "ensure" ELSE "copy",
                                ![x].dig = d, ![x].client = creds.client]
              /\ UNCHANGED budget
           \/ Fault /\ \E e \in {"notfound", "unsigned", "error"} : Attempt(x, e)
    /\ UNCHANGED <<upstream, local, flight, retrying, checked, creds, orphans, ghost>>

\* ensureImage of a digest and a media type that are known: the read lock is taken again.
ensureImage ==
    /\ w[Periodic].pc = "ensure"
    /\ w' = [w EXCEPT ![Periodic].pc = "copy", ![Periodic].client = creds.client]
    /\ UNCHANGED <<upstream, local, flight, retrying, checked, creds, orphans, ghost, budget>>

\* syncRef: into the staging session, which was just made, unless the image is here.
syncRef(x) ==
    /\ w[x].pc = "copy"
    /\ \/ /\ w' = [w EXCEPT ![x].pc = "commit",
                            ![x].staged = IF CanSkipImage(w[x].ref, w[x].dig) THEN {} ELSE {w[x].dig}]
          /\ UNCHANGED budget
       \/ Fault /\ \E e \in {"notfound", "error"} : Attempt(x, e)
    /\ UNCHANGED <<upstream, local, flight, retrying, checked, creds, orphans, ghost>>

\* SyncReferrers: the referrers of the subject are staged; when it fails the session stays.
syncReferrers(x) ==
    /\ w[x].pc = "resolve" /\ w[x].key # None /\ KeyKind[w[x].key] = "referrers"
    /\ \/ /\ w' = [w EXCEPT ![x].pc = "commit", ![x].ref = Referrer, ![x].dig = Referrer,
                            ![x].staged = ReferrersOf(KeyRef[w[x].key])]
          /\ creds.valid /\ UNCHANGED <<budget, orphans>>
       \/ ~creds.valid /\ Attempt(x, "unauthorized") /\ orphans' = orphans + 1 /\ UNCHANGED budget
       \/ Fault /\ Attempt(x, "error") /\ orphans' = orphans + 1
    /\ UNCHANGED <<upstream, local, flight, retrying, checked, creds, ghost>>

-----------------------------------------------------------------------------
(* CommitAll: from the staging session into the store.                       *)

\* A session without a layout was skipped: that is a success.
CommitAll(x) ==
    /\ w[x].pc = "commit"
    /\ IF w[x].staged = {} THEN Attempt(x, "ok")
       ELSE Goto(x, IF w[x].dig \in Images THEN "blob" ELSE "put")
    /\ UNCHANGED <<upstream, local, flight, retrying, checked, creds, orphans, ghost, budget>>

\* copyBlob: a blob that the store has is not copied.
copyBlob(x) ==
    /\ w[x].pc = "blob"
    /\ IF w[x].dig \in local.blobs \/ w[x].staged # {}
       THEN Goto(x, "put") /\ local' = [local EXCEPT !.blobs = @ \cup {w[x].dig}]
       ELSE Attempt(x, "error") /\ UNCHANGED local
    /\ UNCHANGED <<upstream, flight, retrying, checked, creds, orphans, ghost, budget>>

StoreManifest(x) ==
    local' = [local EXCEPT !.mans = @ \cup {w[x].dig},
                           !.tag = IF w[x].ref = Tag THEN w[x].dig ELSE @]

\* MUTANT: the manifest is stored without a look at its blobs.
PutUnchecked(x) ==
    /\ w[x].pc = "put"
    /\ Goto(x, "meta") /\ StoreManifest(x)
    /\ UNCHANGED <<upstream, flight, retrying, checked, creds, orphans, ghost, budget>>

\* PutImageManifest wants the blobs of an image; an index may be sparse.
PutImageManifest(x) ==
    /\ w[x].pc = "put"
    /\ IF w[x].dig \in Images => w[x].dig \in local.blobs
       THEN Goto(x, "meta") /\ StoreManifest(x)
       ELSE Attempt(x, "error") /\ UNCHANGED local
    /\ UNCHANGED <<upstream, flight, retrying, checked, creds, orphans, ghost, budget>>

\* SetImageMetaFromInput; when it fails the manifest stays in the store.
SetImageMeta(x) ==
    /\ w[x].pc = "meta"
    /\ \/ /\ Attempt(x, "ok") /\ UNCHANGED budget
          /\ local' = [local EXCEPT !.meta = @ \cup {<<w[x].ref, w[x].dig>>}]
       \/ Fault /\ Attempt(x, "error") /\ UNCHANGED local
    /\ UNCHANGED <<upstream, flight, retrying, checked, creds, orphans, ghost>>

-----------------------------------------------------------------------------
(* The on-demand loop, its end, and the retry in the background.             *)

\* runOnDemand: the next registry after a failure.  A failure that is not skippable, of a
\* registry with retries, starts the background worker of the key unless there is one.
runOnDemand(x) ==
    /\ w[x].pc = "tried" /\ x # Periodic
    /\ LET k      == w[x].key
           s      == w[x].svc
           retry  == /\ x \in Requests /\ w[x].res # "ok" /\ ~IsSkippable(w[x].res)
                     /\ CanRetry[s] /\ k \notin retrying
           after  == [w EXCEPT ![x].pc = IF w[x].res # "ok" /\ s < Last THEN "refresh" ELSE "end",
                               ![x].svc = IF w[x].res # "ok" /\ s < Last THEN s + 1 ELSE s,
                               ![x].ref = KeyRef[k]]
       IN  /\ w' = IF retry THEN [after EXCEPT ![k] = [Rest EXCEPT !.pc = "join", !.key = k, !.ref = KeyRef[k]]]
                   ELSE after
           /\ retrying' = IF retry THEN retrying \cup {k} ELSE retrying
           /\ checked' = IF w[x].res = "ok" /\ KeyKind[k] = "image"
                         THEN checked \cup {<<s, KeyRef[k]>>} ELSE checked
    /\ UNCHANGED <<upstream, local, flight, creds, orphans, ghost, budget>>

\* Where a participant of a flight goes: a request serves what is here; the background worker
\* ends if it was the one that ran, or if the sync succeeded, and else tries again.
AfterFlight(x, led, e) ==
    IF x \in Requests THEN "serve" ELSE IF led \/ e = "ok" THEN "exit" ELSE "join"

EndFlight(x) ==
    /\ w[x].pc = "end"
    /\ flight' = [flight EXCEPT ![w[x].key] = None]
    /\ w' = [y \in Syncers |->
               IF y = x \/ (w[y].pc = "wait" /\ w[y].key = w[x].key)
               THEN [w[y] EXCEPT !.pc = AfterFlight(y, y = x, w[x].res), !.res = w[x].res]
               ELSE w[y]]
    /\ UNCHANGED <<upstream, local, retrying, checked, creds, orphans, ghost, budget>>

Serve(q) ==
    /\ q \in Requests /\ w[q].pc = "serve"
    /\ w' = [w EXCEPT ![q].pc = "served", ![q].answer = Leads(w[q].ref)]
    /\ UNCHANGED <<upstream, local, flight, retrying, checked, creds, orphans, ghost, budget>>

Leave(q) ==
    /\ q \in Requests /\ w[q].pc = "served" /\ w' = [w EXCEPT ![q] = Rest]
    /\ UNCHANGED <<upstream, local, flight, retrying, checked, creds, orphans, ghost, budget>>

ExitRetry(k) ==
    /\ k \in Keys /\ w[k].pc = "exit"
    /\ w' = [w EXCEPT ![k] = Rest] /\ retrying' = retrying \ {k}
    /\ UNCHANGED <<upstream, local, flight, checked, creds, orphans, ghost, budget>>

-----------------------------------------------------------------------------
(* The periodic task, with the first registry.                               *)

\* SyncRepo: the tags of upstream, filtered; here the one tag.
SyncRepo ==
    /\ w[Periodic] = Rest /\ budget.periodic = 0
    /\ budget' = [budget EXCEPT !.periodic = 1]
    /\ w' = [w EXCEPT ![Periodic] = [Rest EXCEPT !.pc = "refresh", !.ref = Tag]]
    /\ window' = IF Quiet THEN {upstream[s] : s \in Services} ELSE window
    /\ UNCHANGED <<upstream, local, flight, retrying, checked, creds, orphans, reaped>>

\* After the tag come the children below the index it was resolved to; each is ensured by its
\* digest.  A nested index that is gone is passed over, and so is a skippable failure of a child;
\* another one ends the task, and so does an index that cannot be listed.
SyncChildren ==
    /\ w[Periodic].pc = "tried"
    /\ LET p      == w[Periodic]
           goOn(kids) == w' = [w EXCEPT ![Periodic] =
                            LET c == CHOOSE c \in kids : TRUE
                            IN  [p EXCEPT !.pc = "ensure", !.ref = c, !.dig = c, !.kids = kids \ {c}]]
           stop   == w' = [w EXCEPT ![Periodic] = Rest]
           next(kids) == \/ kids # {} /\ goOn(kids) /\ UNCHANGED checked
                         \/ kids = {} /\ stop /\ checked' = checked \cup {<<1, Tag>>}
           passed == p.res = "ok" \/ (p.ref # Tag /\ IsSkippable(p.res))
       IN  \/ ~passed /\ stop /\ UNCHANGED <<checked, budget>>
           \/ passed /\ p.ref # Tag /\ next(p.kids) /\ UNCHANGED budget
           \/ passed /\ p.ref = Tag /\ next(expandIndexChildren(p.dig, {})) /\ UNCHANGED budget
           \/ /\ passed /\ p.ref = Tag /\ p.dig \in Indexes /\ Fault
              /\ \/ stop /\ UNCHANGED checked
                 \/ \E d \in Indexes \ {p.dig} : next(expandIndexChildren(p.dig, {d}))
    /\ UNCHANGED <<upstream, local, flight, retrying, creds, orphans, ghost>>

-----------------------------------------------------------------------------
(* Everything else that happens.                                             *)

MoveTag(s, d) ==
    /\ budget.moves < MaxMoves /\ d # upstream[s]
    /\ budget' = [budget EXCEPT !.moves = @ + 1]
    /\ upstream' = [upstream EXCEPT ![s] = d] /\ window' = window \cup {d}
    /\ UNCHANGED <<local, w, flight, retrying, checked, creds, orphans, reaped>>

\* manifestCheckInterval elapses for an entry.
ExpireCheck(e) ==
    /\ e \in checked /\ checked' = checked \ {e}
    /\ UNCHANGED <<upstream, local, w, flight, retrying, creds, orphans, ghost, budget>>

ExpireCredentials ==
    /\ creds.valid /\ Fault /\ creds' = [creds EXCEPT !.valid = FALSE]
    /\ UNCHANGED <<upstream, local, w, flight, retrying, checked, orphans, ghost>>

\* The garbage collector takes a blob that no manifest refers to.
CollectBlob(b) ==
    /\ b \in local.blobs \ local.mans /\ Fault
    /\ local' = [local EXCEPT !.blobs = @ \ {b}]
    /\ UNCHANGED <<upstream, w, flight, retrying, checked, creds, orphans, ghost>>

\* The reaper takes an orphaned session, or one that is older than the delay while the worker
\* is still at it: the age is the one of the directory, which its use does not renew.
ReapOrphan ==
    /\ orphans > 0 /\ orphans' = orphans - 1
    /\ UNCHANGED <<upstream, local, w, flight, retrying, checked, creds, ghost, budget>>

ReapSession(x) ==
    /\ w[x].staged # {} /\ Fault
    /\ w' = [w EXCEPT ![x].staged = {}] /\ reaped' = TRUE
    /\ UNCHANGED <<upstream, local, flight, retrying, checked, creds, orphans, window>>

\* The process stops and starts: sessions stay behind, everything in memory is gone.
Restart ==
    /\ Fault
    /\ orphans' = orphans + Cardinality({x \in Syncers : w[x].staged # {}})
    /\ w' = [x \in Syncers |-> Rest] /\ flight' = [k \in Keys |-> None]
    /\ retrying' = {} /\ checked' = {} /\ creds' = [creds EXCEPT !.valid = TRUE]
    /\ UNCHANGED <<upstream, local, ghost>>

IsReferrers(x) == w[x].key # None /\ KeyKind[w[x].key] = "referrers"

Step(x) ==
    \/ Lookup(x) \/ doOnDemandFlight(x) \/ refreshRegistryTemporaryCredentials(x)
    \/ IsReferrers(x) /\ syncReferrers(x)
    \/ ~IsReferrers(x) /\ HeadManifest(x)
    \/ syncRef(x) \/ CommitAll(x) \/ copyBlob(x) \/ PutImageManifest(x) \/ SetImageMeta(x)
    \/ runOnDemand(x) \/ EndFlight(x) \/ Serve(x) \/ Leave(x) \/ ExitRetry(x)
    \/ x = Periodic /\ (ensureImage \/ SyncChildren)

Next ==
    \/ \E q \in Requests, k \in Keys : Request(q, k)
    \/ \E x \in Syncers : Step(x) \/ ReapSession(x)
    \/ SyncRepo \/ ExpireCredentials \/ ReapOrphan \/ Restart
    \/ \E s \in Services, d \in Targets : MoveTag(s, d)
    \/ \E e \in checked : ExpireCheck(e)
    \/ \E b \in Digests : CollectBlob(b)

Fairness == (\A x \in Syncers : WF_vars(Step(x))) /\ WF_vars(ReapOrphan)
Spec     == Init /\ [][Next]_vars /\ Fairness

-----------------------------------------------------------------------------
\* Every variable holds a value of the kind the code gives it.
TypeOK ==
    /\ local.blobs \subseteq Images /\ local.mans \subseteq Digests
    /\ local.tag \in Digests \cup {None} /\ local.meta \subseteq Refs \X Digests
    /\ flight \in [Keys -> Syncers \cup {None}] /\ retrying \subseteq Keys
    /\ checked \subseteq Services \X Refs /\ orphans \in Nat
    /\ \A x \in Syncers : w[x].staged \subseteq Digests

\* An image manifest is in the store only with its blobs, whatever the garbage collector takes
\* between copyBlob, which trusts what it finds, and PutImageManifest.
SyncedWhole == local.mans \cap Images \subseteq local.blobs

\* The client that a copy uses is not replaced under it by a refresh of the credentials.
ClientStable == \A x \in Syncers : w[x].pc = "copy" => w[x].client = creds.client

\* A request for a tag whose sync succeeded is answered with a digest that the tag had in some
\* registry since the system was last quiet, unless the reaper took a session that was in use:
\* CommitAll takes a session that is gone for one that was skipped.
FreshIfSynced ==
    \A q \in Requests :
        w[q].pc = "served" /\ w[q].ref = Tag /\ w[q].res = "ok" /\ ~reaped => w[q].answer \in window

\* The descendants of an index.
Below(d) == LET sub[n \in 0..Cardinality(Digests)] ==
                  IF n = 0 THEN Children[d]
                  ELSE sub[n - 1] \cup UNION {Children[c] : c \in sub[n - 1]}
            IN  sub[Cardinality(Digests)]

\* When the periodic task goes from the tag to what is below it, that is below the index that the
\* task has resolved the tag to, even if the tag has moved since; and of the images below, those
\* of an allowed platform are all in the list unless an index on the way could not be listed.
PinsChildren ==
    \A c \in Digests :
        /\ w[Periodic].pc = "tried" /\ w[Periodic].ref = Tag
        /\ w'[Periodic].pc = "ensure" /\ w'[Periodic].ref = c
        => /\ c \in Below(w[Periodic].dig)
           /\ budget'.faults = budget.faults =>
                (w'[Periodic].kids \cup {c}) \cap Images = Below(w[Periodic].dig) \cap Platforms

\* requestStore has a key exactly while the background worker of the key lives: never a key that
\* bars every later retry.
RetryOwned == \A k \in Keys : (k \in retrying) <=> w[k].pc # "idle"

=============================================================================
