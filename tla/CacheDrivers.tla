---------------------------- MODULE CacheDrivers ----------------------------
(***************************************************************************)
(* The drivers of the dedupe cache (pkg/storage/cache): what one digest's  *)
(* record goes through when several registries, or the readers and the     *)
(* writers of one, use it at a time.                                       *)
(*                                                                         *)
(* The record has an original, the path that holds the content, and the    *)
(* set of all paths with the blob.  BoltDB changes it in one transaction;  *)
(* Redis in several commands under a lock of the digest, which Redis takes *)
(* back when its time is up; DynamoDB in several requests and no lock.  A  *)
(* command may fail and a registry may stop between two of them.           *)
(***************************************************************************)
EXTENDS Integers, FiniteSets

CONSTANTS Clients, Paths, Kinds, MaxCalls, MaxFaults, None, Dead

VARIABLES kind, rel,            \* the driver; BoltDB: whether paths are kept relative to its root
          orig, dups,           \* the record
          lock,                 \* Redis: None, its holder, or Dead if the holder is gone
          cl,                   \* cl[c]: the call of a client
          calls, faults,        \* bounds: calls still to come, faults still to come
          kept,                 \* history: paths put and not deleted since
          mixed, faulted, torn  \* history: writers overlapped, a request failed, one stopped midway

vars == <<kind, rel, orig, dups, lock, cl, calls, faults, kept, mixed, faulted, torn>>
record == <<orig, dups>>
fixed == <<kind, rel>>
hist == <<mixed, faulted, torn>>

Rest == [op |-> "none", pc |-> "idle", path |-> None, val |-> None, got |-> {}, stay |-> {}, seen |-> {}]
Ops == {"put", "delete", "has", "list"}
Writers == {c \in Clients : cl[c].op \in {"put", "delete"}}
Recorded == dups \cup ({orig} \ {None})

Init ==
    /\ kind \in Kinds /\ rel \in BOOLEAN /\ (rel => kind = "boltdb")
    /\ \/ orig = None /\ dups = {} /\ kept = {}
       \/ \E x \in Paths : orig = x /\ dups = {x} /\ kept = {x}
    /\ lock = None /\ cl = [c \in Clients |-> Rest]
    /\ calls = MaxCalls /\ faults = MaxFaults
    /\ mixed = FALSE /\ faulted = FALSE /\ torn = FALSE

\* A reader remembers what was recorded all through its call (stay) and at some
\* time of it (seen): history for the properties.
Watch(o, d) ==
    [c \in Clients |-> IF cl[c].op \in {"has", "list"} /\ cl[c].pc # "done"
                       THEN [cl[c] EXCEPT !.stay = @ \cap d, !.seen = @ \cup d \cup ({o} \ {None})] ELSE cl[c]]

First(op) ==
    CASE kind = "boltdb" -> "tx"
      [] kind = "redis" -> IF op \in {"put", "delete"} THEN "lock" ELSE "read"
      [] OTHER -> IF op = "delete" THEN "unlist" ELSE "read"

Call(c, op, x) ==
    /\ cl[c].pc = "idle" /\ calls > 0
    /\ calls' = calls - 1
    /\ cl' = [cl EXCEPT ![c] = [Rest EXCEPT !.op = op, !.pc = First(op), !.path = x,
                                            !.stay = dups, !.seen = Recorded]]
    /\ kept' = IF op = "delete" THEN kept \ {x} ELSE kept
    /\ mixed' = (mixed \/ (kind = "dynamodb" /\ op \in {"put", "delete"} /\ Writers # {}))
    /\ UNCHANGED <<fixed, record, lock, faults, faulted, torn>>

\* The end of a call: its locks are given back, an acknowledged put is kept.
Free(c) == IF lock = c THEN None ELSE lock
Ends(c, n) == [n EXCEPT ![c].pc = "done"]
Acked(c) ==
    IF cl[c].op = "put" /\ ~\E d \in Clients \ {c} : cl[d].op = "delete" /\ cl[d].path = cl[c].path
    THEN kept \cup {cl[c].path} ELSE kept

\* A change of the record by client c, which goes on to label l.
Change(c, o, d, l) ==
    /\ orig' = o /\ dups' = d
    /\ cl' = [Watch(o, d) EXCEPT ![c].pc = l]
    /\ kept' = IF l = "done" THEN Acked(c) ELSE kept
    /\ lock' = IF l = "done" THEN Free(c) ELSE lock
    /\ UNCHANGED <<fixed, calls, faults, hist>>

\* A step of client c that reads v and goes on to label l.
Read(c, v, l) ==
    /\ cl' = [cl EXCEPT ![c].pc = l, ![c].val = v]
    /\ kept' = IF l = "done" THEN Acked(c) ELSE kept
    /\ lock' = IF l = "done" THEN Free(c) ELSE lock
    /\ UNCHANGED <<fixed, record, calls, faults, hist>>

At(c, op, l, k) == cl[c].op = op /\ cl[c].pc = l /\ kind = k
Without(c) == dups \ {cl[c].path}
With(c) == dups \cup {cl[c].path}
Answer(c, S) ==
    /\ cl' = [cl EXCEPT ![c].pc = "done", ![c].got = S]
    /\ UNCHANGED <<fixed, record, lock, calls, faults, kept, hist>>

----------------------------------------------------------------------------
(* BoltDB                                                                  *)

BoltPutBlob(c) ==
    /\ At(c, "put", "tx", "boltdb")
    /\ Change(c, IF orig = None THEN cl[c].path ELSE orig, With(c), "done")

\* The next candidate becomes the original; without one the record goes.
BoltDeleteBlob(c) ==
    /\ At(c, "delete", "tx", "boltdb")
    /\ IF orig # cl[c].path THEN Change(c, orig, Without(c), "done")
       ELSE IF Without(c) = {} THEN Change(c, None, {}, "done")
       ELSE \E x \in Without(c) : Change(c, x, Without(c), "done")

\* The path is compared as it was given, while the record may hold relative ones.
BoltHasBlob(c) ==
    /\ At(c, "has", "tx", "boltdb")
    /\ Answer(c, IF ~rel /\ cl[c].path \in Recorded THEN {cl[c].path} ELSE {})

BoltGetAllBlobs(c) ==
    /\ At(c, "list", "tx", "boltdb")
    /\ Answer(c, Recorded)

----------------------------------------------------------------------------
(* Redis                                                                   *)

RedisLock(c) ==
    /\ kind = "redis" /\ cl[c].pc = "lock"
    /\ \/ /\ lock = None
          /\ lock' = c
          /\ cl' = [cl EXCEPT ![c].pc = IF cl[c].op = "put" THEN "exists" ELSE "unlist"]
       \/ /\ lock # None       \* the tries are used up
          /\ cl' = Ends(c, cl) /\ UNCHANGED lock
    /\ UNCHANGED <<fixed, record, calls, faults, kept, hist>>

HExists(c) == orig # None

\* HExists, then one transaction for the original and the set
RedisExists(c) == At(c, "put", "exists", "redis") /\ Read(c, IF HExists(c) THEN orig ELSE None, "put")
RedisPutBlob(c) ==
    /\ At(c, "put", "put", "redis")
    /\ Change(c, IF cl[c].val = None THEN cl[c].path ELSE orig, With(c), "done")

\* The path leaves the set first; if it was the original, another path of the
\* set takes its place.
RedisSRem(c) == At(c, "delete", "unlist", "redis") /\ Change(c, orig, Without(c), "orig")
RedisCurrent(c) ==
    /\ At(c, "delete", "orig", "redis")
    /\ Read(c, orig, IF orig = cl[c].path THEN "next" ELSE "done")
RedisSRandMember(c) ==
    /\ At(c, "delete", "next", "redis")
    /\ IF dups = {} THEN Read(c, None, "set") ELSE \E x \in dups : Read(c, x, "set")
RedisDeleteBlob(c) ==
    /\ At(c, "delete", "set", "redis")
    /\ Change(c, cl[c].val, dups, "done")

RedisHasBlob(c) ==
    /\ At(c, "has", "read", "redis")
    /\ IF cl[c].path \in dups THEN Read(c, None, "orig") ELSE Answer(c, {})
RedisHasOrigin(c) ==
    /\ At(c, "has", "orig", "redis")
    /\ Answer(c, IF orig # None THEN {cl[c].path} ELSE {})

RedisGetBlob(c) ==
    /\ At(c, "list", "read", "redis")
    /\ IF orig = None THEN Answer(c, {}) ELSE Read(c, orig, "members")
Members(c) == dups \cup {cl[c].val}
RedisGetAllBlobs(c) == At(c, "list", "members", "redis") /\ Answer(c, Members(c))

----------------------------------------------------------------------------
(* DynamoDB                                                                *)

\* What a read gives: an error that the caller does not look at reads as nothing.
DynamoOrigin(c, l) ==
    \/ Read(c, orig, l)
    \/ /\ faults > 0
       /\ faults' = faults - 1 /\ faulted' = TRUE
       /\ cl' = [cl EXCEPT ![c].pc = l, ![c].val = None]
       /\ UNCHANGED <<fixed, record, lock, calls, kept, mixed, torn>>

DynamoGetBlob(c) == At(c, "put", "read", "dynamodb") /\ DynamoOrigin(c, "origin")
putOriginBlob(c) ==
    /\ At(c, "put", "origin", "dynamodb")
    /\ Change(c, IF cl[c].val = None THEN cl[c].path ELSE orig, dups, "list")
DynamoPutBlob(c) == At(c, "put", "list", "dynamodb") /\ Change(c, orig, With(c), "done")

DynamoUnlist(c) == At(c, "delete", "unlist", "dynamodb") /\ Change(c, orig, Without(c), "orig")
DynamoCurrent(c) == At(c, "delete", "orig", "dynamodb") /\ DynamoOrigin(c, "next")
GetDuplicateBlob(c) ==
    /\ At(c, "delete", "next", "dynamodb") /\ cl[c].val = cl[c].path
    /\ \/ /\ IF dups = {} THEN Read(c, None, "set") ELSE \E x \in dups : Read(c, x, "set")
       \/ /\ faults > 0
          /\ faults' = faults - 1 /\ faulted' = TRUE
          /\ cl' = [cl EXCEPT ![c].pc = "set", ![c].val = None]
          /\ UNCHANGED <<fixed, record, lock, calls, kept, mixed, torn>>

\* MUTANT: the item goes although another original was found.
DeleteFirst(c) == cl[c].val = None \/ cl[c].pc = "set"

\* another original stays; with none at all the item is deleted
DeleteItem(c) == cl[c].val = None
Settles(c) == \/ At(c, "delete", "set", "dynamodb")
              \/ At(c, "delete", "next", "dynamodb") /\ cl[c].val # cl[c].path
DynamoDeleteBlob(c) ==
    /\ Settles(c)
    /\ IF DeleteItem(c) THEN Change(c, None, {}, "done")
       ELSE Change(c, IF cl[c].pc = "set" THEN cl[c].val ELSE orig, dups, "done")

\* Nobody looks at the error of DeleteItem: the call succeeds and the item stays.
DeleteItemFails(c) ==
    /\ Settles(c) /\ cl[c].val = None /\ faults > 0
    /\ faults' = faults - 1 /\ faulted' = TRUE /\ cl' = Ends(c, cl)
    /\ UNCHANGED <<fixed, record, lock, calls, kept, mixed, torn>>

DynamoHasBlob(c) ==
    /\ At(c, "has", "read", "dynamodb")
    /\ Answer(c, Recorded \cap {cl[c].path})
DynamoGetAllBlobs(c) ==
    /\ At(c, "list", "read", "dynamodb")
    /\ Answer(c, IF orig = None /\ dups = {} THEN {} ELSE Recorded)

----------------------------------------------------------------------------
(* Faults                                                                  *)

\* A call whose request failed ends with an error; what it did before stays.
Fails(c) ==
    /\ cl[c].pc \notin {"idle", "done", "lock"} /\ faults > 0
    /\ ~(kind = "dynamodb" /\ cl[c].op \in {"put", "delete"} /\ cl[c].pc \in {"read", "orig", "next"})
    /\ ~(Settles(c) /\ cl[c].val = None)
    /\ faults' = faults - 1 /\ faulted' = TRUE
    /\ torn' = (torn \/ cl[c].op \in {"put", "delete"})
    /\ cl' = [cl EXCEPT ![c] = Rest] /\ lock' = Free(c)
    /\ UNCHANGED <<fixed, record, calls, kept, mixed>>

\* The registry stops; the lock it holds stays until its time is up.
Crash(c) ==
    /\ cl[c].pc \notin {"idle", "done"} /\ faults > 0
    /\ faults' = faults - 1 /\ torn' = (torn \/ cl[c].op \in {"put", "delete"})
    /\ cl' = [cl EXCEPT ![c] = Rest] /\ lock' = IF lock = c THEN Dead ELSE lock
    /\ UNCHANGED <<fixed, record, calls, kept, mixed, faulted>>

LockExpires ==
    /\ lock = Dead \/ (lock # None /\ faults > 0)
    /\ mixed' = (mixed \/ lock # Dead)
    /\ faults' = IF lock = Dead THEN faults ELSE faults - 1
    /\ lock' = None
    /\ UNCHANGED <<fixed, record, cl, calls, kept, faulted, torn>>

Return(c) ==
    /\ cl[c].pc = "done"
    /\ cl' = [cl EXCEPT ![c] = Rest]
    /\ UNCHANGED <<fixed, record, lock, calls, faults, kept, hist>>

Step(c) ==
    \/ BoltPutBlob(c) \/ BoltDeleteBlob(c) \/ BoltHasBlob(c) \/ BoltGetAllBlobs(c)
    \/ RedisLock(c) \/ RedisExists(c) \/ RedisPutBlob(c)
    \/ RedisSRem(c) \/ RedisCurrent(c) \/ RedisSRandMember(c) \/ RedisDeleteBlob(c)
    \/ RedisHasBlob(c) \/ RedisHasOrigin(c) \/ RedisGetBlob(c) \/ RedisGetAllBlobs(c)
    \/ DynamoGetBlob(c) \/ putOriginBlob(c) \/ DynamoPutBlob(c)
    \/ DynamoUnlist(c) \/ DynamoCurrent(c) \/ GetDuplicateBlob(c) \/ DynamoDeleteBlob(c)
    \/ DeleteItemFails(c) \/ DynamoHasBlob(c) \/ DynamoGetAllBlobs(c)
    \/ Return(c)

Next ==
    \/ \E c \in Clients : Step(c) \/ Fails(c) \/ Crash(c)
    \/ \E c \in Clients, op \in Ops, x \in Paths : Call(c, op, x)
    \/ LockExpires

Spec == Init /\ [][Next]_vars

----------------------------------------------------------------------------
(* Properties                                                              *)

\* Every variable holds a value of the kind the code gives it.
TypeOK ==
    /\ kind \in Kinds /\ orig \in Paths \cup {None} /\ dups \subseteq Paths /\ kept \subseteq Paths
    /\ lock \in Clients \cup {None, Dead}
    /\ \A c \in Clients : cl[c].got \subseteq Paths /\ cl[c].path \in Paths \cup {None}

\* DynamoDB's promise is one writer at a time and no failed reads, that of Redis
\* a lock that outlives the call.
Trusted == ~mixed /\ ~(kind = "dynamodb" /\ faulted)

\* A path whose PutBlob was acknowledged and which nobody deletes since stays in
\* the record, whatever becomes of the other paths and of the calls that stop
\* midway, and the record has an original to read from.
KeptListed == Trusted => \A x \in kept : x \in dups /\ orig # None

\* The original is one of the paths, or its deletion is under way or was cut off.
OriginListed ==
    Trusted /\ orig # None /\ orig \notin dups =>
        torn \/ \E c \in Clients : cl[c].path = orig /\ cl[c].op \in {"put", "delete"} /\ cl[c].pc # "idle"

\* Only a deletion changes the original: that of the path which is the original.
KeepsOrigin == orig # None /\ orig' # orig /\ Trusted =>
                   \E c \in Clients : cl[c].op = "delete" /\ cl[c].path = orig

\* A reader gets all the paths recorded from the start of its call to the end of
\* it, and none that was recorded at no time of it; a path BoltDB keeps relative
\* to its root is not found by HasBlob.
ReadsSound ==
    \A c \in Clients : cl[c].pc = "done" /\ cl[c].op \in {"has", "list"} /\ Trusted /\ ~torn =>
        LET asked == IF cl[c].op = "has" THEN {cl[c].path} ELSE Paths IN
        /\ cl[c].got \subseteq cl[c].seen
        /\ (kind = "boltdb" /\ rel /\ cl[c].op = "has") \/ cl[c].stay \cap asked \subseteq cl[c].got
=============================================================================
