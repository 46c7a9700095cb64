---------------------------- MODULE MetaClients -----------------------------
(* The clients of the metadata database, which several zot processes may     *)
(* share.  An operation is the sequence of calls its backend makes: BoltDB   *)
(* runs it in one transaction, Redis reads and writes rows under the locks   *)
(* that withRSLocks takes, DynamoDB reads and writes items without a lock.   *)
EXTENDS MetaRecords, Sequences

CONSTANTS Clients,
          Backends,      \* the drivers a behaviour may be about
          Workloads,     \* what the clients do: the operations they start, and how many
          MaxFaults

ASSUME MetaClientsAssumption ==
    /\ {None, "dead"} \cap Clients = {}
    /\ Backends \subseteq {"bolt", "redis", "dynamo"}
    /\ \A w \in Workloads : w.ops \subseteq OpNames /\ w.max \in Nat
    /\ MaxFaults \in Nat

VARIABLES
    db,        \* the records
    late,      \* API keys the expiration date of which has passed
    backend,   \* the driver of this database
    load,      \* the workload of this behaviour
    locks,     \* locks[l]: the client that holds redis lock l, None, or "dead"
    client,    \* client[c]: the operation of client c, its position in it, what it read
    added,     \* keys that were created
    revoked,   \* keys whose revocation was answered with success
    gone,      \* keys whose revocation was answered with success, and no call failed in it
    dropped,   \* repositories the record of which was deleted (history)
    ops, faults

history == <<added, revoked, gone, dropped>>
vars == <<db, late, backend, load, locks, client, history, ops, faults>>

Rows == {<<"repo", r>> : r \in Repos} \cup {<<"blobs", r>> : r \in Repos}
          \cup {<<"user", u>> : u \in Users} \cup {<<"key", k>> : k \in Keys} \cup {<<"image", i>> : i \in Images}
LockNames == {<<"Repo", r>> : r \in Repos} \cup {<<"User", u>> : u \in Users}
               \cup {<<"Image", i>> : i \in Images}

\* old: the key of the operation was revoked, or late, when the operation began.
Idle == [op |-> None, pc |-> 0, view |-> EmptyDB, res |-> "ok", failed |-> FALSE, old |-> "no"]

\* The rows of new in S, the rest of old.
Overwrite(old, new, S) ==
    [repo  |-> [r \in Repos |-> IF <<"repo", r>> \in S THEN new.repo[r] ELSE old.repo[r]],
     blobs |-> [r \in Repos |-> IF <<"blobs", r>> \in S THEN new.blobs[r] ELSE old.blobs[r]],
     user  |-> [u \in Users |-> IF <<"user", u>> \in S THEN new.user[u] ELSE old.user[u]],
     key   |-> [k \in Keys |-> IF <<"key", k>> \in S THEN new.key[k] ELSE old.key[k]],
     image |-> {i \in Images : i \in (IF <<"image", i>> \in S THEN new.image ELSE old.image)}]

-----------------------------------------------------------------------------
(* The calls of a driver.                                                    *)

Lock(l)      == [do |-> "lock", at |-> l, rows |-> {}, fx |-> "none"]
Read(row)    == [do |-> "read", at |-> None, rows |-> {row}, fx |-> "none"]
ReadImages   == [do |-> "read", at |-> None, rows |-> {<<"image", i>> : i \in Images}, fx |-> "none"]
Write(S, fx) == [do |-> "write", at |-> None, rows |-> S, fx |-> fx]
Tx(fx)       == [do |-> "tx", at |-> None, rows |-> Rows, fx |-> fx]
Release      == [do |-> "release", at |-> None, rows |-> {}, fx |-> "none"]

\* MUTANT: only the first lock is taken.
WithFirstLock(ls, body) == <<Lock(ls[1])>> \o body \o <<Release>>

\* withRSLocks takes the locks in the order given and releases them at the end.
withRSLocks(ls, body) == [n \in 1..Len(ls) |-> Lock(ls[n])] \o body \o <<Release>>

RepoRow(o)  == <<"repo", o.repo>>
BlobsRow(o) == <<"blobs", o.repo>>
UserRow(o)  == <<"user", o.user>>
KeyRow(o)   == <<"key", o.key>>
ImageRow(o) == <<"image", o.img>>
RepoLock(o) == <<"Repo", o.repo>>
UserLock(o) == <<"User", o.user>>

\* Redis.  Each definition is the body of the method of RedisDB with the same name.
RedisSetRepoReference(o) ==
    withRSLocks(<<<<"Image", o.img>>>>, <<Write({ImageRow(o)}, "image")>>)
      \o withRSLocks(<<RepoLock(o)>>,
                     <<Read(RepoRow(o)), Read(BlobsRow(o)), Write({RepoRow(o), BlobsRow(o)}, "set")>>)

\* MUTANT: no lock is taken.
RedisRemoveUnlocked(o) ==
    <<Read(RepoRow(o)), Read(ImageRow(o)), Read(BlobsRow(o)),
      Write({RepoRow(o), BlobsRow(o)}, "remove"), Release>>

RedisRemoveRepoReference(o) ==
    withRSLocks(<<RepoLock(o)>>, <<Read(RepoRow(o)), Read(ImageRow(o)), Read(BlobsRow(o)),
                                   Write({RepoRow(o), BlobsRow(o)}, "remove")>>)

RedisResetRepoReferences(o) ==
    withRSLocks(<<RepoLock(o)>>, <<Read(RepoRow(o)), Write({RepoRow(o)}, "reset")>>)

RedisDeleteRepoMeta(o) ==
    withRSLocks(<<RepoLock(o)>>, <<Write({RepoRow(o), BlobsRow(o)}, "drop")>>)

RedisAddManifestSignature(o) ==
    withRSLocks(<<RepoLock(o)>>, <<Read(RepoRow(o)), Write({RepoRow(o)}, "sign")>>)

RedisDeleteSignature(o) ==
    withRSLocks(<<RepoLock(o)>>, <<Read(RepoRow(o)), Write({RepoRow(o)}, "unsign")>>)

RedisUpdateSignaturesValidity(o) ==
    withRSLocks(<<RepoLock(o)>>, <<Read(<<"image", SigOf[o.img]>>), Read(RepoRow(o)), Write({RepoRow(o)}, "validity")>>)

RedisUpdateStatsOnDownload(o) ==
    withRSLocks(<<RepoLock(o)>>, <<Read(RepoRow(o)), Write({RepoRow(o)}, "download")>>)

RedisToggleStarRepo(o) ==
    withRSLocks(<<RepoLock(o), UserLock(o)>>,
                <<Read(UserRow(o)), Read(RepoRow(o)), Write({UserRow(o), RepoRow(o)}, "star")>>)

\* A change of the user's record, under the lock of the user.
RedisUser(o, fx, S) == withRSLocks(<<UserLock(o)>>, <<Read(UserRow(o)), Write(S, fx)>>)

RedisToggleBookmarkRepo(o) == RedisUser(o, "bookmark", {UserRow(o)})
RedisSetUserGroups(o)      == RedisUser(o, "groups", {UserRow(o)})
RedisAddUserAPIKey(o)      == RedisUser(o, "addkey", {UserRow(o), KeyRow(o)})
RedisDeleteUserAPIKey(o)   == RedisUser(o, "delkey", {UserRow(o), KeyRow(o)})
RedisGetUserAPIKeys(o)     == RedisUser(o, "listkeys", {UserRow(o)})
RedisIsAPIKeyExpired(o)    == RedisUser(o, "expired", {UserRow(o)})
RedisUpdateUserAPIKeyLastUsed(o) == RedisUser(o, "lastused", {UserRow(o)})

\* A query reads the record of the repository, then the images its tags name.
RedisQuery(o) == <<Read(RepoRow(o)), ReadImages, Write({}, "query"), Release>>

\* DynamoDB.  An operation reads items and writes them back; only what
\* TransactWriteItems gets is written at once.
DynamoSetRepoReference(o) ==
    <<Write({ImageRow(o)}, "image"), Read(RepoRow(o)), Read(BlobsRow(o)),
      Write({BlobsRow(o)}, "set"), Write({RepoRow(o)}, "set"), Release>>

DynamoRemoveRepoReference(o) ==
    <<Read(RepoRow(o)), Read(ImageRow(o)), Read(BlobsRow(o)),
      Write({BlobsRow(o)}, "remove"), Write({RepoRow(o)}, "remove"), Release>>

DynamoResetRepoReferences(o) == <<Read(RepoRow(o)), Write({RepoRow(o)}, "reset"), Release>>
DynamoDeleteRepoMeta(o)      == <<Write({RepoRow(o), BlobsRow(o)}, "drop"), Release>>
DynamoAddManifestSignature(o) == <<Read(RepoRow(o)), Write({RepoRow(o)}, "sign"), Release>>
DynamoDeleteSignature(o)     == <<Read(RepoRow(o)), Write({RepoRow(o)}, "unsign"), Release>>
DynamoUpdateSignaturesValidity(o) ==
    <<Read(<<"image", SigOf[o.img]>>), Read(RepoRow(o)), Write({RepoRow(o)}, "validity"), Release>>
DynamoUpdateStatsOnDownload(o) == <<Read(RepoRow(o)), Write({RepoRow(o)}, "download"), Release>>
DynamoToggleStarRepo(o) ==
    <<Read(UserRow(o)), Read(RepoRow(o)), Write({UserRow(o), RepoRow(o)}, "star"), Release>>
DynamoToggleBookmarkRepo(o) == <<Read(UserRow(o)), Write({UserRow(o)}, "bookmark"), Release>>
DynamoSetUserGroups(o)      == <<Read(UserRow(o)), Write({UserRow(o)}, "groups"), Release>>
DynamoAddUserAPIKey(o)      == <<Read(UserRow(o)), Write({UserRow(o), KeyRow(o)}, "addkey"), Release>>
DynamoDeleteUserAPIKey(o) ==
    <<Read(UserRow(o)), Write({KeyRow(o)}, "delkey"), Write({UserRow(o)}, "delkey"), Release>>
DynamoGetUserAPIKeys(o)     == <<Read(UserRow(o)), Write({UserRow(o)}, "listkeys"), Release>>
DynamoIsAPIKeyExpired(o)    == <<Read(UserRow(o)), Write({UserRow(o)}, "expired"), Release>>
DynamoUpdateUserAPIKeyLastUsed(o) == <<Read(UserRow(o)), Write({UserRow(o)}, "lastused"), Release>>
DynamoQuery(o) == <<Read(RepoRow(o)), ReadImages, Write({}, "query"), Release>>

\* authenticateAPIKeyCredential: who owns the key, is it expired, note its use, the groups.
AuthenticateAPIKey(o) ==
    LET owner == <<Read(KeyRow(o)), Write({}, "owner")>>
        groups == <<Read(UserRow(o)), Release>>
    IN  CASE backend = "bolt"   -> <<Tx("owner"), Tx("expired"), Tx("lastused"), Release>>
          [] backend = "redis"  -> owner \o RedisIsAPIKeyExpired(o)
                                     \o RedisUpdateUserAPIKeyLastUsed(o) \o groups
          [] OTHER -> owner \o DynamoIsAPIKeyExpired(o)
                        \o DynamoUpdateUserAPIKeyLastUsed(o) \o groups

RedisProgram(o) ==
    CASE o.name = "set"      -> RedisSetRepoReference(o)
      [] o.name = "remove"   -> RedisRemoveRepoReference(o)
      [] o.name = "reset"    -> RedisResetRepoReferences(o)
      [] o.name = "drop"     -> RedisDeleteRepoMeta(o)
      [] o.name = "sign"     -> RedisAddManifestSignature(o)
      [] o.name = "unsign"   -> RedisDeleteSignature(o)
      [] o.name = "validity" -> RedisUpdateSignaturesValidity(o)
      [] o.name = "download" -> RedisUpdateStatsOnDownload(o)
      [] o.name = "star"     -> RedisToggleStarRepo(o)
      [] o.name = "bookmark" -> RedisToggleBookmarkRepo(o)
      [] o.name = "groups"   -> RedisSetUserGroups(o)
      [] o.name = "addkey"   -> RedisAddUserAPIKey(o)
      [] o.name = "delkey"   -> RedisDeleteUserAPIKey(o)
      [] o.name = "listkeys" -> RedisGetUserAPIKeys(o)
      [] o.name = "query"    -> RedisQuery(o)

DynamoProgram(o) ==
    CASE o.name = "set"      -> DynamoSetRepoReference(o)
      [] o.name = "remove"   -> DynamoRemoveRepoReference(o)
      [] o.name = "reset"    -> DynamoResetRepoReferences(o)
      [] o.name = "drop"     -> DynamoDeleteRepoMeta(o)
      [] o.name = "sign"     -> DynamoAddManifestSignature(o)
      [] o.name = "unsign"   -> DynamoDeleteSignature(o)
      [] o.name = "validity" -> DynamoUpdateSignaturesValidity(o)
      [] o.name = "download" -> DynamoUpdateStatsOnDownload(o)
      [] o.name = "star"     -> DynamoToggleStarRepo(o)
      [] o.name = "bookmark" -> DynamoToggleBookmarkRepo(o)
      [] o.name = "groups"   -> DynamoSetUserGroups(o)
      [] o.name = "addkey"   -> DynamoAddUserAPIKey(o)
      [] o.name = "delkey"   -> DynamoDeleteUserAPIKey(o)
      [] o.name = "listkeys" -> DynamoGetUserAPIKeys(o)
      [] o.name = "query"    -> DynamoQuery(o)

Program(o) ==
    IF o.name = "auth" THEN AuthenticateAPIKey(o)
    ELSE CASE backend = "bolt"  -> <<Tx(o.name), Release>>
           [] backend = "redis" -> RedisProgram(o)
           [] OTHER             -> DynamoProgram(o)

-----------------------------------------------------------------------------
Init ==
    /\ db \in {EmptyDB, Setup} /\ late = {}
    /\ backend \in Backends /\ load \in Workloads
    /\ locks = [l \in LockNames |-> None]
    /\ client = [c \in Clients |-> Idle]
    /\ added = {k \in Keys : db.key[k] # None}
    /\ revoked = {} /\ gone = {} /\ dropped = {}
    /\ ops = 0 /\ faults = 0

Requests == UNION {Calls(n) : n \in load.ops}

Begin(c, o) ==
    /\ client[c] = Idle /\ ops < load.max
    /\ o.name = "addkey" => o.key \notin added
    /\ o.name = "delkey" => db.key[o.key] # None
    /\ client' = [client EXCEPT ![c].op = o, ![c].pc = 1,
                     ![c].old = CASE o.key \in gone    -> "gone"
                                  [] o.key \in revoked \ gone -> "revoked"
                                  [] o.key \in late \ (revoked \cup gone) -> "late"
                                  [] OTHER -> "no"]
    /\ added' = added \cup (IF o.name = "addkey" THEN {o.key} ELSE {})
    /\ ops' = ops + 1
    /\ UNCHANGED <<db, late, backend, load, locks, revoked, gone, dropped, faults>>

At(c, kind) == client[c].op # None /\ Program(client[c].op)[client[c].pc].do = kind
Instr(c)    == Program(client[c].op)[client[c].pc]
Last(c)     == Len(Program(client[c].op))

\* What the caller of the part learns: an early return and an error end the operation.
Result(fx, o, v) ==
    CASE fx = "owner"   -> IF v.key[o.key] = o.user THEN "ok" ELSE "denied"
      [] fx = "expired" -> IF KeyEntry(v, o).expired \/ PastDate(v, o, late) THEN "denied" ELSE "ok"
      [] fx = "query"   -> IF v.repo[o.repo] # None /\ ~(Tagged(v.repo[o.repo]) \subseteq v.image)
                           THEN "missing" ELSE "ok"
      [] OTHER          -> IF Writes(fx, o, v, late) THEN "ok" ELSE "nothing"

\* Client c goes on, or to its end if the operation is over.
Continue(c, v, res) ==
    client' = [client EXCEPT ![c].view = v, ![c].res = res,
                             ![c].pc = IF res = "ok" THEN @ + 1 ELSE Last(c)]

Take(c) ==
    /\ At(c, "lock") /\ locks[Instr(c).at] = None
    /\ locks' = [locks EXCEPT ![Instr(c).at] = c]
    /\ Continue(c, client[c].view, "ok")
    /\ UNCHANGED <<db, late, backend, load, history, ops, faults>>

\* LockContext gives up after its retries.
LockFails(c) ==
    /\ At(c, "lock") /\ locks[Instr(c).at] # None
    /\ Continue(c, client[c].view, "error")
    /\ UNCHANGED <<db, late, backend, load, locks, history, ops, faults>>

ReadRow(c) ==
    /\ At(c, "read")
    /\ Continue(c, Overwrite(client[c].view, db, Instr(c).rows), "ok")
    /\ UNCHANGED <<db, late, backend, load, locks, history, ops, faults>>

\* One write, or one transaction that also reads.
WriteRows(c) ==
    /\ At(c, "write") \/ At(c, "tx")
    /\ LET o    == client[c].op
           fx   == Instr(c).fx
           view == IF Instr(c).do = "tx" THEN db ELSE client[c].view
       IN  /\ db' = IF Writes(fx, o, view, late)
                    THEN Overwrite(db, Apply(fx, o, view, late), Instr(c).rows) ELSE db
           /\ Continue(c, client[c].view, Result(fx, o, view))
           /\ dropped' = IF fx = "drop" THEN dropped \cup {o.repo} ELSE dropped
    /\ UNCHANGED <<late, backend, load, locks, added, revoked, gone, ops, faults>>

\* A call fails.  DeleteUserAPIKey of Redis does not look at the error of its write.
CallFails(c) ==
    /\ At(c, "read") \/ At(c, "write") \/ At(c, "tx")
    /\ faults < MaxFaults /\ faults' = faults + 1
    /\ LET ignored == backend = "redis" /\ Instr(c).fx = "delkey"
       IN  client' = [client EXCEPT ![c].pc = Last(c), ![c].failed = TRUE,
                                    ![c].res = IF ignored THEN "ok" ELSE "error"]
    /\ UNCHANGED <<db, late, backend, load, locks, history, ops>>

\* The locks of a section are released; after the last one the caller has its answer.
ReleaseLocks(c) ==
    /\ At(c, "release")
    /\ locks' = [l \in LockNames |-> IF locks[l] = c THEN None ELSE locks[l]]
    /\ IF client[c].pc < Last(c)
       THEN Continue(c, client[c].view, "ok") /\ UNCHANGED <<revoked, gone>>
       ELSE LET revokes == client[c].op.name = "delkey" /\ client[c].res \in {"ok", "nothing"}
                keys    == IF revokes THEN {client[c].op.key} ELSE {}
            IN  /\ client' = [client EXCEPT ![c] = Idle]
                /\ revoked' = revoked \cup keys
                /\ gone' = IF client[c].failed THEN gone ELSE gone \cup keys
    /\ UNCHANGED <<db, late, backend, load, added, dropped, ops, faults>>

\* The process of c dies; its redis locks expire later.
Crash(c) ==
    /\ client[c].op # None /\ faults < MaxFaults /\ faults' = faults + 1
    /\ client' = [client EXCEPT ![c] = Idle]
    /\ locks' = [l \in LockNames |-> IF locks[l] = c THEN "dead" ELSE locks[l]]
    /\ UNCHANGED <<db, late, backend, load, history, ops>>

LockExpires(l) ==
    /\ locks[l] = "dead" /\ locks' = [locks EXCEPT ![l] = None]
    /\ UNCHANGED <<db, late, backend, load, client, history, ops, faults>>

\* The expiration date of a key passes.
DatePasses(k) ==
    /\ k \notin late /\ late' = late \cup {k}
    /\ UNCHANGED <<db, backend, load, locks, client, history, ops, faults>>

Next ==
    \/ \E c \in Clients :
         \/ \E o \in Requests : Begin(c, o)
         \/ Take(c) \/ LockFails(c) \/ ReadRow(c) \/ WriteRows(c) \/ CallFails(c)
         \/ ReleaseLocks(c) \/ Crash(c)
    \/ \E l \in LockNames : LockExpires(l)
    \/ \E k \in Keys : DatePasses(k)

Spec == Init /\ [][Next]_vars

-----------------------------------------------------------------------------
\* Every variable holds a value of the kind the code gives it.
TypeOK ==
    /\ db.repo \in [Repos -> RepoRecords \cup {None}] /\ db.blobs \in [Repos -> SUBSET Images]
    /\ db.user \in [Users -> UserRecords \cup {None}]
    /\ db.key \in [Keys -> Users \cup {None}]
    /\ db.image \subseteq Images
    /\ locks \in [LockNames -> Clients \cup {None, "dead"}]
    /\ late \cup added \cup revoked \cup gone \subseteq Keys /\ dropped \subseteq Repos
    /\ ops \in 0..load.max /\ faults \in 0..MaxFaults

\* BoltDB and Redis, with any number of clients, failing calls and dying processes, do what
\* MetaAtomic promises.  DynamoDB, which takes no locks, is not claimed to.
Atomic == INSTANCE MetaAtomic WITH
              db <- IF backend = "dynamo" THEN EmptyDB ELSE db,
              late <- IF backend = "dynamo" THEN {} ELSE late,
              call <- [c \in Clients |-> client[c].op]

\* Every change of the records is the operation of some caller applied to the records as they
\* are: no update made from rows that another client has changed meanwhile (withRSLocks).
ImplementsAtomic == Atomic!Spec

\* The stars of a repository are the users who starred it, as long as its record lives.
StarsMatch ==
    backend # "dynamo" =>
      \A r \in Repos \ dropped : db.repo[r] # None =>
        db.repo[r].stars = Cardinality({u \in Users : db.user[u] # None /\ r \in db.user[u].starred})

\* No search finds a tag whose image is unknown: every backend writes the image first.
QueriesSucceed == \A c \in Clients : client[c].res # "missing"

\* The request of c is about to be let in by a key that was, when the request began, ...
Accepted(c, when) == /\ client[c].op # None /\ client[c].op.name = "auth"
                     /\ client[c].pc = Last(c) /\ client[c].res = "ok"
                     /\ client[c].old \in when

\* A key that was revoked before a request does not let it in, even if a request that was in
\* progress has written an entry for the key back; and a key whose date has passed does not,
\* unless it is revoked while the request is checked (IsAPIKeyExpired finds no date then).
KeysGuarded ==
    backend # "dynamo" =>
      \A c \in Clients : /\ ~Accepted(c, {"gone"})
                        /\ Accepted(c, {"late"}) => db.key[client[c].op.key] = None

\* What the clients of one database see of each other's operations, call by call: the stars are
\* counted right, a search never trips over an image that is not there yet, a revoked or expired
\* key stays shut.
ClientsSound == TypeOK /\ StarsMatch /\ QueriesSucceed /\ KeysGuarded

=============================================================================
