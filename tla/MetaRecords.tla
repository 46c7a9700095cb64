---------------------------- MODULE MetaRecords -----------------------------
(* The records of the metadata database and what the operations of the       *)
(* MetaDB interface make of them, whichever backend keeps them.  MetaAtomic  *)
(* is the specification with atomic operations, MetaClients has the calls    *)
(* the backends make.                                                        *)
EXTENDS RepoMeta

CONSTANTS Repos, Users, Groups,
          Keys,     \* hashes of API keys; each key is drawn once
          Owner     \* [Keys -> Users], who creates the key

\* A user: what is starred and bookmarked, the groups of the last login, and the API keys.  named is
\* FALSE for the entry that reading an unknown key leaves behind.
KeyEntries == [named: BOOLEAN, expired: BOOLEAN]
UserRecords == [starred: SUBSET Repos, marked: SUBSET Repos, groups: Groups \cup {None},
                keys: [Keys -> KeyEntries \cup {None}]]

ASSUME MetaRecordsAssumption ==
    /\ None \notin Repos \cup Users \cup Keys \cup Groups \cup UserRecords \cup KeyEntries
    /\ Owner \in [Keys -> Users] /\ IsFiniteSet(Users)
    /\ Tags # {} /\ \E i \in Images : SigOf[i] = None

NewUser == [starred |-> {}, marked |-> {}, groups |-> None, keys |-> [k \in Keys |-> None]]

EmptyDB == [repo  |-> [r \in Repos |-> None],
            blobs |-> [r \in Repos |-> {}],
            user  |-> [u \in Users |-> None],
            key   |-> [k \in Keys |-> None],
            image |-> {}]

\* An operation, with None for the arguments it does not have.
Op(name, r, ref, i, u, k) ==
    [name |-> name, repo |-> r, ref |-> ref, img |-> i, user |-> u, key |-> k]

-----------------------------------------------------------------------------
(* The changes.  v is the database as the caller has read it.                *)

User(v, u) == IF v.user[u] = None THEN NewUser ELSE v.user[u]

\* The record of r together with its sizes.
Repo(v, r) == [(IF v.repo[r] = None THEN EmptyMeta ELSE v.repo[r])
                 EXCEPT !.blobs = v.blobs[r]]

PutRepo(v, r, rm) == [v EXCEPT !.repo[r] = [rm EXCEPT !.blobs = {}], !.blobs[r] = rm.blobs]
PutUser(v, u, ud) == [v EXCEPT !.user[u] = ud]

Toggle(x, S) == IF x \in S THEN S \ {x} ELSE S \cup {x}

\* The star of the user and the stars of the repository change together.
ToggleStarRepo(v, o) ==
    LET ud    == User(v, o.user)
        rm    == Repo(v, o.repo)
        moved == IF o.repo \in ud.starred THEN RemoveStar(rm) ELSE AddStar(rm)
    IN  PutUser(PutRepo(v, o.repo, moved), o.user,
                [ud EXCEPT !.starred = Toggle(o.repo, @)])

ToggleBookmarkRepo(v, o) ==
    PutUser(v, o.user, [User(v, o.user) EXCEPT !.marked = Toggle(o.repo, @)])

SetUserGroups(v, o) == PutUser(v, o.user, [User(v, o.user) EXCEPT !.groups = o.ref])

AddUserAPIKey(v, o) ==
    [PutUser(v, o.user, [User(v, o.user) EXCEPT
                           !.keys[o.key] = [named |-> TRUE, expired |-> FALSE]])
       EXCEPT !.key[o.key] = o.user]

DeleteUserAPIKey(v, o) ==
    [PutUser(v, o.user, [User(v, o.user) EXCEPT !.keys[o.key] = None])
       EXCEPT !.key[o.key] = None]

\* Reading the entry of a key that is not there and writing it back creates one.
KeyEntry(v, o) == LET e == User(v, o.user).keys[o.key]
                  IN  IF e = None THEN [named |-> FALSE, expired |-> FALSE] ELSE e

PutKeyEntry(v, o, e) == PutUser(v, o.user, [User(v, o.user) EXCEPT !.keys[o.key] = e])

PastDate(v, o, past) == KeyEntry(v, o).named /\ o.key \in past

IsAPIKeyExpired(v, o, past) ==
    PutKeyEntry(v, o, [KeyEntry(v, o) EXCEPT !.expired = @ \/ PastDate(v, o, past)])

UpdateUserAPIKeyLastUsed(v, o) == PutKeyEntry(v, o, KeyEntry(v, o))

GetUserAPIKeys(v, o, past) ==
    LET flag(k, e) == IF e = None THEN None
                      ELSE [e EXCEPT !.expired = @ \/ (e.named /\ k \in past)]
        keys == User(v, o.user).keys
    IN  PutUser(v, o.user, [User(v, o.user) EXCEPT !.keys = [k \in Keys |-> flag(k, keys[k])]])

\* What the operation, or the part fx of it, makes of the records.
Apply(fx, o, v, past) ==
    CASE fx = "image"    -> [v EXCEPT !.image = @ \cup {o.img}]
      [] fx = "set"      -> [PutRepo(v, o.repo, SetRepoReference(Repo(v, o.repo), o.ref, o.img))
                               EXCEPT !.image = @ \cup {o.img}]
      [] fx = "remove"   -> PutRepo(v, o.repo, RemoveRepoReference(Repo(v, o.repo), o.ref, o.img))
      [] fx = "sign"     -> PutRepo(v, o.repo, AddManifestSignature(Repo(v, o.repo), SigOf[o.img], o.img))
      [] fx = "unsign"   -> PutRepo(v, o.repo, DeleteSignature(Repo(v, o.repo), SigOf[o.img], o.img))
      [] fx = "validity" -> PutRepo(v, o.repo, UpdateSignaturesValidity(Repo(v, o.repo), SigOf[o.img], {o.img}))
      [] fx = "download" -> PutRepo(v, o.repo, UpdateStatsOnDownload(Repo(v, o.repo),
                                      DownloadedImage(Repo(v, o.repo), o.ref, o.img)))
      [] fx = "reset"    -> PutRepo(v, o.repo, ResetRepoReferences(Repo(v, o.repo), {}))
      [] fx = "drop"     -> [v EXCEPT !.repo[o.repo] = None, !.blobs[o.repo] = {}]
      [] fx = "star"     -> ToggleStarRepo(v, o)
      [] fx = "bookmark" -> ToggleBookmarkRepo(v, o)
      [] fx = "groups"   -> SetUserGroups(v, o)
      [] fx = "addkey"   -> AddUserAPIKey(v, o)
      [] fx = "delkey"   -> DeleteUserAPIKey(v, o)
      [] fx = "listkeys" -> GetUserAPIKeys(v, o, past)
      [] fx = "expired"  -> IsAPIKeyExpired(v, o, past)
      [] fx = "lastused" -> UpdateUserAPIKeyLastUsed(v, o)
      [] OTHER           -> v

\* Whether it writes at all, or returns early.
Writes(fx, o, v, past) ==
    CASE fx = "remove"   -> v.repo[o.repo] # None /\ o.img \in v.image
      [] fx = "unsign"   -> v.repo[o.repo] # None
      [] fx = "validity" -> SigOf[o.img] \in v.image /\ v.repo[o.repo] # None
      [] fx = "download" -> /\ v.repo[o.repo] # None
                            /\ DownloadedImage(Repo(v, o.repo), o.ref, o.img) # None
      [] fx = "reset"    -> v.repo[o.repo] # None
      [] fx = "star"     -> v.repo[o.repo] # None
      [] fx = "delkey"   -> KeyEntry(v, o).named
      [] fx = "listkeys" -> \E k \in Keys : PastDate(v, [o EXCEPT !.key = k], past)
      [] fx = "expired"  -> ~KeyEntry(v, o).expired
      [] fx \in {"owner", "query"} -> FALSE
      [] OTHER           -> TRUE

OpNames == {"set", "remove", "sign", "unsign", "validity", "download", "reset", "drop", "star",
            "bookmark", "groups", "addkey", "delkey", "listkeys", "auth", "query"}

\* The arguments an operation takes: a signature goes with what it signs.
Calls(fx) ==
    LET signed == {i \in Images : SigOf[i] # None}
    IN  CASE fx \in {"set", "remove", "download"} ->
               {Op(fx, r, t, i, None, None) : r \in Repos, t \in Tags \cup {None}, i \in Images}
          [] fx \in {"sign", "unsign", "validity"} ->
               {Op(fx, r, None, i, None, None) : r \in Repos, i \in signed}
          [] fx \in {"reset", "drop", "query"} -> {Op(fx, r, None, None, None, None) : r \in Repos}
          [] fx \in {"star", "bookmark"} ->
               {Op(fx, r, None, None, u, None) : r \in Repos, u \in Users}
          [] fx = "groups" -> {Op(fx, None, g, None, u, None) : g \in Groups, u \in Users}
          [] OTHER -> {Op(fx, None, None, None, Owner[k], k) : k \in Keys}

\* The database after a tag was pushed to every repository and every key created.
Setup ==
    LET i  == CHOOSE i \in Images : SigOf[i] = None
        rm == [SetRepoReference(EmptyMeta, CHOOSE t \in Tags : TRUE, i) EXCEPT !.blobs = {}]
        K(u) == [k \in Keys |-> IF Owner[k] = u THEN [named |-> TRUE, expired |-> FALSE] ELSE None]
    IN  [repo  |-> [r \in Repos |-> rm],
         blobs |-> [r \in Repos |-> {i}],
         user  |-> [u \in Users |-> IF \E k \in Keys : Owner[k] = u
                                    THEN [NewUser EXCEPT !.keys = K(u)] ELSE None],
         key   |-> Owner,
         image |-> {i}]
=============================================================================
