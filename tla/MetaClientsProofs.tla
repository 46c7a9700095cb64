------------------------- MODULE MetaClientsProofs --------------------------
(* Proof that the metadata database, with BoltDB or Redis under it, does     *)
(* what MetaAtomic promises (ImplementsAtomic of MetaClients).               *)
(*                                                                           *)
(* The argument has four parts.  The records: a write of the rows that an    *)
(* operation owns, computed from a view that is right about the rows it      *)
(* needs (Agrees), is the operation on the whole database (Commits).  The    *)
(* programs: every operation of Redis reads and writes a row only under its  *)
(* lock (Sound), every call of BoltDB is one transaction (BoltSound).  The   *)
(* invariant: a client holds the locks its place in the program says, and    *)
(* what it has read under them is what the records are (Knows), because a    *)
(* client that writes a row holds its lock.  The steps: each action keeps    *)
(* the invariant, and is a step of MetaAtomic or none.                       *)
(*                                                                           *)
(* And proof that the clients see what ClientsSound promises.  To Inv come   *)
(* the types and the images behind the tags, in the records and in what a    *)
(* client has read (Stocked), the stars counted over the users (Counted),    *)
(* and the life of a key: created by one client, held by its owner, shut     *)
(* once revoked (KeysKept).                                                  *)
EXTENDS MetaClients, TLAPS, FiniteSetTheorems

-----------------------------------------------------------------------------
(* The record of a repository.                                               *)

MetaOf(tg, st, sg, rf, sr, bl, sz, hs) ==
    [tags |-> tg, stats |-> st, sigs |-> sg, refs |-> rf, stars |-> sr,
     blobs |-> bl, sized |-> sz, hist |-> hs]

\* It has the fields of EmptyMeta.
IsMeta(m) == m = MetaOf(m.tags, m.stats, m.sigs, m.refs, m.stars, m.blobs, m.sized, m.hist)

\* The record of a new repository is a record.
LEMMA EmptyIsMeta == IsMeta(EmptyMeta)
BY DEF IsMeta, MetaOf, EmptyMeta

\* A record with one field replaced is a record (With...).
LEMMA WithTags == ASSUME NEW m, IsMeta(m), NEW x PROVE IsMeta([m EXCEPT !.tags = x])
BY DEF IsMeta, MetaOf
LEMMA WithRefs == ASSUME NEW m, IsMeta(m), NEW x PROVE IsMeta([m EXCEPT !.refs = x])
BY DEF IsMeta, MetaOf
LEMMA WithBlobs == ASSUME NEW m, IsMeta(m), NEW x PROVE IsMeta([m EXCEPT !.blobs = x]) /\ [m EXCEPT !.blobs = x].blobs = x
BY DEF IsMeta, MetaOf
LEMMA WithSized == ASSUME NEW m, IsMeta(m), NEW x PROVE IsMeta([m EXCEPT !.sized = x])
BY DEF IsMeta, MetaOf
LEMMA WithHist == ASSUME NEW m, IsMeta(m), NEW x PROVE IsMeta([m EXCEPT !.hist = x])
BY DEF IsMeta, MetaOf

\* So is a record with one entry of a field replaced.
LEMMA WithNested == ASSUME NEW m, IsMeta(m), NEW x, NEW i, NEW j PROVE /\ IsMeta([m EXCEPT !.sigs[i] = x]) /\ IsMeta([m EXCEPT !.stats[i] = x])
   /\ IsMeta([m EXCEPT !.refs[i][j] = x])
BY DEF IsMeta, MetaOf

\* SetRepoReference makes a record of a record.
LEMMA SetIsMeta ==
    ASSUME NEW m, IsMeta(m), NEW ref, NEW i
    PROVE  IsMeta(SetRepoReference(m, ref, i))
<1> DEFINE counted == IF Subject[i] = None THEN m
                      ELSE [m EXCEPT !.refs[Subject[i]][i] = @ + 1]
           tagged  == IF ref = None THEN counted
                      ELSE [counted EXCEPT !.tags[ref] = i,
                                           !.hist[ref] = IF m.tags[ref] = i THEN @ ELSE i]
           stated  == [tagged EXCEPT !.stats[i] = IF @ = None THEN 0 ELSE @]
           known   == [stated EXCEPT !.blobs = @ \cup {i}]
<1>1. IsMeta(counted)
  BY WithNested
<1>2. IsMeta(tagged)
  <2> HIDE DEF counted
  <2>1. IsMeta([counted EXCEPT !.tags[ref] = i])
    BY <1>1 DEF IsMeta, MetaOf
  <2> QED BY <1>1, <2>1 DEF IsMeta, MetaOf
<1>3. IsMeta(stated)
  <2> HIDE DEF tagged
  <2> QED BY <1>2, WithNested
<1>4. IsMeta(known)
  <2> HIDE DEF stated
  <2> QED BY <1>3, WithBlobs
<1>5. IsMeta(recalculateAggregateFields(known))
  <2> HIDE DEF known
  <2> QED BY <1>4, WithSized DEF recalculateAggregateFields
<1> QED BY <1>4, <1>5 DEF SetRepoReference, AddImageMetaToRepoMeta

\* RemoveRepoReference makes a record of a record.
LEMMA RemoveIsMeta ==
    ASSUME NEW m, IsMeta(m), NEW ref, NEW i
    PROVE  IsMeta(RemoveRepoReference(m, ref, i))
<1> DEFINE away      == IF ref # None THEN {ref} ELSE {t \in Tags : m.tags[t] = i}
           uncounted == IF Subject[i] = None THEN m
                        ELSE [m EXCEPT !.refs[Subject[i]][i] =
                                IF @ = 0 \/ ref = None THEN 0 ELSE @ - 1]
           untagged  == [uncounted EXCEPT
                           !.tags = [t \in Tags |-> IF t \in away THEN None ELSE @[t]],
                           !.hist = [t \in Tags |-> IF t \in away THEN None ELSE @[t]]]
           forgotten == IF i \in Tagged(untagged) THEN untagged
                        ELSE [untagged EXCEPT !.stats[i] = None, !.sigs[i] = {},
                                              !.refs[i] = [j \in Images |-> 0]]
<1>1. IsMeta(uncounted)
  BY WithNested
<1>2. IsMeta(untagged)
  <2> HIDE DEF uncounted, away
  <2> DEFINE some == [uncounted EXCEPT !.tags = [t \in Tags |-> IF t \in away THEN None ELSE @[t]]]
  <2>1. IsMeta(some)
    BY <1>1, WithTags
  <2>2. untagged = [some EXCEPT !.hist = [t \in Tags |-> IF t \in away THEN None ELSE @[t]]]
    OBVIOUS
  <2> QED BY <2>1, <2>2, WithHist
<1>3. IsMeta(forgotten)
  <2> HIDE DEF untagged
  <2> DEFINE a == [untagged EXCEPT !.stats[i] = None]
             b == [a EXCEPT !.sigs[i] = {}]
             d == [b EXCEPT !.refs[i] = [j \in Images |-> 0]]
  <2>1. IsMeta(a)
    BY <1>2, WithNested
  <2>2. IsMeta(b)
    <3> HIDE DEF a
    <3> QED BY <2>1, WithNested
  <2>3. IsMeta(d)
    <3> HIDE DEF b
    <3> QED BY <2>2, WithRefs
  <2> QED BY <1>2, <2>3
<1>4. IsMeta(RemoveImageFromRepoMeta(forgotten))
  <2> HIDE DEF forgotten
  <2> DEFINE left == Reachable(Tagged(forgotten), forgotten.blobs)
             some == [forgotten EXCEPT !.blobs = left]
  <2>1. IsMeta(some)
    BY <1>3, WithBlobs
  <2> HIDE DEF left
  <2>2. [forgotten EXCEPT !.blobs = left, !.sized = left] = [some EXCEPT !.sized = left]
    OBVIOUS
  <2>3. IsMeta([some EXCEPT !.sized = left])
    <3> HIDE DEF some
    <3> QED BY <2>1, WithSized
  <2> QED BY <2>2, <2>3 DEF RemoveImageFromRepoMeta, left
<1> QED BY <1>4 DEF RemoveRepoReference

\* The operations that redis applies without the sizes at hand leave them alone and give the same
\* record whatever they are.
SizesApart(m, x, new, old) ==
    /\ IsMeta(new) /\ new.blobs = m.blobs
    /\ [old EXCEPT !.blobs = {}] = [new EXCEPT !.blobs = {}]

\* Two records that differ in the sizes only.
LEMMA ApartOf ==
    ASSUME NEW a, NEW b, NEW c, NEW d, NEW e, NEW f, NEW g, NEW h, NEW x, NEW m, m.blobs = f
    PROVE  SizesApart(m, x, MetaOf(a, b, c, d, e, f, g, h), MetaOf(a, b, c, d, e, x, g, h))
BY DEF SizesApart, MetaOf, IsMeta

\* The changes of a record that do not need the sizes of its blobs.
LEMMA Apart ==
    ASSUME NEW m, IsMeta(m), NEW x, NEW i, NEW s
    PROVE  LET w == [m EXCEPT !.blobs = x] IN
           /\ SizesApart(m, x, DeleteSignature(m, i, s), DeleteSignature(w, i, s))
           /\ SizesApart(m, x, AddManifestSignature(m, i, s), AddManifestSignature(w, i, s))
           /\ SizesApart(m, x, UpdateSignaturesValidity(m, i, s), UpdateSignaturesValidity(w, i, s))
           /\ SizesApart(m, x, UpdateStatsOnDownload(m, i), UpdateStatsOnDownload(w, i))
           /\ SizesApart(m, x, ResetRepoReferences(m, s), ResetRepoReferences(w, s))
           /\ SizesApart(m, x, AddStar(m), AddStar(w))
           /\ SizesApart(m, x, RemoveStar(m), RemoveStar(w))
           /\ DownloadedImage(m, i, s) = DownloadedImage(w, i, s)
<1> PICK a, b, c, d, e, f, g, h : m = MetaOf(a, b, c, d, e, f, g, h)
  BY DEF IsMeta
<1> DEFINE M(y) == MetaOf(a, b, c, d, e, y, g, h)
           w == M(x)
<1>0. /\ [m EXCEPT !.blobs = x] = w
      /\ m = M(f) /\ m.blobs = f
  BY DEF MetaOf
<1>s. \A y : /\ M(y).tags = a /\ M(y).stats = b /\ M(y).sigs = c /\ M(y).refs = d
             /\ M(y).stars = e
  BY DEF MetaOf
<1>1. \A y, z : [M(y) EXCEPT !.sigs[i] = z] = MetaOf(a, b, [c EXCEPT ![i] = z], d, e, y, g, h)
  BY DEF MetaOf
<1>2. SizesApart(m, x, DeleteSignature(m, i, s), DeleteSignature(w, i, s))
  <2> DEFINE z == {gg \in c[i] : gg.sig # s}
             R(y) == MetaOf(a, b, [c EXCEPT ![i] = z], d, e, y, g, h)
  <2>1. \A y : DeleteSignature(M(y), i, s) = [M(y) EXCEPT !.sigs[i] = z]
    <3> TAKE y
    <3>1. M(y).sigs[i] = c[i] BY <1>s
    <3> HIDE DEF M
    <3> QED BY <3>1 DEF DeleteSignature
  <2> HIDE DEF M, z
  <2>2. \A y : DeleteSignature(M(y), i, s) = R(y)
    BY <2>1, <1>1
  <2> QED BY <2>2, <1>0, ApartOf DEF w
<1>3. SizesApart(m, x, AddManifestSignature(m, i, s), AddManifestSignature(w, i, s))
  <2> DEFINE replaced == IF s \in CosignTags THEN CosignTags ELSE {}
             z == {gg \in c[i] : gg.sig \notin replaced} \cup {[sig |-> s, trusted |-> FALSE]}
             R(y) == MetaOf(a, b, [c EXCEPT ![i] = z], d, e, y, g, h)
  <2>1. \A y : AddManifestSignature(M(y), i, s) =
                 IF \E gg \in c[i] : gg.sig = s THEN M(y) ELSE [M(y) EXCEPT !.sigs[i] = z]
    <3> TAKE y
    <3>1. M(y).sigs[i] = c[i] BY <1>s
    <3> HIDE DEF M
    <3> QED BY <3>1 DEF AddManifestSignature
  <2> HIDE DEF z
  <2>2. CASE \E gg \in c[i] : gg.sig = s
    <3>1. \A y : AddManifestSignature(M(y), i, s) = M(y)
      BY <2>1, <2>2
    <3> QED BY <3>1, <1>0, ApartOf
  <2>3. CASE ~ \E gg \in c[i] : gg.sig = s
    <3> HIDE DEF M
    <3>1. \A y : AddManifestSignature(M(y), i, s) = R(y)
      BY <2>1, <2>3, <1>1
    <3> QED BY <3>1, <1>0, ApartOf DEF w
  <2> QED BY <2>2, <2>3
<1>4. SizesApart(m, x, UpdateSignaturesValidity(m, i, s), UpdateSignaturesValidity(w, i, s))
  <2> DEFINE z == {[gg EXCEPT !.trusted = (gg.sig \in s)] : gg \in c[i]}
             R(y) == MetaOf(a, b, [c EXCEPT ![i] = z], d, e, y, g, h)
  <2>1. \A y : UpdateSignaturesValidity(M(y), i, s) = [M(y) EXCEPT !.sigs[i] = z]
    <3> TAKE y
    <3>1. M(y).sigs[i] = c[i] BY <1>s
    <3> HIDE DEF M
    <3> QED BY <3>1 DEF UpdateSignaturesValidity
  <2> HIDE DEF M, z
  <2>2. \A y : UpdateSignaturesValidity(M(y), i, s) = R(y)
    BY <2>1, <1>1
  <2> QED BY <2>2, <1>0, ApartOf DEF w
<1>5. SizesApart(m, x, UpdateStatsOnDownload(m, i), UpdateStatsOnDownload(w, i))
  <2> DEFINE z == IF b[i] = None THEN 1 ELSE b[i] + 1
             R(y) == MetaOf(a, [b EXCEPT ![i] = z], c, d, e, y, g, h)
  <2>1. \A y : UpdateStatsOnDownload(M(y), i) = [M(y) EXCEPT !.stats[i] = z]
    <3> TAKE y
    <3>1. M(y).stats[i] = b[i] BY <1>s
    <3> HIDE DEF M
    <3> QED BY <3>1 DEF UpdateStatsOnDownload
  <2> HIDE DEF z
  <2>2. \A y : [M(y) EXCEPT !.stats[i] = z] = R(y)
    BY DEF MetaOf
  <2> HIDE DEF M
  <2>3. \A y : UpdateStatsOnDownload(M(y), i) = R(y)
    BY <2>1, <2>2
  <2> QED BY <2>3, <1>0, ApartOf DEF w
<1>6. SizesApart(m, x, ResetRepoReferences(m, s), ResetRepoReferences(w, s))
  <2> DEFINE z == [t \in Tags |-> IF t \in s THEN a[t] ELSE None]
             q == EmptyMeta.sigs
             r == EmptyMeta.refs
             R(y) == MetaOf(z, b, q, r, e, y, {}, h)
  <2>1. ASSUME NEW y PROVE ResetRepoReferences(M(y), s) = R(y)
    <3>0. M(y).tags = a
      BY <1>s
    <3> DEFINE one  == [M(y) EXCEPT !.tags = z]
               some == [one EXCEPT !.sigs = q]
               more == [some EXCEPT !.refs = r]
    <3>1. one = MetaOf(z, b, c, d, e, y, g, h)
      BY DEF MetaOf
    <3> HIDE DEF M, z, q, r
    <3>4. ResetRepoReferences(M(y), s) = [more EXCEPT !.sized = {}]
      BY <3>0 DEF ResetRepoReferences, z, q, r
    <3> HIDE DEF one
    <3>3. some = MetaOf(z, b, q, d, e, y, g, h)
      BY <3>1 DEF MetaOf
    <3> HIDE DEF some
    <3>5. more = MetaOf(z, b, q, r, e, y, g, h)
      BY <3>3 DEF MetaOf
    <3> HIDE DEF more
    <3> QED BY <3>4, <3>5 DEF MetaOf
  <2> HIDE DEF M, z, q, r
  <2> QED BY <2>1, <1>0, ApartOf DEF w
<1>7. SizesApart(m, x, AddStar(m), AddStar(w)) /\ SizesApart(m, x, RemoveStar(m), RemoveStar(w))
  <2>1. \A y : /\ AddStar(M(y)) = MetaOf(a, b, c, d, e + 1, y, g, h)
               /\ RemoveStar(M(y)) = MetaOf(a, b, c, d, e - 1, y, g, h)
    BY DEF AddStar, RemoveStar, MetaOf
  <2> HIDE DEF M
  <2> QED BY <2>1, <1>0, ApartOf DEF w
<1>8. DownloadedImage(m, i, s) = DownloadedImage(w, i, s)
  <2>1. \A y : /\ M(y).tags = a /\ M(y).stats = b
    BY <1>s
  <2> HIDE DEF M
  <2> QED BY <1>0, <2>1 DEF DownloadedImage, Tagged, w
<1> HIDE DEF w
<1> QED BY <1>0, <1>2, <1>3, <1>4, <1>5, <1>6, <1>7, <1>8

-----------------------------------------------------------------------------
(* The tables.                                                               *)

DbOf(rp, bl, us, ky, im) == [repo |-> rp, blobs |-> bl, user |-> us, key |-> ky, image |-> im]

\* The tables are there, and the rows of the images are images.
IsDB(v) ==
    /\ v = DbOf(v.repo, v.blobs, v.user, v.key, v.image)
    /\ v.repo = [r \in Repos |-> v.repo[r]]
    /\ v.blobs = [r \in Repos |-> v.blobs[r]]
    /\ v.user = [u \in Users |-> v.user[u]]
    /\ v.key = [k \in Keys |-> v.key[k]]
    /\ v.image \subseteq Images

\* Whatever is written, the tables stay tables.
LEMMA OverwriteIsDB ==
    ASSUME NEW old, NEW new, NEW S
    PROVE  IsDB(Overwrite(old, new, S))
<1> DEFINE ov == Overwrite(old, new, S)
<1>1. /\ ov = DbOf(ov.repo, ov.blobs, ov.user, ov.key, ov.image)
      /\ ov.image \subseteq Images
  BY DEF Overwrite, DbOf
<1>2. /\ ov.repo = [r \in Repos |-> ov.repo[r]]
      /\ ov.blobs = [r \in Repos |-> ov.blobs[r]]
      /\ ov.user = [u \in Users |-> ov.user[u]]
      /\ ov.key = [k \in Keys |-> ov.key[k]]
  BY DEF Overwrite
<1> QED BY <1>1, <1>2 DEF IsDB

\* Two databases with the same rows are the same.
LEMMA SameDB ==
    ASSUME NEW v, NEW d, IsDB(v), IsDB(d),
           \A r \in Repos : v.repo[r] = d.repo[r] /\ v.blobs[r] = d.blobs[r],
           \A u \in Users : v.user[u] = d.user[u],
           \A k \in Keys : v.key[k] = d.key[k],
           \A i \in Images : i \in v.image <=> i \in d.image
    PROVE  v = d
<1>1. v.repo = d.repo /\ v.blobs = d.blobs
  BY DEF IsDB
<1>2. v.user = d.user /\ v.key = d.key
  BY DEF IsDB
<1>3. v.image = d.image
  BY DEF IsDB
<1> QED BY <1>1, <1>2, <1>3 DEF IsDB

\* The rows of p in S and the rows of d elsewhere are the rows of q.
Matches(d, p, S, q) ==
    /\ \A r \in Repos : q.repo[r] = IF <<"repo", r>> \in S THEN p.repo[r] ELSE d.repo[r]
    /\ \A r \in Repos : q.blobs[r] = IF <<"blobs", r>> \in S THEN p.blobs[r] ELSE d.blobs[r]
    /\ \A u \in Users : q.user[u] = IF <<"user", u>> \in S THEN p.user[u] ELSE d.user[u]
    /\ \A k \in Keys : q.key[k] = IF <<"key", k>> \in S THEN p.key[k] ELSE d.key[k]
    /\ \A i \in Images : i \in q.image <=> IF <<"image", i>> \in S THEN i \in p.image ELSE i \in d.image

\* Overwrite takes the rows of S from p and leaves the others.
LEMMA OverwriteRows ==
    ASSUME NEW d, NEW p, NEW S
    PROVE  Matches(d, p, S, Overwrite(d, p, S))
BY DEF Overwrite, Matches

\* A database with these rows is what Overwrite makes.
LEMMA MatchDB ==
    ASSUME NEW d, NEW p, NEW S, NEW q, IsDB(q), Matches(d, p, S, q)
    PROVE  Overwrite(d, p, S) = q
<1> DEFINE w == Overwrite(d, p, S)
<1>1. IsDB(w)
  BY OverwriteIsDB
<1>0. Matches(d, p, S, w)
  BY OverwriteRows
<1> HIDE DEF w
<1>2. \A r \in Repos : w.repo[r] = q.repo[r] /\ w.blobs[r] = q.blobs[r]
  BY <1>0 DEF Matches
<1>3. \A u \in Users : w.user[u] = q.user[u]
  BY <1>0 DEF Matches
<1>4. \A k \in Keys : w.key[k] = q.key[k]
  BY <1>0 DEF Matches
<1>5. \A i \in Images : i \in w.image <=> i \in q.image
  BY <1>0 DEF Matches
<1>6. w = q
  BY <1>1, <1>2, <1>3, <1>4, <1>5, SameDB
<1> QED BY <1>6 DEF w

\* p is v with new rows: the record n and the sizes b of r, the user u, the key k.
RepoPut(p, v, r, n, b) ==
    /\ IsDB(p)
    /\ \A s \in Repos : p.repo[s] = IF s = r THEN n ELSE v.repo[s]
    /\ \A s \in Repos : p.blobs[s] = IF s = r THEN b ELSE v.blobs[s]
    /\ p.user = v.user /\ p.key = v.key /\ p.image = v.image
UserPut(p, v, u, x) ==
    /\ IsDB(p)
    /\ \A s \in Users : p.user[s] = IF s = u THEN x ELSE v.user[s]
    /\ p.repo = v.repo /\ p.blobs = v.blobs /\ p.key = v.key /\ p.image = v.image
KeyPut(p, v, k, x) ==
    /\ IsDB(p)
    /\ \A s \in Keys : p.key[s] = IF s = k THEN x ELSE v.key[s]
    /\ p.repo = v.repo /\ p.blobs = v.blobs /\ p.user = v.user /\ p.image = v.image
ImagePut(p, v, i) ==
    /\ IsDB(p)
    /\ p.image = v.image \cup {i}
    /\ p.repo = v.repo /\ p.blobs = v.blobs /\ p.user = v.user /\ p.key = v.key

\* PutRepo stores the sizes in a row of their own, as Redis and DynamoDB do.
LEMMA PutRepoRows ==
    ASSUME NEW v, IsDB(v), NEW r \in Repos, NEW m
    PROVE  RepoPut(PutRepo(v, r, m), v, r, [m EXCEPT !.blobs = {}], m.blobs)
<1> DEFINE n == [m EXCEPT !.blobs = {}]
           b == m.blobs
           one == [v EXCEPT !.repo[r] = n]
           p == DbOf([v.repo EXCEPT ![r] = n], [v.blobs EXCEPT ![r] = b], v.user, v.key, v.image)
<1>1. PutRepo(v, r, m) = p
  <2> HIDE DEF n, b
  <2>1. PutRepo(v, r, m) = [one EXCEPT !.blobs[r] = b]
    BY DEF PutRepo, n, b
  <2>2. one = DbOf([v.repo EXCEPT ![r] = n], v.blobs, v.user, v.key, v.image)
    BY DEF DbOf, IsDB
  <2> HIDE DEF one
  <2> QED BY <2>1, <2>2 DEF DbOf
<1>2. /\ p.repo = [v.repo EXCEPT ![r] = n] /\ p.blobs = [v.blobs EXCEPT ![r] = b]
      /\ p.user = v.user /\ p.key = v.key /\ p.image = v.image
      /\ p = DbOf(p.repo, p.blobs, p.user, p.key, p.image)
  BY DEF DbOf
<1> HIDE DEF p, n, b
<1>3. IsDB(p)
  BY <1>2 DEF IsDB
<1>4. RepoPut(p, v, r, n, b)
  BY <1>2, <1>3 DEF IsDB, RepoPut
<1> QED BY <1>1, <1>4 DEF n, b

\* DeleteRepoMeta clears both rows of the repository.
LEMMA DropRows ==
    ASSUME NEW v, IsDB(v), NEW r \in Repos
    PROVE  RepoPut([v EXCEPT !.repo[r] = None, !.blobs[r] = {}], v, r, None, {})
<1> DEFINE one == [v EXCEPT !.repo[r] = None]
           p == DbOf([v.repo EXCEPT ![r] = None], [v.blobs EXCEPT ![r] = {}], v.user, v.key, v.image)
<1>1. [v EXCEPT !.repo[r] = None, !.blobs[r] = {}] = p
  <2>1. [v EXCEPT !.repo[r] = None, !.blobs[r] = {}] = [one EXCEPT !.blobs[r] = {}]
    OBVIOUS
  <2>2. one = DbOf([v.repo EXCEPT ![r] = None], v.blobs, v.user, v.key, v.image)
    BY DEF DbOf, IsDB
  <2> HIDE DEF one
  <2> QED BY <2>1, <2>2 DEF DbOf
<1>2. /\ p.repo = [v.repo EXCEPT ![r] = None] /\ p.blobs = [v.blobs EXCEPT ![r] = {}]
      /\ p.user = v.user /\ p.key = v.key /\ p.image = v.image
      /\ p = DbOf(p.repo, p.blobs, p.user, p.key, p.image)
  BY DEF DbOf
<1> HIDE DEF p
<1>3. IsDB(p)
  BY <1>2 DEF IsDB
<1>4. RepoPut(p, v, r, None, {})
  BY <1>2, <1>3 DEF IsDB, RepoPut
<1> QED BY <1>1, <1>4

\* PutUser stores one row.
LEMMA PutUserRows ==
    ASSUME NEW v, IsDB(v), NEW u \in Users, NEW x
    PROVE  UserPut(PutUser(v, u, x), v, u, x)
<1> DEFINE p == DbOf(v.repo, v.blobs, [v.user EXCEPT ![u] = x], v.key, v.image)
<1>1. PutUser(v, u, x) = p
  BY DEF PutUser, DbOf, IsDB
<1>2. /\ p.user = [v.user EXCEPT ![u] = x]
      /\ p.repo = v.repo /\ p.blobs = v.blobs /\ p.key = v.key /\ p.image = v.image
      /\ p = DbOf(p.repo, p.blobs, p.user, p.key, p.image)
  BY DEF DbOf
<1> HIDE DEF p
<1>3. IsDB(p)
  BY <1>2 DEF IsDB
<1>4. UserPut(p, v, u, x)
  BY <1>2, <1>3 DEF IsDB, UserPut
<1> QED BY <1>1, <1>4

\* A key is one row.
LEMMA PutKeyRows ==
    ASSUME NEW v, IsDB(v), NEW k \in Keys, NEW x
    PROVE  KeyPut([v EXCEPT !.key[k] = x], v, k, x)
<1> DEFINE p == DbOf(v.repo, v.blobs, v.user, [v.key EXCEPT ![k] = x], v.image)
<1>1. [v EXCEPT !.key[k] = x] = p
  BY DEF DbOf, IsDB
<1>2. /\ p.key = [v.key EXCEPT ![k] = x]
      /\ p.repo = v.repo /\ p.blobs = v.blobs /\ p.user = v.user /\ p.image = v.image
      /\ p = DbOf(p.repo, p.blobs, p.user, p.key, p.image)
  BY DEF DbOf
<1> HIDE DEF p
<1>3. IsDB(p)
  BY <1>2 DEF IsDB
<1>4. KeyPut(p, v, k, x)
  BY <1>2, <1>3 DEF IsDB, KeyPut
<1> QED BY <1>1, <1>4

\* The data of an image is one row.
LEMMA PutImageRows ==
    ASSUME NEW v, IsDB(v), NEW i \in Images
    PROVE  ImagePut([v EXCEPT !.image = @ \cup {i}], v, i)
<1> DEFINE x == v.image \cup {i}
           p == DbOf(v.repo, v.blobs, v.user, v.key, x)
<1>0. x \subseteq Images
  BY DEF IsDB
<1>1. [v EXCEPT !.image = @ \cup {i}] = p
  <2> HIDE DEF x
  <2>1. [v EXCEPT !.image = x] = p
    BY DEF DbOf, IsDB
  <2> QED BY <2>1 DEF x
<1> HIDE DEF x
<1>2. /\ p.image = x
      /\ p.repo = v.repo /\ p.blobs = v.blobs /\ p.user = v.user /\ p.key = v.key
      /\ p = DbOf(p.repo, p.blobs, p.user, p.key, p.image)
  BY DEF DbOf
<1> HIDE DEF p
<1>3. IsDB(p)
  BY <1>0, <1>2 DEF IsDB
<1>4. ImagePut(p, v, i)
  BY <1>2, <1>3 DEF ImagePut, x
<1> QED BY <1>1, <1>4

-----------------------------------------------------------------------------
(* What a write of some rows makes of the records, given a view.             *)

\* A transaction writes every row.
LEMMA CommitAll ==
    ASSUME NEW d, NEW p, IsDB(p)
    PROVE  Overwrite(d, p, Rows) = p
<1>2. /\ \A r \in Repos : <<"repo", r>> \in Rows /\ <<"blobs", r>> \in Rows
      /\ \A u \in Users : <<"user", u>> \in Rows
      /\ \A k \in Keys : <<"key", k>> \in Rows
      /\ \A i \in Images : <<"image", i>> \in Rows
  BY DEF Rows
<1>3. Matches(d, p, Rows, p)
  BY <1>2 DEF Matches
<1> QED BY <1>3, MatchDB

\* The record and the sizes of r, written together.
LEMMA CommitRepo ==
    ASSUME NEW v, NEW d, NEW r \in Repos, NEW n, NEW b, NEW p, NEW q,
           RepoPut(p, v, r, n, b), RepoPut(q, d, r, n, b)
    PROVE  Overwrite(d, p, {<<"repo", r>>, <<"blobs", r>>}) = q
<1>1. Matches(d, p, {<<"repo", r>>, <<"blobs", r>>}, q)
  BY DEF Matches, RepoPut
<1> QED BY <1>1, MatchDB DEF RepoPut

\* The record of r alone: the sizes stay those of the database.
LEMMA CommitRecord ==
    ASSUME NEW v, NEW d, NEW r \in Repos, NEW n, NEW b, NEW p, NEW q,
           RepoPut(p, v, r, n, b), RepoPut(q, d, r, n, d.blobs[r])
    PROVE  Overwrite(d, p, {<<"repo", r>>}) = q
<1>1. Matches(d, p, {<<"repo", r>>}, q)
  BY DEF Matches, RepoPut
<1> QED BY <1>1, MatchDB DEF RepoPut

\* The record and the sizes of r, for an image whose data is stored already.
LEMMA CommitSet ==
    ASSUME NEW v, NEW d, NEW r \in Repos, NEW n, NEW b, NEW p1, NEW q1, NEW i, i \in d.image,
           RepoPut(p1, v, r, n, b), RepoPut(q1, d, r, n, b), NEW p, NEW q, ImagePut(p, p1, i), ImagePut(q, q1, i)
    PROVE  Overwrite(d, p, {<<"repo", r>>, <<"blobs", r>>}) = q
<1>1. Matches(d, p, {<<"repo", r>>, <<"blobs", r>>}, q)
  BY DEF Matches, RepoPut, ImagePut
<1> QED BY <1>1, MatchDB DEF ImagePut

\* The data of an image.
LEMMA CommitImage ==
    ASSUME NEW v, NEW d, NEW i, NEW p, NEW q, ImagePut(p, v, i), ImagePut(q, d, i)
    PROVE  Overwrite(d, p, {<<"image", i>>}) = q
<1>1. Matches(d, p, {<<"image", i>>}, q)
  BY DEF Matches, ImagePut
<1> QED BY <1>1, MatchDB DEF ImagePut

\* The record of a user.
LEMMA CommitUser ==
    ASSUME NEW v, NEW d, NEW u \in Users, NEW x, NEW p, NEW q,
           UserPut(p, v, u, x), UserPut(q, d, u, x)
    PROVE  Overwrite(d, p, {<<"user", u>>}) = q
<1>1. Matches(d, p, {<<"user", u>>}, q)
  BY DEF Matches, UserPut
<1> QED BY <1>1, MatchDB DEF UserPut

\* The record of a user and a key.
LEMMA CommitUserKey ==
    ASSUME NEW v, NEW d, NEW u \in Users, NEW x, NEW k \in Keys, NEW y, NEW p1, NEW q1, NEW p, NEW q,
           UserPut(p1, v, u, x), UserPut(q1, d, u, x), KeyPut(p, p1, k, y), KeyPut(q, q1, k, y)
    PROVE  Overwrite(d, p, {<<"user", u>>, <<"key", k>>}) = q
<1>1. Matches(d, p, {<<"user", u>>, <<"key", k>>}, q)
  BY DEF Matches, UserPut, KeyPut
<1> QED BY <1>1, MatchDB DEF KeyPut

\* The record of a user and that of a repository.
LEMMA CommitStar ==
    ASSUME NEW v, NEW d, NEW r \in Repos, NEW n, NEW b, NEW p1, NEW q1, NEW u \in Users, NEW x,
           RepoPut(p1, v, r, n, b), RepoPut(q1, d, r, n, d.blobs[r]), NEW p, NEW q,
           UserPut(p, p1, u, x), UserPut(q, q1, u, x)
    PROVE  Overwrite(d, p, {<<"user", u>>, <<"repo", r>>}) = q
<1>1. Matches(d, p, {<<"user", u>>, <<"repo", r>>}, q)
  BY DEF Matches, RepoPut, UserPut
<1> QED BY <1>1, MatchDB DEF UserPut

-----------------------------------------------------------------------------
(* The changes.                                                              *)

Metas(v) == \A r \in Repos : v.repo[r] = None \/ IsMeta(v.repo[r])

RepoFx == {"set", "remove", "sign", "unsign", "validity", "download", "reset", "drop", "star"}
UserFx == {"star", "bookmark", "groups", "addkey", "delkey", "listkeys", "expired", "lastused"}
Fxs == RepoFx \cup UserFx \cup {"image"}

\* The arguments that the change fx needs.
Fits(fx, o) ==
    /\ fx \in RepoFx => o.repo \in Repos
    /\ fx \in {"image", "set"} => o.img \in Images
    /\ fx \in UserFx => o.user \in Users
    /\ fx \in {"addkey", "delkey"} => o.key \in Keys

\* What Apply is for each change.
LEMMA ApplyImage == ASSUME NEW o, NEW v, NEW past
    PROVE  Apply("image", o, v, past) = [v EXCEPT !.image = @ \cup {o.img}]
BY DEF Apply
LEMMA ApplySet == ASSUME NEW o, NEW v, NEW past
    PROVE  Apply("set", o, v, past) = [PutRepo(v, o.repo, SetRepoReference(Repo(v, o.repo), o.ref, o.img)) EXCEPT
                                            !.image = @ \cup {o.img}]
BY DEF Apply
LEMMA ApplyRemove == ASSUME NEW o, NEW v, NEW past
    PROVE  Apply("remove", o, v, past) = PutRepo(v, o.repo, RemoveRepoReference(Repo(v, o.repo), o.ref, o.img))
BY DEF Apply
LEMMA ApplySign == ASSUME NEW o, NEW v, NEW past
    PROVE  Apply("sign", o, v, past) = PutRepo(v, o.repo, AddManifestSignature(Repo(v, o.repo), SigOf[o.img], o.img))
BY DEF Apply
LEMMA ApplyUnsign == ASSUME NEW o, NEW v, NEW past
    PROVE  Apply("unsign", o, v, past) = PutRepo(v, o.repo, DeleteSignature(Repo(v, o.repo), SigOf[o.img], o.img))
BY DEF Apply
LEMMA ApplyValidity == ASSUME NEW o, NEW v, NEW past
    PROVE  Apply("validity", o, v, past) = PutRepo(v, o.repo, UpdateSignaturesValidity(Repo(v, o.repo), SigOf[o.img], {o.img}))
BY DEF Apply
LEMMA ApplyDownload == ASSUME NEW o, NEW v, NEW past
    PROVE  Apply("download", o, v, past) = PutRepo(v, o.repo, UpdateStatsOnDownload(Repo(v, o.repo),
                                                            DownloadedImage(Repo(v, o.repo), o.ref, o.img)))
BY DEF Apply
LEMMA ApplyReset == ASSUME NEW o, NEW v, NEW past
    PROVE  Apply("reset", o, v, past) = PutRepo(v, o.repo, ResetRepoReferences(Repo(v, o.repo), {}))
BY DEF Apply
LEMMA ApplyDrop == ASSUME NEW o, NEW v, NEW past
    PROVE  Apply("drop", o, v, past) = [v EXCEPT !.repo[o.repo] = None, !.blobs[o.repo] = {}]
BY DEF Apply
LEMMA ApplyStar == ASSUME NEW o, NEW v, NEW past
    PROVE  Apply("star", o, v, past) = ToggleStarRepo(v, o)
BY DEF Apply
LEMMA ApplyBookmark == ASSUME NEW o, NEW v, NEW past
    PROVE  Apply("bookmark", o, v, past) = ToggleBookmarkRepo(v, o)
BY DEF Apply
LEMMA ApplyGroups == ASSUME NEW o, NEW v, NEW past
    PROVE  Apply("groups", o, v, past) = SetUserGroups(v, o)
BY DEF Apply
LEMMA ApplyAddkey == ASSUME NEW o, NEW v, NEW past
    PROVE  Apply("addkey", o, v, past) = AddUserAPIKey(v, o)
BY DEF Apply
LEMMA ApplyDelkey == ASSUME NEW o, NEW v, NEW past
    PROVE  Apply("delkey", o, v, past) = DeleteUserAPIKey(v, o)
BY DEF Apply
LEMMA ApplyListkeys == ASSUME NEW o, NEW v, NEW past
    PROVE  Apply("listkeys", o, v, past) = GetUserAPIKeys(v, o, past)
BY DEF Apply
LEMMA ApplyExpired == ASSUME NEW o, NEW v, NEW past
    PROVE  Apply("expired", o, v, past) = IsAPIKeyExpired(v, o, past)
BY DEF Apply
LEMMA ApplyLastused == ASSUME NEW o, NEW v, NEW past
    PROVE  Apply("lastused", o, v, past) = UpdateUserAPIKeyLastUsed(v, o)
BY DEF Apply

\* What Repo reads is a record, with the sizes of the database.
LEMMA RepoIsMeta ==
    ASSUME NEW d, IsDB(d), Metas(d), NEW r \in Repos
    PROVE  IsMeta(Repo(d, r)) /\ Repo(d, r).blobs = d.blobs[r]
<1> DEFINE B == IF d.repo[r] = None THEN EmptyMeta ELSE d.repo[r]
<1>1. IsMeta(B)
  BY EmptyIsMeta DEF Metas
<1>2. Repo(d, r) = [B EXCEPT !.blobs = d.blobs[r]]
  BY DEF Repo
<1> HIDE DEF B
<1> QED BY <1>1, <1>2, WithBlobs

\* The record with other sizes.
Resized(m, x) == [m EXCEPT !.blobs = x]

\* The view has the record but not the sizes.
LEMMA RepoOfView ==
    ASSUME NEW v, NEW d, IsDB(d), Metas(d), NEW r \in Repos, v.repo[r] = d.repo[r]
    PROVE  Repo(v, r) = Resized(Repo(d, r), v.blobs[r])
<1> DEFINE B == IF d.repo[r] = None THEN EmptyMeta ELSE d.repo[r]
<1>1. Repo(d, r) = [B EXCEPT !.blobs = d.blobs[r]] /\ Repo(v, r) = [B EXCEPT !.blobs = v.blobs[r]]
  BY DEF Repo
<1> HIDE DEF B
<1>2. [[B EXCEPT !.blobs = d.blobs[r]] EXCEPT !.blobs = v.blobs[r]] = [B EXCEPT !.blobs = v.blobs[r]]
  OBVIOUS
<1> QED BY <1>1, <1>2 DEF Resized

\* The rows of a record, whatever the sizes of the view.
LEMMA ApartPut ==
    ASSUME NEW v, NEW d, IsDB(v), IsDB(d), NEW r \in Repos, NEW m, m.blobs = d.blobs[r],
           NEW x, NEW new, NEW old, SizesApart(m, x, new, old)
    PROVE  Overwrite(d, PutRepo(v, r, old), {<<"repo", r>>}) = PutRepo(d, r, new)
<1> DEFINE n == [new EXCEPT !.blobs = {}]
<1>1. RepoPut(PutRepo(d, r, new), d, r, n, new.blobs)
  BY PutRepoRows
<1>2. RepoPut(PutRepo(v, r, old), v, r, [old EXCEPT !.blobs = {}], old.blobs)
  BY PutRepoRows
<1>3. [old EXCEPT !.blobs = {}] = n /\ new.blobs = d.blobs[r]
  BY DEF SizesApart
<1> HIDE DEF n
<1>4. RepoPut(PutRepo(d, r, new), d, r, n, d.blobs[r])
  BY <1>1, <1>3
<1>5. RepoPut(PutRepo(v, r, old), v, r, n, old.blobs)
  BY <1>2, <1>3
<1> QED BY <1>4, <1>5, CommitRecord

-----------------------------------------------------------------------------
(* A write of redis, from a view that is right about the rows it needs.      *)

RowsOf(fx, o) ==
    CASE fx = "image"                     -> {ImageRow(o)}
      [] fx \in {"set", "remove", "drop"} -> {RepoRow(o), BlobsRow(o)}
      [] fx = "star"                      -> {UserRow(o), RepoRow(o)}
      [] fx \in {"addkey", "delkey"}      -> {UserRow(o), KeyRow(o)}
      [] fx \in {"sign", "unsign", "validity", "download", "reset"} -> {RepoRow(o)}
      [] OTHER                            -> {UserRow(o)}

\* The rows that each change writes.
LEMMA RowsOfIs ==
    ASSUME NEW o
    PROVE  /\ RowsOf("image", o) = {<<"image", o.img>>}
           /\ \A fx \in {"set", "remove", "drop"} : RowsOf(fx, o) = {<<"repo", o.repo>>, <<"blobs", o.repo>>}
           /\ \A fx \in {"sign", "unsign", "validity", "download", "reset"} : RowsOf(fx, o) = {<<"repo", o.repo>>}
           /\ RowsOf("star", o) = {<<"user", o.user>>, <<"repo", o.repo>>}
           /\ \A fx \in {"addkey", "delkey"} : RowsOf(fx, o) = {<<"user", o.user>>, <<"key", o.key>>}
           /\ \A fx \in {"bookmark", "groups", "listkeys", "expired", "lastused"} : RowsOf(fx, o) = {<<"user", o.user>>}
<1> USE DEF RowsOf, RepoFx, ImageRow, RepoRow, BlobsRow, UserRow, KeyRow
<1>1. RowsOf("image", o) = {<<"image", o.img>>}
  OBVIOUS
<1>2. ASSUME NEW fx \in {"set", "remove", "drop"} PROVE RowsOf(fx, o) = {<<"repo", o.repo>>, <<"blobs", o.repo>>}
  OBVIOUS
<1>3. ASSUME NEW fx \in {"sign", "unsign", "validity", "download", "reset"} PROVE RowsOf(fx, o) = {<<"repo", o.repo>>}
  OBVIOUS
<1>4. RowsOf("star", o) = {<<"user", o.user>>, <<"repo", o.repo>>}
  OBVIOUS
<1>5. ASSUME NEW fx \in {"addkey", "delkey"} PROVE RowsOf(fx, o) = {<<"user", o.user>>, <<"key", o.key>>}
  OBVIOUS
<1>6. ASSUME NEW fx \in {"bookmark", "groups", "listkeys", "expired", "lastused"} PROVE RowsOf(fx, o) = {<<"user", o.user>>}
  OBVIOUS
<1> HIDE DEF RowsOf
<1> QED BY <1>1, <1>2, <1>3, <1>4, <1>5, <1>6

Agrees(fx, o, v, d) ==
    /\ fx \in RepoFx \ {"drop"} => v.repo[o.repo] = d.repo[o.repo]
    /\ fx \in {"set", "remove"} => v.blobs[o.repo] = d.blobs[o.repo]
    /\ fx \in UserFx => v.user[o.user] = d.user[o.user]
    /\ fx = "set" => o.img \in d.image
    /\ v.image \subseteq d.image

\* Writing the rows is the operation.
Commits(fx, o, v, d, past) ==
    Overwrite(d, Apply(fx, o, v, past), RowsOf(fx, o)) = Apply(fx, o, d, past)

\* The data of the image does not depend on the view at all.
LEMMA CommitsImage ==
    ASSUME NEW v, NEW d, IsDB(v), IsDB(d), NEW o, NEW past, Fits("image", o)
    PROVE  Commits("image", o, v, d, past)
<1>1. o.img \in Images
  BY DEF Fits
<1>2. /\ ImagePut(Apply("image", o, v, past), v, o.img)
      /\ ImagePut(Apply("image", o, d, past), d, o.img)
  BY <1>1, ApplyImage, PutImageRows
<1> QED BY <1>2, CommitImage, RowsOfIs DEF Commits

\* SetRepoReference, from a view with the record and the sizes as they are.
LEMMA CommitsSet ==
    ASSUME NEW v, NEW d, IsDB(v), IsDB(d), NEW o, NEW past, Fits("set", o), Agrees("set", o, v, d)
    PROVE  Commits("set", o, v, d, past)
<1> DEFINE r == o.repo
           m == SetRepoReference(Repo(d, r), o.ref, o.img)
           n == [m EXCEPT !.blobs = {}]
           b == m.blobs
           p1 == PutRepo(v, r, m)
           q1 == PutRepo(d, r, m)
<1>1. r \in Repos /\ o.img \in Images /\ o.img \in d.image
  BY DEF Fits, Agrees, RepoFx
<1>2. Repo(v, r) = Repo(d, r)
  BY DEF Repo, Agrees, RepoFx
<1>3. /\ Apply("set", o, v, past) = [p1 EXCEPT !.image = @ \cup {o.img}]
      /\ Apply("set", o, d, past) = [q1 EXCEPT !.image = @ \cup {o.img}]
  BY <1>2, ApplySet
<1> HIDE DEF m, r
<1>4. RepoPut(p1, v, r, n, b) /\ RepoPut(q1, d, r, n, b)
  BY <1>1, PutRepoRows
<1> HIDE DEF n, b, p1, q1
<1>5. IsDB(p1) /\ IsDB(q1)
  BY <1>4 DEF RepoPut
<1>6. ImagePut(Apply("set", o, v, past), p1, o.img) /\ ImagePut(Apply("set", o, d, past), q1, o.img)
  BY <1>1, <1>3, <1>5, PutImageRows
<1>7. Overwrite(d, Apply("set", o, v, past), {<<"repo", r>>, <<"blobs", r>>}) = Apply("set", o, d, past)
  BY <1>1, <1>4, <1>6, CommitSet
<1> QED BY <1>7, RowsOfIs DEF Commits, r

\* RemoveRepoReference likewise.
LEMMA CommitsRemove ==
    ASSUME NEW v, NEW d, IsDB(v), IsDB(d), NEW o, NEW past, Fits("remove", o), Agrees("remove", o, v, d)
    PROVE  Commits("remove", o, v, d, past)
<1> DEFINE r == o.repo
           m == RemoveRepoReference(Repo(d, r), o.ref, o.img)
           n == [m EXCEPT !.blobs = {}]
           b == m.blobs
           p == PutRepo(v, r, m)
           q == PutRepo(d, r, m)
<1>1. r \in Repos
  BY DEF Fits, RepoFx
<1>2. Repo(v, r) = Repo(d, r)
  BY DEF Repo, Agrees, RepoFx
<1>3. Apply("remove", o, v, past) = p /\ Apply("remove", o, d, past) = q
  BY <1>2, ApplyRemove
<1> HIDE DEF m, r
<1>4. RepoPut(p, v, r, n, b) /\ RepoPut(q, d, r, n, b)
  BY <1>1, PutRepoRows
<1> HIDE DEF n, b, p, q
<1>7. Overwrite(d, p, {<<"repo", r>>, <<"blobs", r>>}) = q
  BY <1>1, <1>4, CommitRepo
<1> QED BY <1>3, <1>7, RowsOfIs DEF Commits, r

\* DeleteRepoMeta does not read.
LEMMA CommitsDrop ==
    ASSUME NEW v, NEW d, IsDB(v), IsDB(d), NEW o, NEW past, Fits("drop", o)
    PROVE  Commits("drop", o, v, d, past)
<1> DEFINE r == o.repo
<1>1. r \in Repos
  BY DEF Fits, RepoFx
<1>a. /\ Apply("drop", o, v, past) = [v EXCEPT !.repo[r] = None, !.blobs[r] = {}]
      /\ Apply("drop", o, d, past) = [d EXCEPT !.repo[r] = None, !.blobs[r] = {}]
  BY ApplyDrop
<1> HIDE DEF r
<1> DEFINE p == [v EXCEPT !.repo[r] = None, !.blobs[r] = {}]
           q == [d EXCEPT !.repo[r] = None, !.blobs[r] = {}]
<1>b. RepoPut(p, v, r, None, {})
  BY <1>1, DropRows
<1>c. RepoPut(q, d, r, None, {})
  BY <1>1, DropRows
<1> HIDE DEF p, q
<1>2. RepoPut(Apply("drop", o, v, past), v, r, None, {}) /\ RepoPut(Apply("drop", o, d, past), d, r, None, {})
  BY <1>a, <1>b, <1>c DEF p, q
<1>3. Overwrite(d, Apply("drop", o, v, past), {<<"repo", r>>, <<"blobs", r>>}) = Apply("drop", o, d, past)
  BY <1>1, <1>2, CommitRepo
<1> QED BY <1>3, RowsOfIs DEF Commits, r

\* The operations that change the record and not the sizes.
LEMMA CommitsRecord ==
    ASSUME NEW v, NEW d, IsDB(v), IsDB(d), Metas(d), NEW o, NEW past,
           NEW fx \in {"sign", "unsign", "validity", "download", "reset"},
           Fits(fx, o), Agrees(fx, o, v, d)
    PROVE  Commits(fx, o, v, d, past)
<1> DEFINE r == o.repo
           m == Repo(d, r)
           x == v.blobs[r]
           w == Repo(v, r)
           i == SigOf[o.img]
           e == DownloadedImage(m, o.ref, o.img)
<1>1. r \in Repos
  BY DEF Fits, RepoFx
<1>2. v.repo[r] = d.repo[r]
  BY DEF Agrees, RepoFx
<1>3. IsMeta(m) /\ m.blobs = d.blobs[r]
  BY <1>1, RepoIsMeta
<1>b. w = Resized(m, x)
  BY <1>1, <1>2, RepoOfView
<1>4. w = [m EXCEPT !.blobs = x]
  <2> HIDE DEF w, m, x
  <2> QED BY <1>b DEF Resized
<1>a. RowsOf(fx, o) = {<<"repo", r>>}
  BY RowsOfIs
<1> HIDE DEF r
<1>5. CASE fx = "sign"
  <2> DEFINE new == AddManifestSignature(m, i, o.img)
             old == AddManifestSignature(w, i, o.img)
  <2>1. Apply(fx, o, v, past) = PutRepo(v, r, old) /\ Apply(fx, o, d, past) = PutRepo(d, r, new)
    BY <1>5, ApplySign DEF r
  <2> HIDE DEF m, w
  <2>2. SizesApart(m, x, new, old)
    BY <1>3, <1>4, Apart
  <2> HIDE DEF new, old
  <2> QED BY <1>1, <1>3, <2>1, <2>2, <1>a, ApartPut DEF Commits
<1>6. CASE fx = "unsign"
  <2> DEFINE new == DeleteSignature(m, i, o.img)
             old == DeleteSignature(w, i, o.img)
  <2>1. Apply(fx, o, v, past) = PutRepo(v, r, old) /\ Apply(fx, o, d, past) = PutRepo(d, r, new)
    BY <1>6, ApplyUnsign DEF r
  <2> HIDE DEF m, w
  <2>2. SizesApart(m, x, new, old)
    BY <1>3, <1>4, Apart
  <2> HIDE DEF new, old
  <2> QED BY <1>1, <1>3, <2>1, <2>2, <1>a, ApartPut DEF Commits
<1>7. CASE fx = "validity"
  <2> DEFINE new == UpdateSignaturesValidity(m, i, {o.img})
             old == UpdateSignaturesValidity(w, i, {o.img})
  <2>1. Apply(fx, o, v, past) = PutRepo(v, r, old) /\ Apply(fx, o, d, past) = PutRepo(d, r, new)
    BY <1>7, ApplyValidity DEF r
  <2> HIDE DEF m, w
  <2>2. SizesApart(m, x, new, old)
    BY <1>3, <1>4, Apart
  <2> HIDE DEF new, old
  <2> QED BY <1>1, <1>3, <2>1, <2>2, <1>a, ApartPut DEF Commits
<1>8. CASE fx = "download"
  <2> DEFINE new == UpdateStatsOnDownload(m, e)
             old == UpdateStatsOnDownload(w, e)
  <2>0. DownloadedImage(w, o.ref, o.img) = e
    <3> HIDE DEF m, w
    <3> QED BY <1>3, <1>4, Apart
  <2>1. Apply(fx, o, v, past) = PutRepo(v, r, old) /\ Apply(fx, o, d, past) = PutRepo(d, r, new)
    BY <1>8, <2>0, ApplyDownload DEF r
  <2> HIDE DEF m, w, e
  <2>2. SizesApart(m, x, new, old)
    BY <1>3, <1>4, Apart
  <2> HIDE DEF new, old
  <2> QED BY <1>1, <1>3, <2>1, <2>2, <1>a, ApartPut DEF Commits
<1>9. CASE fx = "reset"
  <2> DEFINE new == ResetRepoReferences(m, {})
             old == ResetRepoReferences(w, {})
  <2>1. Apply(fx, o, v, past) = PutRepo(v, r, old) /\ Apply(fx, o, d, past) = PutRepo(d, r, new)
    BY <1>9, ApplyReset DEF r
  <2> HIDE DEF m, w
  <2>2. SizesApart(m, x, new, old)
    BY <1>3, <1>4, Apart
  <2> HIDE DEF new, old
  <2> QED BY <1>1, <1>3, <2>1, <2>2, <1>a, ApartPut DEF Commits
<1> QED BY <1>5, <1>6, <1>7, <1>8, <1>9

\* The operations that change the user.
LEMMA UserFx1 ==
    ASSUME NEW v, NEW d, NEW o, NEW past, v.user[o.user] = d.user[o.user],
           NEW fx \in {"bookmark", "groups", "listkeys", "expired", "lastused"}
    PROVE  \E x : /\ Apply(fx, o, v, past) = PutUser(v, o.user, x)
                  /\ Apply(fx, o, d, past) = PutUser(d, o.user, x)
<1>0. User(v, o.user) = User(d, o.user)
  BY DEF User
<1>1. CASE fx = "bookmark"
  <2> DEFINE x == [User(d, o.user) EXCEPT !.marked = Toggle(o.repo, @)]
  <2>1. Apply(fx, o, v, past) = PutUser(v, o.user, x) /\ Apply(fx, o, d, past) = PutUser(d, o.user, x)
    BY <1>0, <1>1, ApplyBookmark DEF ToggleBookmarkRepo
  <2> QED BY <2>1
<1>2. CASE fx = "groups"
  <2> DEFINE x == [User(d, o.user) EXCEPT !.groups = o.ref]
  <2>1. Apply(fx, o, v, past) = PutUser(v, o.user, x) /\ Apply(fx, o, d, past) = PutUser(d, o.user, x)
    BY <1>0, <1>2, ApplyGroups DEF SetUserGroups
  <2> QED BY <2>1
<1>3. CASE fx = "listkeys"
  <2> DEFINE keys == User(d, o.user).keys
             flag(k, e) == IF e = None THEN None
                      ELSE [e EXCEPT !.expired = @ \/ (e.named /\ k \in past)]
             x == [User(d, o.user) EXCEPT !.keys = [k \in Keys |-> flag(k, keys[k])]]
  <2>1. Apply(fx, o, v, past) = PutUser(v, o.user, x) /\ Apply(fx, o, d, past) = PutUser(d, o.user, x)
    BY <1>0, <1>3, ApplyListkeys DEF GetUserAPIKeys
  <2> QED BY <2>1
<1>4. KeyEntry(v, o) = KeyEntry(d, o) /\ PastDate(v, o, past) = PastDate(d, o, past)
  BY <1>0 DEF KeyEntry, PastDate
<1>5. CASE fx = "expired"
  <2> DEFINE e == [KeyEntry(d, o) EXCEPT !.expired = @ \/ PastDate(d, o, past)]
             x == [User(d, o.user) EXCEPT !.keys[o.key] = e]
  <2>1. Apply(fx, o, v, past) = PutUser(v, o.user, x) /\ Apply(fx, o, d, past) = PutUser(d, o.user, x)
    BY <1>0, <1>4, <1>5, ApplyExpired DEF IsAPIKeyExpired, PutKeyEntry
  <2> QED BY <2>1
<1>6. CASE fx = "lastused"
  <2> DEFINE x == [User(d, o.user) EXCEPT !.keys[o.key] = KeyEntry(d, o)]
  <2>1. Apply(fx, o, v, past) = PutUser(v, o.user, x) /\ Apply(fx, o, d, past) = PutUser(d, o.user, x)
    BY <1>0, <1>4, <1>6, ApplyLastused DEF UpdateUserAPIKeyLastUsed, PutKeyEntry
  <2> QED BY <2>1
<1> QED BY <1>1, <1>2, <1>3, <1>5, <1>6

\* The operations that rewrite the record of a user.
LEMMA CommitsUser ==
    ASSUME NEW v, NEW d, IsDB(v), IsDB(d), NEW o, NEW past,
           NEW fx \in {"bookmark", "groups", "listkeys", "expired", "lastused"},
           Fits(fx, o), Agrees(fx, o, v, d)
    PROVE  Commits(fx, o, v, d, past)
<1> DEFINE u == o.user
<1>1. u \in Users /\ v.user[u] = d.user[u]
  BY DEF Fits, Agrees, UserFx
<1>2. PICK x : Apply(fx, o, v, past) = PutUser(v, u, x) /\ Apply(fx, o, d, past) = PutUser(d, u, x)
  BY <1>1, UserFx1
<1>3. UserPut(PutUser(v, u, x), v, u, x) /\ UserPut(PutUser(d, u, x), d, u, x)
  BY <1>1, PutUserRows
<1>4. RowsOf(fx, o) = {<<"user", u>>}
  BY RowsOfIs
<1> HIDE DEF u
<1>5. Overwrite(d, PutUser(v, u, x), {<<"user", u>>}) = PutUser(d, u, x)
  BY <1>1, <1>3, CommitUser
<1> QED BY <1>2, <1>4, <1>5 DEF Commits

\* The change of a key and of the entry of its user, with the same rows from v and from d.
KeyChange(fx, o, v, d, past, x, y) ==
    /\ Apply(fx, o, v, past) = [PutUser(v, o.user, x) EXCEPT !.key[o.key] = y]
    /\ Apply(fx, o, d, past) = [PutUser(d, o.user, x) EXCEPT !.key[o.key] = y]

\* AddUserAPIKey and DeleteUserAPIKey write the same two rows from v as from d.
LEMMA UserFx2 ==
    ASSUME NEW v, NEW d, NEW o, NEW past, v.user[o.user] = d.user[o.user],
           NEW fx \in {"addkey", "delkey"}
    PROVE  \E x, y : KeyChange(fx, o, v, d, past, x, y)
<1>0. User(v, o.user) = User(d, o.user)
  BY DEF User
<1>1. CASE fx = "addkey"
  <2> DEFINE x == [User(d, o.user) EXCEPT !.keys[o.key] = [named |-> TRUE, expired |-> FALSE]]
  <2>1. /\ Apply(fx, o, v, past) = [PutUser(v, o.user, x) EXCEPT !.key[o.key] = o.user]
        /\ Apply(fx, o, d, past) = [PutUser(d, o.user, x) EXCEPT !.key[o.key] = o.user]
    <3>1. AddUserAPIKey(d, o) = [PutUser(d, o.user, x) EXCEPT !.key[o.key] = o.user]
      BY Zenon DEF AddUserAPIKey
    <3>2. AddUserAPIKey(v, o) = [PutUser(v, o.user, x) EXCEPT !.key[o.key] = o.user]
      BY <1>0, Zenon DEF AddUserAPIKey
    <3> HIDE DEF x
    <3> QED BY <1>1, <3>1, <3>2, ApplyAddkey
  <2> HIDE DEF x
  <2> QED BY <2>1 DEF KeyChange
<1>2. CASE fx = "delkey"
  <2> DEFINE x == [User(d, o.user) EXCEPT !.keys[o.key] = None]
  <2>1. /\ Apply(fx, o, v, past) = [PutUser(v, o.user, x) EXCEPT !.key[o.key] = None]
        /\ Apply(fx, o, d, past) = [PutUser(d, o.user, x) EXCEPT !.key[o.key] = None]
    <3>1. DeleteUserAPIKey(d, o) = [PutUser(d, o.user, x) EXCEPT !.key[o.key] = None]
      BY Zenon DEF DeleteUserAPIKey
    <3>2. DeleteUserAPIKey(v, o) = [PutUser(v, o.user, x) EXCEPT !.key[o.key] = None]
      BY <1>0, Zenon DEF DeleteUserAPIKey
    <3> HIDE DEF x
    <3> QED BY <1>2, <3>1, <3>2, ApplyDelkey
  <2> HIDE DEF x
  <2> QED BY <2>1 DEF KeyChange
<1> QED BY <1>1, <1>2

\* Adding and deleting a key.
LEMMA CommitsUserKey ==
    ASSUME NEW v, NEW d, IsDB(v), IsDB(d), NEW o, NEW past,
           NEW fx \in {"addkey", "delkey"}, Fits(fx, o), Agrees(fx, o, v, d)
    PROVE  Commits(fx, o, v, d, past)
<1> DEFINE u == o.user
           k == o.key
<1>1. u \in Users /\ k \in Keys /\ v.user[u] = d.user[u]
  BY DEF Fits, Agrees, UserFx
<1>2. PICK x, y : KeyChange(fx, o, v, d, past, x, y)
  BY <1>1, UserFx2
<1> DEFINE p1 == PutUser(v, u, x)
           q1 == PutUser(d, u, x)
           p == [p1 EXCEPT !.key[k] = y]
           q == [q1 EXCEPT !.key[k] = y]
<1>3. UserPut(p1, v, u, x) /\ UserPut(q1, d, u, x)
  BY <1>1, PutUserRows
<1>4. RowsOf(fx, o) = {<<"user", u>>, <<"key", k>>}
  BY RowsOfIs
<1> HIDE DEF u, k, p1, q1
<1>a. IsDB(p1) /\ IsDB(q1)
  BY <1>3 DEF UserPut
<1>b. KeyPut(p, p1, k, y) /\ KeyPut(q, q1, k, y)
  BY <1>1, <1>a, PutKeyRows
<1>6. Apply(fx, o, v, past) = p /\ Apply(fx, o, d, past) = q
  BY <1>2 DEF KeyChange, p1, q1, u, k
<1> HIDE DEF p, q
<1>5. Overwrite(d, p, {<<"user", u>>, <<"key", k>>}) = q
  BY <1>1, <1>3, <1>b, CommitUserKey
<1> QED BY <1>6, <1>4, <1>5 DEF Commits

\* ToggleStarRepo, which rewrites the records of the user and of the repository.
LEMMA CommitsStar ==
    ASSUME NEW v, NEW d, IsDB(v), IsDB(d), Metas(d), NEW o, NEW past,
           Fits("star", o), Agrees("star", o, v, d)
    PROVE  Commits("star", o, v, d, past)
<1> DEFINE r == o.repo
           u == o.user
           m == Repo(d, r)
           w == Repo(v, r)
           ud == User(d, u)
           new == IF r \in ud.starred THEN RemoveStar(m) ELSE AddStar(m)
           old == IF r \in ud.starred THEN RemoveStar(w) ELSE AddStar(w)
           x == [ud EXCEPT !.starred = Toggle(r, @)]
           n == [new EXCEPT !.blobs = {}]
           p1 == PutRepo(v, r, old)
           q1 == PutRepo(d, r, new)
           p == PutUser(p1, u, x)
           q == PutUser(q1, u, x)
<1>1. r \in Repos /\ u \in Users
  BY DEF Fits, RepoFx, UserFx
<1>2. v.repo[r] = d.repo[r] /\ v.user[u] = d.user[u]
  BY DEF Agrees, RepoFx, UserFx
<1>a. RowsOf("star", o) = {<<"user", u>>, <<"repo", r>>}
  BY RowsOfIs
<1>b. Apply("star", o, d, past) = q
  BY ApplyStar DEF ToggleStarRepo
<1>c. User(v, u) = ud
  BY <1>2 DEF User
<1>d. Apply("star", o, v, past) = p
  BY <1>c, ApplyStar DEF ToggleStarRepo
<1> HIDE DEF r, u, ud
<1>3. IsMeta(m) /\ m.blobs = d.blobs[r]
  BY <1>1, RepoIsMeta
<1>f. w = Resized(m, v.blobs[r])
  BY <1>1, <1>2, RepoOfView
<1> HIDE DEF m, w, x
<1>4. w = [m EXCEPT !.blobs = v.blobs[r]]
  BY <1>f DEF Resized
<1>5. SizesApart(m, v.blobs[r], new, old)
  BY <1>3, <1>4, Apart
<1> HIDE DEF new, old
<1>6. n = [old EXCEPT !.blobs = {}] /\ new.blobs = d.blobs[r]
  BY <1>3, <1>5 DEF SizesApart
<1>7. RepoPut(p1, v, r, [old EXCEPT !.blobs = {}], old.blobs) /\ RepoPut(q1, d, r, n, new.blobs)
  BY <1>1, PutRepoRows
<1> HIDE DEF n, p1, q1
<1>8. RepoPut(p1, v, r, n, old.blobs) /\ RepoPut(q1, d, r, n, d.blobs[r])
  BY <1>6, <1>7
<1>9. IsDB(p1) /\ IsDB(q1)
  BY <1>8 DEF RepoPut
<1>10. UserPut(p, p1, u, x) /\ UserPut(q, q1, u, x)
  BY <1>1, <1>9, PutUserRows
<1> HIDE DEF p, q
<1>11. Overwrite(d, p, {<<"user", u>>, <<"repo", r>>}) = q
  BY <1>1, <1>8, <1>10, CommitStar
<1> QED BY <1>a, <1>b, <1>d, <1>11 DEF Commits

\* A write of the rows of fx is the operation, if the view is right about what it needs.
LEMMA WriteCommits ==
    ASSUME NEW v, NEW d, IsDB(v), IsDB(d), Metas(d), NEW o, NEW past,
           NEW fx \in Fxs, Fits(fx, o), Agrees(fx, o, v, d)
    PROVE  Commits(fx, o, v, d, past)
<1>1. CASE fx = "image" BY <1>1, CommitsImage
<1>2. CASE fx = "set" BY <1>2, CommitsSet
<1>3. CASE fx = "remove" BY <1>3, CommitsRemove
<1>4. CASE fx = "drop" BY <1>4, CommitsDrop
<1>5. CASE fx = "star" BY <1>5, CommitsStar
<1>6. CASE fx \in {"sign", "unsign", "validity", "download", "reset"} BY <1>6, CommitsRecord
<1>7. CASE fx \in {"bookmark", "groups", "listkeys", "expired", "lastused"} BY <1>7, CommitsUser
<1>8. CASE fx \in {"addkey", "delkey"} BY <1>8, CommitsUserKey
<1> QED BY <1>1, <1>2, <1>3, <1>4, <1>5, <1>6, <1>7, <1>8 DEF Fxs, RepoFx, UserFx

-----------------------------------------------------------------------------
(* Whether it writes at all.                                                 *)

IsOp(o) == o = Op(o.name, o.repo, o.ref, o.img, o.user, o.key)

\* The entry of a key is in the record of its user.
LEMMA SameKeyEntry ==
    ASSUME NEW v, NEW d, NEW o, v.user[o.user] = d.user[o.user]
    PROVE  KeyEntry(v, o) = KeyEntry(d, o)
BY DEF KeyEntry, User

\* So is its expiration date.
LEMMA SamePastDate ==
    ASSUME NEW v, NEW d, NEW o, v.user[o.user] = d.user[o.user], NEW past
    PROVE  PastDate(v, o, past) = PastDate(d, o, past)
BY SameKeyEntry DEF PastDate

\* A client that writes does so for the records as they are, too.
LEMMA WritesAgree ==
    ASSUME NEW v, NEW d, IsDB(v), IsDB(d), Metas(d), NEW o, IsOp(o), NEW past,
           NEW fx \in Fxs, Fits(fx, o), Agrees(fx, o, v, d), Writes(fx, o, v, past)
    PROVE  Writes(fx, o, d, past)
<1>1. CASE fx = "remove"
  BY <1>1 DEF Writes, Agrees, RepoFx
<1>2. CASE fx \in {"unsign", "reset", "star"}
  BY <1>2 DEF Writes, Agrees, RepoFx
<1>3. CASE fx = "validity"
  BY <1>3 DEF Writes, Agrees, RepoFx
<1>4. CASE fx = "download"
  <2>1. v.repo[o.repo] = d.repo[o.repo] /\ o.repo \in Repos
    BY <1>4 DEF Agrees, Fits, RepoFx
  <2>2. v.repo[o.repo] # None /\ DownloadedImage(Repo(v, o.repo), o.ref, o.img) # None
    BY <1>4 DEF Writes
  <2>3. DownloadedImage(Repo(v, o.repo), o.ref, o.img) = DownloadedImage(Repo(d, o.repo), o.ref, o.img)
    <3> DEFINE m == Repo(d, o.repo)
    <3>1. IsMeta(m)
      BY <2>1, RepoIsMeta
    <3>a. Repo(v, o.repo) = Resized(m, v.blobs[o.repo])
      BY <2>1, RepoOfView
    <3> HIDE DEF m
    <3>2. Repo(v, o.repo) = [m EXCEPT !.blobs = v.blobs[o.repo]]
      BY <3>a DEF Resized
    <3>3. DownloadedImage(m, o.ref, o.img) = DownloadedImage([m EXCEPT !.blobs = v.blobs[o.repo]], o.ref, o.img)
      BY <3>1, Apart
    <3> QED BY <3>2, <3>3 DEF m
  <2> QED BY <1>4, <2>1, <2>2, <2>3 DEF Writes
<1>5. CASE fx = "delkey"
  <2>1. KeyEntry(v, o) = KeyEntry(d, o)
    BY <1>5, SameKeyEntry DEF Agrees, UserFx
  <2> QED BY <1>5, <2>1 DEF Writes
<1>6. CASE fx = "expired"
  <2>1. KeyEntry(v, o) = KeyEntry(d, o)
    BY <1>6, SameKeyEntry DEF Agrees, UserFx
  <2> QED BY <1>6, <2>1 DEF Writes
<1>7. CASE fx = "listkeys"
  <2>0. v.user[o.user] = d.user[o.user]
    BY <1>7 DEF Agrees, UserFx
  <2>1. PICK k \in Keys : PastDate(v, [o EXCEPT !.key = k], past)
    BY <1>7 DEF Writes
  <2> DEFINE w == [o EXCEPT !.key = k]
  <2>2. w.user = o.user
    BY DEF IsOp, Op
  <2>3. PastDate(v, w, past)
    BY <2>1
  <2> HIDE DEF w
  <2>4. PastDate(d, w, past)
    BY <2>0, <2>2, <2>3, SamePastDate
  <2> QED BY <1>7, <2>4 DEF Writes, w
<1>8. CASE fx \in {"image", "set", "sign", "drop", "bookmark", "groups", "addkey", "lastused"}
  BY <1>8 DEF Writes
<1> QED BY <1>1, <1>2, <1>3, <1>4, <1>5, <1>6, <1>7, <1>8 DEF Fxs, RepoFx, UserFx

-----------------------------------------------------------------------------
(* The changes keep the tables.                                              *)

Keeps(d, p) == IsDB(p) /\ Metas(p) /\ d.image \subseteq p.image

\* A new record of a repository is well formed, and no image is lost.
LEMMA RepoPutKeeps ==
    ASSUME NEW d, IsDB(d), Metas(d), NEW p, NEW r \in Repos, NEW n, NEW b, RepoPut(p, d, r, n, b),
           n = None \/ IsMeta(n)
    PROVE  Keeps(d, p)
BY DEF Keeps, Metas, RepoPut

\* A new record of a user leaves the repositories alone.
LEMMA UserPutKeeps ==
    ASSUME NEW d, IsDB(d), Metas(d), NEW p, NEW u, NEW x, UserPut(p, d, u, x)
    PROVE  Keeps(d, p)
BY DEF Keeps, Metas, UserPut

\* So does a key.
LEMMA KeyPutKeeps ==
    ASSUME NEW d, IsDB(d), Metas(d), NEW p, NEW k, NEW x, KeyPut(p, d, k, x)
    PROVE  Keeps(d, p)
BY DEF Keeps, Metas, KeyPut

\* So does the data of an image, which is there afterwards.
LEMMA ImagePutKeeps ==
    ASSUME NEW d, IsDB(d), Metas(d), NEW p, NEW i, ImagePut(p, d, i)
    PROVE  Keeps(d, p) /\ i \in p.image
BY DEF Keeps, Metas, ImagePut

\* Two changes in a row.
LEMMA KeepsTwice ==
    ASSUME NEW d, NEW p, NEW q, Keeps(d, p), Keeps(p, q)
    PROVE  Keeps(d, q)
BY DEF Keeps

\* PutRepo keeps the tables well formed.
LEMMA PutRepoKeeps ==
    ASSUME NEW d, IsDB(d), Metas(d), NEW r \in Repos, NEW m, IsMeta(m)
    PROVE  Keeps(d, PutRepo(d, r, m))
<1> DEFINE n == [m EXCEPT !.blobs = {}]
<1>1. RepoPut(PutRepo(d, r, m), d, r, n, m.blobs)
  BY PutRepoRows
<1>2. IsMeta(n)
  BY WithBlobs
<1> HIDE DEF n
<1> QED BY <1>1, <1>2, RepoPutKeeps

\* PutUser does.
LEMMA PutUserKeeps ==
    ASSUME NEW d, IsDB(d), Metas(d), NEW u \in Users, NEW x
    PROVE  Keeps(d, PutUser(d, u, x))
BY PutUserRows, UserPutKeeps

\* Writing a key does.
LEMMA PutKeyKeeps ==
    ASSUME NEW d, IsDB(d), Metas(d), NEW k \in Keys, NEW x
    PROVE  Keeps(d, [d EXCEPT !.key[k] = x])
BY PutKeyRows, KeyPutKeeps

\* Storing the data of an image does.
LEMMA PutImageKeeps ==
    ASSUME NEW d, IsDB(d), Metas(d), NEW i \in Images
    PROVE  Keeps(d, [d EXCEPT !.image = @ \cup {i}])
<1> DEFINE p == [d EXCEPT !.image = @ \cup {i}]
<1>1. ImagePut(p, d, i)
  BY PutImageRows
<1> HIDE DEF p
<1>2. Keeps(d, p)
  BY <1>1, ImagePutKeeps
<1> QED BY <1>2 DEF p

\* Every change keeps the tables well formed and every image that is stored.
LEMMA ApplyKeeps ==
    ASSUME NEW d, IsDB(d), Metas(d), NEW o, NEW past, NEW fx \in Fxs, Fits(fx, o)
    PROVE  Keeps(d, Apply(fx, o, d, past))
<1> DEFINE m == Repo(d, o.repo)
<1>0. fx \in RepoFx => o.repo \in Repos /\ IsMeta(m)
  BY RepoIsMeta DEF Fits
<1>r. ASSUME NEW n, IsMeta(n), fx \in RepoFx PROVE Keeps(d, PutRepo(d, o.repo, n))
  BY <1>0, <1>r, PutRepoKeeps
<1> HIDE DEF m
<1>p. ASSUME NEW n, NEW old, NEW x, SizesApart(m, x, n, old), fx \in RepoFx PROVE Keeps(d, PutRepo(d, o.repo, n))
  BY <1>p, <1>r DEF SizesApart
<1>1. CASE fx = "image"
  <2>1. o.img \in Images
    BY <1>1 DEF Fits
  <2> QED BY <1>1, <2>1, ApplyImage, PutImageKeeps
<1>2. CASE fx = "set"
  <2>1. o.img \in Images /\ fx \in RepoFx
    BY <1>2 DEF Fits, RepoFx
  <2> DEFINE p == PutRepo(d, o.repo, SetRepoReference(m, o.ref, o.img))
  <2>2. Keeps(d, p)
    BY <1>0, <1>r, <2>1, SetIsMeta
  <2>3. Apply(fx, o, d, past) = [p EXCEPT !.image = @ \cup {o.img}]
    BY <1>2, ApplySet DEF m
  <2> HIDE DEF p
  <2>4. Keeps(p, [p EXCEPT !.image = @ \cup {o.img}])
    BY <2>1, <2>2, PutImageKeeps DEF Keeps
  <2> QED BY <2>2, <2>3, <2>4, KeepsTwice
<1>3. CASE fx = "remove"
  <2>1. fx \in RepoFx
    BY <1>3 DEF RepoFx
  <2>2. Apply(fx, o, d, past) = PutRepo(d, o.repo, RemoveRepoReference(m, o.ref, o.img))
    BY <1>3, ApplyRemove DEF m
  <2> QED BY <1>0, <1>r, <2>1, <2>2, RemoveIsMeta
<1>4. CASE fx \in {"sign", "unsign", "validity", "download", "reset"}
  <2>1. fx \in RepoFx
    BY <1>4 DEF RepoFx
  <2> DEFINE i == SigOf[o.img]
             e == DownloadedImage(m, o.ref, o.img)
             w == [m EXCEPT !.blobs = {}]
  <2>2. CASE fx = "sign"
    <3>1. SizesApart(m, {}, AddManifestSignature(m, i, o.img), AddManifestSignature(w, i, o.img))
      BY <1>0, <2>1, Apart
    <3>2. Apply(fx, o, d, past) = PutRepo(d, o.repo, AddManifestSignature(m, i, o.img))
      BY <2>2, ApplySign DEF m
    <3> QED BY <2>1, <3>1, <3>2, <1>p
  <2>3. CASE fx = "unsign"
    <3>1. SizesApart(m, {}, DeleteSignature(m, i, o.img), DeleteSignature(w, i, o.img))
      BY <1>0, <2>1, Apart
    <3>2. Apply(fx, o, d, past) = PutRepo(d, o.repo, DeleteSignature(m, i, o.img))
      BY <2>3, ApplyUnsign DEF m
    <3> QED BY <2>1, <3>1, <3>2, <1>p
  <2>4. CASE fx = "validity"
    <3>1. SizesApart(m, {}, UpdateSignaturesValidity(m, i, {o.img}), UpdateSignaturesValidity(w, i, {o.img}))
      BY <1>0, <2>1, Apart
    <3>2. Apply(fx, o, d, past) = PutRepo(d, o.repo, UpdateSignaturesValidity(m, i, {o.img}))
      BY <2>4, ApplyValidity DEF m
    <3> QED BY <2>1, <3>1, <3>2, <1>p
  <2>5. CASE fx = "download"
    <3>1. SizesApart(m, {}, UpdateStatsOnDownload(m, e), UpdateStatsOnDownload(w, e))
      BY <1>0, <2>1, Apart
    <3>2. Apply(fx, o, d, past) = PutRepo(d, o.repo, UpdateStatsOnDownload(m, e))
      BY <2>5, ApplyDownload DEF m
    <3> QED BY <2>1, <3>1, <3>2, <1>p
  <2>6. CASE fx = "reset"
    <3>1. SizesApart(m, {}, ResetRepoReferences(m, {}), ResetRepoReferences(w, {}))
      BY <1>0, <2>1, Apart
    <3>2. Apply(fx, o, d, past) = PutRepo(d, o.repo, ResetRepoReferences(m, {}))
      BY <2>6, ApplyReset DEF m
    <3> QED BY <2>1, <3>1, <3>2, <1>p
  <2> QED BY <1>4, <2>2, <2>3, <2>4, <2>5, <2>6
<1>5. CASE fx = "drop"
  <2>1. o.repo \in Repos
    BY <1>0, <1>5 DEF RepoFx
  <2> DEFINE p == [d EXCEPT !.repo[o.repo] = None, !.blobs[o.repo] = {}]
  <2>2. RepoPut(p, d, o.repo, None, {})
    BY <2>1, DropRows
  <2>3. Apply(fx, o, d, past) = p
    BY <1>5, ApplyDrop
  <2> HIDE DEF p
  <2> QED BY <2>1, <2>2, <2>3, RepoPutKeeps
<1>6. CASE fx = "star"
  <2>1. fx \in RepoFx /\ o.user \in Users
    BY <1>6 DEF Fits, RepoFx, UserFx
  <2> DEFINE ud == User(d, o.user)
             w == [m EXCEPT !.blobs = {}]
             moved == IF o.repo \in ud.starred THEN RemoveStar(m) ELSE AddStar(m)
             p == PutRepo(d, o.repo, moved)
             x == [ud EXCEPT !.starred = Toggle(o.repo, @)]
  <2>2. SizesApart(m, {}, AddStar(m), AddStar(w)) /\ SizesApart(m, {}, RemoveStar(m), RemoveStar(w))
    BY <1>0, <2>1, Apart
  <2>3. Keeps(d, p)
    BY <2>1, <2>2, <1>p
  <2>4. Apply(fx, o, d, past) = PutUser(p, o.user, x)
    BY <1>6, ApplyStar DEF ToggleStarRepo, m
  <2> HIDE DEF p, x
  <2>5. Keeps(p, PutUser(p, o.user, x))
    BY <2>1, <2>3, PutUserKeeps DEF Keeps
  <2> QED BY <2>3, <2>4, <2>5, KeepsTwice
<1>7. CASE fx \in {"bookmark", "groups", "listkeys", "expired", "lastused"}
  <2>1. o.user \in Users
    BY <1>7 DEF Fits, UserFx
  <2>2. PICK x : /\ Apply(fx, o, d, past) = PutUser(d, o.user, x)
                 /\ Apply(fx, o, d, past) = PutUser(d, o.user, x)
    BY <1>7, UserFx1
  <2> QED BY <2>1, <2>2, PutUserKeeps
<1>8. CASE fx \in {"addkey", "delkey"}
  <2>1. o.user \in Users /\ o.key \in Keys
    BY <1>8 DEF Fits, UserFx
  <2>2. PICK x, y : KeyChange(fx, o, d, d, past, x, y)
    BY <1>8, UserFx2
  <2> DEFINE p == PutUser(d, o.user, x)
  <2>3. Keeps(d, p)
    BY <2>1, PutUserKeeps
  <2>4. Apply(fx, o, d, past) = [p EXCEPT !.key[o.key] = y]
    BY <2>2 DEF KeyChange
  <2> HIDE DEF p
  <2>5. Keeps(p, [p EXCEPT !.key[o.key] = y])
    BY <2>1, <2>3, PutKeyKeeps DEF Keeps
  <2> QED BY <2>3, <2>4, <2>5, KeepsTwice
<1> QED BY <1>1, <1>2, <1>3, <1>4, <1>5, <1>6, <1>7, <1>8 DEF Fxs, RepoFx, UserFx

-----------------------------------------------------------------------------
(* The programs.                                                             *)

LEMMA LockSeq1 ==
    ASSUME NEW l
    PROVE  [n \in 1..Len(<<l>>) |-> Lock(<<l>>[n])] = <<Lock(l)>>
OBVIOUS

\* The calls that take two locks.
LEMMA LockSeq2 ==
    ASSUME NEW l, NEW m
    PROVE  [n \in 1..Len(<<l, m>>) |-> Lock(<<l, m>>[n])] = <<Lock(l), Lock(m)>>
OBVIOUS

\* A section with one lock.
LEMMA OneLock ==
    ASSUME NEW l, NEW body
    PROVE  withRSLocks(<<l>>, body) = <<Lock(l)>> \o body \o <<Release>>
BY LockSeq1 DEF withRSLocks

\* A section with two locks.
LEMMA TwoLocks ==
    ASSUME NEW l, NEW m, NEW body
    PROVE  withRSLocks(<<l, m>>, body) = <<Lock(l), Lock(m)>> \o body \o <<Release>>
BY LockSeq2 DEF withRSLocks

\* The program P consists of these calls.
Calls3(P, a, b, c) == Len(P) = 3 /\ P[1] = a /\ P[2] = b /\ P[3] = c
Calls4(P, a, b, c, d) == Len(P) = 4 /\ P[1] = a /\ P[2] = b /\ P[3] = c /\ P[4] = d
Calls5(P, a, b, c, d, e) == Len(P) = 5 /\ P[1] = a /\ P[2] = b /\ P[3] = c /\ P[4] = d /\ P[5] = e
Calls6(P, a, b, c, d, e, f) ==
    Len(P) = 6 /\ P[1] = a /\ P[2] = b /\ P[3] = c /\ P[4] = d /\ P[5] = e /\ P[6] = f
Calls8(P, a, b, c, d, e, f, g, h) ==
    /\ Len(P) = 8 /\ P[1] = a /\ P[2] = b /\ P[3] = c /\ P[4] = d /\ P[5] = e /\ P[6] = f
    /\ P[7] = g /\ P[8] = h
Calls12(P, a, b, c, d, e, f, g, h) ==
    /\ Len(P) = 12 /\ P[1] = a /\ P[2] = b /\ P[3] = c /\ P[4] = d /\ P[5] = e /\ P[6] = f
    /\ P[7] = c /\ P[8] = d /\ P[9] = g /\ P[10] = f /\ P[11] = h /\ P[12] = f

\* The second of two calls.
LEMMA PairAt == ASSUME NEW a, NEW b PROVE (<<a>> \o <<b>>)[2] = b
OBVIOUS

\* The calls of a program, read off its sections (Cat...).
LEMMA Cat3 == ASSUME NEW a, NEW b, NEW c, NEW P, P = <<a>> \o <<b>> \o <<c>>
   PROVE Calls3(P, a, b, c)
<1> DEFINE Q == <<a>> \o <<b>>
<1>1. Len(Q) = 2 /\ Q \in Seq({a, b})
  OBVIOUS
<1>a. Q[1] = a
  OBVIOUS
<1>b. Q[2] = b
  BY PairAt
<1> HIDE DEF Q
<1>2. P = Q \o <<c>>
  BY DEF Q
<1> QED BY <1>1, <1>a, <1>b, <1>2 DEF Calls3
LEMMA Cat4 == ASSUME NEW a, NEW b, NEW c, NEW d, NEW P, P = <<a>> \o <<b, c>> \o <<d>>
   PROVE Calls4(P, a, b, c, d)
BY DEF Calls4
LEMMA Cat5 == ASSUME NEW a, NEW b, NEW c, NEW d, NEW e, NEW P, P = <<a>> \o <<b, c, d>> \o <<e>>
   PROVE Calls5(P, a, b, c, d, e)
BY DEF Calls5
LEMMA Cat6 == ASSUME NEW a, NEW b, NEW c, NEW d, NEW e, NEW f, NEW P, P = <<a>> \o <<b, c, d, e>> \o <<f>>
   PROVE Calls6(P, a, b, c, d, e, f)
BY DEF Calls6
LEMMA Cat6b == ASSUME NEW a, NEW b, NEW c, NEW d, NEW e, NEW f, NEW P, P = <<a, b>> \o <<c, d, e>> \o <<f>>
   PROVE Calls6(P, a, b, c, d, e, f)
BY DEF Calls6

\* The first section of two.
LEMMA HeadAt ==
    ASSUME NEW S, NEW T, NEW Q \in Seq(S), NEW R \in Seq(T)
    PROVE  Len(Q) = 3 => (Q \o R)[2] = Q[2] /\ (Q \o R)[3] = Q[3]
<1>1. ASSUME NEW i \in 1..Len(Q) PROVE (Q \o R)[i] = Q[i]
  OBVIOUS
<1>2. Len(Q) = 3 => 2 \in 1..Len(Q) /\ 3 \in 1..Len(Q)
  OBVIOUS
<1> QED BY <1>1, <1>2, Zenon
LEMMA Cat8 == ASSUME NEW a, NEW b, NEW c, NEW d, NEW e, NEW f, NEW g, NEW h, NEW P,
     P = (<<a>> \o <<b>> \o <<c>>) \o (<<d>> \o <<e, f, g>> \o <<h>>)
   PROVE Calls8(P, a, b, c, d, e, f, g, h)
<1>1. Len(P) = 8
  OBVIOUS
<1>2. P[1] = a
  OBVIOUS
<1> DEFINE Q == <<a>> \o <<b>> \o <<c>>
           R == <<d>> \o <<e, f, g>> \o <<h>>
<1>3. P[2] = b /\ P[3] = c
  <2>1. Calls3(Q, a, b, c)
    BY Cat3
  <2>2. Q \in Seq({a, b, c}) /\ R \in Seq({d, e, f, g, h})
    OBVIOUS
  <2> HIDE DEF Q, R
  <2>3. P = Q \o R
    BY DEF Q, R
  <2>4. Len(Q) = 3 /\ Q[2] = b /\ Q[3] = c
    BY <2>1 DEF Calls3
  <2>5. (Q \o R)[2] = Q[2] /\ (Q \o R)[3] = Q[3]
    BY <2>2, <2>4, HeadAt
  <2> QED BY <2>3, <2>4, <2>5
<1>5. P[4] = d /\ P[5] = e
  OBVIOUS
<1>6. P[6] = f /\ P[7] = g
  OBVIOUS
<1>7. P[8] = h
  OBVIOUS
<1> QED BY <1>1, <1>2, <1>3, <1>5, <1>6, <1>7 DEF Calls8
LEMMA Cat12 == ASSUME NEW a, NEW b, NEW c, NEW d, NEW e, NEW f, NEW g, NEW h, NEW P,
     P = <<a, b>> \o (<<c>> \o <<d, e>> \o <<f>>) \o (<<c>> \o <<d, g>> \o <<f>>) \o <<h, f>>
   PROVE Calls12(P, a, b, c, d, e, f, g, h)
BY DEF Calls12

\* The calls of each operation of Redis, one lemma for each form (Redis...).
LEMMA RedisSet ==
    ASSUME NEW o, backend = "redis", o.name = "set"
    PROVE  Calls8(Program(o), Lock(<<"Image", o.img>>), Write({ImageRow(o)}, "image"), Release, Lock(RepoLock(o)), Read(RepoRow(o)), Read(BlobsRow(o)), Write({RepoRow(o), BlobsRow(o)}, "set"), Release)
<1>1. Program(o) = RedisSetRepoReference(o)
  BY DEF Program, RedisProgram
<1> DEFINE a == Lock(<<"Image", o.img>>)
           b == Write({ImageRow(o)}, "image")
           c == Release
           d == Lock(RepoLock(o))
           e == Read(RepoRow(o))
           f == Read(BlobsRow(o))
           g == Write({RepoRow(o), BlobsRow(o)}, "set")
           h == Release
<1>2. Program(o) = (<<a>> \o <<b>> \o <<c>>) \o (<<d>> \o <<e, f, g>> \o <<h>>)
  BY <1>1, OneLock DEF RedisSetRepoReference
<1> HIDE DEF a, b, c, d, e, f, g, h
<1>3. Calls8(Program(o), a, b, c, d, e, f, g, h)
  BY <1>2, Cat8
<1> QED BY <1>3 DEF a, b, c, d, e, f, g, h

LEMMA RedisRemove ==
    ASSUME NEW o, backend = "redis", o.name = "remove"
    PROVE  Calls6(Program(o), Lock(RepoLock(o)), Read(RepoRow(o)), Read(ImageRow(o)), Read(BlobsRow(o)), Write({RepoRow(o), BlobsRow(o)}, "remove"), Release)
<1>1. Program(o) = RedisRemoveRepoReference(o)
  BY DEF Program, RedisProgram
<1> DEFINE a == Lock(RepoLock(o))
           b == Read(RepoRow(o))
           c == Read(ImageRow(o))
           d == Read(BlobsRow(o))
           e == Write({RepoRow(o), BlobsRow(o)}, "remove")
           f == Release
<1>2. Program(o) = <<a>> \o <<b, c, d, e>> \o <<f>>
  BY <1>1, OneLock DEF RedisRemoveRepoReference
<1> HIDE DEF a, b, c, d, e, f
<1>3. Calls6(Program(o), a, b, c, d, e, f)
  BY <1>2, Cat6
<1> QED BY <1>3 DEF a, b, c, d, e, f

LEMMA RedisRecord ==
    ASSUME NEW o, backend = "redis", o.name \in {"reset", "sign", "unsign", "download"}
    PROVE  Calls4(Program(o), Lock(RepoLock(o)), Read(RepoRow(o)), Write({RepoRow(o)}, o.name), Release)
<1>1. Program(o) = withRSLocks(<<RepoLock(o)>>, <<Read(RepoRow(o)), Write({RepoRow(o)}, o.name)>>)
  <2>1. CASE o.name = "reset"
    <3>1. Program(o) = RedisResetRepoReferences(o)
      BY <2>1 DEF Program, RedisProgram
    <3> QED BY <2>1, <3>1 DEF RedisResetRepoReferences
  <2>2. CASE o.name = "sign"
    <3>1. Program(o) = RedisAddManifestSignature(o)
      BY <2>2 DEF Program, RedisProgram
    <3> QED BY <2>2, <3>1 DEF RedisAddManifestSignature
  <2>3. CASE o.name = "unsign"
    <3>1. Program(o) = RedisDeleteSignature(o)
      BY <2>3 DEF Program, RedisProgram
    <3> QED BY <2>3, <3>1 DEF RedisDeleteSignature
  <2>4. CASE o.name = "download"
    <3>1. Program(o) = RedisUpdateStatsOnDownload(o)
      BY <2>4 DEF Program, RedisProgram
    <3> QED BY <2>4, <3>1 DEF RedisUpdateStatsOnDownload
  <2> QED BY <2>1, <2>2, <2>3, <2>4
<1> DEFINE a == Lock(RepoLock(o))
           b == Read(RepoRow(o))
           c == Write({RepoRow(o)}, o.name)
           d == Release
<1>2. Program(o) = <<a>> \o <<b, c>> \o <<d>>
  BY <1>1, OneLock
<1> HIDE DEF a, b, c, d
<1>3. Calls4(Program(o), a, b, c, d)
  BY <1>2, Cat4
<1> QED BY <1>3 DEF a, b, c, d

LEMMA RedisDrop ==
    ASSUME NEW o, backend = "redis", o.name = "drop"
    PROVE  Calls3(Program(o), Lock(RepoLock(o)), Write({RepoRow(o), BlobsRow(o)}, "drop"), Release)
<1>1. Program(o) = RedisDeleteRepoMeta(o)
  BY DEF Program, RedisProgram
<1> DEFINE a == Lock(RepoLock(o))
           b == Write({RepoRow(o), BlobsRow(o)}, "drop")
           c == Release
<1>2. Program(o) = <<a>> \o <<b>> \o <<c>>
  BY <1>1, OneLock DEF RedisDeleteRepoMeta
<1> HIDE DEF a, b, c
<1>3. Calls3(Program(o), a, b, c)
  BY <1>2, Cat3
<1> QED BY <1>3 DEF a, b, c

LEMMA RedisValidity ==
    ASSUME NEW o, backend = "redis", o.name = "validity"
    PROVE  Calls5(Program(o), Lock(RepoLock(o)), Read(<<"image", SigOf[o.img]>>), Read(RepoRow(o)), Write({RepoRow(o)}, "validity"), Release)
<1>1. Program(o) = RedisUpdateSignaturesValidity(o)
  BY DEF Program, RedisProgram
<1> DEFINE a == Lock(RepoLock(o))
           b == Read(<<"image", SigOf[o.img]>>)
           c == Read(RepoRow(o))
           d == Write({RepoRow(o)}, "validity")
           e == Release
<1>2. Program(o) = <<a>> \o <<b, c, d>> \o <<e>>
  BY <1>1, OneLock DEF RedisUpdateSignaturesValidity
<1> HIDE DEF a, b, c, d, e
<1>3. Calls5(Program(o), a, b, c, d, e)
  BY <1>2, Cat5
<1> QED BY <1>3 DEF a, b, c, d, e

LEMMA RedisStar ==
    ASSUME NEW o, backend = "redis", o.name = "star"
    PROVE  Calls6(Program(o), Lock(RepoLock(o)), Lock(UserLock(o)), Read(UserRow(o)), Read(RepoRow(o)), Write({UserRow(o), RepoRow(o)}, "star"), Release)
<1>1. Program(o) = RedisToggleStarRepo(o)
  BY DEF Program, RedisProgram
<1> DEFINE a == Lock(RepoLock(o))
           b == Lock(UserLock(o))
           c == Read(UserRow(o))
           d == Read(RepoRow(o))
           e == Write({UserRow(o), RepoRow(o)}, "star")
           f == Release
<1>2. Program(o) = <<a, b>> \o <<c, d, e>> \o <<f>>
  BY <1>1, TwoLocks DEF RedisToggleStarRepo
<1> HIDE DEF a, b, c, d, e, f
<1>3. Calls6(Program(o), a, b, c, d, e, f)
  BY <1>2, Cat6b
<1> QED BY <1>3 DEF a, b, c, d, e, f

UserNames == {"bookmark", "groups", "listkeys", "addkey", "delkey"}
UserRows(o) == IF o.name \in {"addkey", "delkey"} THEN {UserRow(o), KeyRow(o)} ELSE {UserRow(o)}

LEMMA RedisUserOp ==
    ASSUME NEW o, backend = "redis", o.name \in UserNames
    PROVE  Calls4(Program(o), Lock(UserLock(o)), Read(UserRow(o)), Write(UserRows(o), o.name), Release)
<1>1. Program(o) = RedisUser(o, o.name, UserRows(o))
  <2>1. CASE o.name = "bookmark"
    <3>1. Program(o) = RedisToggleBookmarkRepo(o)
      BY <2>1 DEF Program, RedisProgram
    <3>2. UserRows(o) = {UserRow(o)}
      BY <2>1 DEF UserRows
    <3> QED BY <2>1, <3>1, <3>2 DEF RedisToggleBookmarkRepo
  <2>2. CASE o.name = "groups"
    <3>1. Program(o) = RedisSetUserGroups(o)
      BY <2>2 DEF Program, RedisProgram
    <3>2. UserRows(o) = {UserRow(o)}
      BY <2>2 DEF UserRows
    <3> QED BY <2>2, <3>1, <3>2 DEF RedisSetUserGroups
  <2>3. CASE o.name = "listkeys"
    <3>1. Program(o) = RedisGetUserAPIKeys(o)
      BY <2>3 DEF Program, RedisProgram
    <3>2. UserRows(o) = {UserRow(o)}
      BY <2>3 DEF UserRows
    <3> QED BY <2>3, <3>1, <3>2 DEF RedisGetUserAPIKeys
  <2>4. CASE o.name = "addkey"
    <3>1. Program(o) = RedisAddUserAPIKey(o)
      BY <2>4 DEF Program, RedisProgram
    <3>2. UserRows(o) = {UserRow(o), KeyRow(o)}
      BY <2>4 DEF UserRows
    <3> QED BY <2>4, <3>1, <3>2 DEF RedisAddUserAPIKey
  <2>5. CASE o.name = "delkey"
    <3>1. Program(o) = RedisDeleteUserAPIKey(o)
      BY <2>5 DEF Program, RedisProgram
    <3>2. UserRows(o) = {UserRow(o), KeyRow(o)}
      BY <2>5 DEF UserRows
    <3> QED BY <2>5, <3>1, <3>2 DEF RedisDeleteUserAPIKey
  <2> QED BY <2>1, <2>2, <2>3, <2>4, <2>5 DEF UserNames
<1> HIDE DEF UserRows
<1> DEFINE a == Lock(UserLock(o))
           b == Read(UserRow(o))
           c == Write(UserRows(o), o.name)
           d == Release
<1>2. Program(o) = <<a>> \o <<b, c>> \o <<d>>
  BY <1>1, OneLock DEF RedisUser
<1> HIDE DEF a, b, c, d
<1>3. Calls4(Program(o), a, b, c, d)
  BY <1>2, Cat4
<1> QED BY <1>3 DEF a, b, c, d

LEMMA RedisQueryIs ==
    ASSUME NEW o, backend = "redis", o.name = "query"
    PROVE  Calls4(Program(o), Read(RepoRow(o)), ReadImages, Write({}, "query"), Release)
<1>1. Program(o) = RedisQuery(o)
  BY DEF Program, RedisProgram
<1> QED BY <1>1 DEF RedisQuery, Calls4

LEMMA RedisAuth ==
    ASSUME NEW o, backend = "redis", o.name = "auth"
    PROVE  Calls12(Program(o), Read(KeyRow(o)), Write({}, "owner"), Lock(UserLock(o)), Read(UserRow(o)),
                   Write({UserRow(o)}, "expired"), Release, Write({UserRow(o)}, "lastused"), Read(UserRow(o)))
<1> DEFINE a == Read(KeyRow(o))
           b == Write({}, "owner")
           c == Lock(UserLock(o))
           d == Read(UserRow(o))
           e == Write({UserRow(o)}, "expired")
           f == Release
           g == Write({UserRow(o)}, "lastused")
<1>1. Program(o) = <<a, b>> \o RedisIsAPIKeyExpired(o)
                     \o RedisUpdateUserAPIKeyLastUsed(o) \o <<d, f>>
  BY DEF Program, AuthenticateAPIKey
<1>2. RedisIsAPIKeyExpired(o) = <<c>> \o <<d, e>> \o <<f>>
  BY OneLock DEF RedisIsAPIKeyExpired, RedisUser
<1>3. RedisUpdateUserAPIKeyLastUsed(o) = <<c>> \o <<d, g>> \o <<f>>
  BY OneLock DEF RedisUpdateUserAPIKeyLastUsed, RedisUser
<1> HIDE DEF a, b, c, d, e, f, g
<1>4. Calls12(Program(o), a, b, c, d, e, f, g, d)
  BY <1>1, <1>2, <1>3, Cat12
<1> QED BY <1>4 DEF a, b, c, d, e, f, g

-----------------------------------------------------------------------------
(* The operations.                                                           *)

OpOK(o) == \E n \in OpNames : o \in Calls(n)

RepoNames == {"set", "remove", "sign", "unsign", "validity", "download", "reset", "drop", "star", "query"}
KeyNames  == {"addkey", "delkey", "listkeys", "auth"}

\* The arguments of an operation.
Typed(o) ==
    /\ IsOp(o)
    /\ o.name \in OpNames
    /\ o.name \in RepoNames => o.repo \in Repos
    /\ o.name \in {"set", "remove", "download", "sign", "unsign", "validity"} => o.img \in Images
    /\ o.name \in {"star"} \cup UserNames \cup {"auth"} => o.user \in Users
    /\ o.name \in KeyNames => o.key \in Keys

\* The fields of an operation.
LEMMA OpIsOp ==
    ASSUME NEW n, NEW r, NEW t, NEW i, NEW u, NEW k
    PROVE  LET o == Op(n, r, t, i, u, k) IN
           IsOp(o) /\ o.name = n /\ o.repo = r /\ o.img = i /\ o.user = u /\ o.key = k
BY DEF Op, IsOp

\* What the callers ask for has the arguments its name needs.
LEMMA OpTyped ==
    ASSUME NEW o, OpOK(o)
    PROVE  Typed(o)
<1>1. PICK n \in OpNames : o \in Calls(n)
  BY DEF OpOK
<1>2. CASE n \in {"set", "remove", "download"}
  <2>1. Calls(n) = {Op(n, r, t, i, None, None) : r \in Repos, t \in Tags \cup {None}, i \in Images}
    BY <1>2 DEF Calls
  <2>2. PICK r \in Repos, t \in Tags \cup {None}, i \in Images : o = Op(n, r, t, i, None, None)
    BY <1>1, <2>1
  <2>3. IsOp(o) /\ o.name = n /\ o.repo = r /\ o.img = i
    BY <2>2, OpIsOp
  <2> QED BY <1>2, <2>3 DEF Typed, OpNames, UserNames, KeyNames
<1>3. CASE n \in {"sign", "unsign", "validity"}
  <2>1. Calls(n) = {Op(n, r, None, i, None, None) : r \in Repos, i \in {j \in Images : SigOf[j] # None}}
    BY <1>3 DEF Calls
  <2>2. PICK r \in Repos, i \in Images : o = Op(n, r, None, i, None, None)
    BY <1>1, <2>1
  <2>3. IsOp(o) /\ o.name = n /\ o.repo = r /\ o.img = i
    BY <2>2, OpIsOp
  <2> QED BY <1>3, <2>3 DEF Typed, OpNames, UserNames, KeyNames
<1>4. CASE n \in {"reset", "drop", "query"}
  <2>1. Calls(n) = {Op(n, r, None, None, None, None) : r \in Repos}
    BY <1>4 DEF Calls
  <2>2. PICK r \in Repos : o = Op(n, r, None, None, None, None)
    BY <1>1, <2>1
  <2>3. IsOp(o) /\ o.name = n /\ o.repo = r
    BY <2>2, OpIsOp
  <2> QED BY <1>4, <2>3 DEF Typed, OpNames, UserNames, KeyNames
<1>5. CASE n \in {"star", "bookmark"}
  <2>1. Calls(n) = {Op(n, r, None, None, u, None) : r \in Repos, u \in Users}
    BY <1>5 DEF Calls
  <2>2. PICK r \in Repos, u \in Users : o = Op(n, r, None, None, u, None)
    BY <1>1, <2>1
  <2>3. IsOp(o) /\ o.name = n /\ o.repo = r /\ o.user = u
    BY <2>2, OpIsOp
  <2> QED BY <1>5, <2>3 DEF Typed, OpNames, UserNames, KeyNames
<1>6. CASE n = "groups"
  <2>1. Calls(n) = {Op(n, None, g, None, u, None) : g \in Groups, u \in Users}
    BY <1>6 DEF Calls
  <2>2. PICK g \in Groups, u \in Users : o = Op(n, None, g, None, u, None)
    BY <1>1, <2>1
  <2>3. IsOp(o) /\ o.name = n /\ o.user = u
    BY <2>2, OpIsOp
  <2> QED BY <1>6, <2>3 DEF Typed, OpNames, RepoNames, UserNames, KeyNames
<1>7. CASE n \in KeyNames
  <2>1. Calls(n) = {Op(n, None, None, None, Owner[k], k) : k \in Keys}
    BY <1>7 DEF Calls, KeyNames
  <2>2. PICK k \in Keys : o = Op(n, None, None, None, Owner[k], k)
    BY <1>1, <2>1
  <2>3. IsOp(o) /\ o.name = n /\ o.user = Owner[k] /\ o.key = k
    BY <2>2, OpIsOp
  <2>4. Owner[k] \in Users
    BY MetaRecordsAssumption
  <2> QED BY <1>7, <2>3, <2>4 DEF Typed, OpNames, RepoNames, UserNames, KeyNames
<1> QED BY <1>2, <1>3, <1>4, <1>5, <1>6, <1>7 DEF OpNames, KeyNames

-----------------------------------------------------------------------------
(* What a client of redis holds and knows at its place in the operation n.   *)

RecordNames == {"reset", "sign", "unsign", "download"}

RepoHeld(n, p) ==
    \/ n = "set" /\ p \in 5..7
    \/ n = "remove" /\ p \in 2..5
    \/ n \in RecordNames /\ p \in 2..3
    \/ n = "drop" /\ p = 2
    \/ n = "validity" /\ p \in 2..4
    \/ n = "star" /\ p \in 2..5
RepoRead(n, p) ==
    \/ n = "set" /\ p \in 6..7
    \/ n = "remove" /\ p \in 3..5
    \/ n \in RecordNames /\ p = 3
    \/ n = "validity" /\ p = 4
    \/ n = "star" /\ p = 5
BlobsRead(n, p) ==
    \/ n = "set" /\ p = 7
    \/ n = "remove" /\ p = 5
UserHeld(n, p) ==
    \/ n = "star" /\ p \in 3..5
    \/ n \in UserNames /\ p \in 2..3
    \/ n = "auth" /\ p \in {4, 5, 8, 9}
UserRead(n, p) ==
    \/ n = "star" /\ p \in 4..5
    \/ n \in UserNames /\ p = 3
    \/ n = "auth" /\ p \in {5, 9}
ImageKnown(n, p) == n = "set" /\ p \in 3..7

\* What is read counts only while the lock is held.
LEMMA ReadHeld ==
    ASSUME NEW n, NEW p \in Nat
    PROVE  /\ RepoRead(n, p) \/ BlobsRead(n, p) => RepoHeld(n, p)
           /\ UserRead(n, p) => UserHeld(n, p)
BY DEF RepoRead, BlobsRead, RepoHeld, UserRead, UserHeld

\* The parts of the operation.
Parts(o) == CASE o.name = "set" -> {"image", "set"} [] o.name = "auth" -> {"expired", "lastused"} [] OTHER -> {o.name}

TakesLock(o, p, i) ==
    /\ i.at \in LockNames
    /\ RepoHeld(o.name, p + 1) => RepoHeld(o.name, p) \/ i.at = RepoLock(o)
    /\ UserHeld(o.name, p + 1) => UserHeld(o.name, p) \/ i.at = UserLock(o)
    /\ RepoRead(o.name, p + 1) => RepoRead(o.name, p)
    /\ BlobsRead(o.name, p + 1) => BlobsRead(o.name, p)
    /\ UserRead(o.name, p + 1) => UserRead(o.name, p)
    /\ ImageKnown(o.name, p + 1) => ImageKnown(o.name, p)

ReadsRows(o, p, i) ==
    /\ RepoHeld(o.name, p + 1) => RepoHeld(o.name, p)
    /\ UserHeld(o.name, p + 1) => UserHeld(o.name, p)
    /\ RepoRead(o.name, p + 1) => RepoRead(o.name, p) \/ RepoRow(o) \in i.rows
    /\ BlobsRead(o.name, p + 1) => BlobsRead(o.name, p) \/ BlobsRow(o) \in i.rows
    /\ UserRead(o.name, p + 1) => UserRead(o.name, p) \/ UserRow(o) \in i.rows
    /\ ImageKnown(o.name, p + 1) => ImageKnown(o.name, p)

\* What a write needs, and what it leaves.
MayWrite(o, p, rows, fx) ==
    \/ fx = "owner" \/ (fx = "query" /\ o.name = "query")
    \/ /\ fx \in Parts(o) \cap Fxs /\ Fits(fx, o)
       /\ rows = RowsOf(fx, o)
       /\ fx \in RepoFx => RepoHeld(o.name, p)
       /\ fx \in RepoFx \ {"drop"} => RepoRead(o.name, p)
       /\ fx \in {"set", "remove"} => BlobsRead(o.name, p)
       /\ fx \in UserFx => UserRead(o.name, p)
       /\ fx = "set" => ImageKnown(o.name, p)

WritesThem(o, p, i) ==
    /\ MayWrite(o, p, i.rows, i.fx)
    /\ RepoHeld(o.name, p + 1) => RepoHeld(o.name, p)
    /\ UserHeld(o.name, p + 1) => UserHeld(o.name, p)
    /\ ~RepoRead(o.name, p + 1) /\ ~BlobsRead(o.name, p + 1) /\ ~UserRead(o.name, p + 1)
    /\ ImageKnown(o.name, p + 1) => ImageKnown(o.name, p) \/ i.fx = "image"

EndsSection(o, p, i) ==
    /\ ~RepoHeld(o.name, p + 1) /\ ~UserHeld(o.name, p + 1)
    /\ ~RepoRead(o.name, p + 1) /\ ~BlobsRead(o.name, p + 1) /\ ~UserRead(o.name, p + 1)
    /\ ImageKnown(o.name, p + 1) => ImageKnown(o.name, p)

Advances(o, p, i) ==
    \/ i.do = "lock" /\ TakesLock(o, p, i)
    \/ i.do = "read" /\ ReadsRows(o, p, i)
    \/ i.do = "write" /\ WritesThem(o, p, i)
    \/ i.do = "release" /\ EndsSection(o, p, i)

\* The program ends with a release, and every call before it is in order.
Sound(o, P) ==
    /\ Len(P) \in Nat /\ Len(P) > 1
    /\ P[Len(P)].do = "release"
    /\ \A p \in 1..Len(P) - 1 : Advances(o, p, P[p])

\* The fields of the calls.
LEMMA Instrs ==
    /\ \A l : Lock(l).do = "lock" /\ Lock(l).at = l
    /\ \A row : Read(row).do = "read" /\ Read(row).rows = {row}
    /\ ReadImages.do = "read"
    /\ \A S, fx : Write(S, fx).do = "write" /\ Write(S, fx).rows = S /\ Write(S, fx).fx = fx
    /\ Release.do = "release"
BY DEF Lock, Read, ReadImages, Write, Release

\* The locks that the operations take exist.
LEMMA Locks ==
    ASSUME NEW o, Typed(o)
    PROVE  /\ o.name \in RepoNames => RepoLock(o) \in LockNames
           /\ o.name = "set" => <<"Image", o.img>> \in LockNames
           /\ o.name \in {"star", "auth"} \cup UserNames => UserLock(o) \in LockNames
BY DEF Typed, RepoLock, UserLock, LockNames

\* SetRepoReference stores the image, then reads and writes the record under the repository's lock.
LEMMA SoundSet ==
    ASSUME NEW o, Typed(o), backend = "redis", o.name = "set"
    PROVE  Sound(o, Program(o))
<1> DEFINE P == Program(o)
<1>1. /\ P[1] = Lock(<<"Image", o.img>>) /\ P[2] = Write({ImageRow(o)}, "image")
      /\ P[3] = Release /\ P[4] = Lock(RepoLock(o)) /\ P[5] = Read(RepoRow(o))
      /\ P[6] = Read(BlobsRow(o)) /\ P[7] = Write({RepoRow(o), BlobsRow(o)}, "set")
  BY RedisSet DEF Calls8
<1>2. Len(P) = 8 /\ P[8] = Release
  BY RedisSet DEF Calls8
<1> USE DEF RepoHeld, RepoRead, BlobsRead, UserHeld, UserRead, ImageKnown, RecordNames, UserNames
<1> HIDE DEF P
<1>3. <<"Image", o.img>> \in LockNames /\ RepoLock(o) \in LockNames
  BY Locks DEF RepoNames
<1>4. Advances(o, 1, P[1])
  BY <1>1, <1>3, Instrs DEF Advances, TakesLock
<1>5. Advances(o, 2, P[2])
  <2>1. Fits("image", o) /\ "image" \in Parts(o) \cap Fxs
    BY DEF Fits, Typed, Parts, Fxs, RepoFx, UserFx, RepoNames, KeyNames
  <2>2. RowsOf("image", o) = {ImageRow(o)}
    BY RowsOfIs DEF ImageRow, RepoRow, BlobsRow, UserRow, KeyRow, UserRows
  <2>3. MayWrite(o, 2, {ImageRow(o)}, "image")
    BY <2>1, <2>2 DEF MayWrite, RepoFx, UserFx
  <2> QED BY <1>1, <2>3, Instrs DEF Advances, WritesThem
<1>6. Advances(o, 3, P[3])
  BY <1>1, Instrs DEF Advances, EndsSection
<1>7. Advances(o, 4, P[4])
  BY <1>1, <1>3, Instrs DEF Advances, TakesLock
<1>8. Advances(o, 5, P[5])
  BY <1>1, Instrs DEF Advances, ReadsRows
<1>9. Advances(o, 6, P[6])
  BY <1>1, Instrs DEF Advances, ReadsRows
<1>10. Advances(o, 7, P[7])
  <2>1. Fits("set", o) /\ "set" \in Parts(o) \cap Fxs
    BY DEF Fits, Typed, Parts, Fxs, RepoFx, UserFx, RepoNames, KeyNames
  <2>2. RowsOf("set", o) = {RepoRow(o), BlobsRow(o)}
    BY RowsOfIs DEF ImageRow, RepoRow, BlobsRow, UserRow, KeyRow, UserRows
  <2>a. RepoHeld(o.name, 7) /\ RepoRead(o.name, 7) /\ BlobsRead(o.name, 7) /\ ImageKnown(o.name, 7)
    OBVIOUS
  <2>3. MayWrite(o, 7, {RepoRow(o), BlobsRow(o)}, "set")
    <3> HIDE DEF RepoHeld, RepoRead, BlobsRead, UserHeld, UserRead, ImageKnown, RecordNames, UserNames
    <3> QED BY <2>1, <2>2, <2>a DEF MayWrite, RepoFx, UserFx
  <2> QED BY <1>1, <2>3, Instrs DEF Advances, WritesThem
<1>11. \A p \in 1..7 : Advances(o, p, P[p])
  BY <1>4, <1>5, <1>6, <1>7, <1>8, <1>9, <1>10
<1> QED BY <1>2, <1>11, Instrs DEF Sound, P

\* RemoveRepoReference reads and writes under the repository's lock.
LEMMA SoundRemove ==
    ASSUME NEW o, Typed(o), backend = "redis", o.name = "remove"
    PROVE  Sound(o, Program(o))
<1> DEFINE P == Program(o)
<1>1. /\ P[1] = Lock(RepoLock(o)) /\ P[2] = Read(RepoRow(o)) /\ P[3] = Read(ImageRow(o))
      /\ P[4] = Read(BlobsRow(o)) /\ P[5] = Write({RepoRow(o), BlobsRow(o)}, "remove")
  BY RedisRemove DEF Calls6
<1>2. Len(P) = 6 /\ P[6] = Release
  BY RedisRemove DEF Calls6
<1> USE DEF RepoHeld, RepoRead, BlobsRead, UserHeld, UserRead, ImageKnown, RecordNames, UserNames
<1> HIDE DEF P
<1>3. RepoLock(o) \in LockNames
  BY Locks DEF RepoNames
<1>4. Advances(o, 1, P[1])
  BY <1>1, <1>3, Instrs DEF Advances, TakesLock
<1>5. Advances(o, 2, P[2])
  BY <1>1, Instrs DEF Advances, ReadsRows
<1>6. Advances(o, 3, P[3])
  BY <1>1, Instrs DEF Advances, ReadsRows
<1>7. Advances(o, 4, P[4])
  BY <1>1, Instrs DEF Advances, ReadsRows
<1>8. Advances(o, 5, P[5])
  <2>1. Fits("remove", o) /\ "remove" \in Parts(o) \cap Fxs
    BY DEF Fits, Typed, Parts, Fxs, RepoFx, UserFx, RepoNames, KeyNames
  <2>2. RowsOf("remove", o) = {RepoRow(o), BlobsRow(o)}
    BY RowsOfIs DEF ImageRow, RepoRow, BlobsRow, UserRow, KeyRow, UserRows
  <2>3. MayWrite(o, 5, {RepoRow(o), BlobsRow(o)}, "remove")
    BY <2>1, <2>2 DEF MayWrite, RepoFx, UserFx
  <2> QED BY <1>1, <2>3, Instrs DEF Advances, WritesThem
<1>9. \A p \in 1..5 : Advances(o, p, P[p])
  BY <1>4, <1>5, <1>6, <1>7, <1>8
<1> QED BY <1>2, <1>9, Instrs DEF Sound, P

\* The operations that rewrite the record of a repository do.
LEMMA SoundRecord ==
    ASSUME NEW o, Typed(o), backend = "redis", o.name \in RecordNames
    PROVE  Sound(o, Program(o))
<1> DEFINE P == Program(o)
<1>1. /\ P[1] = Lock(RepoLock(o)) /\ P[2] = Read(RepoRow(o))
      /\ P[3] = Write({RepoRow(o)}, o.name)
  BY RedisRecord DEF Calls4, RecordNames
<1>2. Len(P) = 4 /\ P[4] = Release
  BY RedisRecord DEF Calls4, RecordNames
<1> USE DEF RepoHeld, RepoRead, BlobsRead, UserHeld, UserRead, ImageKnown, RecordNames, UserNames
<1> HIDE DEF P
<1>3. RepoLock(o) \in LockNames
  BY Locks DEF RepoNames
<1>4. Advances(o, 1, P[1])
  BY <1>1, <1>3, Instrs DEF Advances, TakesLock
<1>5. Advances(o, 2, P[2])
  BY <1>1, Instrs DEF Advances, ReadsRows
<1>6. Advances(o, 3, P[3])
  <2>1. Fits(o.name, o) /\ o.name \in Parts(o) \cap Fxs
    BY DEF Fits, Typed, Parts, Fxs, RepoFx, UserFx, RepoNames, KeyNames
  <2>2. RowsOf(o.name, o) = {RepoRow(o)}
    BY RowsOfIs DEF ImageRow, RepoRow, BlobsRow, UserRow, KeyRow, UserRows
  <2>a. RepoHeld(o.name, 3) /\ RepoRead(o.name, 3) /\ o.name \notin UserFx \cup {"set", "remove"}
    BY DEF UserFx
  <2>3. MayWrite(o, 3, {RepoRow(o)}, o.name)
    <3> HIDE DEF RepoHeld, RepoRead, BlobsRead, UserHeld, UserRead, ImageKnown, RecordNames, UserNames
    <3> QED BY <2>1, <2>2, <2>a DEF MayWrite, RepoFx, UserFx
  <2> QED BY <1>1, <2>3, Instrs DEF Advances, WritesThem
<1>7. \A p \in 1..3 : Advances(o, p, P[p])
  BY <1>4, <1>5, <1>6
<1> QED BY <1>2, <1>7, Instrs DEF Sound, P

\* DeleteRepoMeta writes under it without reading.
LEMMA SoundDrop ==
    ASSUME NEW o, Typed(o), backend = "redis", o.name = "drop"
    PROVE  Sound(o, Program(o))
<1> DEFINE P == Program(o)
<1>1. /\ P[1] = Lock(RepoLock(o)) /\ P[2] = Write({RepoRow(o), BlobsRow(o)}, "drop")
  BY RedisDrop DEF Calls3
<1>2. Len(P) = 3 /\ P[3] = Release
  BY RedisDrop DEF Calls3
<1> USE DEF RepoHeld, RepoRead, BlobsRead, UserHeld, UserRead, ImageKnown, RecordNames, UserNames
<1> HIDE DEF P
<1>3. RepoLock(o) \in LockNames
  BY Locks DEF RepoNames
<1>4. Advances(o, 1, P[1])
  BY <1>1, <1>3, Instrs DEF Advances, TakesLock
<1>5. Advances(o, 2, P[2])
  <2>1. Fits("drop", o) /\ "drop" \in Parts(o) \cap Fxs
    BY DEF Fits, Typed, Parts, Fxs, RepoFx, UserFx, RepoNames, KeyNames
  <2>2. RowsOf("drop", o) = {RepoRow(o), BlobsRow(o)}
    BY RowsOfIs DEF ImageRow, RepoRow, BlobsRow, UserRow, KeyRow, UserRows
  <2>3. MayWrite(o, 2, {RepoRow(o), BlobsRow(o)}, "drop")
    BY <2>1, <2>2 DEF MayWrite, RepoFx, UserFx
  <2> QED BY <1>1, <2>3, Instrs DEF Advances, WritesThem
<1>6. \A p \in 1..2 : Advances(o, p, P[p])
  BY <1>4, <1>5
<1> QED BY <1>2, <1>6, Instrs DEF Sound, P

\* UpdateSignaturesValidity reads the image and the record under it.
LEMMA SoundValidity ==
    ASSUME NEW o, Typed(o), backend = "redis", o.name = "validity"
    PROVE  Sound(o, Program(o))
<1> DEFINE P == Program(o)
<1>1. /\ P[1] = Lock(RepoLock(o)) /\ P[2] = Read(<<"image", SigOf[o.img]>>)
      /\ P[3] = Read(RepoRow(o)) /\ P[4] = Write({RepoRow(o)}, "validity")
  BY RedisValidity DEF Calls5
<1>2. Len(P) = 5 /\ P[5] = Release
  BY RedisValidity DEF Calls5
<1> USE DEF RepoHeld, RepoRead, BlobsRead, UserHeld, UserRead, ImageKnown, RecordNames, UserNames
<1> HIDE DEF P
<1>3. RepoLock(o) \in LockNames
  BY Locks DEF RepoNames
<1>4. Advances(o, 1, P[1])
  BY <1>1, <1>3, Instrs DEF Advances, TakesLock
<1>5. Advances(o, 2, P[2])
  BY <1>1, Instrs DEF Advances, ReadsRows
<1>6. Advances(o, 3, P[3])
  BY <1>1, Instrs DEF Advances, ReadsRows
<1>7. Advances(o, 4, P[4])
  <2>1. Fits("validity", o) /\ "validity" \in Parts(o) \cap Fxs
    BY DEF Fits, Typed, Parts, Fxs, RepoFx, UserFx, RepoNames, KeyNames
  <2>2. RowsOf("validity", o) = {RepoRow(o)}
    BY RowsOfIs DEF ImageRow, RepoRow, BlobsRow, UserRow, KeyRow, UserRows
  <2>3. MayWrite(o, 4, {RepoRow(o)}, "validity")
    BY <2>1, <2>2 DEF MayWrite, RepoFx, UserFx
  <2> QED BY <1>1, <2>3, Instrs DEF Advances, WritesThem
<1>8. \A p \in 1..4 : Advances(o, p, P[p])
  BY <1>4, <1>5, <1>6, <1>7
<1> QED BY <1>2, <1>8, Instrs DEF Sound, P

\* ToggleStarRepo holds the repository's and the user's lock.
LEMMA SoundStar ==
    ASSUME NEW o, Typed(o), backend = "redis", o.name = "star"
    PROVE  Sound(o, Program(o))
<1> DEFINE P == Program(o)
<1>1. /\ P[1] = Lock(RepoLock(o)) /\ P[2] = Lock(UserLock(o)) /\ P[3] = Read(UserRow(o))
      /\ P[4] = Read(RepoRow(o)) /\ P[5] = Write({UserRow(o), RepoRow(o)}, "star")
  BY RedisStar DEF Calls6
<1>2. Len(P) = 6 /\ P[6] = Release
  BY RedisStar DEF Calls6
<1> USE DEF RepoHeld, RepoRead, BlobsRead, UserHeld, UserRead, ImageKnown, RecordNames, UserNames
<1> HIDE DEF P
<1>3. RepoLock(o) \in LockNames /\ UserLock(o) \in LockNames
  BY Locks DEF RepoNames
<1>4. Advances(o, 1, P[1])
  BY <1>1, <1>3, Instrs DEF Advances, TakesLock
<1>5. Advances(o, 2, P[2])
  BY <1>1, <1>3, Instrs DEF Advances, TakesLock
<1>6. Advances(o, 3, P[3])
  BY <1>1, Instrs DEF Advances, ReadsRows
<1>7. Advances(o, 4, P[4])
  BY <1>1, Instrs DEF Advances, ReadsRows
<1>8. Advances(o, 5, P[5])
  <2>1. Fits("star", o) /\ "star" \in Parts(o) \cap Fxs
    BY DEF Fits, Typed, Parts, Fxs, RepoFx, UserFx, RepoNames, KeyNames
  <2>2. RowsOf("star", o) = {UserRow(o), RepoRow(o)}
    BY RowsOfIs DEF ImageRow, RepoRow, BlobsRow, UserRow, KeyRow, UserRows
  <2>a. RepoHeld(o.name, 5) /\ RepoRead(o.name, 5) /\ UserRead(o.name, 5)
    OBVIOUS
  <2>3. MayWrite(o, 5, {UserRow(o), RepoRow(o)}, "star")
    <3> HIDE DEF RepoHeld, RepoRead, BlobsRead, UserHeld, UserRead, ImageKnown, RecordNames, UserNames
    <3> QED BY <2>1, <2>2, <2>a DEF MayWrite, RepoFx, UserFx
  <2> QED BY <1>1, <2>3, Instrs DEF Advances, WritesThem
<1>9. \A p \in 1..5 : Advances(o, p, P[p])
  BY <1>4, <1>5, <1>6, <1>7, <1>8
<1> QED BY <1>2, <1>9, Instrs DEF Sound, P

\* The operations on a user hold the user's lock.
LEMMA SoundUserOp ==
    ASSUME NEW o, Typed(o), backend = "redis", o.name \in UserNames
    PROVE  Sound(o, Program(o))
<1> DEFINE P == Program(o)
<1>1. /\ P[1] = Lock(UserLock(o)) /\ P[2] = Read(UserRow(o))
      /\ P[3] = Write(UserRows(o), o.name)
  BY RedisUserOp DEF Calls4
<1>2. Len(P) = 4 /\ P[4] = Release
  BY RedisUserOp DEF Calls4
<1> USE DEF RepoHeld, RepoRead, BlobsRead, UserHeld, UserRead, ImageKnown, RecordNames, UserNames
<1> HIDE DEF P
<1>3. UserLock(o) \in LockNames
  BY Locks DEF RepoNames
<1>4. Advances(o, 1, P[1])
  BY <1>1, <1>3, Instrs DEF Advances, TakesLock
<1>5. Advances(o, 2, P[2])
  BY <1>1, Instrs DEF Advances, ReadsRows
<1>6. Advances(o, 3, P[3])
  <2>1. Fits(o.name, o) /\ o.name \in Parts(o) \cap Fxs
    BY DEF Fits, Typed, Parts, Fxs, RepoFx, UserFx, RepoNames, KeyNames
  <2>2. RowsOf(o.name, o) = UserRows(o)
    BY RowsOfIs DEF ImageRow, RepoRow, BlobsRow, UserRow, KeyRow, UserRows
  <2>3. MayWrite(o, 3, UserRows(o), o.name)
    BY <2>1, <2>2 DEF MayWrite, RepoFx, UserFx
  <2> QED BY <1>1, <2>3, Instrs DEF Advances, WritesThem
<1>7. \A p \in 1..3 : Advances(o, p, P[p])
  BY <1>4, <1>5, <1>6
<1> QED BY <1>2, <1>7, Instrs DEF Sound, P

\* A query holds no lock and writes nothing.
LEMMA SoundQuery ==
    ASSUME NEW o, Typed(o), backend = "redis", o.name = "query"
    PROVE  Sound(o, Program(o))
<1> DEFINE P == Program(o)
<1>1. /\ P[1] = Read(RepoRow(o)) /\ P[2] = ReadImages /\ P[3] = Write({}, "query")
  BY RedisQueryIs DEF Calls4
<1>2. Len(P) = 4 /\ P[4] = Release
  BY RedisQueryIs DEF Calls4
<1> USE DEF RepoHeld, RepoRead, BlobsRead, UserHeld, UserRead, ImageKnown, RecordNames, UserNames
<1> HIDE DEF P
<1>4. Advances(o, 1, P[1])
  BY <1>1, Instrs DEF Advances, ReadsRows
<1>5. Advances(o, 2, P[2])
  BY <1>1, Instrs DEF Advances, ReadsRows
<1>6. Advances(o, 3, P[3])
  <2>3. MayWrite(o, 3, {}, "query")
    BY DEF MayWrite
  <2> QED BY <1>1, <2>3, Instrs DEF Advances, WritesThem
<1>7. \A p \in 1..3 : Advances(o, p, P[p])
  BY <1>4, <1>5, <1>6
<1> QED BY <1>2, <1>7, Instrs DEF Sound, P

\* Letting a key in takes the user's lock twice, and reads again under the second.
LEMMA SoundAuth ==
    ASSUME NEW o, Typed(o), backend = "redis", o.name = "auth"
    PROVE  Sound(o, Program(o))
<1> DEFINE P == Program(o)
<1>1. /\ P[1] = Read(KeyRow(o)) /\ P[2] = Write({}, "owner") /\ P[3] = Lock(UserLock(o))
      /\ P[4] = Read(UserRow(o)) /\ P[5] = Write({UserRow(o)}, "expired") /\ P[6] = Release
      /\ P[7] = Lock(UserLock(o)) /\ P[8] = Read(UserRow(o))
      /\ P[9] = Write({UserRow(o)}, "lastused") /\ P[10] = Release
      /\ P[11] = Read(UserRow(o))
  BY RedisAuth DEF Calls12
<1>2. Len(P) = 12 /\ P[12] = Release
  BY RedisAuth DEF Calls12
<1> USE DEF RepoHeld, RepoRead, BlobsRead, UserHeld, UserRead, ImageKnown, RecordNames, UserNames
<1> HIDE DEF P
<1>3. UserLock(o) \in LockNames
  BY Locks DEF RepoNames
<1>4. Advances(o, 1, P[1])
  BY <1>1, Instrs DEF Advances, ReadsRows
<1>5. Advances(o, 2, P[2])
  <2>3. MayWrite(o, 2, {}, "owner")
    BY DEF MayWrite
  <2> QED BY <1>1, <2>3, Instrs DEF Advances, WritesThem
<1>6. Advances(o, 3, P[3])
  BY <1>1, <1>3, Instrs DEF Advances, TakesLock
<1>7. Advances(o, 4, P[4])
  BY <1>1, Instrs DEF Advances, ReadsRows
<1>8. Advances(o, 5, P[5])
  <2>1. Fits("expired", o) /\ "expired" \in Parts(o) \cap Fxs
    BY DEF Fits, Typed, Parts, Fxs, RepoFx, UserFx, RepoNames, KeyNames
  <2>2. RowsOf("expired", o) = {UserRow(o)}
    BY RowsOfIs DEF ImageRow, RepoRow, BlobsRow, UserRow, KeyRow, UserRows
  <2>3. MayWrite(o, 5, {UserRow(o)}, "expired")
    BY <2>1, <2>2 DEF MayWrite, RepoFx, UserFx
  <2> QED BY <1>1, <2>3, Instrs DEF Advances, WritesThem
<1>9. Advances(o, 6, P[6])
  BY <1>1, Instrs DEF Advances, EndsSection
<1>10. Advances(o, 7, P[7])
  BY <1>1, <1>3, Instrs DEF Advances, TakesLock
<1>11. Advances(o, 8, P[8])
  BY <1>1, Instrs DEF Advances, ReadsRows
<1>12. Advances(o, 9, P[9])
  <2>1. Fits("lastused", o) /\ "lastused" \in Parts(o) \cap Fxs
    BY DEF Fits, Typed, Parts, Fxs, RepoFx, UserFx, RepoNames, KeyNames
  <2>2. RowsOf("lastused", o) = {UserRow(o)}
    BY RowsOfIs DEF ImageRow, RepoRow, BlobsRow, UserRow, KeyRow, UserRows
  <2>3. MayWrite(o, 9, {UserRow(o)}, "lastused")
    BY <2>1, <2>2 DEF MayWrite, RepoFx, UserFx
  <2> QED BY <1>1, <2>3, Instrs DEF Advances, WritesThem
<1>13. Advances(o, 10, P[10])
  BY <1>1, Instrs DEF Advances, EndsSection
<1>14. Advances(o, 11, P[11])
  BY <1>1, Instrs DEF Advances, ReadsRows
<1>15. \A p \in 1..11 : Advances(o, p, P[p])
  BY <1>4, <1>5, <1>6, <1>7, <1>8, <1>9, <1>10, <1>11, <1>12, <1>13, <1>14
<1> QED BY <1>2, <1>15, Instrs DEF Sound, P

\* Every operation of Redis writes only what it has read under the locks it holds.
LEMMA RedisSound ==
    ASSUME NEW o, Typed(o), backend = "redis"
    PROVE  Sound(o, Program(o))
<1>1. o.name \in {"set", "remove", "drop", "validity", "star", "query", "auth"} \cup RecordNames \cup UserNames
  BY DEF Typed, OpNames, RecordNames, UserNames
<1> QED BY <1>1, SoundSet, SoundRemove, SoundRecord, SoundDrop, SoundValidity, SoundStar, SoundUserOp, SoundQuery, SoundAuth

-----------------------------------------------------------------------------
(* BoltDB: every call before the last is one transaction.                    *)

TxFits(o, i) ==
    /\ i.do = "tx" /\ i.rows = Rows
    /\ \/ i.fx = "owner" \/ (i.fx = "query" /\ o.name = "query")
       \/ i.fx \in Parts(o) \cap Fxs /\ Fits(i.fx, o)

BoltSound(o, P) ==
    /\ Len(P) \in Nat /\ Len(P) > 1
    /\ P[Len(P)].do = "release"
    /\ \A p \in 1..Len(P) - 1 : TxFits(o, P[p])

\* The fields of a transaction.
LEMMA Transacts ==
    \A fx : Tx(fx).do = "tx" /\ Tx(fx).rows = Rows /\ Tx(fx).fx = fx
BY DEF Tx

\* The parts of an operation have the arguments they need.
LEMMA PartsFit ==
    ASSUME NEW o, Typed(o), NEW fx \in Parts(o), fx # "query"
    PROVE  fx \in Fxs /\ Fits(fx, o)
<1>1. CASE o.name = "set"
  <2>1. fx \in {"image", "set"}
    BY <1>1 DEF Parts
  <2> QED BY <1>1, <2>1 DEF Typed, Fxs, RepoFx, UserFx, Fits, RepoNames
<1>2. CASE o.name = "auth"
  <2>1. fx \in {"expired", "lastused"}
    BY <1>2 DEF Parts
  <2> QED BY <1>2, <2>1 DEF Typed, Fxs, RepoFx, UserFx, Fits
<1>3. CASE o.name \notin {"set", "auth"}
  <2>1. fx = o.name
    BY <1>3 DEF Parts
  <2>2. fx \in OpNames \ {"set", "auth", "query"}
    BY <1>3, <2>1 DEF Typed
  <2>3. fx \in Fxs
    BY <2>2 DEF OpNames, Fxs, RepoFx, UserFx
  <2>4. fx \in RepoFx => o.repo \in Repos
    BY <2>1 DEF Typed, RepoNames, RepoFx
  <2>5. fx \in UserFx => o.user \in Users
    BY <2>1, <2>2 DEF Typed, UserNames, UserFx, OpNames
  <2>6. fx \in {"addkey", "delkey"} => o.key \in Keys
    BY <2>1 DEF Typed, KeyNames
  <2>7. fx \notin {"image", "set"}
    BY <2>2 DEF OpNames
  <2> QED BY <2>3, <2>4, <2>5, <2>6, <2>7 DEF Fits
<1> QED BY <1>1, <1>2, <1>3

\* Every call of an operation of BoltDB but the last is a transaction of one of its parts.
LEMMA BoltIsSound ==
    ASSUME NEW o, Typed(o), backend = "bolt"
    PROVE  BoltSound(o, Program(o))
<1> DEFINE P == Program(o)
<1>1. CASE o.name = "auth"
  <2>1. P = <<Tx("owner"), Tx("expired"), Tx("lastused"), Release>>
    BY <1>1 DEF Program, AuthenticateAPIKey
  <2>2. "expired" \in Parts(o) /\ "lastused" \in Parts(o)
    BY <1>1 DEF Parts
  <2>3. TxFits(o, Tx("owner")) /\ TxFits(o, Tx("expired")) /\ TxFits(o, Tx("lastused"))
    BY <2>2, PartsFit, Transacts DEF TxFits
  <2>4. Len(P) = 4 /\ P[1] = Tx("owner") /\ P[2] = Tx("expired") /\ P[3] = Tx("lastused") /\ P[4] = Release
    BY <2>1
  <2> HIDE DEF P
  <2>5. \A p \in 1..3 : TxFits(o, P[p])
    BY <2>3, <2>4
  <2> QED BY <2>4, <2>5, Instrs DEF BoltSound, P
<1>2. CASE o.name # "auth"
  <2>1. P = <<Tx(o.name), Release>>
    BY <1>2 DEF Program
  <2>2. o.name \in Parts(o)
    BY <1>2 DEF Parts
  <2>3. TxFits(o, Tx(o.name))
    BY <2>2, PartsFit, Transacts DEF TxFits
  <2>4. Len(P) = 2 /\ P[1] = Tx(o.name) /\ P[2] = Release
    BY <2>1
  <2> HIDE DEF P
  <2>5. \A p \in 1..1 : TxFits(o, P[p])
    BY <2>3, <2>4
  <2> QED BY <2>4, <2>5, Instrs DEF BoltSound, P
<1> QED BY <1>1, <1>2

-----------------------------------------------------------------------------
(* A client, and what it knows of the records d when the locks are lk.       *)

Cl(op, pc, view, res, failed, old) ==
    [op |-> op, pc |-> pc, view |-> view, res |-> res, failed |-> failed, old |-> old]
IsCl(k) == k = Cl(k.op, k.pc, k.view, k.res, k.failed, k.old)

\* The state of the clients with a new state of c.
Moves(cl, new, c, k) ==
    /\ new = [x \in Clients |-> new[x]]
    /\ new[c] = k
    /\ \A x \in Clients \ {c} : new[x] = cl[x]

\* The fields of a client.
LEMMA ClIs ==
    ASSUME NEW a, NEW b, NEW c, NEW d, NEW e, NEW f
    PROVE  LET k == Cl(a, b, c, d, e, f) IN
           IsCl(k) /\ k.op = a /\ k.pc = b /\ k.view = c /\ k.res = d /\ k.failed = e /\ k.old = f
BY DEF Cl, IsCl

\* A change of one client leaves the others alone.
LEMMA MoveOne ==
    ASSUME NEW cl, cl = [x \in Clients |-> cl[x]], NEW c \in Clients, NEW k
    PROVE  Moves(cl, [cl EXCEPT ![c] = k], c, k)
BY DEF Moves

Knows(o, p, v, d, lk, c) ==
    /\ RepoHeld(o.name, p) => lk[RepoLock(o)] = c
    /\ UserHeld(o.name, p) => lk[UserLock(o)] = c
    /\ RepoRead(o.name, p) => v.repo[o.repo] = d.repo[o.repo]
    /\ BlobsRead(o.name, p) => v.blobs[o.repo] = d.blobs[o.repo]
    /\ UserRead(o.name, p) => v.user[o.user] = d.user[o.user]
    /\ ImageKnown(o.name, p) => o.img \in d.image

\* A client that has just begun claims nothing.
LEMMA KnowsFirst ==
    ASSUME NEW o, NEW v, NEW d, NEW lk, NEW c
    PROVE  Knows(o, 1, v, d, lk, c)
BY DEF Knows, RepoHeld, UserHeld, RepoRead, BlobsRead, UserRead, ImageKnown

\* What is held is a lock, and what is read is a row.
LEMMA HeldTyped ==
    ASSUME NEW o, Typed(o), NEW p
    PROVE  /\ RepoHeld(o.name, p) => o.repo \in Repos /\ RepoLock(o) \in LockNames
           /\ RepoRead(o.name, p) \/ BlobsRead(o.name, p) => o.repo \in Repos
           /\ UserHeld(o.name, p) => o.user \in Users /\ UserLock(o) \in LockNames
           /\ UserRead(o.name, p) => o.user \in Users
<1>1. RepoHeld(o.name, p) \/ RepoRead(o.name, p) \/ BlobsRead(o.name, p) => o.name \in RepoNames
  BY DEF RepoHeld, RepoRead, BlobsRead, RepoNames, RecordNames
<1>2. UserHeld(o.name, p) \/ UserRead(o.name, p) => o.name \in {"star", "auth"} \cup UserNames
  BY DEF UserHeld, UserRead
<1> QED BY <1>1, <1>2, Locks DEF Typed

\* Taking the lock of the next call.
LEMMA KnowsTake ==
    ASSUME NEW o, Typed(o), NEW p, NEW v, NEW d, NEW lk, NEW c, Knows(o, p, v, d, lk, c),
           NEW i, TakesLock(o, p, i), NEW new, new[i.at] = c,
           \A l \in LockNames : l # i.at => new[l] = lk[l]
    PROVE  Knows(o, p + 1, v, d, new, c)
<1>1. RepoHeld(o.name, p + 1) => new[RepoLock(o)] = c
  BY HeldTyped DEF Knows, TakesLock
<1>2. UserHeld(o.name, p + 1) => new[UserLock(o)] = c
  BY HeldTyped DEF Knows, TakesLock
<1> QED BY <1>1, <1>2 DEF Knows, TakesLock

\* The locks that c holds are left alone.
LEMMA KnowsLocks ==
    ASSUME NEW o, Typed(o), NEW p, NEW v, NEW d, NEW lk, NEW c, Knows(o, p, v, d, lk, c), NEW new,
           \A l \in LockNames : lk[l] = c => new[l] = c
    PROVE  Knows(o, p, v, d, new, c)
<1>1. RepoHeld(o.name, p) => new[RepoLock(o)] = c
  BY HeldTyped DEF Knows
<1>2. UserHeld(o.name, p) => new[UserLock(o)] = c
  BY HeldTyped DEF Knows
<1> QED BY <1>1, <1>2 DEF Knows

\* Reading the rows of the next call, which are those of the records.
LEMMA KnowsRead ==
    ASSUME NEW o, Typed(o), NEW p, NEW v, NEW d, NEW lk, NEW c, Knows(o, p, v, d, lk, c),
           NEW i, ReadsRows(o, p, i)
    PROVE  Knows(o, p + 1, Overwrite(v, d, i.rows), d, lk, c)
<1> DEFINE w == Overwrite(v, d, i.rows)
<1>1. Matches(v, d, i.rows, w)
  BY OverwriteRows
<1> HIDE DEF w
<1>2. RepoRead(o.name, p + 1) => w.repo[o.repo] = d.repo[o.repo]
  BY <1>1, HeldTyped DEF Knows, ReadsRows, Matches, RepoRow
<1>3. BlobsRead(o.name, p + 1) => w.blobs[o.repo] = d.blobs[o.repo]
  BY <1>1, HeldTyped DEF Knows, ReadsRows, Matches, BlobsRow
<1>4. UserRead(o.name, p + 1) => w.user[o.user] = d.user[o.user]
  BY <1>1, HeldTyped DEF Knows, ReadsRows, Matches, UserRow
<1>5. Knows(o, p + 1, w, d, lk, c)
  BY <1>2, <1>3, <1>4 DEF Knows, ReadsRows
<1> QED BY <1>5 DEF w

\* After its own write a client relies on nothing it has read.
LEMMA KnowsWrite ==
    ASSUME NEW o, NEW p, NEW v, NEW d, NEW lk, NEW c, Knows(o, p, v, d, lk, c),
           NEW i, WritesThem(o, p, i), NEW new, d.image \subseteq new.image, i.fx = "image" => o.img \in new.image
    PROVE  Knows(o, p + 1, v, new, lk, c)
BY DEF Knows, WritesThem

\* After a section a client holds no lock.
LEMMA KnowsEnd ==
    ASSUME NEW o, NEW p, NEW v, NEW d, NEW lk, NEW c, Knows(o, p, v, d, lk, c),
           NEW i, EndsSection(o, p, i), NEW new
    PROVE  Knows(o, p + 1, v, d, new, c)
BY DEF Knows, EndsSection

\* A write by another client, which holds the lock of every row it writes.
LEMMA KnowsOther ==
    ASSUME NEW o, Typed(o), NEW p \in Nat, NEW v, NEW d, NEW lk, NEW c, Knows(o, p, v, d, lk, c),
           NEW a, NEW q, NEW e, NEW f, e # c, NEW fx \in Fxs, Knows(a, q, f, d, lk, e),
           MayWrite(a, q, RowsOf(fx, a), fx), NEW n, d.image \subseteq Overwrite(d, n, RowsOf(fx, a)).image
    PROVE  Knows(o, p, v, Overwrite(d, n, RowsOf(fx, a)), lk, c)
<1> DEFINE S == RowsOf(fx, a)
           new == Overwrite(d, n, S)
<1>0. fx \notin {"owner", "query"}
  BY DEF Fxs, RepoFx, UserFx
<1>1. fx \in RepoFx => lk[RepoLock(a)] = e
  BY <1>0 DEF MayWrite, Knows
<1>2. fx \in UserFx => lk[UserLock(a)] = e
  <2>1. fx \in UserFx => UserRead(a.name, q)
    BY <1>0 DEF MayWrite
  <2>2. UserRead(a.name, q) => UserHeld(a.name, q)
    BY DEF UserRead, UserHeld
  <2> QED BY <2>1, <2>2 DEF Knows
<1>3. \A r : <<"repo", r>> \in S \/ <<"blobs", r>> \in S => fx \in RepoFx /\ r = a.repo
  <2>1. CASE fx \in {"image"}
    BY <2>1, RowsOfIs
  <2>2. CASE fx \in {"set", "remove", "drop"}
    BY <2>2, RowsOfIs DEF RepoFx
  <2>3. CASE fx \in {"sign", "unsign", "validity", "download", "reset"}
    BY <2>3, RowsOfIs DEF RepoFx
  <2>4. CASE fx = "star"
    BY <2>4, RowsOfIs DEF RepoFx
  <2>5. CASE fx \in {"addkey", "delkey"}
    BY <2>5, RowsOfIs
  <2>6. CASE fx \in {"bookmark", "groups", "listkeys", "expired", "lastused"}
    BY <2>6, RowsOfIs
  <2> QED BY <2>1, <2>2, <2>3, <2>4, <2>5, <2>6 DEF Fxs, RepoFx, UserFx
<1>4. \A u : <<"user", u>> \in S => fx \in UserFx /\ u = a.user
  <2>1. CASE fx \in {"image"}
    BY <2>1, RowsOfIs
  <2>2. CASE fx \in {"set", "remove", "drop"}
    BY <2>2, RowsOfIs
  <2>3. CASE fx \in {"sign", "unsign", "validity", "download", "reset"}
    BY <2>3, RowsOfIs
  <2>4. CASE fx = "star"
    BY <2>4, RowsOfIs DEF UserFx
  <2>5. CASE fx \in {"addkey", "delkey"}
    BY <2>5, RowsOfIs DEF UserFx
  <2>6. CASE fx \in {"bookmark", "groups", "listkeys", "expired", "lastused"}
    BY <2>6, RowsOfIs DEF UserFx
  <2> QED BY <2>1, <2>2, <2>3, <2>4, <2>5, <2>6 DEF Fxs, RepoFx, UserFx
<1>5. Matches(d, n, S, new)
  BY OverwriteRows
<1>6. d.image \subseteq new.image
  OBVIOUS
<1> HIDE DEF new, S
<1>7. RepoHeld(o.name, p) => <<"repo", o.repo>> \notin S /\ <<"blobs", o.repo>> \notin S
  BY <1>1, <1>3 DEF Knows, RepoLock
<1>8. UserHeld(o.name, p) => <<"user", o.user>> \notin S
  BY <1>2, <1>4 DEF Knows, UserLock
<1>9. RepoRead(o.name, p) => v.repo[o.repo] = new.repo[o.repo]
  BY <1>5, <1>7, ReadHeld, HeldTyped DEF Knows, Matches
<1>10. BlobsRead(o.name, p) => v.blobs[o.repo] = new.blobs[o.repo]
  BY <1>5, <1>7, ReadHeld, HeldTyped DEF Knows, Matches
<1>11. UserRead(o.name, p) => v.user[o.user] = new.user[o.user]
  BY <1>5, <1>8, ReadHeld, HeldTyped DEF Knows, Matches
<1>12. Knows(o, p, v, new, lk, c)
  BY <1>6, <1>9, <1>10, <1>11 DEF Knows
<1> QED BY <1>12 DEF new, S

-----------------------------------------------------------------------------
(* The invariant.                                                            *)

\* The driver stays the same, and what the clients do is well formed.
Formed ==
    /\ load \in Workloads /\ backend \in Backends
    /\ client = [c \in Clients |-> client[c]]
    /\ \A c \in Clients : IsCl(client[c]) /\ (client[c].op # None => Typed(client[c].op))

\* Each client is at a call of its program.
Placed(c) == client[c].op # None => client[c].pc \in 1..Last(c)

\* A client that is not at the end of its operation holds its locks, and what it has read under
\* them is what the records are.
Informed(c) ==
    /\ IsDB(client[c].view) /\ client[c].view.image \subseteq db.image
    /\ client[c].op # None /\ client[c].pc < Last(c) =>
         Knows(client[c].op, client[c].pc, client[c].view, db, locks, c)

Inv ==
    /\ Formed
    /\ backend # "dynamo" => IsDB(db) /\ Metas(db) /\ \A c \in Clients : Placed(c)
    /\ backend = "redis" => locks = [l \in LockNames |-> locks[l]] /\ \A c \in Clients : Informed(c)

\* The database of a new server.
LEMMA EmptyIsDB == IsDB(EmptyDB) /\ Metas(EmptyDB) /\ EmptyDB.image = {}
<1> DEFINE d == EmptyDB
<1>1. /\ d.repo = [r \in Repos |-> None] /\ d.blobs = [r \in Repos |-> {}]
      /\ d.user = [u \in Users |-> None] /\ d.key = [k \in Keys |-> None] /\ d.image = {}
      /\ d = DbOf(d.repo, d.blobs, d.user, d.key, d.image)
  BY DEF EmptyDB, DbOf
<1> HIDE DEF d
<1>2. IsDB(d) /\ Metas(d) /\ d.image = {}
  BY <1>1 DEF IsDB, Metas
<1> QED BY <1>2 DEF d

\* The database of a server with an image and keys.
LEMMA SetupIsDB == IsDB(Setup) /\ Metas(Setup)
<1> DEFINE i == CHOOSE i \in Images : SigOf[i] = None
           m == SetRepoReference(EmptyMeta, CHOOSE t \in Tags : TRUE, i)
           rm == [m EXCEPT !.blobs = {}]
           us == [u \in Users |-> IF \E k \in Keys : Owner[k] = u
                                    THEN [NewUser EXCEPT !.keys = [k \in Keys |-> IF Owner[k] = u THEN [named |-> TRUE, expired |-> FALSE] ELSE None]] ELSE None]
           d == DbOf([r \in Repos |-> rm], [r \in Repos |-> {i}], us, Owner, {i})
<1>1. i \in Images
  BY MetaRecordsAssumption
<1>2. IsMeta(m)
  <2> HIDE DEF i
  <2> QED BY EmptyIsMeta, SetIsMeta
<1>4. Setup = d
  BY DEF Setup, DbOf
<1> HIDE DEF m
<1>3. IsMeta(rm)
  BY <1>2, WithBlobs
<1> HIDE DEF i, rm
<1>5. us = [u \in Users |-> us[u]]
  OBVIOUS
<1> HIDE DEF us
<1>6. /\ d.repo = [r \in Repos |-> rm] /\ d.blobs = [r \in Repos |-> {i}]
      /\ d.user = us /\ d.key = Owner /\ d.image = {i}
      /\ d = DbOf(d.repo, d.blobs, d.user, d.key, d.image)
  BY DEF DbOf
<1> HIDE DEF d
<1>7. d.key = [k \in Keys |-> d.key[k]]
  BY <1>6, MetaRecordsAssumption
<1>8. IsDB(d)
  BY <1>1, <1>5, <1>6, <1>7 DEF IsDB
<1>9. Metas(d)
  BY <1>3, <1>6 DEF Metas
<1> QED BY <1>4, <1>8, <1>9

\* A client between two operations.
LEMMA IdleIs == IsCl(Idle) /\ Idle.op = None /\ Idle.view = EmptyDB
BY DEF Idle, Cl, IsCl

\* The invariant holds at the start.
LEMMA InitInv == Init => Inv
<1> SUFFICES ASSUME Init PROVE Inv
  OBVIOUS
<1>1. client = [c \in Clients |-> Idle] /\ load \in Workloads /\ backend \in Backends
  BY DEF Init
<1>2. IsCl(Idle) /\ Idle.op = None /\ Idle.view = EmptyDB
  BY IdleIs
<1>3. \A c \in Clients : client[c] = Idle
  BY <1>1
<1>4. Formed
  BY <1>1, <1>2, <1>3 DEF Formed
<1>5. IsDB(db) /\ Metas(db)
  BY EmptyIsDB, SetupIsDB DEF Init
<1>6. \A c \in Clients : Placed(c)
  BY <1>2, <1>3 DEF Placed
<1>7. locks = [l \in LockNames |-> locks[l]]
  BY DEF Init
<1>8. \A c \in Clients : Informed(c)
  BY <1>2, <1>3, EmptyIsDB DEF Informed
<1> QED BY <1>4, <1>5, <1>6, <1>7, <1>8 DEF Inv

\* The program of an operation depends on the driver alone, which stays.
LEMMA SameProgram ==
    ASSUME backend' = backend, NEW c, NEW o, client'[c].op = o
    PROVE  Last(c)' = Len(Program(o))
BY DEF Last, Program, AuthenticateAPIKey

\* A step of client c: what is left to show for the invariant.
LEMMA StepInv ==
    ASSUME Inv, backend' = backend, load' = load, NEW c \in Clients, NEW k, Moves(client, client', c, k),
           IsCl(k), k.op # None => Typed(k.op),
           backend # "dynamo" =>
              /\ IsDB(db)' /\ Metas(db)'
              /\ k.op # None => k.pc \in 1..Len(Program(k.op)),
           backend = "redis" =>
              /\ locks' = [l \in LockNames |-> locks'[l]]
              /\ IsDB(k.view) /\ k.view.image \subseteq db'.image
              /\ k.op # None /\ k.pc < Len(Program(k.op)) => Knows(k.op, k.pc, k.view, db', locks', c)
              /\ db.image \subseteq db'.image
              /\ \A x \in Clients \ {c} :
                   client[x].op # None /\ client[x].pc < Last(x) =>
                     Knows(client[x].op, client[x].pc, client[x].view, db', locks', x)
    PROVE  Inv'
<1>1. /\ client' = [x \in Clients |-> client'[x]] /\ client'[c] = k
      /\ \A x \in Clients \ {c} : client'[x] = client[x]
  BY DEF Moves
<1>2. Formed'
  BY <1>1 DEF Formed, Inv
<1>3. Last(c)' = Len(Program(k.op))
  BY <1>1, SameProgram
<1>4. \A x \in Clients \ {c} : Last(x)' = Last(x)
  <2> TAKE x \in Clients \ {c}
  <2>1. client'[x].op = client[x].op
    BY <1>1
  <2>2. Last(x)' = Len(Program(client[x].op))
    BY <2>1, SameProgram
  <2> QED BY <2>2 DEF Last
<1>5. ASSUME backend # "dynamo", NEW x \in Clients PROVE Placed(x)'
  <2>1. CASE x = c
    BY <1>1, <1>3, <1>5, <2>1 DEF Placed
  <2>2. CASE x # c
    BY <1>1, <1>4, <1>5, <2>2 DEF Placed, Inv
  <2> QED BY <2>1, <2>2
<1>6. ASSUME backend = "redis", NEW x \in Clients PROVE Informed(x)'
  <2>1. CASE x = c
    BY <1>1, <1>3, <1>6, <2>1 DEF Informed
  <2>2. CASE x # c
    <3>1. client'[x] = client[x] /\ Last(x)' = Last(x)
      BY <1>1, <1>4, <2>2
    <3>2. Informed(x)
      BY <1>6 DEF Inv
    <3>3. IsDB(client[x].view) /\ client[x].view.image \subseteq db'.image
      BY <1>6, <3>2 DEF Informed
    <3> QED BY <1>6, <2>2, <3>1, <3>3 DEF Informed
  <2> QED BY <2>1, <2>2
<1> QED BY <1>2, <1>5, <1>6 DEF Inv

-----------------------------------------------------------------------------
(* The place of a client.                                                    *)

\* A client of Redis is at a call that is in order, and knows what its place says.
LEMMA RedisAt ==
    ASSUME Inv, backend = "redis", NEW c \in Clients, client[c].op # None
    PROVE  /\ Typed(client[c].op) /\ Last(c) \in Nat /\ Last(c) > 1 /\ client[c].pc \in 1..Last(c)
           /\ Instr(c).do # "release" => client[c].pc < Last(c)
           /\ client[c].pc < Last(c) =>
                /\ Advances(client[c].op, client[c].pc, Instr(c))
                /\ Knows(client[c].op, client[c].pc, client[c].view, db, locks, c)
<1> DEFINE o == client[c].op
           P == Program(o)
           p == client[c].pc
<1>1. Typed(o) /\ p \in 1..Last(c)
  BY DEF Inv, Formed, Placed
<1>2. Sound(o, P)
  BY <1>1, RedisSound
<1>3. Last(c) = Len(P) /\ Instr(c) = P[p]
  BY DEF Last, Instr
<1>4. p < Last(c) => Knows(client[c].op, client[c].pc, client[c].view, db, locks, c)
  BY DEF Inv, Informed
<1> HIDE DEF P, p, o
<1>5. Last(c) \in Nat /\ Last(c) > 1 /\ P[Last(c)].do = "release"
  BY <1>2, <1>3 DEF Sound
<1>6. Instr(c).do # "release" => p < Last(c)
  BY <1>1, <1>3, <1>5
<1>7. p < Last(c) => Advances(o, p, Instr(c))
  <2>1. p < Last(c) => p \in 1..Len(P) - 1
    BY <1>1, <1>3, <1>5
  <2> QED BY <1>2, <1>3, <2>1 DEF Sound
<1> QED BY <1>1, <1>4, <1>5, <1>6, <1>7 DEF o, p

\* A client of BoltDB is at a transaction or at the end.
LEMMA BoltAt ==
    ASSUME Inv, backend = "bolt", NEW c \in Clients, client[c].op # None
    PROVE  /\ Typed(client[c].op) /\ Last(c) \in Nat /\ Last(c) > 1 /\ client[c].pc \in 1..Last(c)
           /\ Instr(c).do # "release" => client[c].pc < Last(c)
           /\ client[c].pc < Last(c) => TxFits(client[c].op, Instr(c))
<1> DEFINE o == client[c].op
           P == Program(o)
           p == client[c].pc
<1>1. Typed(o) /\ p \in 1..Last(c)
  BY DEF Inv, Formed, Placed
<1>2. BoltSound(o, P)
  BY <1>1, BoltIsSound
<1>3. Last(c) = Len(P) /\ Instr(c) = P[p]
  BY DEF Last, Instr
<1> HIDE DEF P, p, o
<1>5. Last(c) \in Nat /\ Last(c) > 1 /\ P[Last(c)].do = "release"
  BY <1>2, <1>3 DEF BoltSound
<1>6. Instr(c).do # "release" => p < Last(c)
  BY <1>1, <1>3, <1>5
<1>7. p < Last(c) => TxFits(o, Instr(c))
  <2>1. p < Last(c) => p \in 1..Len(P) - 1
    BY <1>1, <1>3, <1>5
  <2> QED BY <1>2, <1>3, <2>1 DEF BoltSound
<1> QED BY <1>1, <1>5, <1>6, <1>7 DEF o, p

\* The driver of the database is one of three.
LEMMA Drivers ==
    ASSUME Inv
    PROVE  backend \in {"bolt", "redis", "dynamo"}
BY MetaClientsAssumption DEF Inv, Formed

-----------------------------------------------------------------------------
(* The moves of a client.                                                    *)

\* The three ways the model updates a client, written out (ClExcept...).
LEMMA ClExcept3 ==
    ASSUME NEW k, IsCl(k), NEW v, NEW r, NEW p
    PROVE  [k EXCEPT !.view = v, !.res = r, !.pc = p] = Cl(k.op, p, v, r, k.failed, k.old)
<1> DEFINE k1 == [k EXCEPT !.view = v]
           k2 == [k1 EXCEPT !.res = r]
<1>1. k1 = Cl(k.op, k.pc, v, k.res, k.failed, k.old)
  BY DEF IsCl, Cl
<1>2. [k EXCEPT !.view = v, !.res = r, !.pc = p] = [k2 EXCEPT !.pc = p]
  OBVIOUS
<1> HIDE DEF k1
<1>3. k2 = Cl(k.op, k.pc, v, r, k.failed, k.old)
  BY <1>1 DEF Cl
<1> HIDE DEF k2
<1> QED BY <1>2, <1>3 DEF Cl

ToFailed(k, p, b, r) == [k EXCEPT !.pc = p, !.failed = b, !.res = r]
ToBegin(k, o, p, a)  == [k EXCEPT !.op = o, !.pc = p, !.old = a]

\* The update of a failed call.
LEMMA ClExceptFails ==
    ASSUME NEW k, IsCl(k), NEW b, NEW r, NEW p
    PROVE  ToFailed(k, p, b, r) = Cl(k.op, p, k.view, r, b, k.old)
<1> DEFINE k1 == [k EXCEPT !.pc = p]
           k2 == [k1 EXCEPT !.failed = b]
<1>1. k1 = Cl(k.op, p, k.view, k.res, k.failed, k.old)
  BY DEF IsCl, Cl
<1>2. ToFailed(k, p, b, r) = [k2 EXCEPT !.res = r]
  BY DEF ToFailed
<1> HIDE DEF k1
<1>3. k2 = Cl(k.op, p, k.view, k.res, b, k.old)
  BY <1>1 DEF Cl
<1> HIDE DEF k2
<1> QED BY <1>2, <1>3 DEF Cl

\* The update of a new call.
LEMMA ClExceptBegin ==
    ASSUME NEW k, IsCl(k), NEW o, NEW p, NEW a
    PROVE  ToBegin(k, o, p, a) = Cl(o, p, k.view, k.res, k.failed, a)
<1> DEFINE k1 == [k EXCEPT !.op = o]
           k2 == [k1 EXCEPT !.pc = p]
<1>1. k1 = Cl(o, k.pc, k.view, k.res, k.failed, k.old)
  BY DEF IsCl, Cl
<1>2. ToBegin(k, o, p, a) = [k2 EXCEPT !.old = a]
  BY DEF ToBegin
<1> HIDE DEF k1
<1>3. k2 = Cl(o, p, k.view, k.res, k.failed, k.old)
  BY <1>1 DEF Cl
<1> HIDE DEF k2
<1> QED BY <1>2, <1>3 DEF Cl

\* The same for the client c of all of them.
LEMMA Fold3 ==
    ASSUME NEW cl, cl = [x \in Clients |-> cl[x]], NEW c \in Clients, NEW v, NEW r, NEW p
    PROVE  [cl EXCEPT ![c].view = v, ![c].res = r, ![c].pc = p]
             = [cl EXCEPT ![c] = [cl[c] EXCEPT !.view = v, !.res = r, !.pc = p]]
OBVIOUS

\* The update of a failed call.
LEMMA FoldFails ==
    ASSUME NEW cl, cl = [x \in Clients |-> cl[x]], NEW c \in Clients, NEW b, NEW r, NEW p
    PROVE  [cl EXCEPT ![c].pc = p, ![c].failed = b, ![c].res = r]
             = [cl EXCEPT ![c] = [cl[c] EXCEPT !.pc = p, !.failed = b, !.res = r]]
OBVIOUS

\* The update of a new call.
LEMMA FoldBegin ==
    ASSUME NEW cl, cl = [x \in Clients |-> cl[x]], NEW c \in Clients, NEW o, NEW a, NEW p
    PROVE  [cl EXCEPT ![c].op = o, ![c].pc = p, ![c].old = a]
             = [cl EXCEPT ![c] = [cl[c] EXCEPT !.op = o, !.pc = p, !.old = a]]
OBVIOUS

\* The client after Continue.
LEMMA Continues ==
    ASSUME Formed, NEW c \in Clients, NEW v, NEW res, Continue(c, v, res)
    PROVE  Moves(client, client', c, Cl(client[c].op, IF res = "ok" THEN client[c].pc + 1 ELSE Last(c),
                                        v, res, client[c].failed, client[c].old))
<1> DEFINE p == IF res = "ok" THEN client[c].pc + 1 ELSE Last(c)
           k == Cl(client[c].op, p, v, res, client[c].failed, client[c].old)
<1>1. client = [x \in Clients |-> client[x]] /\ IsCl(client[c])
  BY DEF Formed
<1>2. client' = [client EXCEPT ![c].view = v, ![c].res = res, ![c].pc = p]
  BY <1>1 DEF Continue
<1> HIDE DEF p
<1>3. client' = [client EXCEPT ![c] = [client[c] EXCEPT !.view = v, !.res = res, !.pc = p]]
  BY <1>1, <1>2, Fold3
<1>4. [client[c] EXCEPT !.view = v, !.res = res, !.pc = p] = k
  BY <1>1, ClExcept3
<1>5. client' = [client EXCEPT ![c] = k]
  BY <1>3, <1>4
<1> HIDE DEF k
<1>6. Moves(client, client', c, k)
  BY <1>1, <1>5, MoveOne
<1> QED BY <1>6 DEF k, p

-----------------------------------------------------------------------------
(* The definitions of MetaRecords that MetaAtomic extends are those of this  *)
(* module: one lemma for each operator (Atomic...).                          *)

LEMMA AtomicEmptyMeta == Atomic!EmptyMeta = EmptyMeta
BY DEF Atomic!EmptyMeta, EmptyMeta
LEMMA AtomicTagged == ASSUME NEW a PROVE Atomic!Tagged(a) = Tagged(a)
BY DEF Atomic!Tagged, Tagged
LEMMA AtomicCardinality == ASSUME NEW a PROVE Atomic!Cardinality(a) = Cardinality(a)
BY DEF Atomic!Cardinality, Cardinality
LEMMA AtomicReachable == ASSUME NEW a, NEW b PROVE Atomic!Reachable(a, b) = Reachable(a, b)
BY AtomicCardinality DEF Atomic!Reachable, Reachable
LEMMA AtomicrecalculateAggregateFields == ASSUME NEW a PROVE Atomic!recalculateAggregateFields(a) = recalculateAggregateFields(a)
BY AtomicTagged, AtomicReachable DEF Atomic!recalculateAggregateFields, recalculateAggregateFields
LEMMA AtomicAddImageMetaToRepoMeta == ASSUME NEW a, NEW b, NEW c PROVE Atomic!AddImageMetaToRepoMeta(a, b, c) = AddImageMetaToRepoMeta(a, b, c)
BY AtomicrecalculateAggregateFields DEF Atomic!AddImageMetaToRepoMeta, AddImageMetaToRepoMeta
LEMMA AtomicRemoveImageFromRepoMeta == ASSUME NEW a PROVE Atomic!RemoveImageFromRepoMeta(a) = RemoveImageFromRepoMeta(a)
BY AtomicTagged, AtomicReachable DEF Atomic!RemoveImageFromRepoMeta, RemoveImageFromRepoMeta
LEMMA AtomicSetRepoReference == ASSUME NEW a, NEW b, NEW c PROVE Atomic!SetRepoReference(a, b, c) = SetRepoReference(a, b, c)
BY AtomicAddImageMetaToRepoMeta DEF Atomic!SetRepoReference, SetRepoReference
LEMMA AtomicRemoveRepoReference == ASSUME NEW a, NEW b, NEW c PROVE Atomic!RemoveRepoReference(a, b, c) = RemoveRepoReference(a, b, c)
BY AtomicRemoveImageFromRepoMeta, AtomicTagged DEF Atomic!RemoveRepoReference, RemoveRepoReference
LEMMA AtomicResetRepoReferences == ASSUME NEW a, NEW b PROVE Atomic!ResetRepoReferences(a, b) = ResetRepoReferences(a, b)
BY AtomicEmptyMeta DEF Atomic!ResetRepoReferences, ResetRepoReferences
LEMMA AtomicAddManifestSignature == ASSUME NEW a, NEW b, NEW c PROVE Atomic!AddManifestSignature(a, b, c) = AddManifestSignature(a, b, c)
BY DEF Atomic!AddManifestSignature, AddManifestSignature
LEMMA AtomicDeleteSignature == ASSUME NEW a, NEW b, NEW c PROVE Atomic!DeleteSignature(a, b, c) = DeleteSignature(a, b, c)
BY DEF Atomic!DeleteSignature, DeleteSignature
LEMMA AtomicUpdateSignaturesValidity == ASSUME NEW a, NEW b, NEW c PROVE Atomic!UpdateSignaturesValidity(a, b, c) = UpdateSignaturesValidity(a, b, c)
BY DEF Atomic!UpdateSignaturesValidity, UpdateSignaturesValidity
LEMMA AtomicDownloadedImage == ASSUME NEW a, NEW b, NEW c PROVE Atomic!DownloadedImage(a, b, c) = DownloadedImage(a, b, c)
BY AtomicTagged DEF Atomic!DownloadedImage, DownloadedImage
LEMMA AtomicUpdateStatsOnDownload == ASSUME NEW a, NEW b PROVE Atomic!UpdateStatsOnDownload(a, b) = UpdateStatsOnDownload(a, b)
BY DEF Atomic!UpdateStatsOnDownload, UpdateStatsOnDownload
LEMMA AtomicAddStar == ASSUME NEW a PROVE Atomic!AddStar(a) = AddStar(a)
BY DEF Atomic!AddStar, AddStar
LEMMA AtomicRemoveStar == ASSUME NEW a PROVE Atomic!RemoveStar(a) = RemoveStar(a)
BY DEF Atomic!RemoveStar, RemoveStar
LEMMA AtomicNewUser == Atomic!NewUser = NewUser
BY DEF Atomic!NewUser, NewUser
LEMMA AtomicEmptyDB == Atomic!EmptyDB = EmptyDB
BY DEF Atomic!EmptyDB, EmptyDB
LEMMA AtomicUser == ASSUME NEW a, NEW b PROVE Atomic!User(a, b) = User(a, b)
BY AtomicNewUser DEF Atomic!User, User
LEMMA AtomicRepo == ASSUME NEW a, NEW b PROVE Atomic!Repo(a, b) = Repo(a, b)
BY AtomicEmptyMeta DEF Atomic!Repo, Repo
LEMMA AtomicPutRepo == ASSUME NEW a, NEW b, NEW c PROVE Atomic!PutRepo(a, b, c) = PutRepo(a, b, c)
BY DEF Atomic!PutRepo, PutRepo
LEMMA AtomicPutUser == ASSUME NEW a, NEW b, NEW c PROVE Atomic!PutUser(a, b, c) = PutUser(a, b, c)
BY DEF Atomic!PutUser, PutUser
LEMMA AtomicToggle == ASSUME NEW a, NEW b PROVE Atomic!Toggle(a, b) = Toggle(a, b)
BY DEF Atomic!Toggle, Toggle
LEMMA AtomicToggleStarRepo == ASSUME NEW a, NEW b PROVE Atomic!ToggleStarRepo(a, b) = ToggleStarRepo(a, b)
BY AtomicUser, AtomicRepo, AtomicRemoveStar, AtomicAddStar, AtomicPutUser, AtomicPutRepo, AtomicToggle DEF Atomic!ToggleStarRepo, ToggleStarRepo
LEMMA AtomicToggleBookmarkRepo == ASSUME NEW a, NEW b PROVE Atomic!ToggleBookmarkRepo(a, b) = ToggleBookmarkRepo(a, b)
BY AtomicPutUser, AtomicUser, AtomicToggle DEF Atomic!ToggleBookmarkRepo, ToggleBookmarkRepo
LEMMA AtomicSetUserGroups == ASSUME NEW a, NEW b PROVE Atomic!SetUserGroups(a, b) = SetUserGroups(a, b)
BY AtomicPutUser, AtomicUser DEF Atomic!SetUserGroups, SetUserGroups
LEMMA AtomicAddUserAPIKey == ASSUME NEW a, NEW b PROVE Atomic!AddUserAPIKey(a, b) = AddUserAPIKey(a, b)
BY AtomicPutUser, AtomicUser DEF Atomic!AddUserAPIKey, AddUserAPIKey
LEMMA AtomicDeleteUserAPIKey == ASSUME NEW a, NEW b PROVE Atomic!DeleteUserAPIKey(a, b) = DeleteUserAPIKey(a, b)
BY AtomicPutUser, AtomicUser DEF Atomic!DeleteUserAPIKey, DeleteUserAPIKey
LEMMA AtomicKeyEntry == ASSUME NEW a, NEW b PROVE Atomic!KeyEntry(a, b) = KeyEntry(a, b)
BY AtomicUser DEF Atomic!KeyEntry, KeyEntry
LEMMA AtomicPutKeyEntry == ASSUME NEW a, NEW b, NEW c PROVE Atomic!PutKeyEntry(a, b, c) = PutKeyEntry(a, b, c)
BY AtomicPutUser, AtomicUser DEF Atomic!PutKeyEntry, PutKeyEntry
LEMMA AtomicPastDate == ASSUME NEW a, NEW b, NEW c PROVE Atomic!PastDate(a, b, c) = PastDate(a, b, c)
BY AtomicKeyEntry DEF Atomic!PastDate, PastDate
LEMMA AtomicIsAPIKeyExpired == ASSUME NEW a, NEW b, NEW c PROVE Atomic!IsAPIKeyExpired(a, b, c) = IsAPIKeyExpired(a, b, c)
BY AtomicPutKeyEntry, AtomicKeyEntry, AtomicPastDate DEF Atomic!IsAPIKeyExpired, IsAPIKeyExpired
LEMMA AtomicUpdateUserAPIKeyLastUsed == ASSUME NEW a, NEW b PROVE Atomic!UpdateUserAPIKeyLastUsed(a, b) = UpdateUserAPIKeyLastUsed(a, b)
BY AtomicPutKeyEntry, AtomicKeyEntry DEF Atomic!UpdateUserAPIKeyLastUsed, UpdateUserAPIKeyLastUsed
LEMMA AtomicGetUserAPIKeys == ASSUME NEW a, NEW b, NEW c PROVE Atomic!GetUserAPIKeys(a, b, c) = GetUserAPIKeys(a, b, c)
BY AtomicUser, AtomicPutUser DEF Atomic!GetUserAPIKeys, GetUserAPIKeys
LEMMA AtomicApply == ASSUME NEW a, NEW b, NEW c, NEW d PROVE Atomic!Apply(a, b, c, d) = Apply(a, b, c, d)
BY AtomicPutRepo, AtomicSetRepoReference, AtomicRepo, AtomicRemoveRepoReference, AtomicAddManifestSignature, AtomicDeleteSignature, AtomicUpdateSignaturesValidity, AtomicUpdateStatsOnDownload, AtomicDownloadedImage, AtomicResetRepoReferences, AtomicToggleStarRepo, AtomicToggleBookmarkRepo, AtomicSetUserGroups, AtomicAddUserAPIKey, AtomicDeleteUserAPIKey, AtomicGetUserAPIKeys, AtomicIsAPIKeyExpired, AtomicUpdateUserAPIKeyLastUsed DEF Atomic!Apply, Apply
LEMMA AtomicWrites == ASSUME NEW a, NEW b, NEW c, NEW d PROVE Atomic!Writes(a, b, c, d) = Writes(a, b, c, d)
BY AtomicDownloadedImage, AtomicRepo, AtomicKeyEntry, AtomicPastDate DEF Atomic!Writes, Writes
LEMMA AtomicOpNames == Atomic!OpNames = OpNames
BY DEF Atomic!OpNames, OpNames
LEMMA AtomicCalls == ASSUME NEW a PROVE Atomic!Calls(a) = Calls(a)
BY DEF Atomic!Calls, Calls, Atomic!Op, Op
LEMMA AtomicSetup == Atomic!Setup = Setup
BY ZenonT(20) DEF Atomic!Setup, Setup, Atomic!NewUser, NewUser, Atomic!EmptyMeta, EmptyMeta, Atomic!SetRepoReference, SetRepoReference, Atomic!AddImageMetaToRepoMeta, AddImageMetaToRepoMeta, Atomic!recalculateAggregateFields, recalculateAggregateFields, Atomic!Tagged, Tagged, Atomic!Reachable, Reachable, Atomic!Cardinality, Cardinality
LEMMA AtomicParts == ASSUME NEW o PROVE Atomic!PartsOf(o) = Parts(o)
BY DEF Atomic!PartsOf, Parts

-----------------------------------------------------------------------------
(* The callers of MetaAtomic.                                                *)

Same == UNCHANGED <<IF backend = "dynamo" THEN EmptyDB ELSE db, IF backend = "dynamo" THEN {} ELSE late,
                    [c \in Clients |-> client[c].op]>>

\* A client that goes on keeps its call.
LEMMA CallsKept ==
    ASSUME NEW c \in Clients, NEW k, Moves(client, client', c, k), k.op = client[c].op
    PROVE  [x \in Clients |-> client'[x].op] = [x \in Clients |-> client[x].op]
<1>1. \A x \in Clients : client'[x].op = client[x].op
  BY DEF Moves
<1> QED BY <1>1

\* A client that begins or returns changes its own call only.
LEMMA NewCall ==
    ASSUME NEW c \in Clients, NEW k, Moves(client, client', c, k)
    PROVE  [x \in Clients |-> client'[x].op] = [[x \in Clients |-> client[x].op] EXCEPT ![c] = k.op]
<1>1. \A x \in Clients : client'[x].op = IF x = c THEN k.op ELSE client[x].op
  BY DEF Moves
<1> QED BY <1>1

\* A client that goes on and writes nothing is no step of MetaAtomic.
LEMMA MovesSame ==
    ASSUME NEW c \in Clients, NEW k, Moves(client, client', c, k), k.op = client[c].op,
           backend' = backend, db' = db, late' = late
    PROVE  Same
BY CallsKept DEF Same

-----------------------------------------------------------------------------
(* The actions.                                                              *)

\* A caller begins an operation: the step Invoke of MetaAtomic.
LEMMA BeginStep ==
    ASSUME Inv, NEW c \in Clients, NEW o \in Requests, Begin(c, o)
    PROVE  Inv' /\ Atomic!Next
<1> DEFINE a == CASE o.key \in gone    -> "gone"
                  [] o.key \in revoked \ gone -> "revoked"
                  [] o.key \in late \ (revoked \cup gone) -> "late"
                  [] OTHER -> "no"
           k == Cl(o, 1, EmptyDB, client[c].res, client[c].failed, a)
<1>1. client = [x \in Clients |-> client[x]] /\ IsCl(client[c]) /\ client[c] = Idle
  BY DEF Inv, Formed, Begin
<1>2. client' = [client EXCEPT ![c].op = o, ![c].pc = 1, ![c].old = a]
  BY DEF Begin
<1>u. /\ db' = db /\ late' = late /\ backend' = backend /\ load' = load /\ locks' = locks
  BY DEF Begin
<1>3. PICK n \in OpNames : o \in Calls(n)
  <2>1. PICK n \in load.ops : o \in Calls(n)
    BY DEF Requests
  <2>2. load.ops \subseteq OpNames
    BY MetaClientsAssumption DEF Inv, Formed
  <2> QED BY <2>1, <2>2
<1>4. Typed(o)
  BY <1>3, OpTyped DEF OpOK
<1> HIDE DEF a
<1>5. Moves(client, client', c, k)
  <2>0. client' = [client EXCEPT ![c] = [client[c] EXCEPT !.op = o, !.pc = 1, !.old = a]]
    BY <1>1, <1>2, FoldBegin
  <2>1. client' = [client EXCEPT ![c] = ToBegin(client[c], o, 1, a)]
    BY <2>0 DEF ToBegin
  <2>2. client[c].view = EmptyDB
    BY <1>1, IdleIs
  <2>3. ToBegin(client[c], o, 1, a) = k
    BY <1>1, <2>2, ClExceptBegin
  <2>4. client' = [client EXCEPT ![c] = k]
    BY <2>1, <2>3
  <2> HIDE DEF k
  <2> QED BY <1>1, <2>4, MoveOne
<1>6. IsCl(k) /\ k.op = o /\ k.pc = 1 /\ k.view = EmptyDB
  BY ClIs
<1> HIDE DEF k
<1>7. backend # "dynamo" => IsDB(db)' /\ Metas(db)' /\ (k.op # None => k.pc \in 1..Len(Program(k.op)))
  <2> SUFFICES ASSUME backend # "dynamo" PROVE IsDB(db)' /\ Metas(db)' /\ k.pc \in 1..Len(Program(k.op))
    OBVIOUS
  <2>1. IsDB(db) /\ Metas(db)
    BY DEF Inv
  <2>2. Len(Program(o)) \in Nat /\ Len(Program(o)) > 1
    BY <1>4, Drivers, RedisSound, BoltIsSound DEF Sound, BoltSound
  <2>3. IsDB(db)' /\ Metas(db)'
    BY <1>u, <2>1
  <2> QED BY <1>6, <2>2, <2>3
<1>8. backend = "redis" =>
        /\ locks' = [l \in LockNames |-> locks'[l]]
        /\ IsDB(k.view) /\ k.view.image \subseteq db'.image
        /\ k.op # None /\ k.pc < Len(Program(k.op)) => Knows(k.op, k.pc, k.view, db', locks', c)
        /\ db.image \subseteq db'.image
        /\ \A x \in Clients \ {c} :
             client[x].op # None /\ client[x].pc < Last(x) =>
               Knows(client[x].op, client[x].pc, client[x].view, db', locks', x)
  <2> SUFFICES ASSUME backend = "redis" PROVE
        /\ locks' = [l \in LockNames |-> locks'[l]]
        /\ IsDB(k.view) /\ k.view.image \subseteq db'.image
        /\ Knows(k.op, k.pc, k.view, db', locks', c)
        /\ db.image \subseteq db'.image
        /\ \A x \in Clients \ {c} :
             client[x].op # None /\ client[x].pc < Last(x) =>
               Knows(client[x].op, client[x].pc, client[x].view, db', locks', x)
    OBVIOUS
  <2>1. Knows(o, 1, EmptyDB, db, locks, c)
    BY KnowsFirst
  <2>2. \A x \in Clients : Informed(x)
    BY DEF Inv
  <2> QED BY <1>u, <1>6, <2>1, <2>2, EmptyIsDB DEF Inv, Informed
<1>9. Inv'
  BY <1>4, <1>5, <1>6, <1>7, <1>8, <1>u, StepInv
<1>10. Atomic!Invoke(c, o)
  <2>1. client[c].op = None
    BY <1>1, IdleIs
  <2>2. [x \in Clients |-> client'[x].op] = [[x \in Clients |-> client[x].op] EXCEPT ![c] = o]
    BY <1>5, <1>6, NewCall
  <2> QED BY <1>u, <2>1, <2>2 DEF Atomic!Invoke
<1>11. Atomic!Next
  <2>1. n \in Atomic!OpNames /\ o \in Atomic!Calls(n)
    BY <1>3, AtomicOpNames, AtomicCalls
  <2> QED BY <1>10, <2>1 DEF Atomic!Next
<1> QED BY <1>9, <1>11

\* A move that leaves the records alone.
LEMMA QuietStep ==
    ASSUME Inv, NEW c \in Clients, NEW k, Moves(client, client', c, k), IsCl(k),
           backend' = backend, load' = load, db' = db, late' = late, locks' = locks,
           client[c].op # None, k.op = client[c].op, backend # "dynamo" => k.pc \in 1..Last(c),
           backend = "redis" =>
             /\ IsDB(k.view) /\ k.view.image \subseteq db.image
             /\ k.pc < Last(c) => Knows(k.op, k.pc, k.view, db, locks, c)
    PROVE  Inv' /\ Same
<1>1. Same
  BY MovesSame
<1>2. Last(c) = Len(Program(k.op))
  BY DEF Last
<1>3. Typed(k.op)
  BY DEF Inv, Formed
<1>4. backend # "dynamo" => IsDB(db)' /\ Metas(db)' /\ (k.op # None => k.pc \in 1..Len(Program(k.op)))
  BY <1>2 DEF Inv
<1>5. backend = "redis" =>
        /\ locks' = [l \in LockNames |-> locks'[l]]
        /\ IsDB(k.view) /\ k.view.image \subseteq db'.image
        /\ k.op # None /\ k.pc < Len(Program(k.op)) => Knows(k.op, k.pc, k.view, db', locks', c)
        /\ db.image \subseteq db'.image
        /\ \A x \in Clients \ {c} :
             client[x].op # None /\ client[x].pc < Last(x) =>
               Knows(client[x].op, client[x].pc, client[x].view, db', locks', x)
  BY <1>2 DEF Inv, Informed
<1> QED BY <1>1, <1>3, <1>4, <1>5, StepInv

\* The lock of a section cannot be had.
LEMMA LockFailsStep ==
    ASSUME Inv, NEW c \in Clients, LockFails(c)
    PROVE  Inv' /\ Same
<1> DEFINE k == Cl(client[c].op, Last(c), client[c].view, "error", client[c].failed, client[c].old)
<1>1. client[c].op # None /\ Continue(c, client[c].view, "error")
  BY DEF LockFails, At
<1>2. Moves(client, client', c, k)
  BY <1>1, Continues DEF Inv
<1>3. IsCl(k) /\ k.op = client[c].op /\ k.pc = Last(c) /\ k.view = client[c].view
  BY ClIs
<1> HIDE DEF k
<1>4. backend # "dynamo" => Last(c) \in Nat /\ Last(c) > 1
  BY <1>1, RedisAt, BoltAt, Drivers
<1>5. backend # "dynamo" => k.pc \in 1..Last(c)
  BY <1>3, <1>4
<1>6. backend = "redis" =>
             /\ IsDB(k.view) /\ k.view.image \subseteq db.image
             /\ k.pc < Last(c) => Knows(k.op, k.pc, k.view, db, locks, c)
  BY <1>3, <1>4 DEF Inv, Informed
<1> QED BY <1>1, <1>2, <1>3, <1>5, <1>6, QuietStep DEF LockFails

\* A call fails: the client goes to the end of its operation.
LEMMA CallFailsStep ==
    ASSUME Inv, NEW c \in Clients, CallFails(c)
    PROVE  Inv' /\ Same
<1> DEFINE r == IF backend = "redis" /\ Instr(c).fx = "delkey" THEN "ok" ELSE "error"
           yes == TRUE
           k == Cl(client[c].op, Last(c), client[c].view, r, yes, client[c].old)
<1>0. client = [x \in Clients |-> client[x]] /\ IsCl(client[c])
  BY DEF Inv, Formed
<1>1. /\ client[c].op # None
      /\ client' = [client EXCEPT ![c].pc = Last(c), ![c].failed = yes, ![c].res = r]
  BY DEF CallFails, At
<1> HIDE DEF r, yes
<1>2. Moves(client, client', c, k)
  <2>0. client' = [client EXCEPT ![c] = [client[c] EXCEPT !.pc = Last(c), !.failed = yes, !.res = r]]
    BY <1>0, <1>1, FoldFails
  <2>1. client' = [client EXCEPT ![c] = ToFailed(client[c], Last(c), yes, r)]
    BY <2>0 DEF ToFailed
  <2>2. ToFailed(client[c], Last(c), yes, r) = k
    BY <1>0, ClExceptFails
  <2>3. client' = [client EXCEPT ![c] = k]
    BY <2>1, <2>2
  <2> HIDE DEF k
  <2> QED BY <1>0, <2>3, MoveOne
<1>3. IsCl(k) /\ k.op = client[c].op /\ k.pc = Last(c) /\ k.view = client[c].view
  BY ClIs
<1> HIDE DEF k
<1>4. backend # "dynamo" => Last(c) \in Nat /\ Last(c) > 1
  BY <1>1, RedisAt, BoltAt, Drivers
<1>5. backend # "dynamo" => k.pc \in 1..Last(c)
  BY <1>3, <1>4
<1>6. backend = "redis" =>
             /\ IsDB(k.view) /\ k.view.image \subseteq db.image
             /\ k.pc < Last(c) => Knows(k.op, k.pc, k.view, db, locks, c)
  BY <1>3, <1>4 DEF Inv, Informed
<1> QED BY <1>1, <1>2, <1>3, <1>5, <1>6, QuietStep DEF CallFails

\* A row is read.
LEMMA ReadRowStep ==
    ASSUME Inv, NEW c \in Clients, ReadRow(c)
    PROVE  Inv' /\ Same
<1> DEFINE v == Overwrite(client[c].view, db, Instr(c).rows)
           k == Cl(client[c].op, client[c].pc + 1, v, "ok", client[c].failed, client[c].old)
<1>1. client[c].op # None /\ Continue(c, v, "ok") /\ Instr(c).do = "read"
  BY DEF ReadRow, At, Instr
<1>2. Moves(client, client', c, k)
  BY <1>1, Continues DEF Inv
<1>3. IsCl(k) /\ k.op = client[c].op /\ k.pc = client[c].pc + 1 /\ k.view = v
  BY ClIs
<1> HIDE DEF k
<1>4. backend # "dynamo" => Last(c) \in Nat /\ client[c].pc \in 1..Last(c) /\ client[c].pc < Last(c)
  BY <1>1, RedisAt, BoltAt, Drivers
<1>5. backend # "dynamo" => k.pc \in 1..Last(c)
  BY <1>3, <1>4
<1>6. ASSUME backend = "redis"
      PROVE  /\ IsDB(k.view) /\ k.view.image \subseteq db.image
             /\ Knows(k.op, k.pc, k.view, db, locks, c)
  <2>1. IsDB(v)
    BY OverwriteIsDB
  <2>2. v.image \subseteq db.image
    <3>1. Matches(client[c].view, db, Instr(c).rows, v)
      BY OverwriteRows
    <3>2. client[c].view.image \subseteq db.image
      BY <1>6 DEF Inv, Informed
    <3>3. v.image \subseteq Images
      BY <2>1 DEF IsDB
    <3> QED BY <3>1, <3>2, <3>3 DEF Matches
  <2>3. /\ Advances(client[c].op, client[c].pc, Instr(c)) /\ Typed(client[c].op)
        /\ Knows(client[c].op, client[c].pc, client[c].view, db, locks, c)
    BY <1>1, <1>4, <1>6, RedisAt
  <2>4. ReadsRows(client[c].op, client[c].pc, Instr(c))
    BY <1>1, <2>3 DEF Advances
  <2>5. Knows(client[c].op, client[c].pc + 1, v, db, locks, c)
    BY <2>3, <2>4, KnowsRead
  <2> QED BY <1>3, <2>1, <2>2, <2>5
<1> HIDE DEF v
<1> QED BY <1>1, <1>2, <1>3, <1>5, <1>6, QuietStep DEF ReadRow

\* A lock is taken.
LEMMA TakeStep ==
    ASSUME Inv, NEW c \in Clients, Take(c)
    PROVE  Inv' /\ Same
<1> DEFINE l == Instr(c).at
           k == Cl(client[c].op, client[c].pc + 1, client[c].view, "ok", client[c].failed, client[c].old)
<1>1. client[c].op # None /\ Continue(c, client[c].view, "ok") /\ Instr(c).do = "lock"
  BY DEF Take, At, Instr
<1>u. /\ db' = db /\ late' = late /\ backend' = backend /\ load' = load
      /\ locks[l] = None /\ locks' = [locks EXCEPT ![l] = c]
  BY DEF Take
<1>2. Moves(client, client', c, k)
  BY <1>1, Continues DEF Inv
<1>3. IsCl(k) /\ k.op = client[c].op /\ k.pc = client[c].pc + 1 /\ k.view = client[c].view
  BY ClIs
<1> HIDE DEF k
<1>4. backend # "dynamo" => Last(c) \in Nat /\ client[c].pc \in 1..Last(c) /\ client[c].pc < Last(c)
  BY <1>1, RedisAt, BoltAt, Drivers
<1>5. Last(c) = Len(Program(k.op)) /\ Typed(k.op)
  BY <1>1, <1>3 DEF Last, Inv, Formed
<1>6. backend # "dynamo" => IsDB(db)' /\ Metas(db)' /\ (k.op # None => k.pc \in 1..Len(Program(k.op)))
  <2>1. backend # "dynamo" => IsDB(db)' /\ Metas(db)'
    BY <1>u DEF Inv
  <2> QED BY <1>3, <1>4, <1>5, <2>1
<1>7. ASSUME backend = "redis"
      PROVE  /\ locks' = [x \in LockNames |-> locks'[x]]
             /\ IsDB(k.view) /\ k.view.image \subseteq db.image
             /\ Knows(k.op, k.pc, k.view, db, locks', c)
             /\ \A x \in Clients \ {c} :
                  client[x].op # None /\ client[x].pc < Last(x) =>
                    Knows(client[x].op, client[x].pc, client[x].view, db, locks', x)
  <2>1. locks = [x \in LockNames |-> locks[x]] /\ \A x \in Clients : Informed(x)
    BY <1>7 DEF Inv
  <2>2. locks' = [x \in LockNames |-> locks'[x]]
    BY <1>u, <2>1
  <2>3. /\ Advances(client[c].op, client[c].pc, Instr(c)) /\ Typed(client[c].op)
        /\ Knows(client[c].op, client[c].pc, client[c].view, db, locks, c)
    BY <1>1, <1>4, <1>7, RedisAt
  <2>4. TakesLock(client[c].op, client[c].pc, Instr(c)) /\ l \in LockNames
    BY <1>1, <2>3 DEF Advances, TakesLock
  <2>5. locks'[l] = c /\ \A x \in LockNames : x # l => locks'[x] = locks[x]
    BY <1>u, <2>1, <2>4
  <2>6. Knows(client[c].op, client[c].pc + 1, client[c].view, db, locks', c)
    BY <2>3, <2>4, <2>5, KnowsTake
  <2>7. ASSUME NEW x \in Clients \ {c}, client[x].op # None, client[x].pc < Last(x)
        PROVE  Knows(client[x].op, client[x].pc, client[x].view, db, locks', x)
    <3>1. Typed(client[x].op) /\ Knows(client[x].op, client[x].pc, client[x].view, db, locks, x)
      BY <2>1, <2>7 DEF Informed, Inv, Formed
    <3>2. \A y \in LockNames : locks[y] = x => locks'[y] = x
      BY <1>u, <2>5, MetaClientsAssumption
    <3> QED BY <3>1, <3>2, KnowsLocks
  <2> QED BY <1>3, <2>1, <2>2, <2>6, <2>7 DEF Informed
<1>8. Inv'
  BY <1>2, <1>3, <1>5, <1>6, <1>7, <1>u, StepInv
<1> QED BY <1>2, <1>3, <1>8, <1>u, MovesSame

\* What the place of a client says is what its write needs.
LEMMA AgreesOf ==
    ASSUME NEW o, NEW p, NEW rows, NEW fx \in Fxs, MayWrite(o, p, rows, fx), NEW v, NEW d, NEW lk, NEW c,
           Knows(o, p, v, d, lk, c), v.image \subseteq d.image
    PROVE  /\ Agrees(fx, o, v, d) /\ Fits(fx, o) /\ fx \in Parts(o) /\ rows = RowsOf(fx, o)
<1>1. fx \notin {"owner", "query"}
  BY DEF Fxs, RepoFx, UserFx
<1> QED BY <1>1 DEF MayWrite, Knows, Agrees

\* The data of the image is there after it is stored.
LEMMA ImageAdded ==
    ASSUME NEW d, IsDB(d), NEW o, Fits("image", o), NEW past
    PROVE  o.img \in Apply("image", o, d, past).image
<1>1. o.img \in Images
  BY DEF Fits
<1>2. ImagePut(Apply("image", o, d, past), d, o.img)
  BY <1>1, ApplyImage, PutImageRows
<1> QED BY <1>2 DEF ImagePut

\* The change of MetaAtomic.
LEMMA ChangeStep ==
    ASSUME NEW c \in Clients, client[c].op # None, backend # "dynamo", backend' = backend, late' = late,
           [x \in Clients |-> client'[x].op] = [x \in Clients |-> client[x].op],
           NEW fx \in Parts(client[c].op), Writes(fx, client[c].op, db, late),
           db' = Apply(fx, client[c].op, db, late)
    PROVE  Atomic!Next
<1> DEFINE o == client[c].op
           call == [x \in Clients |-> client[x].op]
<1>0. call[c] = o
  OBVIOUS
<1>1. fx \in Atomic!PartsOf(o) /\ Atomic!Writes(fx, o, db, late) /\ db' = Atomic!Apply(fx, o, db, late)
  BY AtomicParts, AtomicWrites, AtomicApply
<1>2. Atomic!Change(c)
  BY <1>0, <1>1 DEF Atomic!Change
<1> QED BY <1>2 DEF Atomic!Next

\* Asking for the owner of a key, and a query, write nothing.
LEMMA NeverWrites ==
    ASSUME NEW fx \in {"owner", "query"}, NEW o, NEW v, NEW past
    PROVE  ~Writes(fx, o, v, past)
BY DEF Writes

\* What a write makes of the records: nothing, or the operation.
LEMMA WriteChanges ==
    ASSUME Inv, backend # "dynamo", NEW c \in Clients, WriteRows(c)
    PROVE  \/ /\ db' = db
              /\ ~Writes(Instr(c).fx, client[c].op, IF Instr(c).do = "tx" THEN db ELSE client[c].view, late)
           \/ \E fx \in Parts(client[c].op) \cap Fxs :
                /\ fx = Instr(c).fx /\ Fits(fx, client[c].op)
                /\ Writes(fx, client[c].op, db, late) /\ db' = Apply(fx, client[c].op, db, late)
                /\ backend = "redis" =>
                     /\ MayWrite(client[c].op, client[c].pc, RowsOf(fx, client[c].op), fx)
                     /\ \E n : db' = Overwrite(db, n, RowsOf(fx, client[c].op))
<1> DEFINE o == client[c].op
           p == client[c].pc
           i == Instr(c)
           fx == i.fx
           w == client[c].view
           v == IF i.do = "tx" THEN db ELSE w
<1>1. o # None /\ i.do \in {"write", "tx"}
  BY DEF WriteRows, At, Instr
<1>2. db' = IF Writes(fx, o, v, late) THEN Overwrite(db, Apply(fx, o, v, late), i.rows) ELSE db
  BY DEF WriteRows
<1>3. IsDB(db) /\ Metas(db)
  BY DEF Inv
<1>4. CASE ~Writes(fx, o, v, late)
  BY <1>2, <1>4
<1>5. CASE Writes(fx, o, v, late) /\ backend = "bolt"
  <2>1. TxFits(o, i)
    BY <1>1, <1>5, BoltAt
  <2>2. v = db /\ i.rows = Rows
    BY <2>1 DEF TxFits
  <2>3. fx \notin {"owner", "query"}
    BY <1>5, NeverWrites
  <2>4. fx \in Parts(o) \cap Fxs /\ Fits(fx, o)
    BY <2>1, <2>3 DEF TxFits
  <2>5. IsDB(Apply(fx, o, db, late))
    BY <1>3, <2>4, ApplyKeeps DEF Keeps
  <2>6. db' = Apply(fx, o, db, late) /\ Writes(fx, o, db, late)
    BY <1>2, <1>5, <2>2, <2>5, CommitAll
  <2> QED BY <1>5, <2>4, <2>6
<1>6. CASE Writes(fx, o, v, late) /\ backend = "redis"
  <2>1. p < Last(c) /\ Typed(o) /\ Advances(o, p, i) /\ Knows(o, p, w, db, locks, c)
    BY <1>1, <1>6, RedisAt
  <2>2. i.do = "write" /\ MayWrite(o, p, i.rows, fx)
    BY <1>1, <2>1 DEF Advances, WritesThem
  <2>3. v = w
    BY <2>2
  <2>4. fx \notin {"owner", "query"}
    BY <1>6, NeverWrites
  <2>5. fx \in Fxs
    BY <2>2, <2>4 DEF MayWrite
  <2>6. IsDB(w) /\ w.image \subseteq db.image /\ IsOp(o)
    BY <1>6, <2>1 DEF Inv, Informed, Typed
  <2>7. /\ Agrees(fx, o, w, db) /\ Fits(fx, o) /\ fx \in Parts(o) /\ i.rows = RowsOf(fx, o)
    BY <2>1, <2>2, <2>5, <2>6, AgreesOf
  <2>8. Writes(fx, o, w, late)
    BY <1>6, <2>3
  <2>9. db' = Overwrite(db, Apply(fx, o, w, late), RowsOf(fx, o))
    BY <1>2, <1>6, <2>3, <2>7
  <2> HIDE DEF o, p, w, v, fx, i
  <2>10. Writes(fx, o, db, late)
    BY <1>3, <2>5, <2>6, <2>7, <2>8, WritesAgree
  <2>11. Commits(fx, o, w, db, late)
    BY <1>3, <2>5, <2>6, <2>7, WriteCommits
  <2>12. db' = Apply(fx, o, db, late)
    BY <2>9, <2>11 DEF Commits
  <2>13. MayWrite(o, p, RowsOf(fx, o), fx) /\ \E n : db' = Overwrite(db, n, RowsOf(fx, o))
    BY <2>2, <2>7, <2>9
  <2> QED BY <2>5, <2>7, <2>10, <2>12, <2>13 DEF o, p, fx, i
<1> QED BY <1>4, <1>5, <1>6, Drivers

\* A write, or a transaction: the step Change of MetaAtomic, or none.
LEMMA WriteRowsStep ==
    ASSUME Inv, NEW c \in Clients, WriteRows(c)
    PROVE  Inv' /\ (Atomic!Next \/ Same)
<1> DEFINE o == client[c].op
           p == client[c].pc
           w == client[c].view
           v == IF Instr(c).do = "tx" THEN db ELSE w
           R == Result(Instr(c).fx, o, v)
           k == Cl(o, IF R = "ok" THEN p + 1 ELSE Last(c), w, R, client[c].failed, client[c].old)
<1>1. /\ o # None /\ Instr(c).do \in {"write", "tx"} /\ Continue(c, w, R)
      /\ late' = late /\ backend' = backend /\ load' = load /\ locks' = locks
  BY DEF WriteRows, At, Instr
<1> HIDE DEF R
<1>2. Moves(client, client', c, k)
  BY <1>1, Continues DEF Inv
<1>3. IsCl(k) /\ k.op = o /\ k.pc = (IF R = "ok" THEN p + 1 ELSE Last(c)) /\ k.view = w
  BY ClIs
<1> HIDE DEF k
<1>4. backend # "dynamo" => Last(c) \in Nat /\ Last(c) > 1 /\ p \in 1..Last(c) /\ p < Last(c)
  BY <1>1, RedisAt, BoltAt, Drivers
<1>5. Last(c) = Len(Program(k.op)) /\ Typed(k.op)
  BY <1>1, <1>3 DEF Last, Inv, Formed
<1>a. [x \in Clients |-> client'[x].op] = [x \in Clients |-> client[x].op]
  BY <1>2, <1>3, CallsKept
<1>b. backend # "dynamo" => k.pc \in 1..Len(Program(k.op))
  BY <1>3, <1>4, <1>5
<1>6. CASE backend = "dynamo"
  <2>1. Inv'
    BY <1>1, <1>2, <1>3, <1>5, <1>6, StepInv
  <2>2. Same
    BY <1>1, <1>6, <1>a DEF Same
  <2> QED BY <2>1, <2>2
<1>7. CASE backend # "dynamo" /\ db' = db
  <2>1. Same
    BY <1>1, <1>2, <1>3, <1>7, MovesSame
  <2>2. IsDB(db)' /\ Metas(db)'
    BY <1>7 DEF Inv
  <2>3. ASSUME backend = "redis"
        PROVE  /\ IsDB(k.view) /\ k.view.image \subseteq db'.image
               /\ k.pc < Last(c) => Knows(k.op, k.pc, k.view, db', locks', c)
    <3>1. /\ Advances(o, p, Instr(c)) /\ Knows(o, p, w, db, locks, c)
      BY <1>1, <1>4, <2>3, RedisAt
    <3>2. WritesThem(o, p, Instr(c))
      BY <1>1, <3>1 DEF Advances
    <3>3. Informed(c)
      BY <2>3 DEF Inv
    <3>4. CASE Instr(c).fx = "image" /\ R = "ok"
      <4>1. MayWrite(o, p, Instr(c).rows, "image") /\ Instr(c).do = "write"
        BY <3>1, <3>2, <3>4, <1>1 DEF WritesThem, Advances
      <4>2. "image" \in Fxs
        BY DEF Fxs
      <4>3. Fits("image", o) /\ Instr(c).rows = RowsOf("image", o)
        BY <3>1, <3>3, <4>1, <4>2, AgreesOf DEF Informed
      <4>4. Writes("image", o, w, late)
        BY DEF Writes
      <4>5. db' = Overwrite(db, Apply("image", o, w, late), RowsOf("image", o))
        BY <3>4, <4>1, <4>3, <4>4 DEF WriteRows
      <4>6. Commits("image", o, w, db, late)
        BY <2>3, <3>3, <4>3, CommitsImage DEF Inv, Informed
      <4>7. o.img \in db'.image
        BY <2>3, <4>3, <4>5, <4>6, ImageAdded DEF Commits, Inv
      <4>8. Knows(o, p + 1, w, db', locks, c)
        BY <1>7, <3>1, <3>2, <4>7, KnowsWrite
      <4> QED BY <1>1, <1>3, <1>7, <3>3, <3>4, <4>8 DEF Informed
    <3>5. CASE Instr(c).fx # "image" /\ R = "ok"
      <4>1. Knows(o, p + 1, w, db', locks, c)
        BY <1>7, <3>1, <3>2, <3>5, KnowsWrite
      <4> QED BY <1>1, <1>3, <1>7, <3>3, <3>5, <4>1 DEF Informed
    <3>6. CASE R # "ok"
      BY <1>3, <1>4, <1>7, <2>3, <3>3, <3>6 DEF Informed
    <3> QED BY <3>4, <3>5, <3>6
  <2>4. ASSUME backend = "redis", NEW x \in Clients \ {c}, client[x].op # None, client[x].pc < Last(x)
        PROVE  Knows(client[x].op, client[x].pc, client[x].view, db', locks', x)
    BY <1>1, <1>7, <2>4 DEF Inv, Informed
  <2>5. backend = "redis" => locks' = [l \in LockNames |-> locks'[l]] /\ db.image \subseteq db'.image
    BY <1>1, <1>7 DEF Inv
  <2>6. Inv'
    BY <1>1, <1>2, <1>3, <1>5, <1>7, <1>b, <2>2, <2>3, <2>4, <2>5, StepInv
  <2> QED BY <2>1, <2>6
<1>8. CASE backend # "dynamo" /\ db' # db
  <2>1. PICK fx \in Parts(o) \cap Fxs :
                /\ fx = Instr(c).fx /\ Fits(fx, o)
                /\ Writes(fx, o, db, late) /\ db' = Apply(fx, o, db, late)
                /\ backend = "redis" =>
                     /\ MayWrite(o, p, RowsOf(fx, o), fx)
                     /\ \E n : db' = Overwrite(db, n, RowsOf(fx, o))
    BY <1>8, WriteChanges
  <2>2. Atomic!Next
    BY <1>1, <1>8, <1>a, <2>1, ChangeStep
  <2>3. Keeps(db, db')
    BY <1>8, <2>1, ApplyKeeps DEF Inv
  <2>4. IsDB(db)' /\ Metas(db)' /\ db.image \subseteq db'.image
    BY <2>3 DEF Keeps
  <2>5. ASSUME backend = "redis"
        PROVE  /\ IsDB(k.view) /\ k.view.image \subseteq db'.image
               /\ k.pc < Last(c) => Knows(k.op, k.pc, k.view, db', locks', c)
    <3>1. /\ Advances(o, p, Instr(c)) /\ Knows(o, p, w, db, locks, c)
      BY <1>1, <1>4, <2>5, RedisAt
    <3>2. WritesThem(o, p, Instr(c))
      BY <1>1, <3>1 DEF Advances
    <3>3. IsDB(w) /\ w.image \subseteq db'.image
      BY <2>4, <2>5 DEF Inv, Informed
    <3>4. Instr(c).fx = "image" => o.img \in db'.image
      BY <1>8, <2>1, ImageAdded DEF Inv
    <3>5. Knows(o, p + 1, w, db', locks, c)
      BY <2>4, <3>1, <3>2, <3>4, KnowsWrite
    <3> QED BY <1>1, <1>3, <1>4, <2>5, <3>3, <3>5
  <2>6. ASSUME backend = "redis", NEW x \in Clients \ {c}, client[x].op # None, client[x].pc < Last(x)
        PROVE  Knows(client[x].op, client[x].pc, client[x].view, db', locks', x)
    <3>1. /\ Typed(client[x].op) /\ client[x].pc \in Nat
          /\ Knows(client[x].op, client[x].pc, client[x].view, db, locks, x)
      BY <2>6, RedisAt
    <3>2. Knows(o, p, w, db, locks, c)
      BY <1>1, <1>4, <2>6, RedisAt
    <3>3. PICK n : db' = Overwrite(db, n, RowsOf(fx, o))
      BY <2>1, <2>6
    <3>4. fx \in Fxs /\ MayWrite(o, p, RowsOf(fx, o), fx) /\ db.image \subseteq Overwrite(db, n, RowsOf(fx, o)).image
      BY <2>1, <2>4, <2>6, <3>3
    <3> HIDE DEF o, p, w
    <3>5. Knows(client[x].op, client[x].pc, client[x].view, Overwrite(db, n, RowsOf(fx, o)), locks, x)
      BY <3>1, <3>2, <3>4, KnowsOther
    <3> QED BY <1>1, <3>3, <3>5
  <2>7. backend = "redis" => locks' = [l \in LockNames |-> locks'[l]]
    BY <1>1 DEF Inv
  <2>8. Inv'
    BY <1>1, <1>2, <1>3, <1>5, <1>8, <1>b, <2>4, <2>5, <2>6, <2>7, StepInv
  <2> QED BY <2>2, <2>8
<1> QED BY <1>6, <1>7, <1>8

\* The locks of c go to f, which is nobody, or to a process that is dead.
Freed(lk, c, f) == [l \in LockNames |-> IF lk[l] = c THEN f ELSE lk[l]]

\* The other clients know what they knew when c gives its locks up.
LEMMA OthersKnow ==
    ASSUME Inv, backend = "redis", NEW c \in Clients, NEW f, NEW x \in Clients \ {c},
           client[x].op # None, client[x].pc < Last(x)
    PROVE  Knows(client[x].op, client[x].pc, client[x].view, db, Freed(locks, c, f), x)
<1>1. Typed(client[x].op) /\ Knows(client[x].op, client[x].pc, client[x].view, db, locks, x)
  BY DEF Informed, Inv, Formed
<1>2. \A y \in LockNames : locks[y] = x => Freed(locks, c, f)[y] = x
  BY DEF Freed
<1> QED BY <1>1, <1>2, KnowsLocks

\* The operation of c ends: with the answer to its caller, or with its process.
LEMMA ReturnStep ==
    ASSUME Inv, NEW c \in Clients, client[c].op # None, client' = [client EXCEPT ![c] = Idle],
           backend' = backend, load' = load, db' = db, late' = late, NEW f, locks' = Freed(locks, c, f)
    PROVE  Inv' /\ Atomic!Next
<1>1. client = [x \in Clients |-> client[x]]
  BY DEF Inv, Formed
<1>2. Moves(client, client', c, Idle)
  BY <1>1, MoveOne
<1>3. IsCl(Idle) /\ Idle.op = None /\ Idle.view = EmptyDB
  BY IdleIs
<1>4. backend # "dynamo" => IsDB(db)' /\ Metas(db)'
  BY DEF Inv
<1>5. backend = "redis" =>
        /\ locks' = [l \in LockNames |-> locks'[l]]
        /\ IsDB(Idle.view) /\ Idle.view.image \subseteq db'.image
        /\ db.image \subseteq db'.image
        /\ \A x \in Clients \ {c} :
             client[x].op # None /\ client[x].pc < Last(x) =>
               Knows(client[x].op, client[x].pc, client[x].view, db', locks', x)
  <2>1. locks' = [l \in LockNames |-> locks'[l]]
    BY DEF Freed
  <2> QED BY <1>3, <2>1, OthersKnow, EmptyIsDB
<1>6. Inv'
  BY <1>2, <1>3, <1>4, <1>5, StepInv
<1>7. Atomic!Return(c)
  <2>1. [x \in Clients |-> client'[x].op] = [[x \in Clients |-> client[x].op] EXCEPT ![c] = None]
    BY <1>2, <1>3, NewCall
  <2> QED BY <2>1 DEF Atomic!Return
<1> QED BY <1>6, <1>7 DEF Atomic!Next

\* The locks of a section are released, and the next one begins.
LEMMA NextSection ==
    ASSUME Inv, NEW c \in Clients, ReleaseLocks(c), client[c].pc < Last(c)
    PROVE  Inv' /\ Same
<1> DEFINE k == Cl(client[c].op, client[c].pc + 1, client[c].view, "ok", client[c].failed, client[c].old)
<1>1. client[c].op # None /\ Continue(c, client[c].view, "ok") /\ Instr(c).do = "release"
  BY DEF ReleaseLocks, At, Instr
<1>u. /\ db' = db /\ late' = late /\ backend' = backend /\ load' = load
      /\ locks' = Freed(locks, c, None)
  BY DEF ReleaseLocks, Freed
<1>2. Moves(client, client', c, k)
  BY <1>1, Continues DEF Inv
<1>3. IsCl(k) /\ k.op = client[c].op /\ k.pc = client[c].pc + 1 /\ k.view = client[c].view
  BY ClIs
<1> HIDE DEF k
<1>4. backend # "dynamo" => Last(c) \in Nat /\ client[c].pc \in 1..Last(c)
  BY <1>1, RedisAt, BoltAt, Drivers
<1>5. Last(c) = Len(Program(k.op)) /\ Typed(k.op)
  BY <1>1, <1>3 DEF Last, Inv, Formed
<1>6. backend # "dynamo" => IsDB(db)' /\ Metas(db)' /\ (k.op # None => k.pc \in 1..Len(Program(k.op)))
  <2>1. backend # "dynamo" => IsDB(db)' /\ Metas(db)'
    BY <1>u DEF Inv
  <2> QED BY <1>3, <1>4, <1>5, <2>1
<1>7. ASSUME backend = "redis"
      PROVE  /\ locks' = [x \in LockNames |-> locks'[x]]
             /\ IsDB(k.view) /\ k.view.image \subseteq db.image
             /\ Knows(k.op, k.pc, k.view, db, locks', c)
             /\ \A x \in Clients \ {c} :
                  client[x].op # None /\ client[x].pc < Last(x) =>
                    Knows(client[x].op, client[x].pc, client[x].view, db, locks', x)
  <2>1. Informed(c)
    BY <1>7 DEF Inv
  <2>2. locks' = [x \in LockNames |-> locks'[x]]
    BY <1>u DEF Freed
  <2>3. /\ Advances(client[c].op, client[c].pc, Instr(c))
        /\ Knows(client[c].op, client[c].pc, client[c].view, db, locks, c)
    BY <1>1, <1>7, RedisAt
  <2>4. EndsSection(client[c].op, client[c].pc, Instr(c))
    BY <1>1, <2>3 DEF Advances
  <2>5. Knows(client[c].op, client[c].pc + 1, client[c].view, db, locks', c)
    BY <2>3, <2>4, KnowsEnd
  <2> QED BY <1>u, <1>3, <1>7, <2>1, <2>2, <2>5, OthersKnow DEF Informed
<1>8. Inv'
  BY <1>2, <1>3, <1>5, <1>6, <1>7, <1>u, StepInv
<1> QED BY <1>2, <1>3, <1>8, <1>u, MovesSame

\* A release, in the middle of an operation or at its end.
LEMMA ReleaseLocksStep ==
    ASSUME Inv, NEW c \in Clients, ReleaseLocks(c)
    PROVE  Inv' /\ (Atomic!Next \/ Same)
<1>1. CASE client[c].pc < Last(c)
  BY <1>1, NextSection
<1>2. CASE ~(client[c].pc < Last(c))
  <2>1. /\ client[c].op # None /\ client' = [client EXCEPT ![c] = Idle]
        /\ backend' = backend /\ load' = load /\ db' = db /\ late' = late
        /\ locks' = Freed(locks, c, None)
    BY <1>2 DEF ReleaseLocks, At, Freed
  <2> QED BY <2>1, ReturnStep
<1> QED BY <1>1, <1>2

\* The process of c dies.
LEMMA CrashStep ==
    ASSUME Inv, NEW c \in Clients, Crash(c)
    PROVE  Inv' /\ Atomic!Next
<1> DEFINE dead == "dead"
<1>1. /\ client[c].op # None /\ client' = [client EXCEPT ![c] = Idle]
      /\ backend' = backend /\ load' = load /\ db' = db /\ late' = late
      /\ locks' = Freed(locks, c, dead)
  BY DEF Crash, Freed
<1> HIDE DEF dead
<1> QED BY <1>1, ReturnStep

\* A step that no client takes.
LEMMA NobodyMoves ==
    ASSUME Inv, client' = client, backend' = backend, load' = load, db' = db,
           backend = "redis" =>
             /\ locks' = [l \in LockNames |-> locks'[l]]
             /\ \A c \in Clients : \A l \in LockNames : locks[l] = c => locks'[l] = c
    PROVE  Inv'
<1>1. \A c \in Clients : Last(c)' = Last(c)
  <2> TAKE c \in Clients
  <2>1. Last(c)' = Len(Program(client[c].op))
    BY SameProgram
  <2> QED BY <2>1 DEF Last
<1>2. Formed'
  BY DEF Formed, Inv
<1>3. ASSUME backend # "dynamo", NEW c \in Clients PROVE Placed(c)'
  BY <1>1, <1>3 DEF Placed, Inv
<1>4. ASSUME backend = "redis", NEW c \in Clients PROVE Informed(c)'
  <2>1. Informed(c)
    BY <1>4 DEF Inv
  <2>2. ASSUME client[c].op # None, client[c].pc < Last(c)
        PROVE  Knows(client[c].op, client[c].pc, client[c].view, db, locks', c)
    <3>1. Typed(client[c].op) /\ Knows(client[c].op, client[c].pc, client[c].view, db, locks, c)
      BY <2>1, <2>2 DEF Informed, Inv, Formed
    <3>2. \A l \in LockNames : locks[l] = c => locks'[l] = c
      BY <1>4
    <3> QED BY <3>1, <3>2, KnowsLocks
  <2> QED BY <1>1, <2>1, <2>2 DEF Informed
<1>5. backend # "dynamo" => IsDB(db)' /\ Metas(db)'
  BY DEF Inv
<1> QED BY <1>2, <1>3, <1>4, <1>5 DEF Inv

\* A lock of a dead process expires.
LEMMA LockExpiresStep ==
    ASSUME Inv, NEW l \in LockNames, LockExpires(l)
    PROVE  Inv' /\ Same
<1>1. /\ client' = client /\ backend' = backend /\ load' = load /\ db' = db /\ late' = late
      /\ locks[l] = "dead" /\ locks' = [locks EXCEPT ![l] = None]
  BY DEF LockExpires
<1>2. ASSUME backend = "redis"
      PROVE  /\ locks' = [x \in LockNames |-> locks'[x]]
             /\ \A c \in Clients : \A x \in LockNames : locks[x] = c => locks'[x] = c
  <2>1. locks = [x \in LockNames |-> locks[x]]
    BY <1>2 DEF Inv
  <2> QED BY <1>1, <2>1, MetaClientsAssumption
<1>3. Inv'
  BY <1>1, <1>2, NobodyMoves
<1> QED BY <1>1, <1>3 DEF Same

\* The date of a key passes.
LEMMA DatePassesStep ==
    ASSUME Inv, NEW k \in Keys, DatePasses(k)
    PROVE  Inv' /\ (Atomic!Next \/ Same)
<1>1. /\ client' = client /\ backend' = backend /\ load' = load /\ db' = db
      /\ locks' = locks /\ late' = late \cup {k}
  BY DEF DatePasses
<1>2. Inv'
  BY <1>1, NobodyMoves DEF Inv
<1>3. CASE backend = "dynamo"
  BY <1>1, <1>2, <1>3 DEF Same
<1>4. CASE backend # "dynamo"
  <2>1. Atomic!Expire(k)
    BY <1>1, <1>4 DEF Atomic!Expire
  <2> QED BY <1>2, <2>1 DEF Atomic!Next
<1> QED BY <1>3, <1>4

\* Every step keeps the invariant, and is a step of MetaAtomic or none.
LEMMA NextStep ==
    ASSUME Inv, [Next]_vars
    PROVE  Inv' /\ (Atomic!Next \/ Same)
<1>1. CASE UNCHANGED vars
  <2>1. /\ client' = client /\ backend' = backend /\ load' = load /\ db' = db /\ locks' = locks
        /\ late' = late
    BY <1>1 DEF vars
  <2>2. Inv'
    BY <2>1, NobodyMoves DEF Inv
  <2> QED BY <2>1, <2>2 DEF Same
<1>2. ASSUME NEW c \in Clients, NEW o \in Requests, Begin(c, o) PROVE Inv' /\ (Atomic!Next \/ Same)
  BY <1>2, BeginStep
<1>3. ASSUME NEW c \in Clients, Take(c) PROVE Inv' /\ (Atomic!Next \/ Same)
  BY <1>3, TakeStep
<1>4. ASSUME NEW c \in Clients, LockFails(c) PROVE Inv' /\ (Atomic!Next \/ Same)
  BY <1>4, LockFailsStep
<1>5. ASSUME NEW c \in Clients, ReadRow(c) PROVE Inv' /\ (Atomic!Next \/ Same)
  BY <1>5, ReadRowStep
<1>6. ASSUME NEW c \in Clients, WriteRows(c) PROVE Inv' /\ (Atomic!Next \/ Same)
  BY <1>6, WriteRowsStep
<1>7. ASSUME NEW c \in Clients, CallFails(c) PROVE Inv' /\ (Atomic!Next \/ Same)
  BY <1>7, CallFailsStep
<1>8. ASSUME NEW c \in Clients, ReleaseLocks(c) PROVE Inv' /\ (Atomic!Next \/ Same)
  BY <1>8, ReleaseLocksStep
<1>9. ASSUME NEW c \in Clients, Crash(c) PROVE Inv' /\ (Atomic!Next \/ Same)
  BY <1>9, CrashStep
<1>10. ASSUME NEW l \in LockNames, LockExpires(l) PROVE Inv' /\ (Atomic!Next \/ Same)
  BY <1>10, LockExpiresStep
<1>11. ASSUME NEW k \in Keys, DatePasses(k) PROVE Inv' /\ (Atomic!Next \/ Same)
  BY <1>11, DatePassesStep
<1> QED BY <1>1, <1>2, <1>3, <1>4, <1>5, <1>6, <1>7, <1>8, <1>9, <1>10, <1>11 DEF Next

\* The first states are first states of MetaAtomic.
LEMMA InitAtomic == Init => Atomic!Init
<1> SUFFICES ASSUME Init PROVE Atomic!Init
  OBVIOUS
<1>1. client = [c \in Clients |-> Idle] /\ db \in {EmptyDB, Setup} /\ late = {}
  BY DEF Init
<1>2. [c \in Clients |-> client[c].op] = [c \in Clients |-> None]
  BY <1>1, IdleIs
<1>3. db \in {Atomic!EmptyDB, Atomic!Setup} /\ EmptyDB = Atomic!EmptyDB
  BY <1>1, AtomicEmptyDB, AtomicSetup
<1> QED BY <1>1, <1>2, <1>3 DEF Atomic!Init

\* BoltDB and Redis implement MetaAtomic, with any number of clients, whatever calls fail and
\* whatever processes die: each change of the records is one part of some caller's operation applied
\* to the records as they are at that moment, never to rows another client has changed since they
\* were read.
THEOREM Implements == Spec => ImplementsAtomic
<1>1. Inv /\ [Next]_vars => Inv'
  BY NextStep
<1>2. Inv /\ [Next]_vars => [Atomic!Next]_<<IF backend = "dynamo" THEN EmptyDB ELSE db,
                                           IF backend = "dynamo" THEN {} ELSE late,
                                           [c \in Clients |-> client[c].op]>>
  BY NextStep DEF Same
<1> QED BY <1>1, <1>2, InitInv, InitAtomic, PTL DEF Spec, ImplementsAtomic, Atomic!Spec

-----------------------------------------------------------------------------
(* The types of the records, and what the changes do to the tags, the stars  *)
(* and the keys.                                                             *)

\* Every record of the type has the fields of EmptyMeta.
LEMMA RecordIsMeta ==
    ASSUME NEW m \in RepoRecords
    PROVE  IsMeta(m)
BY DEF RepoRecords, IsMeta, MetaOf

\* n is a record made of m that has no new tags but for images in I, and the stars of m.
Follows(m, n, I) == n \in RepoRecords /\ Tagged(n) \subseteq Tagged(m) \cup I /\ n.stars = m.stars

\* The record of a new repository.
LEMMA EmptyRecord == EmptyMeta \in RepoRecords /\ Tagged(EmptyMeta) = {} /\ EmptyMeta.stars = 0
BY DEF EmptyMeta, RepoRecords, Tagged

\* Replacing the blobs, the sizes, the referrers, the statistics or the signatures leaves the tags
\* and the stars alone (Put...).
LEMMA PutBlobs == ASSUME NEW m \in RepoRecords, NEW x \in SUBSET Images
    PROVE  Follows(m, [m EXCEPT !.blobs = x], {}) /\ [m EXCEPT !.blobs = x].blobs = x
BY DEF RepoRecords, Follows, Tagged
LEMMA PutSized == ASSUME NEW m \in RepoRecords, NEW x \in SUBSET Images
    PROVE  Follows(m, [m EXCEPT !.sized = x], {})
BY DEF RepoRecords, Follows, Tagged
LEMMA PutRefs == ASSUME NEW m \in RepoRecords, NEW x \in [Images -> [Images -> Int]]
    PROVE  Follows(m, [m EXCEPT !.refs = x], {})
BY DEF RepoRecords, Follows, Tagged
LEMMA PutStats == ASSUME NEW m \in RepoRecords, NEW x \in [Images -> Int \cup {None}]
    PROVE  Follows(m, [m EXCEPT !.stats = x], {})
BY DEF RepoRecords, Follows, Tagged
LEMMA PutSigs == ASSUME NEW m \in RepoRecords, NEW x \in [Images -> SUBSET Signatures]
    PROVE  Follows(m, [m EXCEPT !.sigs = x], {})
BY DEF RepoRecords, Follows, Tagged
LEMMA PutHist == ASSUME NEW m \in RepoRecords, NEW x \in [Tags -> Images \cup {None}]
    PROVE  Follows(m, [m EXCEPT !.hist = x], {})
BY DEF RepoRecords, Follows, Tagged
LEMMA PutTags == ASSUME NEW m \in RepoRecords, NEW x \in [Tags -> Images \cup {None}], NEW I,
                        \A t \in Tags : x[t] # None => x[t] \in I \/ x[t] = m.tags[t]
    PROVE  Follows(m, [m EXCEPT !.tags = x], I)
<1>1. [m EXCEPT !.tags = x] \in RepoRecords /\ [m EXCEPT !.tags = x].tags = x /\ [m EXCEPT !.tags = x].stars = m.stars
  BY DEF RepoRecords
<1> QED BY <1>1 DEF Follows, Tagged

\* One change after another.
LEMMA FollowsTwice ==
    ASSUME NEW m, NEW n, NEW q, NEW I, NEW J, Follows(m, n, I), Follows(n, q, J)
    PROVE  Follows(m, q, I \cup J)
BY DEF Follows

\* No change at all.
LEMMA FollowsItself ==
    ASSUME NEW m \in RepoRecords
    PROVE  Follows(m, m, {})
BY DEF Follows

\* The fields of a record.
LEMMA RecordFields ==
    ASSUME NEW m \in RepoRecords
    PROVE  /\ m.tags \in [Tags -> Images \cup {None}] /\ m.stats \in [Images -> Int \cup {None}]
           /\ m.sigs \in [Images -> SUBSET Signatures] /\ m.refs \in [Images -> [Images -> Int]]
           /\ m.stars \in Int /\ m.blobs \subseteq Images /\ m.sized \subseteq Images
           /\ m.hist \in [Tags -> Images \cup {None}]
BY DEF RepoRecords

\* What the tags reach is known.
LEMMA ReachableKnown ==
    ASSUME NEW D, NEW B
    PROVE  Reachable(D, B) \subseteq B
BY DEF Reachable

\* The count of a referrer.
LEMMA CountRefs ==
    ASSUME NEW m \in RepoRecords, NEW s \in Images, NEW i \in Images, NEW x \in Int
    PROVE  Follows(m, [m EXCEPT !.refs[s][i] = x], {})
<1>1. [m EXCEPT !.refs[s][i] = x] = [m EXCEPT !.refs = [m.refs EXCEPT ![s] = [m.refs[s] EXCEPT ![i] = x]]]
  BY RecordIsMeta DEF IsMeta, MetaOf
<1>2. [m.refs EXCEPT ![s] = [m.refs[s] EXCEPT ![i] = x]] \in [Images -> [Images -> Int]]
  BY RecordFields
<1> QED BY <1>1, <1>2, PutRefs

\* The statistics of an image.
LEMMA CountStats ==
    ASSUME NEW m \in RepoRecords, NEW i \in Images, NEW x \in Int \cup {None}
    PROVE  Follows(m, [m EXCEPT !.stats[i] = x], {})
<1>1. [m EXCEPT !.stats[i] = x] = [m EXCEPT !.stats = [m.stats EXCEPT ![i] = x]]
  BY RecordIsMeta DEF IsMeta, MetaOf
<1>2. [m.stats EXCEPT ![i] = x] \in [Images -> Int \cup {None}]
  BY RecordFields
<1> QED BY <1>1, <1>2, PutStats

\* The signatures of an image.
LEMMA ReplaceSigs ==
    ASSUME NEW m \in RepoRecords, NEW i \in Images, NEW x \in SUBSET Signatures
    PROVE  Follows(m, [m EXCEPT !.sigs[i] = x], {})
<1>1. [m EXCEPT !.sigs[i] = x] = [m EXCEPT !.sigs = [m.sigs EXCEPT ![i] = x]]
  BY RecordIsMeta DEF IsMeta, MetaOf
<1>2. [m.sigs EXCEPT ![i] = x] \in [Images -> SUBSET Signatures]
  BY RecordFields
<1> QED BY <1>1, <1>2, PutSigs

\* A push: the only new tag is the one pushed.
LEMMA SetFollows ==
    ASSUME NEW m \in RepoRecords, NEW ref \in Tags \cup {None}, NEW i \in Images
    PROVE  Follows(m, SetRepoReference(m, ref, i), {i})
<1> DEFINE counted == IF Subject[i] = None THEN m
                      ELSE [m EXCEPT !.refs[Subject[i]][i] = @ + 1]
           tagged  == IF ref = None THEN counted
                      ELSE [counted EXCEPT !.tags[ref] = i,
                                           !.hist[ref] = IF m.tags[ref] = i THEN @ ELSE i]
           stated  == [tagged EXCEPT !.stats[i] = IF @ = None THEN 0 ELSE @]
           known   == [stated EXCEPT !.blobs = @ \cup {i}]
<1>1. Follows(m, counted, {})
  <2>1. CASE Subject[i] = None
    BY <2>1, FollowsItself
  <2>2. CASE Subject[i] # None
    <3>1. Subject[i] \in Images
      BY <2>2, RepoMetaAssumption
    <3>2. m.refs[Subject[i]][i] + 1 \in Int
      BY <3>1, RecordFields
    <3> QED BY <2>2, <3>1, <3>2, CountRefs
  <2> QED BY <2>1, <2>2
<1> HIDE DEF counted
<1>c. counted \in RepoRecords
  BY <1>1 DEF Follows
<1>2. Follows(counted, tagged, {i})
  <2>1. CASE ref = None
    BY <2>1, <1>c, FollowsItself DEF Follows
  <2>2. CASE ref # None
    <3> DEFINE tg == [counted.tags EXCEPT ![ref] = i]
               hs == [counted.hist EXCEPT ![ref] = IF m.tags[ref] = i THEN counted.hist[ref] ELSE i]
               one == [counted EXCEPT !.tags = tg]
    <3>0. ref \in Tags /\ tg \in [Tags -> Images \cup {None}] /\ hs \in [Tags -> Images \cup {None}]
          /\ \A t \in Tags : tg[t] # None => tg[t] \in {i} \/ tg[t] = counted.tags[t]
      BY <1>c, <2>2, RecordFields
    <3>1. Follows(counted, one, {i})
      BY <3>0, <1>c, PutTags
    <3>2. tagged = [one EXCEPT !.hist = hs]
      <4>1. IsMeta(counted)
        BY <1>c, RecordIsMeta
      <4>2. [counted EXCEPT !.tags[ref] = i] = one /\ one.hist = counted.hist
        BY <4>1 DEF IsMeta, MetaOf
      <4>3. tagged = [[counted EXCEPT !.tags[ref] = i] EXCEPT !.hist[ref] = IF m.tags[ref] = i THEN @ ELSE i]
        BY <2>2
      <4>4. IsMeta(one)
        BY <4>1, WithTags
      <4> HIDE DEF one, tagged
      <4>5. [one EXCEPT !.hist[ref] = IF m.tags[ref] = i THEN @ ELSE i] = [one EXCEPT !.hist = hs]
        BY <4>2, <4>4 DEF IsMeta, MetaOf
      <4> QED BY <4>2, <4>3, <4>5
    <3> HIDE DEF one, tg, hs, tagged
    <3>3. Follows(one, tagged, {})
      BY <3>0, <3>1, <3>2, PutHist DEF Follows
    <3> QED BY <3>1, <3>3 DEF Follows
  <2> QED BY <2>1, <2>2
<1> HIDE DEF tagged
<1>t. tagged \in RepoRecords
  BY <1>2 DEF Follows
<1>3. Follows(tagged, stated, {})
  <2>1. (IF tagged.stats[i] = None THEN 0 ELSE tagged.stats[i]) \in Int \cup {None}
    BY <1>t, RecordFields
  <2> QED BY <1>t, <2>1, CountStats
<1> HIDE DEF stated
<1>4. Follows(stated, known, {})
  <2>0. stated \in RepoRecords
    BY <1>3 DEF Follows
  <2>1. stated.blobs \cup {i} \in SUBSET Images
    BY <2>0, RecordFields
  <2> QED BY <2>0, <2>1, PutBlobs
<1> HIDE DEF known
<1>5. Follows(known, recalculateAggregateFields(known), {})
  <2>0. known \in RepoRecords
    BY <1>4 DEF Follows
  <2>1. Reachable(Tagged(known), known.blobs) \in SUBSET Images
    BY <2>0, RecordFields, ReachableKnown
  <2> QED BY <2>0, <2>1, PutSized DEF recalculateAggregateFields
<1>6. SetRepoReference(m, ref, i) \in {known, recalculateAggregateFields(known)}
  BY DEF SetRepoReference, AddImageMetaToRepoMeta, known, stated, tagged, counted
<1> QED BY <1>1, <1>2, <1>3, <1>4, <1>5, <1>6 DEF Follows

\* A removal adds no tag.
LEMMA RemoveFollows ==
    ASSUME NEW m \in RepoRecords, NEW ref \in Tags \cup {None}, NEW i \in Images
    PROVE  Follows(m, RemoveRepoReference(m, ref, i), {})
<1> DEFINE away      == IF ref # None THEN {ref} ELSE {t \in Tags : m.tags[t] = i}
           uncounted == IF Subject[i] = None THEN m
                        ELSE [m EXCEPT !.refs[Subject[i]][i] =
                                IF @ = 0 \/ ref = None THEN 0 ELSE @ - 1]
           untagged  == [uncounted EXCEPT
                           !.tags = [t \in Tags |-> IF t \in away THEN None ELSE @[t]],
                           !.hist = [t \in Tags |-> IF t \in away THEN None ELSE @[t]]]
           forgotten == IF i \in Tagged(untagged) THEN untagged
                        ELSE [untagged EXCEPT !.stats[i] = None, !.sigs[i] = {},
                                              !.refs[i] = [j \in Images |-> 0]]
<1>1. Follows(m, uncounted, {})
  <2>1. CASE Subject[i] = None
    BY <2>1, FollowsItself
  <2>2. CASE Subject[i] # None
    <3> DEFINE x == IF m.refs[Subject[i]][i] = 0 \/ ref = None THEN 0 ELSE m.refs[Subject[i]][i] - 1
    <3>1. Subject[i] \in Images
      BY <2>2, RepoMetaAssumption
    <3>2. x \in Int
      BY <3>1, RecordFields
    <3>3. uncounted = [m EXCEPT !.refs[Subject[i]][i] = x]
      BY <2>2
    <3> HIDE DEF x, uncounted
    <3> QED BY <3>1, <3>2, <3>3, CountRefs
  <2> QED BY <2>1, <2>2
<1> HIDE DEF uncounted, away
<1>c. uncounted \in RepoRecords
  BY <1>1 DEF Follows
<1>2. Follows(uncounted, untagged, {})
  <2> DEFINE tg == [t \in Tags |-> IF t \in away THEN None ELSE uncounted.tags[t]]
             hs == [t \in Tags |-> IF t \in away THEN None ELSE uncounted.hist[t]]
             one == [uncounted EXCEPT !.tags = tg]
  <2>0. tg \in [Tags -> Images \cup {None}] /\ hs \in [Tags -> Images \cup {None}]
        /\ \A t \in Tags : tg[t] # None => tg[t] \in {} \/ tg[t] = uncounted.tags[t]
    BY <1>c, RecordFields
  <2>1. Follows(uncounted, one, {})
    BY <2>0, <1>c, PutTags
  <2>2. one.hist = uncounted.hist
    BY <1>c, RecordIsMeta DEF IsMeta, MetaOf
  <2>3. untagged = [one EXCEPT !.hist = [t \in Tags |-> IF t \in away THEN None ELSE @[t]]]
    OBVIOUS
  <2> HIDE DEF one, untagged
  <2>4. untagged = [one EXCEPT !.hist = hs]
    BY <2>2, <2>3
  <2> HIDE DEF hs, tg
  <2>5. Follows(one, untagged, {})
    BY <2>0, <2>1, <2>4, PutHist DEF Follows
  <2> QED BY <2>1, <2>5 DEF Follows
<1> HIDE DEF untagged
<1>t. untagged \in RepoRecords
  BY <1>2 DEF Follows
<1>3. Follows(untagged, forgotten, {})
  <2> DEFINE a == [untagged EXCEPT !.stats[i] = None]
             b == [a EXCEPT !.sigs[i] = {}]
             d == [b EXCEPT !.refs[i] = [j \in Images |-> 0]]
  <2>1. Follows(untagged, a, {})
    BY <1>t, CountStats
  <2>e. forgotten \in {untagged, d}
    OBVIOUS
  <2> HIDE DEF a, forgotten
  <2>2. Follows(a, b, {})
    BY <2>1, ReplaceSigs DEF Follows
  <2> HIDE DEF b
  <2>3. Follows(b, d, {})
    <3>0. b \in RepoRecords
      BY <2>2 DEF Follows
    <3>1. [b.refs EXCEPT ![i] = [j \in Images |-> 0]] \in [Images -> [Images -> Int]]
      BY <3>0, RecordFields
    <3>2. d = [b EXCEPT !.refs = [b.refs EXCEPT ![i] = [j \in Images |-> 0]]]
      BY <3>0, RecordIsMeta DEF IsMeta, MetaOf
    <3> HIDE DEF d
    <3> QED BY <3>0, <3>1, <3>2, PutRefs
  <2> HIDE DEF d
  <2> QED BY <2>1, <2>2, <2>3, <2>e, <1>t, FollowsItself DEF Follows
<1> HIDE DEF forgotten
<1>f. forgotten \in RepoRecords
  BY <1>3 DEF Follows
<1>4. Follows(forgotten, RemoveImageFromRepoMeta(forgotten), {})
  <2> DEFINE left == Reachable(Tagged(forgotten), forgotten.blobs)
             some == [forgotten EXCEPT !.blobs = left]
  <2>0. left \in SUBSET Images
    BY <1>f, RecordFields, ReachableKnown
  <2>q. RemoveImageFromRepoMeta(forgotten) = [forgotten EXCEPT !.blobs = left, !.sized = left]
    BY DEF RemoveImageFromRepoMeta
  <2> HIDE DEF left
  <2>1. Follows(forgotten, some, {})
    BY <1>f, <2>0, PutBlobs
  <2>2. [forgotten EXCEPT !.blobs = left, !.sized = left] = [some EXCEPT !.sized = left]
    OBVIOUS
  <2> HIDE DEF some
  <2>3. Follows(some, [some EXCEPT !.sized = left], {})
    BY <2>0, <2>1, PutSized DEF Follows
  <2> QED BY <2>1, <2>2, <2>3, <2>q DEF Follows
<1>5. RemoveRepoReference(m, ref, i) = RemoveImageFromRepoMeta(forgotten)
  BY DEF RemoveRepoReference, forgotten, untagged, uncounted, away
<1> QED BY <1>1, <1>2, <1>3, <1>4, <1>5 DEF Follows

\* A parse starts with fewer tags.
LEMMA ResetFollows ==
    ASSUME NEW m \in RepoRecords, NEW keep
    PROVE  Follows(m, ResetRepoReferences(m, keep), {})
<1> DEFINE tg == [t \in Tags |-> IF t \in keep THEN m.tags[t] ELSE None]
           sg == EmptyMeta.sigs
           rf == EmptyMeta.refs
           one == [m EXCEPT !.tags = tg]
           two == [one EXCEPT !.sigs = sg]
           three == [two EXCEPT !.refs = rf]
<1>0. /\ tg \in [Tags -> Images \cup {None}]
      /\ \A t \in Tags : tg[t] # None => tg[t] \in {} \/ tg[t] = m.tags[t]
      /\ sg \in [Images -> SUBSET Signatures] /\ rf \in [Images -> [Images -> Int]]
  BY RecordFields, EmptyRecord
<1>q. ResetRepoReferences(m, keep) = [three EXCEPT !.sized = {}]
  BY DEF ResetRepoReferences
<1> HIDE DEF tg, sg, rf
<1>1. Follows(m, one, {})
  BY <1>0, PutTags
<1> HIDE DEF one
<1>2. Follows(one, two, {})
  BY <1>0, <1>1, PutSigs DEF Follows
<1> HIDE DEF two
<1>3. Follows(two, three, {})
  BY <1>0, <1>2, PutRefs DEF Follows
<1> HIDE DEF three
<1>4. Follows(three, [three EXCEPT !.sized = {}], {})
  BY <1>3, PutSized DEF Follows
<1> QED BY <1>1, <1>2, <1>3, <1>4, <1>q DEF Follows

\* The signatures and the downloads leave the tags alone.
LEMMA SignFollows ==
    ASSUME NEW m \in RepoRecords, NEW i \in Images, NEW s \in Images
    PROVE  Follows(m, AddManifestSignature(m, i, s), {})
<1> DEFINE replaced == IF s \in CosignTags THEN CosignTags ELSE {}
           x == {g \in m.sigs[i] : g.sig \notin replaced} \cup {[sig |-> s, trusted |-> FALSE]}
<1>0. [sig |-> s, trusted |-> FALSE] \in Signatures
  BY DEF Signatures
<1>1. x \in SUBSET Signatures
  BY <1>0, RecordFields
<1>2. AddManifestSignature(m, i, s) \in {m, [m EXCEPT !.sigs[i] = x]}
  BY DEF AddManifestSignature
<1> HIDE DEF x
<1> QED BY <1>1, <1>2, ReplaceSigs, FollowsItself

\* Removing a signature touches the signatures only.
LEMMA UnsignFollows ==
    ASSUME NEW m \in RepoRecords, NEW i \in Images, NEW s
    PROVE  Follows(m, DeleteSignature(m, i, s), {})
<1> DEFINE x == {g \in m.sigs[i] : g.sig # s}
<1>1. x \in SUBSET Signatures
  BY RecordFields
<1>2. DeleteSignature(m, i, s) = [m EXCEPT !.sigs[i] = x]
  BY DEF DeleteSignature
<1> HIDE DEF x
<1> QED BY <1>1, <1>2, ReplaceSigs

\* So does checking them.
LEMMA ValidityFollows ==
    ASSUME NEW m \in RepoRecords, NEW i \in Images, NEW T
    PROVE  Follows(m, UpdateSignaturesValidity(m, i, T), {})
<1> DEFINE x == {[g EXCEPT !.trusted = (g.sig \in T)] : g \in m.sigs[i]}
<1>1. x \in SUBSET Signatures
  <2>1. \A g \in Signatures : \A b \in BOOLEAN : [g EXCEPT !.trusted = b] \in Signatures
    BY DEF Signatures
  <2>2. m.sigs[i] \subseteq Signatures
    BY RecordFields
  <2>3. ASSUME NEW g \in m.sigs[i] PROVE [g EXCEPT !.trusted = (g.sig \in T)] \in Signatures
    <3> DEFINE b == g.sig \in T
    <3>1. b \in BOOLEAN
      OBVIOUS
    <3> HIDE DEF b
    <3>2. [g EXCEPT !.trusted = b] \in Signatures
      BY <2>1, <2>2, <2>3, <3>1
    <3> QED BY <3>2 DEF b
  <2> QED BY <2>3
<1>2. UpdateSignaturesValidity(m, i, T) = [m EXCEPT !.sigs[i] = x]
  BY DEF UpdateSignaturesValidity
<1> HIDE DEF x
<1> QED BY <1>1, <1>2, ReplaceSigs

\* A download touches the statistics only.
LEMMA DownloadFollows ==
    ASSUME NEW m \in RepoRecords, NEW ref \in Tags \cup {None}, NEW i \in Images,
           DownloadedImage(m, ref, i) # None
    PROVE  Follows(m, UpdateStatsOnDownload(m, DownloadedImage(m, ref, i)), {})
<1> DEFINE d == DownloadedImage(m, ref, i)
           x == IF m.stats[d] = None THEN 1 ELSE m.stats[d] + 1
<1>1. d \in Images
  BY RecordFields DEF DownloadedImage
<1> HIDE DEF d
<1>2. x \in Int \cup {None}
  BY <1>1, RecordFields
<1>3. UpdateStatsOnDownload(m, d) = [m EXCEPT !.stats[d] = x]
  BY DEF UpdateStatsOnDownload
<1> HIDE DEF x
<1> QED BY <1>1, <1>2, <1>3, CountStats DEF d

\* A star changes the stars only.
LEMMA PutStars == ASSUME NEW m \in RepoRecords, NEW x \in Int
    PROVE  LET n == [m EXCEPT !.stars = x] IN n \in RepoRecords /\ Tagged(n) = Tagged(m) /\ n.stars = x
BY DEF RepoRecords, Tagged
LEMMA StarRecord ==
    ASSUME NEW m \in RepoRecords
    PROVE  /\ AddStar(m) \in RepoRecords /\ Tagged(AddStar(m)) = Tagged(m) /\ AddStar(m).stars = m.stars + 1
           /\ RemoveStar(m) \in RepoRecords /\ Tagged(RemoveStar(m)) = Tagged(m) /\ RemoveStar(m).stars = m.stars - 1
<1>1. m.stars + 1 \in Int /\ m.stars - 1 \in Int
  BY RecordFields
<1> QED BY <1>1, PutStars DEF AddStar, RemoveStar

-----------------------------------------------------------------------------
(* The record of a user.                                                     *)

\* The repositories a user starred; whether the record of a user names a key.
Starred(x)  == IF x = None THEN {} ELSE x.starred
Named(x, k) == x # None /\ x.keys[k] # None /\ x.keys[k].named

\* A record made of x with the same stars, and with a name for every key that had one, but for
\* the key in K.
UserFollows(x, y, K) ==
    /\ y \in UserRecords /\ Starred(y) = Starred(x)
    /\ \A k \in Keys \ K : Named(x, k) => Named(y, k)

\* The fields of the record of a user.
LEMMA UserFields ==
    ASSUME NEW x \in UserRecords
    PROVE  /\ x # None /\ x.starred \subseteq Repos /\ x.marked \subseteq Repos /\ x.groups \in Groups \cup {None}
           /\ x.keys \in [Keys -> KeyEntries \cup {None}]
BY MetaRecordsAssumption DEF UserRecords

\* The record of a new user.
LEMMA NewUserRecord ==
    NewUser \in UserRecords /\ NewUser.starred = {} /\ \A k \in Keys : NewUser.keys[k] = None
BY DEF NewUser, UserRecords

\* What User reads.
LEMMA UserIs ==
    ASSUME NEW v, NEW u \in Users, v.user[u] \in UserRecords \cup {None}
    PROVE  /\ User(v, u) \in UserRecords /\ Starred(User(v, u)) = Starred(v.user[u])
           /\ \A k \in Keys : Named(User(v, u), k) = Named(v.user[u], k)
<1>1. CASE v.user[u] = None
  BY <1>1, NewUserRecord, UserFields DEF User, Starred, Named
<1>2. CASE v.user[u] # None
  BY <1>2 DEF User
<1> QED BY <1>1, <1>2

\* A bookmark (ToggleBookmarkRepo).
LEMMA MarkFollows ==
    ASSUME NEW x \in UserRecords, NEW r \in Repos
    PROVE  UserFollows(x, [x EXCEPT !.marked = Toggle(r, @)], {})
<1>1. [x EXCEPT !.marked = Toggle(r, @)] \in UserRecords
  BY DEF UserRecords, Toggle
<1>2. [x EXCEPT !.marked = Toggle(r, @)].starred = x.starred /\ [x EXCEPT !.marked = Toggle(r, @)].keys = x.keys
  BY DEF UserRecords
<1> HIDE DEF Toggle
<1> QED BY <1>1, <1>2, UserFields DEF UserFollows, Starred, Named

\* The groups (SetUserGroups).
LEMMA GroupsFollow ==
    ASSUME NEW x \in UserRecords, NEW g \in Groups
    PROVE  UserFollows(x, [x EXCEPT !.groups = g], {})
<1>1. [x EXCEPT !.groups = g] \in UserRecords
  BY DEF UserRecords
<1>2. [x EXCEPT !.groups = g].starred = x.starred /\ [x EXCEPT !.groups = g].keys = x.keys
  BY DEF UserRecords
<1> QED BY <1>1, <1>2, UserFields DEF UserFollows, Starred, Named

\* The entries of the keys.
LEMMA KeysFollow ==
    ASSUME NEW x \in UserRecords, NEW ks \in [Keys -> KeyEntries \cup {None}], NEW K,
           \A k \in Keys \ K : x.keys[k] # None /\ x.keys[k].named => ks[k] # None /\ ks[k].named
    PROVE  UserFollows(x, [x EXCEPT !.keys = ks], K) /\ [x EXCEPT !.keys = ks].keys = ks
<1>1. [x EXCEPT !.keys = ks] \in UserRecords
  BY DEF UserRecords
<1>2. [x EXCEPT !.keys = ks].starred = x.starred /\ [x EXCEPT !.keys = ks].keys = ks
  BY DEF UserRecords
<1> QED BY <1>1, <1>2, UserFields DEF UserFollows, Starred, Named

\* One entry.
LEMMA EntryFollows ==
    ASSUME NEW x \in UserRecords, NEW k \in Keys, NEW e \in KeyEntries \cup {None}, NEW K,
           k \in K \/ (x.keys[k] # None /\ x.keys[k].named => e # None /\ e.named)
    PROVE  UserFollows(x, [x EXCEPT !.keys[k] = e], K) /\ [x EXCEPT !.keys[k] = e].keys[k] = e
<1> DEFINE ks == [x.keys EXCEPT ![k] = e]
<1>1. ks \in [Keys -> KeyEntries \cup {None}] /\ ks[k] = e /\ \A j \in Keys : j # k => ks[j] = x.keys[j]
  BY UserFields
<1>2. [x EXCEPT !.keys[k] = e] = [x EXCEPT !.keys = ks]
  BY DEF UserRecords
<1> HIDE DEF ks
<1>3. \A j \in Keys \ K : x.keys[j] # None /\ x.keys[j].named => ks[j] # None /\ ks[j].named
  BY <1>1
<1> DEFINE y == [x EXCEPT !.keys = ks]
<1>4. UserFollows(x, y, K) /\ y.keys = ks
  BY <1>1, <1>3, KeysFollow, Zenon
<1>5. [x EXCEPT !.keys[k] = e] = y
  BY <1>2
<1> HIDE DEF y
<1> QED BY <1>1, <1>4, <1>5

\* A star (ToggleStarRepo).
LEMMA StarUser ==
    ASSUME NEW x \in UserRecords, NEW r \in Repos
    PROVE  LET y == [x EXCEPT !.starred = Toggle(r, @)] IN
           y \in UserRecords /\ y.starred = Toggle(r, x.starred) /\ y.keys = x.keys
<1>1. Toggle(r, x.starred) \subseteq Repos
  BY UserFields DEF Toggle
<1> QED BY <1>1 DEF UserRecords

\* The entry that reading a key gives.
LEMMA KeyEntryIs ==
    ASSUME NEW v, NEW o, o.user \in Users, o.key \in Keys, v.user[o.user] \in UserRecords \cup {None}
    PROVE  /\ KeyEntry(v, o) \in KeyEntries
           /\ KeyEntry(v, o).named = Named(v.user[o.user], o.key)
<1> DEFINE x == User(v, o.user)
<1>1. x \in UserRecords /\ Named(x, o.key) = Named(v.user[o.user], o.key)
  BY UserIs
<1>2. KeyEntry(v, o) = IF x.keys[o.key] = None THEN [named |-> FALSE, expired |-> FALSE] ELSE x.keys[o.key]
  BY DEF KeyEntry
<1> HIDE DEF x
<1>3. x.keys[o.key] \in KeyEntries \cup {None} /\ x # None
  BY <1>1, UserFields
<1>4. CASE x.keys[o.key] = None
  <2>1. KeyEntry(v, o) = [named |-> FALSE, expired |-> FALSE]
    BY <1>2, <1>4
  <2>2. KeyEntry(v, o) \in KeyEntries /\ KeyEntry(v, o).named = FALSE
    BY <2>1 DEF KeyEntries
  <2>3. Named(x, o.key) = FALSE
    BY <1>4, Zenon DEF Named
  <2> QED BY <1>1, <2>2, <2>3
<1>5. CASE x.keys[o.key] # None
  <2>1. KeyEntry(v, o) = x.keys[o.key] /\ x.keys[o.key] \in KeyEntries
    BY <1>2, <1>3, <1>5
  <2>2. x.keys[o.key].named \in BOOLEAN
    BY <2>1 DEF KeyEntries
  <2>3. Named(x, o.key) = x.keys[o.key].named
    BY <1>3, <1>5, <2>2, Zenon DEF Named
  <2> QED BY <1>1, <2>1, <2>3
<1> QED BY <1>4, <1>5

-----------------------------------------------------------------------------
(* The tables, with rows of their types.                                     *)

\* Every row has its type.
TypedRepos(v) == \A r \in Repos : v.repo[r] \in RepoRecords \cup {None} /\ v.blobs[r] \in SUBSET Images
TypedUsers(v) == \A u \in Users : v.user[u] \in UserRecords \cup {None}
TypedKeys(v)  == \A k \in Keys : v.key[k] \in Users \cup {None}
TypedDB(v)    == IsDB(v) /\ TypedRepos(v) /\ TypedUsers(v) /\ TypedKeys(v)

\* The images a record tags, and its stars.
TagsOf(m)  == IF m = None THEN {} ELSE Tagged(m)
StarsOf(m) == IF m = None THEN 0 ELSE m.stars

\* What a change of one record of a repository makes of the tables.
RepoStep(v, p, I) ==
    /\ TypedDB(p) /\ p.image = v.image /\ p.user = v.user /\ p.key = v.key
    /\ \A r \in Repos : TagsOf(p.repo[r]) \subseteq TagsOf(v.repo[r]) \cup I /\ StarsOf(p.repo[r]) = StarsOf(v.repo[r])

\* What a change of one record of a user makes of them.
UserStep(v, p, K) ==
    /\ TypedDB(p) /\ p.image = v.image /\ p.repo = v.repo /\ p.blobs = v.blobs /\ p.key = v.key
    /\ \A u \in Users : Starred(p.user[u]) = Starred(v.user[u])
    /\ \A u \in Users, k \in Keys \ K : Named(v.user[u], k) => Named(p.user[u], k)

\* A record is not None.
LEMMA RecordsExist == None \notin RepoRecords /\ None \notin UserRecords /\ None \notin KeyEntries
BY RepoMetaAssumption, MetaRecordsAssumption

\* What Repo reads.
LEMMA RepoIs ==
    ASSUME NEW v, TypedDB(v), NEW r \in Repos
    PROVE  /\ Repo(v, r) \in RepoRecords /\ Tagged(Repo(v, r)) = TagsOf(v.repo[r])
           /\ Repo(v, r).stars = StarsOf(v.repo[r]) /\ Repo(v, r).blobs = v.blobs[r]
<1> DEFINE m == IF v.repo[r] = None THEN EmptyMeta ELSE v.repo[r]
           x == v.blobs[r]
<1>1. m \in RepoRecords /\ Tagged(m) = TagsOf(v.repo[r]) /\ m.stars = StarsOf(v.repo[r])
  BY EmptyRecord DEF TypedDB, TypedRepos, TagsOf, StarsOf
<1>2. x \in SUBSET Images
  BY DEF TypedDB, TypedRepos
<1>3. Repo(v, r) = [m EXCEPT !.blobs = x]
  BY DEF Repo
<1> HIDE DEF m, x
<1>4. /\ [m EXCEPT !.blobs = x] \in RepoRecords /\ [m EXCEPT !.blobs = x].tags = m.tags
      /\ [m EXCEPT !.blobs = x].stars = m.stars /\ [m EXCEPT !.blobs = x].blobs = x
  BY <1>1, <1>2 DEF RepoRecords
<1> QED BY <1>1, <1>3, <1>4 DEF Tagged, x

\* A record of r is replaced by one that follows it.
LEMMA RepoFollows ==
    ASSUME NEW v, TypedDB(v), NEW r \in Repos, NEW n, NEW I, Follows(Repo(v, r), n, I)
    PROVE  RepoStep(v, PutRepo(v, r, n), I)
<1> DEFINE p == PutRepo(v, r, n)
           e == [n EXCEPT !.blobs = {}]
<1>1. RepoPut(p, v, r, e, n.blobs)
  BY PutRepoRows DEF TypedDB
<1>2. n \in RepoRecords /\ Tagged(n) \subseteq TagsOf(v.repo[r]) \cup I /\ n.stars = StarsOf(v.repo[r])
  BY RepoIs DEF Follows
<1>3. e \in RepoRecords /\ e.tags = n.tags /\ e.stars = n.stars /\ n.blobs \in SUBSET Images
  BY <1>2 DEF RepoRecords
<1>4. TagsOf(e) = Tagged(n) /\ StarsOf(e) = n.stars
  BY <1>3, RecordsExist DEF TagsOf, StarsOf, Tagged
<1> HIDE DEF p, e
<1>5. TypedDB(p)
  BY <1>1, <1>3 DEF RepoPut, TypedDB, TypedRepos, TypedUsers, TypedKeys
<1>6. ASSUME NEW s \in Repos
      PROVE  TagsOf(p.repo[s]) \subseteq TagsOf(v.repo[s]) \cup I /\ StarsOf(p.repo[s]) = StarsOf(v.repo[s])
  <2>1. CASE s = r
    BY <2>1, <1>1, <1>2, <1>4 DEF RepoPut
  <2>2. CASE s # r
    BY <2>2, <1>1 DEF RepoPut
  <2> QED BY <2>1, <2>2
<1>7. RepoStep(v, p, I)
  BY <1>1, <1>5, <1>6 DEF RepoStep, RepoPut
<1> QED BY <1>7 DEF p

\* A record of u is replaced by one that follows it.
LEMMA UserFollowed ==
    ASSUME NEW v, TypedDB(v), NEW u \in Users, NEW y, NEW K, UserFollows(User(v, u), y, K)
    PROVE  UserStep(v, PutUser(v, u, y), K)
<1> DEFINE p == PutUser(v, u, y)
<1>1. UserPut(p, v, u, y)
  BY PutUserRows DEF TypedDB
<1>2. /\ y \in UserRecords /\ Starred(y) = Starred(v.user[u])
      /\ \A k \in Keys \ K : Named(v.user[u], k) => Named(y, k)
  BY UserIs DEF UserFollows, TypedDB, TypedUsers
<1> HIDE DEF p
<1>3. TypedDB(p)
  BY <1>1, <1>2 DEF UserPut, TypedDB, TypedRepos, TypedUsers, TypedKeys
<1>4. ASSUME NEW s \in Users
      PROVE  Starred(p.user[s]) = Starred(v.user[s]) /\ \A k \in Keys \ K : Named(v.user[s], k) => Named(p.user[s], k)
  BY <1>1, <1>2 DEF UserPut
<1>5. UserStep(v, p, K)
  BY <1>1, <1>3, <1>4 DEF UserStep, UserPut
<1> QED BY <1>5 DEF p

\* A key is given to a user or taken away.
LEMMA KeyTyped ==
    ASSUME NEW v, TypedDB(v), NEW k \in Keys, NEW x \in Users \cup {None}
    PROVE  /\ TypedDB([v EXCEPT !.key[k] = x]) /\ KeyPut([v EXCEPT !.key[k] = x], v, k, x)
<1> DEFINE p == [v EXCEPT !.key[k] = x]
<1>1. KeyPut(p, v, k, x)
  BY PutKeyRows DEF TypedDB
<1> HIDE DEF p
<1>2. TypedDB(p)
  BY <1>1 DEF KeyPut, TypedDB, TypedRepos, TypedUsers, TypedKeys
<1> QED BY <1>1, <1>2 DEF p

\* The data of an image is stored.
LEMMA ImageTyped ==
    ASSUME NEW v, TypedDB(v), NEW i \in Images
    PROVE  /\ TypedDB([v EXCEPT !.image = @ \cup {i}]) /\ ImagePut([v EXCEPT !.image = @ \cup {i}], v, i)
<1> DEFINE p == [v EXCEPT !.image = @ \cup {i}]
<1>1. ImagePut(p, v, i)
  BY PutImageRows DEF TypedDB
<1> HIDE DEF p
<1>2. TypedDB(p)
  BY <1>1 DEF ImagePut, TypedDB, TypedRepos, TypedUsers, TypedKeys
<1> QED BY <1>1, <1>2 DEF p

-----------------------------------------------------------------------------
(* What each change makes of the tables.                                     *)

\* The arguments of the change fx.
FxArgs(fx, o) ==
    /\ fx \in {"set", "remove", "download"} => o.ref \in Tags \cup {None} /\ o.img \in Images
    /\ fx \in {"sign", "unsign", "validity"} => o.img \in Images /\ SigOf[o.img] \in Images
    /\ fx = "groups" => o.ref \in Groups
    /\ fx = "bookmark" => o.repo \in Repos
    /\ fx \in {"addkey", "delkey", "expired", "lastused"} => o.key \in Keys /\ o.user = Owner[o.key]

\* The images and the tags: no image is lost, and a new tag is the one of the push.
ImagesMoved(fx, o, v, p) ==
    /\ v.image \subseteq p.image
    /\ fx \in {"image", "set"} => o.img \in p.image
    /\ \A r \in Repos : TagsOf(p.repo[r]) \subseteq TagsOf(v.repo[r]) \cup (IF fx = "set" THEN {o.img} ELSE {})

\* The stars: of the repository and of the user together.
StarsMoved(fx, o, v, p) ==
    /\ \A r \in Repos : (fx \in {"star", "drop"} /\ r = o.repo) \/ StarsOf(p.repo[r]) = StarsOf(v.repo[r])
    /\ \A u \in Users : (fx = "star" /\ u = o.user) \/ Starred(p.user[u]) = Starred(v.user[u])
    /\ fx = "star" =>
         /\ Starred(p.user[o.user]) = Toggle(o.repo, Starred(v.user[o.user]))
         /\ StarsOf(p.repo[o.repo]) = IF o.repo \in Starred(v.user[o.user])
                                      THEN StarsOf(v.repo[o.repo]) - 1 ELSE StarsOf(v.repo[o.repo]) + 1

\* The keys: only the key that is created or deleted changes.
KeysMoved(fx, o, v, p) ==
    /\ \A k \in Keys : (fx \in {"addkey", "delkey"} /\ k = o.key) \/ p.key[k] = v.key[k]
    /\ \A u \in Users, k \in Keys :
         (fx = "delkey" /\ k = o.key) \/ (Named(v.user[u], k) => Named(p.user[u], k))
    /\ fx = "addkey" => p.key[o.key] = o.user /\ Named(p.user[o.user], o.key)
    /\ fx = "delkey" => p.key[o.key] = None

\* All of it.
Moved(fx, o, v, p) ==
    TypedDB(p) /\ ImagesMoved(fx, o, v, p) /\ StarsMoved(fx, o, v, p) /\ KeysMoved(fx, o, v, p)

\* A change of the record of one repository.
LEMMA RepoMoved ==
    ASSUME NEW v, NEW p, NEW o, NEW fx, fx \notin {"set", "image", "star", "addkey", "delkey"}, RepoStep(v, p, {})
    PROVE  Moved(fx, o, v, p)
BY DEF RepoStep, Moved, ImagesMoved, StarsMoved, KeysMoved

\* A change of the record of one user.
LEMMA UserMoved ==
    ASSUME NEW v, NEW p, NEW o, NEW fx, fx \notin {"set", "image", "star", "addkey", "delkey"}, UserStep(v, p, {})
    PROVE  Moved(fx, o, v, p)
BY DEF UserStep, Moved, ImagesMoved, StarsMoved, KeysMoved

\* Storing the data of an image.
LEMMA ImageMoves ==
    ASSUME NEW v, TypedDB(v), NEW o, NEW past, Fits("image", o)
    PROVE  Moved("image", o, v, Apply("image", o, v, past))
<1> DEFINE p == [v EXCEPT !.image = @ \cup {o.img}]
<1>1. o.img \in Images
  BY DEF Fits
<1>2. TypedDB(p) /\ ImagePut(p, v, o.img)
  BY <1>1, ImageTyped
<1> HIDE DEF p
<1>3. Moved("image", o, v, p)
  BY <1>2 DEF ImagePut, Moved, ImagesMoved, StarsMoved, KeysMoved
<1> QED BY <1>3, ApplyImage DEF p

\* A push.
LEMMA SetMoves ==
    ASSUME NEW v, TypedDB(v), NEW o, NEW past, Fits("set", o), FxArgs("set", o)
    PROVE  Moved("set", o, v, Apply("set", o, v, past))
<1> DEFINE q == PutRepo(v, o.repo, SetRepoReference(Repo(v, o.repo), o.ref, o.img))
           p == [q EXCEPT !.image = @ \cup {o.img}]
<1>1. o.repo \in Repos /\ o.img \in Images /\ o.ref \in Tags \cup {None}
  BY DEF Fits, FxArgs, RepoFx
<1>2. RepoStep(v, q, {o.img})
  BY <1>1, RepoIs, SetFollows, RepoFollows
<1> HIDE DEF q
<1>3. TypedDB(p) /\ ImagePut(p, q, o.img)
  BY <1>1, <1>2, ImageTyped DEF RepoStep
<1> HIDE DEF p
<1>4. Moved("set", o, v, p)
  BY <1>2, <1>3 DEF ImagePut, RepoStep, Moved, ImagesMoved, StarsMoved, KeysMoved
<1> QED BY <1>4, ApplySet DEF p, q

\* The changes of one record that are no push.
LEMMA RecordMoves ==
    ASSUME NEW v, TypedDB(v), NEW o, NEW past, NEW fx \in {"remove", "sign", "unsign", "validity", "download", "reset"},
           Fits(fx, o), FxArgs(fx, o), Writes(fx, o, v, past)
    PROVE  Moved(fx, o, v, Apply(fx, o, v, past))
<1> DEFINE m == Repo(v, o.repo)
<1>1. o.repo \in Repos
  BY DEF Fits, RepoFx
<1>2. m \in RepoRecords
  BY <1>1, RepoIs
<1> HIDE DEF m
<1>3. CASE fx = "remove"
  <2>1. Follows(m, RemoveRepoReference(m, o.ref, o.img), {})
    BY <1>2, <1>3, RemoveFollows DEF FxArgs
  <2>2. Apply("remove", o, v, past) = PutRepo(v, o.repo, RemoveRepoReference(m, o.ref, o.img))
    BY ApplyRemove DEF m
  <2> QED BY <1>1, <1>3, <2>1, <2>2, RepoFollows, RepoMoved DEF m
<1>4. CASE fx = "sign"
  <2>1. Follows(m, AddManifestSignature(m, SigOf[o.img], o.img), {})
    BY <1>2, <1>4, SignFollows DEF FxArgs
  <2>2. Apply("sign", o, v, past) = PutRepo(v, o.repo, AddManifestSignature(m, SigOf[o.img], o.img))
    BY ApplySign DEF m
  <2> QED BY <1>1, <1>4, <2>1, <2>2, RepoFollows, RepoMoved DEF m
<1>5. CASE fx = "unsign"
  <2>1. Follows(m, DeleteSignature(m, SigOf[o.img], o.img), {})
    BY <1>2, <1>5, UnsignFollows DEF FxArgs
  <2>2. Apply("unsign", o, v, past) = PutRepo(v, o.repo, DeleteSignature(m, SigOf[o.img], o.img))
    BY ApplyUnsign DEF m
  <2> QED BY <1>1, <1>5, <2>1, <2>2, RepoFollows, RepoMoved DEF m
<1>6. CASE fx = "validity"
  <2>1. Follows(m, UpdateSignaturesValidity(m, SigOf[o.img], {o.img}), {})
    BY <1>2, <1>6, ValidityFollows DEF FxArgs
  <2>2. Apply("validity", o, v, past) = PutRepo(v, o.repo, UpdateSignaturesValidity(m, SigOf[o.img], {o.img}))
    BY ApplyValidity DEF m
  <2> QED BY <1>1, <1>6, <2>1, <2>2, RepoFollows, RepoMoved DEF m
<1>7. CASE fx = "download"
  <2>0. DownloadedImage(m, o.ref, o.img) # None
    BY <1>7 DEF Writes, m
  <2>1. Follows(m, UpdateStatsOnDownload(m, DownloadedImage(m, o.ref, o.img)), {})
    BY <1>2, <1>7, <2>0, DownloadFollows DEF FxArgs
  <2>2. Apply("download", o, v, past) = PutRepo(v, o.repo, UpdateStatsOnDownload(m, DownloadedImage(m, o.ref, o.img)))
    BY ApplyDownload DEF m
  <2> QED BY <1>1, <1>7, <2>1, <2>2, RepoFollows, RepoMoved DEF m
<1>8. CASE fx = "reset"
  <2>1. Follows(m, ResetRepoReferences(m, {}), {})
    BY <1>2, <1>8, ResetFollows
  <2>2. Apply("reset", o, v, past) = PutRepo(v, o.repo, ResetRepoReferences(m, {}))
    BY ApplyReset DEF m
  <2> QED BY <1>1, <1>8, <2>1, <2>2, RepoFollows, RepoMoved DEF m
<1> QED BY <1>3, <1>4, <1>5, <1>6, <1>7, <1>8

\* DeleteRepoMeta.
LEMMA DropMoves ==
    ASSUME NEW v, TypedDB(v), NEW o, NEW past, Fits("drop", o)
    PROVE  Moved("drop", o, v, Apply("drop", o, v, past))
<1> DEFINE p == Apply("drop", o, v, past)
<1>1. o.repo \in Repos
  BY DEF Fits, RepoFx
<1>2. RepoPut(p, v, o.repo, None, {})
  <2>1. p = [v EXCEPT !.repo[o.repo] = None, !.blobs[o.repo] = {}]
    BY ApplyDrop
  <2>2. RepoPut([v EXCEPT !.repo[o.repo] = None, !.blobs[o.repo] = {}], v, o.repo, None, {})
    BY <1>1, DropRows, Zenon DEF TypedDB
  <2> HIDE DEF p
  <2> QED BY <2>1, <2>2, Zenon
<1> HIDE DEF p
<1>3. TypedDB(p)
  BY <1>1, <1>2 DEF RepoPut, TypedDB, TypedRepos, TypedUsers, TypedKeys
<1>4. ImagesMoved("drop", o, v, p)
  <2>1. ASSUME NEW r \in Repos PROVE TagsOf(p.repo[r]) \subseteq TagsOf(v.repo[r])
    <3>1. CASE r = o.repo
      BY <1>2, <3>1 DEF RepoPut, TagsOf
    <3>2. CASE r # o.repo
      BY <1>2, <3>2 DEF RepoPut
    <3> QED BY <3>1, <3>2
  <2> QED BY <1>2, <2>1 DEF RepoPut, ImagesMoved
<1>5. StarsMoved("drop", o, v, p) /\ KeysMoved("drop", o, v, p)
  BY <1>1, <1>2 DEF RepoPut, StarsMoved, KeysMoved
<1>6. Moved("drop", o, v, p)
  BY <1>3, <1>4, <1>5 DEF Moved
<1> QED BY <1>6 DEF p

\* The changes of the record of a user that leave the table of the keys alone.
LEMMA UserMoves ==
    ASSUME NEW v, TypedDB(v), NEW o, NEW past, NEW fx \in {"bookmark", "groups", "listkeys", "expired", "lastused"},
           Fits(fx, o), FxArgs(fx, o)
    PROVE  Moved(fx, o, v, Apply(fx, o, v, past))
<1> DEFINE x == User(v, o.user)
<1>1. o.user \in Users
  BY DEF Fits, UserFx
<1>2. x \in UserRecords /\ v.user[o.user] \in UserRecords \cup {None}
  BY <1>1, UserIs DEF TypedDB, TypedUsers
<1>3. CASE fx = "bookmark"
  <2>1. UserFollows(x, [x EXCEPT !.marked = Toggle(o.repo, @)], {})
    BY <1>2, <1>3, MarkFollows DEF FxArgs
  <2>2. Apply("bookmark", o, v, past) = PutUser(v, o.user, [x EXCEPT !.marked = Toggle(o.repo, @)])
    BY ApplyBookmark DEF ToggleBookmarkRepo
  <2> QED BY <1>1, <1>3, <2>1, <2>2, UserFollowed, UserMoved
<1>4. CASE fx = "groups"
  <2>1. UserFollows(x, [x EXCEPT !.groups = o.ref], {})
    BY <1>2, <1>4, GroupsFollow DEF FxArgs
  <2>2. Apply("groups", o, v, past) = PutUser(v, o.user, [x EXCEPT !.groups = o.ref])
    BY ApplyGroups DEF SetUserGroups
  <2> QED BY <1>1, <1>4, <2>1, <2>2, UserFollowed, UserMoved
<1>5. CASE fx = "listkeys"
  <2> DEFINE late1(k) == x.keys[k].expired \/ (x.keys[k].named /\ k \in past)
             ks == [k \in Keys |-> IF x.keys[k] = None THEN None ELSE [x.keys[k] EXCEPT !.expired = late1(k)]]
  <2>2. Apply("listkeys", o, v, past) = PutUser(v, o.user, [x EXCEPT !.keys = ks])
    BY ApplyListkeys DEF GetUserAPIKeys
  <2>3. ASSUME NEW k \in Keys
        PROVE  /\ ks[k] \in KeyEntries \cup {None}
               /\ x.keys[k] # None /\ x.keys[k].named => ks[k] # None /\ ks[k].named
    <3> DEFINE e == x.keys[k]
               b == late1(k)
    <3>0. ks[k] = IF e = None THEN None ELSE [e EXCEPT !.expired = b]
      BY <2>3
    <3>1. e \in KeyEntries \cup {None}
      BY <1>2, <2>3, UserFields
    <3>2. e # None => e.expired \in BOOLEAN
      BY <3>1 DEF KeyEntries
    <3>3. e # None => b \in BOOLEAN
      BY <3>2
    <3> HIDE DEF e, b, ks
    <3>4. e # None => [e EXCEPT !.expired = b] \in KeyEntries /\ [e EXCEPT !.expired = b].named = e.named
      BY <3>1, <3>3 DEF KeyEntries
    <3> QED BY <3>0, <3>4, RecordsExist DEF e
  <2>4. ks \in [Keys -> KeyEntries \cup {None}]
    BY <2>3
  <2> HIDE DEF ks
  <2>5. UserFollows(x, [x EXCEPT !.keys = ks], {})
    BY <1>2, <2>3, <2>4, KeysFollow
  <2> QED BY <1>1, <1>5, <2>2, <2>5, UserFollowed, UserMoved
<1>6. CASE fx \in {"expired", "lastused"}
  <2> DEFINE e == KeyEntry(v, o)
             b == e.expired \/ PastDate(v, o, past)
             f == IF fx = "expired" THEN [e EXCEPT !.expired = b] ELSE e
  <2>0. o.key \in Keys
    BY <1>6 DEF FxArgs
  <2>1. e \in KeyEntries /\ e.named = Named(v.user[o.user], o.key)
    BY <1>1, <1>2, <2>0, KeyEntryIs
  <2>2. Named(x, o.key) = Named(v.user[o.user], o.key)
    BY <1>1, <1>2, <2>0, UserIs
  <2>3. Apply(fx, o, v, past) = PutUser(v, o.user, [x EXCEPT !.keys[o.key] = f])
    <3>1. CASE fx = "expired"
      BY <3>1, ApplyExpired DEF IsAPIKeyExpired, PutKeyEntry
    <3>2. CASE fx = "lastused"
      BY <3>2, ApplyLastused DEF UpdateUserAPIKeyLastUsed, PutKeyEntry
    <3> QED BY <1>6, <3>1, <3>2
  <2>4. b \in BOOLEAN
    BY <2>1 DEF KeyEntries
  <2> HIDE DEF e, b, x
  <2>5. f \in KeyEntries /\ f.named = e.named
    BY <2>1, <2>4 DEF KeyEntries
  <2> HIDE DEF f
  <2>6. x.keys[o.key] # None /\ x.keys[o.key].named => f # None /\ f.named
    <3>1. x.keys[o.key] # None /\ x.keys[o.key].named => Named(x, o.key)
      BY <1>2, RecordsExist DEF Named
    <3>2. Named(x, o.key) => f.named
      BY <2>1, <2>2, <2>5
    <3> QED BY <2>5, <3>1, <3>2, RecordsExist
  <2>7. UserFollows(x, [x EXCEPT !.keys[o.key] = f], {})
    BY <1>2, <2>0, <2>5, <2>6, EntryFollows
  <2>8. Moved(fx, o, v, PutUser(v, o.user, [x EXCEPT !.keys[o.key] = f]))
    BY <1>1, <1>6, <2>7, UserFollowed, UserMoved DEF x
  <2> QED BY <2>3, <2>8
<1> QED BY <1>3, <1>4, <1>5, <1>6

\* A key is created, or deleted.
LEMMA KeyMoves ==
    ASSUME NEW v, TypedDB(v), NEW o, NEW past, NEW fx \in {"addkey", "delkey"}, Fits(fx, o)
    PROVE  Moved(fx, o, v, Apply(fx, o, v, past))
<1> DEFINE x == User(v, o.user)
           e == IF fx = "addkey" THEN [named |-> TRUE, expired |-> FALSE] ELSE None
           y == IF fx = "addkey" THEN o.user ELSE None
           n == [x EXCEPT !.keys[o.key] = e]
           q == PutUser(v, o.user, n)
           p == [q EXCEPT !.key[o.key] = y]
<1>1. o.user \in Users /\ o.key \in Keys
  BY DEF Fits, UserFx
<1>2. x \in UserRecords
  BY <1>1, UserIs DEF TypedDB, TypedUsers
<1>3. Apply(fx, o, v, past) = p
  <2>1. CASE fx = "addkey"
    BY <2>1, ApplyAddkey DEF AddUserAPIKey
  <2>2. CASE fx = "delkey"
    BY <2>2, ApplyDelkey DEF DeleteUserAPIKey
  <2> QED BY <2>1, <2>2
<1> DEFINE K == {o.key} \cap (IF fx = "delkey" THEN Keys ELSE {})
<1>4. e \in KeyEntries \cup {None} /\ (fx = "addkey" => e # None /\ e.named)
  <2>1. [named |-> TRUE, expired |-> FALSE] \in KeyEntries
    BY DEF KeyEntries
  <2> QED BY <2>1, RecordsExist
<1> HIDE DEF x, e
<1>5. UserFollows(x, n, K) /\ n.keys[o.key] = e
  BY <1>1, <1>2, <1>4, EntryFollows
<1>6. n # None
  BY <1>5, RecordsExist DEF UserFollows
<1> HIDE DEF n, K
<1>7. UserStep(v, q, K)
  BY <1>1, <1>5, UserFollowed DEF x
<1>8. UserPut(q, v, o.user, n)
  BY <1>1, PutUserRows DEF TypedDB
<1> HIDE DEF q
<1>9. y \in Users \cup {None}
  BY <1>1
<1> HIDE DEF y
<1>10. TypedDB(p) /\ KeyPut(p, q, o.key, y)
  BY <1>1, <1>7, <1>9, KeyTyped DEF UserStep
<1> HIDE DEF p
<1>11. ImagesMoved(fx, o, v, p) /\ StarsMoved(fx, o, v, p)
  BY <1>7, <1>10 DEF UserStep, KeyPut, ImagesMoved, StarsMoved
<1>12. KeysMoved(fx, o, v, p)
  <2>1. \A k \in Keys : k = o.key \/ p.key[k] = v.key[k]
    BY <1>7, <1>10 DEF UserStep, KeyPut
  <2>2. \A u \in Users, k \in Keys : (fx = "delkey" /\ k = o.key) \/ (Named(v.user[u], k) => Named(p.user[u], k))
    BY <1>7, <1>10 DEF UserStep, KeyPut, K
  <2>3. p.key[o.key] = y /\ p.user[o.user] = n
    BY <1>1, <1>8, <1>10 DEF UserPut, KeyPut
  <2>4. fx = "addkey" => Named(n, o.key)
    BY <1>4, <1>5, <1>6 DEF Named
  <2> QED BY <2>1, <2>2, <2>3, <2>4 DEF KeysMoved, y
<1>13. Moved(fx, o, v, p)
  BY <1>10, <1>11, <1>12 DEF Moved
<1> QED BY <1>3, <1>13

\* A star is given or taken back.
LEMMA StarMoves ==
    ASSUME NEW v, TypedDB(v), NEW o, NEW past, Fits("star", o)
    PROVE  Moved("star", o, v, Apply("star", o, v, past))
<1> DEFINE x == User(v, o.user)
           m == Repo(v, o.repo)
           n == IF o.repo \in x.starred THEN RemoveStar(m) ELSE AddStar(m)
           e == [n EXCEPT !.blobs = {}]
           y == [x EXCEPT !.starred = Toggle(o.repo, @)]
           q == PutRepo(v, o.repo, n)
           p == PutUser(q, o.user, y)
<1>1. o.user \in Users /\ o.repo \in Repos
  BY DEF Fits, UserFx, RepoFx
<1>2. /\ x \in UserRecords /\ x.starred = Starred(v.user[o.user])
      /\ \A k \in Keys : Named(x, k) = Named(v.user[o.user], k)
  BY <1>1, UserIs, RecordsExist DEF TypedDB, TypedUsers, Starred
<1>3. m \in RepoRecords /\ Tagged(m) = TagsOf(v.repo[o.repo]) /\ m.stars = StarsOf(v.repo[o.repo])
  BY <1>1, RepoIs
<1>4. Apply("star", o, v, past) = p
  BY ApplyStar DEF ToggleStarRepo
<1> HIDE DEF x, m
<1>5. /\ n \in RepoRecords /\ Tagged(n) = Tagged(m)
      /\ n.stars = IF o.repo \in x.starred THEN m.stars - 1 ELSE m.stars + 1
  BY <1>3, StarRecord
<1> HIDE DEF n
<1>6. e \in RepoRecords /\ e.tags = n.tags /\ e.stars = n.stars /\ n.blobs \in SUBSET Images
  BY <1>5 DEF RepoRecords
<1>7. RepoPut(q, v, o.repo, e, n.blobs)
  BY <1>1, PutRepoRows DEF TypedDB
<1> HIDE DEF e, q
<1>8. TypedDB(q)
  BY <1>6, <1>7 DEF RepoPut, TypedDB, TypedRepos, TypedUsers, TypedKeys
<1>9. y \in UserRecords /\ y.starred = Toggle(o.repo, x.starred) /\ y.keys = x.keys
  BY <1>1, <1>2, StarUser
<1> HIDE DEF y
<1>10. UserPut(p, q, o.user, y)
  BY <1>1, <1>8, PutUserRows DEF TypedDB
<1> HIDE DEF p
<1>11. TypedDB(p)
  BY <1>8, <1>9, <1>10 DEF UserPut, TypedDB, TypedRepos, TypedUsers, TypedKeys
<1>12. TagsOf(e) = TagsOf(v.repo[o.repo]) /\ StarsOf(e) = n.stars
  BY <1>3, <1>5, <1>6, RecordsExist DEF TagsOf, StarsOf, Tagged
<1>13. Starred(y) = Toggle(o.repo, Starred(v.user[o.user]))
  BY <1>2, <1>9, RecordsExist DEF Starred
<1>14. \A k \in Keys : Named(y, k) = Named(v.user[o.user], k)
  BY <1>2, <1>9, RecordsExist DEF Named
<1>15. /\ \A r \in Repos : p.repo[r] = IF r = o.repo THEN e ELSE v.repo[r]
       /\ \A u \in Users : p.user[u] = IF u = o.user THEN y ELSE v.user[u]
       /\ p.key = v.key /\ p.image = v.image
  BY <1>7, <1>10 DEF RepoPut, UserPut
<1>16. ImagesMoved("star", o, v, p)
  BY <1>12, <1>15 DEF ImagesMoved
<1>17. StarsMoved("star", o, v, p)
  <2>1. \A r \in Repos : r = o.repo \/ StarsOf(p.repo[r]) = StarsOf(v.repo[r])
    BY <1>15
  <2>2. \A u \in Users : u = o.user \/ Starred(p.user[u]) = Starred(v.user[u])
    BY <1>15
  <2>3. p.user[o.user] = y /\ p.repo[o.repo] = e
    BY <1>1, <1>15
  <2> QED BY <1>2, <1>3, <1>5, <1>12, <1>13, <2>1, <2>2, <2>3 DEF StarsMoved
<1>18. KeysMoved("star", o, v, p)
  BY <1>14, <1>15 DEF KeysMoved
<1>19. Moved("star", o, v, p)
  BY <1>11, <1>16, <1>17, <1>18 DEF Moved
<1> QED BY <1>4, <1>19

\* Every change, made from a view with rows of their types.
LEMMA ChangeMoves ==
    ASSUME NEW v, TypedDB(v), NEW o, NEW past, NEW fx \in Fxs, Fits(fx, o), FxArgs(fx, o), Writes(fx, o, v, past)
    PROVE  Moved(fx, o, v, Apply(fx, o, v, past))
<1>1. CASE fx \in {"bookmark", "groups", "listkeys", "expired", "lastused"}
  BY <1>1, UserMoves
<1>2. CASE fx \in {"addkey", "delkey"}
  BY <1>2, KeyMoves
<1>3. CASE fx \in {"remove", "sign", "unsign", "validity", "download", "reset"}
  BY <1>3, RecordMoves
<1>4. CASE fx \in {"star", "drop", "set", "image"}
  BY <1>4, StarMoves, DropMoves, SetMoves, ImageMoves
<1> QED BY <1>1, <1>2, <1>3, <1>4 DEF Fxs, RepoFx, UserFx

-----------------------------------------------------------------------------
(* The arguments of an operation, and the calls of every driver.             *)

\* What Typed does not say of the arguments.
Args(o) ==
    /\ o.name \in {"set", "remove", "download"} => o.ref \in Tags \cup {None}
    /\ o.name \in {"sign", "unsign", "validity"} => SigOf[o.img] \in Images
    /\ o.name = "groups" => o.ref \in Groups
    /\ o.name = "bookmark" => o.repo \in Repos
    /\ o.name \in KeyNames => o.user = Owner[o.key]

\* What the callers ask for has these arguments.
LEMMA OpArgs ==
    ASSUME NEW o, OpOK(o)
    PROVE  Args(o)
<1>1. PICK n \in OpNames : o \in Calls(n)
  BY DEF OpOK
<1>0. \A r, t, i, u, k : LET q == Op(n, r, t, i, u, k) IN
        q.name = n /\ q.repo = r /\ q.ref = t /\ q.img = i /\ q.user = u /\ q.key = k
  BY DEF Op
<1>2. CASE n \in {"set", "remove", "download"}
  <2>1. Calls(n) = {Op(n, r, t, i, None, None) : r \in Repos, t \in Tags \cup {None}, i \in Images}
    BY <1>2 DEF Calls
  <2>2. PICK r \in Repos, t \in Tags \cup {None}, i \in Images : o = Op(n, r, t, i, None, None)
    BY <1>1, <2>1
  <2>3. o.name = n /\ o.ref = t
    BY <2>2, <1>0
  <2> QED BY <1>2, <2>3 DEF Args, KeyNames
<1>3. CASE n \in {"sign", "unsign", "validity"}
  <2>1. Calls(n) = {Op(n, r, None, i, None, None) : r \in Repos, i \in {j \in Images : SigOf[j] # None}}
    BY <1>3 DEF Calls
  <2>2. PICK r \in Repos, i \in {j \in Images : SigOf[j] # None} : o = Op(n, r, None, i, None, None)
    BY <1>1, <2>1
  <2>3. o.name = n /\ o.img = i
    BY <2>2, <1>0
  <2>4. SigOf[i] \in Images
    BY RepoMetaAssumption
  <2> QED BY <1>3, <2>3, <2>4 DEF Args, KeyNames
<1>4. CASE n \in {"reset", "drop", "query"}
  <2>1. Calls(n) = {Op(n, r, None, None, None, None) : r \in Repos}
    BY <1>4 DEF Calls
  <2>2. PICK r \in Repos : o = Op(n, r, None, None, None, None)
    BY <1>1, <2>1
  <2>3. o.name = n
    BY <2>2, <1>0
  <2> QED BY <1>4, <2>3 DEF Args, KeyNames
<1>5. CASE n \in {"star", "bookmark"}
  <2>1. Calls(n) = {Op(n, r, None, None, u, None) : r \in Repos, u \in Users}
    BY <1>5 DEF Calls
  <2>2. PICK r \in Repos, u \in Users : o = Op(n, r, None, None, u, None)
    BY <1>1, <2>1
  <2>3. o.name = n /\ o.repo = r
    BY <2>2, <1>0
  <2> QED BY <1>5, <2>3 DEF Args, KeyNames
<1>6. CASE n = "groups"
  <2>1. Calls(n) = {Op(n, None, g, None, u, None) : g \in Groups, u \in Users}
    BY <1>6 DEF Calls
  <2>2. PICK g \in Groups, u \in Users : o = Op(n, None, g, None, u, None)
    BY <1>1, <2>1
  <2>3. o.name = n /\ o.ref = g
    BY <2>2, <1>0
  <2> QED BY <1>6, <2>3 DEF Args, KeyNames
<1>7. CASE n \in KeyNames
  <2>1. Calls(n) = {Op(n, None, None, None, Owner[k], k) : k \in Keys}
    BY <1>7 DEF Calls, KeyNames
  <2>2. PICK k \in Keys : o = Op(n, None, None, None, Owner[k], k)
    BY <1>1, <2>1
  <2>3. o.name = n /\ o.user = Owner[k] /\ o.key = k
    BY <2>2, <1>0
  <2> QED BY <1>7, <2>3 DEF Args, KeyNames
<1> QED BY <1>2, <1>3, <1>4, <1>5, <1>6, <1>7 DEF OpNames, KeyNames

\* The parts of an operation have the arguments of their changes.
LEMMA PartArgs ==
    ASSUME NEW o, Typed(o), Args(o), NEW fx \in Parts(o), fx # "query"
    PROVE  FxArgs(fx, o)
<1>1. CASE o.name = "set"
  <2>1. fx \in {"image", "set"}
    BY <1>1 DEF Parts
  <2> QED BY <1>1, <2>1 DEF Typed, Args, FxArgs
<1>2. CASE o.name = "auth"
  <2>1. fx \in {"expired", "lastused"}
    BY <1>2 DEF Parts
  <2> QED BY <1>2, <2>1 DEF Typed, Args, FxArgs, KeyNames
<1>3. CASE o.name \notin {"set", "auth"}
  <2>1. fx = o.name
    BY <1>3 DEF Parts
  <2>2. fx \notin {"set", "auth", "expired", "lastused"}
    BY <1>3, <2>1 DEF Typed, OpNames
  <2> QED BY <2>1, <2>2 DEF Typed, Args, FxArgs, KeyNames
<1> QED BY <1>1, <1>2, <1>3

\* A call that writes writes a part of its operation; the row of an image is written with the data.
ProperWrite(o, i) ==
    \/ i.fx = "owner" \/ (i.fx = "query" /\ o.name = "query")
    \/ /\ i.fx \in Parts(o) \cap Fxs /\ Fits(i.fx, o)
       /\ \/ i.do = "tx" /\ i.rows = Rows
          \/ i.do = "write" /\ i.fx = "image" /\ i.rows = {<<"image", o.img>>}
          \/ i.do = "write" /\ i.fx # "image" /\ \A j : <<"image", j>> \notin i.rows
\* Every call.
Proper(o, i) ==
    \/ i.do = "lock" /\ i.at \in LockNames
    \/ i.do \in {"read", "release"}
    \/ i.do \in {"write", "tx"} /\ ProperWrite(o, i)
\* Every program.
Tidy(o, P) ==
    /\ Len(P) \in Nat /\ Len(P) > 1
    /\ P[Len(P)].do = "release"
    /\ \A p \in 1..Len(P) - 1 : Proper(o, P[p])

\* The programs of Redis are made of such calls,
LEMMA RedisTidy ==
    ASSUME NEW o, Typed(o), backend = "redis"
    PROVE  Tidy(o, Program(o))
<1>1. Sound(o, Program(o))
  BY RedisSound
<1>2. ASSUME NEW p, NEW i, Advances(o, p, i) PROVE Proper(o, i)
  <2>1. CASE i.do = "lock"
    BY <1>2, <2>1 DEF Advances, TakesLock, Proper
  <2>2. CASE i.do \in {"read", "release"}
    BY <2>2 DEF Proper
  <2>3. CASE i.do = "write"
    <3>1. MayWrite(o, p, i.rows, i.fx)
      BY <1>2, <2>3 DEF Advances, WritesThem
    <3>2. CASE i.fx \notin {"owner", "query"}
      <4>1. i.fx \in Parts(o) \cap Fxs /\ Fits(i.fx, o) /\ i.rows = RowsOf(i.fx, o)
        BY <3>1, <3>2 DEF MayWrite
      <4>2. CASE i.fx = "image"
        BY <2>3, <4>1, <4>2, RowsOfIs DEF Proper, ProperWrite
      <4>3. CASE i.fx # "image"
        <5>1. \A j : <<"image", j>> \notin i.rows
          BY <4>1, <4>3, RowsOfIs DEF Fxs, RepoFx, UserFx
        <5> QED BY <2>3, <4>1, <4>3, <5>1 DEF Proper, ProperWrite
      <4> QED BY <4>2, <4>3
    <3>3. CASE i.fx \in {"owner", "query"}
      <4>1. i.fx \notin Fxs
        BY <3>3 DEF Fxs, RepoFx, UserFx
      <4> QED BY <2>3, <3>1, <3>3, <4>1 DEF MayWrite, Proper, ProperWrite
    <3> QED BY <3>2, <3>3
  <2> QED BY <1>2, <2>1, <2>2, <2>3 DEF Advances
<1> QED BY <1>1, <1>2 DEF Sound, Tidy

\* those of BoltDB,
LEMMA BoltTidy ==
    ASSUME NEW o, Typed(o), backend = "bolt"
    PROVE  Tidy(o, Program(o))
<1>1. BoltSound(o, Program(o))
  BY BoltIsSound
<1>2. \A i : TxFits(o, i) => Proper(o, i)
  BY DEF TxFits, Proper, ProperWrite
<1> QED BY <1>1, <1>2 DEF BoltSound, Tidy

\* The calls of DynamoDB.
LEMMA ProperCalls ==
    ASSUME NEW o, Typed(o)
    PROVE  /\ \A row : Proper(o, Read(row))
           /\ Proper(o, ReadImages) /\ Proper(o, Release) /\ Proper(o, Write({}, "owner"))
           /\ o.name = "query" => Proper(o, Write({}, "query"))
           /\ \A fx \in Parts(o) \ {"query", "image"} : \A S :
                S \subseteq {RepoRow(o), BlobsRow(o), UserRow(o), KeyRow(o)} => Proper(o, Write(S, fx))
           /\ o.name = "set" => Proper(o, Write({ImageRow(o)}, "image"))
<1>1. /\ \A row : Proper(o, Read(row))
      /\ Proper(o, ReadImages) /\ Proper(o, Release)
  BY Instrs DEF Proper
<1>2. Proper(o, Write({}, "owner")) /\ (o.name = "query" => Proper(o, Write({}, "query")))
  BY Instrs DEF Proper, ProperWrite
<1>3. ASSUME NEW fx \in Parts(o) \ {"query", "image"}, NEW S,
             S \subseteq {RepoRow(o), BlobsRow(o), UserRow(o), KeyRow(o)}
      PROVE  Proper(o, Write(S, fx))
  <2>1. fx \in Parts(o) \cap Fxs /\ Fits(fx, o)
    BY <1>3, PartsFit
  <2>2. \A j : <<"image", j>> \notin S
    BY <1>3 DEF RepoRow, BlobsRow, UserRow, KeyRow
  <2> QED BY <1>3, <2>1, <2>2, Instrs DEF Proper, ProperWrite
<1>4. ASSUME o.name = "set" PROVE Proper(o, Write({ImageRow(o)}, "image"))
  <2>1. "image" \in Parts(o)
    BY <1>4 DEF Parts
  <2>2. "image" \in Parts(o) \cap Fxs /\ Fits("image", o)
    BY <2>1, PartsFit
  <2> QED BY <2>2, Instrs DEF Proper, ProperWrite, ImageRow
<1> QED BY <1>1, <1>2, <1>3, <1>4

\* A program of n calls that are in order, and a release.
LEMMA Tidy2 == ASSUME NEW o, NEW a, NEW P, P = <<a, Release>>, Proper(o, a) PROVE Tidy(o, P)
BY Instrs DEF Tidy
LEMMA Tidy3 == ASSUME NEW o, NEW a, NEW b, NEW P, P = <<a, b, Release>>, Proper(o, a), Proper(o, b) PROVE Tidy(o, P)
<1>1. Len(P) = 3 /\ P[1] = a /\ P[2] = b /\ P[3] = Release
  OBVIOUS
<1>2. \A p \in 1..2 : Proper(o, P[p])
  BY <1>1
<1> QED BY <1>1, <1>2, Instrs DEF Tidy
\* Programs of four calls.
LEMMA Tidy4 == ASSUME NEW o, NEW a, NEW b, NEW c, NEW P, P = <<a, b, c, Release>>, Proper(o, a), Proper(o, b), Proper(o, c)
    PROVE Tidy(o, P)
<1>1. Len(P) = 4 /\ P[1] = a /\ P[2] = b /\ P[3] = c /\ P[4] = Release
  OBVIOUS
<1>2. \A p \in 1..3 : Proper(o, P[p])
  BY <1>1
<1> QED BY <1>1, <1>2, Instrs DEF Tidy
\* Of six.
LEMMA Tidy6 == ASSUME NEW o, NEW a, NEW b, NEW c, NEW d, NEW e, NEW P, P = <<a, b, c, d, e, Release>>,
                      Proper(o, a), Proper(o, b), Proper(o, c), Proper(o, d), Proper(o, e)
    PROVE Tidy(o, P)
<1>1. Len(P) = 6 /\ P[1] = a /\ P[2] = b /\ P[3] = c /\ P[4] = d /\ P[5] = e /\ P[6] = Release
  OBVIOUS
<1>2. \A p \in 1..5 : Proper(o, P[p])
  BY <1>1
<1> QED BY <1>1, <1>2, Instrs DEF Tidy
Cat10(a, b, c, d, e) == <<a, b>> \o <<c, d, Release>> \o <<c, e, Release>> \o <<c, Release>>
\* Of ten.
LEMMA Tidy10 == ASSUME NEW o, NEW a, NEW b, NEW c, NEW d, NEW e, NEW P, P = Cat10(a, b, c, d, e),
                       Proper(o, a), Proper(o, b), Proper(o, c), Proper(o, d), Proper(o, e), Proper(o, Release)
    PROVE Tidy(o, P)
<1>1. Len(P) = 10 /\ P[1] = a /\ P[2] = b /\ P[3] = c /\ P[4] = d /\ P[5] = Release
      /\ P[6] = c /\ P[7] = e /\ P[8] = Release /\ P[9] = c /\ P[10] = Release
  BY DEF Cat10
<1>2. \A p \in 1..9 : Proper(o, P[p])
  BY <1>1
<1> QED BY <1>1, <1>2, Instrs DEF Tidy

\* and those of DynamoDB.
LEMMA DynamoTidy ==
    ASSUME NEW o, Typed(o), backend = "dynamo"
    PROVE  Tidy(o, Program(o))
<1> DEFINE P == Program(o)
           rr == Read(RepoRow(o))
           rb == Read(BlobsRow(o))
           ri == Read(ImageRow(o))
           ru == Read(UserRow(o))
<1>0. Proper(o, rr) /\ Proper(o, rb) /\ Proper(o, ri) /\ Proper(o, ru) /\ Proper(o, ReadImages) /\ Proper(o, Release)
  BY ProperCalls
<1>1. CASE o.name = "set"
  <2>1. "set" \in Parts(o)
    BY <1>1 DEF Parts
  <2>2. Proper(o, Write({BlobsRow(o)}, "set")) /\ Proper(o, Write({RepoRow(o)}, "set")) /\ Proper(o, Write({ImageRow(o)}, "image"))
    BY <1>1, <2>1, ProperCalls
  <2>3. P = <<Write({ImageRow(o)}, "image"), rr, rb, Write({BlobsRow(o)}, "set"), Write({RepoRow(o)}, "set"), Release>>
    BY <1>1 DEF Program, DynamoProgram, DynamoSetRepoReference
  <2> HIDE DEF P, rr, rb
  <2> QED BY <1>0, <2>2, <2>3, Tidy6 DEF P
<1>2. CASE o.name = "remove"
  <2>1. "remove" \in Parts(o)
    BY <1>2 DEF Parts
  <2>2. Proper(o, Write({BlobsRow(o)}, "remove")) /\ Proper(o, Write({RepoRow(o)}, "remove"))
    BY <1>2, <2>1, ProperCalls
  <2>3. P = <<rr, ri, rb, Write({BlobsRow(o)}, "remove"), Write({RepoRow(o)}, "remove"), Release>>
    BY <1>2 DEF Program, DynamoProgram, DynamoRemoveRepoReference
  <2> HIDE DEF P, rr, rb, ri
  <2> QED BY <1>0, <2>2, <2>3, Tidy6 DEF P
<1>3. CASE o.name \in {"reset", "sign", "unsign", "download"}
  <2>1. o.name \in Parts(o)
    BY <1>3 DEF Parts
  <2>2. Proper(o, Write({RepoRow(o)}, o.name))
    BY <1>3, <2>1, ProperCalls
  <2>3. P = <<rr, Write({RepoRow(o)}, o.name), Release>>
    <3>1. CASE o.name = "reset"
      BY <3>1 DEF Program, DynamoProgram, DynamoResetRepoReferences
    <3>2. CASE o.name = "sign"
      BY <3>2 DEF Program, DynamoProgram, DynamoAddManifestSignature
    <3>3. CASE o.name = "unsign"
      BY <3>3 DEF Program, DynamoProgram, DynamoDeleteSignature
    <3>4. CASE o.name = "download"
      BY <3>4 DEF Program, DynamoProgram, DynamoUpdateStatsOnDownload
    <3> QED BY <1>3, <3>1, <3>2, <3>3, <3>4
  <2> HIDE DEF P, rr
  <2> QED BY <1>0, <2>2, <2>3, Tidy3 DEF P
<1>4. CASE o.name = "drop"
  <2>1. "drop" \in Parts(o)
    BY <1>4 DEF Parts
  <2>2. Proper(o, Write({RepoRow(o), BlobsRow(o)}, "drop"))
    BY <2>1, ProperCalls
  <2>3. P = <<Write({RepoRow(o), BlobsRow(o)}, "drop"), Release>>
    BY <1>4 DEF Program, DynamoProgram, DynamoDeleteRepoMeta
  <2> HIDE DEF P
  <2> QED BY <2>2, <2>3, Tidy2 DEF P
<1>5. CASE o.name = "validity"
  <2>1. "validity" \in Parts(o)
    BY <1>5 DEF Parts
  <2>2. Proper(o, Write({RepoRow(o)}, "validity")) /\ Proper(o, Read(<<"image", SigOf[o.img]>>))
    BY <2>1, ProperCalls
  <2>3. P = <<Read(<<"image", SigOf[o.img]>>), rr, Write({RepoRow(o)}, "validity"), Release>>
    BY <1>5 DEF Program, DynamoProgram, DynamoUpdateSignaturesValidity
  <2> HIDE DEF P, rr
  <2> QED BY <1>0, <2>2, <2>3, Tidy4 DEF P
<1>6. CASE o.name = "star"
  <2>1. "star" \in Parts(o)
    BY <1>6 DEF Parts
  <2>2. Proper(o, Write({UserRow(o), RepoRow(o)}, "star"))
    BY <2>1, ProperCalls
  <2>3. P = <<ru, rr, Write({UserRow(o), RepoRow(o)}, "star"), Release>>
    BY <1>6 DEF Program, DynamoProgram, DynamoToggleStarRepo
  <2> HIDE DEF P, rr, ru
  <2> QED BY <1>0, <2>2, <2>3, Tidy4 DEF P
<1>7. CASE o.name \in {"bookmark", "groups", "listkeys"}
  <2>1. o.name \in Parts(o)
    BY <1>7 DEF Parts
  <2>2. Proper(o, Write({UserRow(o)}, o.name))
    BY <1>7, <2>1, ProperCalls
  <2>3. P = <<ru, Write({UserRow(o)}, o.name), Release>>
    <3>1. CASE o.name = "bookmark"
      BY <3>1 DEF Program, DynamoProgram, DynamoToggleBookmarkRepo
    <3>2. CASE o.name = "groups"
      BY <3>2 DEF Program, DynamoProgram, DynamoSetUserGroups
    <3>3. CASE o.name = "listkeys"
      BY <3>3 DEF Program, DynamoProgram, DynamoGetUserAPIKeys
    <3> QED BY <1>7, <3>1, <3>2, <3>3
  <2> HIDE DEF P, ru
  <2> QED BY <1>0, <2>2, <2>3, Tidy3 DEF P
<1>8. CASE o.name = "addkey"
  <2>1. "addkey" \in Parts(o)
    BY <1>8 DEF Parts
  <2>2. Proper(o, Write({UserRow(o), KeyRow(o)}, "addkey"))
    BY <2>1, ProperCalls
  <2>3. P = <<ru, Write({UserRow(o), KeyRow(o)}, "addkey"), Release>>
    BY <1>8 DEF Program, DynamoProgram, DynamoAddUserAPIKey
  <2> HIDE DEF P, ru
  <2> QED BY <1>0, <2>2, <2>3, Tidy3 DEF P
<1>9. CASE o.name = "delkey"
  <2>1. "delkey" \in Parts(o)
    BY <1>9 DEF Parts
  <2>2. Proper(o, Write({KeyRow(o)}, "delkey")) /\ Proper(o, Write({UserRow(o)}, "delkey"))
    BY <2>1, ProperCalls
  <2>3. P = <<ru, Write({KeyRow(o)}, "delkey"), Write({UserRow(o)}, "delkey"), Release>>
    BY <1>9 DEF Program, DynamoProgram, DynamoDeleteUserAPIKey
  <2> HIDE DEF P, ru
  <2> QED BY <1>0, <2>2, <2>3, Tidy4 DEF P
<1>10. CASE o.name = "query"
  <2>2. Proper(o, Write({}, "query"))
    BY <1>10, ProperCalls
  <2>3. P = <<rr, ReadImages, Write({}, "query"), Release>>
    BY <1>10 DEF Program, DynamoProgram, DynamoQuery
  <2> HIDE DEF P, rr
  <2> QED BY <1>0, <2>2, <2>3, Tidy4 DEF P
<1>11. CASE o.name = "auth"
  <2>1. {"expired", "lastused"} \subseteq Parts(o)
    BY <1>11 DEF Parts
  <2>2. /\ Proper(o, Write({UserRow(o)}, "expired")) /\ Proper(o, Write({UserRow(o)}, "lastused"))
        /\ Proper(o, Read(KeyRow(o))) /\ Proper(o, Write({}, "owner"))
    BY <2>1, ProperCalls
  <2>3. P = <<Read(KeyRow(o)), Write({}, "owner")>> \o DynamoIsAPIKeyExpired(o)
              \o DynamoUpdateUserAPIKeyLastUsed(o) \o <<ru, Release>>
    BY <1>11 DEF Program, AuthenticateAPIKey
  <2>4. /\ DynamoIsAPIKeyExpired(o) = <<ru, Write({UserRow(o)}, "expired"), Release>>
        /\ DynamoUpdateUserAPIKeyLastUsed(o) = <<ru, Write({UserRow(o)}, "lastused"), Release>>
    BY DEF DynamoIsAPIKeyExpired, DynamoUpdateUserAPIKeyLastUsed
  <2> DEFINE a == Read(KeyRow(o))
             b == Write({}, "owner")
             d == Write({UserRow(o)}, "expired")
             e == Write({UserRow(o)}, "lastused")
  <2>5. P = Cat10(a, b, ru, d, e)
    BY <2>3, <2>4, Zenon DEF Cat10
  <2>6. Proper(o, a) /\ Proper(o, b) /\ Proper(o, d) /\ Proper(o, e)
    BY <2>2
  <2> HIDE DEF P, ru, a, b, d, e
  <2>7. Tidy(o, P)
    BY <1>0, <2>5, <2>6, Tidy10
  <2> QED BY <2>7 DEF P
<1> QED BY <1>1, <1>2, <1>3, <1>4, <1>5, <1>6, <1>7, <1>8, <1>9, <1>10, <1>11 DEF Typed, OpNames

\* Every program is in order, whatever the driver.
LEMMA ProgramTidy ==
    ASSUME NEW o, Typed(o), backend \in {"bolt", "redis", "dynamo"}
    PROVE  Tidy(o, Program(o))
BY BoltTidy, RedisTidy, DynamoTidy

\* DynamoDB stores the image first.
LEMMA DynamoImageFirst ==
    ASSUME NEW o, backend = "dynamo", o.name = "set"
    PROVE  /\ Program(o)[1] = Write({ImageRow(o)}, "image") /\ Len(Program(o)) = 6
<1>1. Program(o) = <<Write({ImageRow(o)}, "image"), Read(RepoRow(o)), Read(BlobsRow(o)),
                     Write({BlobsRow(o)}, "set"), Write({RepoRow(o)}, "set"), Release>>
  BY DEF Program, DynamoProgram, DynamoSetRepoReference
<1> QED BY <1>1

\* A query reads the record, then the images.
LEMMA QueryCalls ==
    ASSUME NEW o, backend \in {"redis", "dynamo"}, o.name = "query"
    PROVE  /\ Len(Program(o)) = 4 /\ Program(o)[1] = Read(RepoRow(o)) /\ Program(o)[2] = ReadImages
           /\ Program(o)[3] = Write({}, "query") /\ Program(o)[4] = Release
<1>1. Program(o) = <<Read(RepoRow(o)), ReadImages, Write({}, "query"), Release>>
  BY DEF Program, DynamoProgram, DynamoQuery, RedisProgram, RedisQuery
<1> QED BY <1>1

-----------------------------------------------------------------------------
(* The rows of their types, and the images behind the tags.                  *)

\* Every tag of v names an image in I.
Backed(v, I) == \A r \in Repos : TagsOf(v.repo[r]) \subseteq I

\* Reading and writing rows.
LEMMA OverwriteTyped ==
    ASSUME NEW d, TypedDB(d), NEW p, TypedDB(p), NEW S
    PROVE  TypedDB(Overwrite(d, p, S))
<1> DEFINE q == Overwrite(d, p, S)
<1>1. IsDB(q)
  BY OverwriteIsDB
<1>2. Matches(d, p, S, q)
  BY OverwriteRows
<1> HIDE DEF q
<1>3. TypedRepos(q)
  BY <1>2 DEF Matches, TypedDB, TypedRepos
<1>4. TypedUsers(q) /\ TypedKeys(q)
  BY <1>2 DEF Matches, TypedDB, TypedUsers, TypedKeys
<1>5. TypedDB(q)
  BY <1>1, <1>3, <1>4 DEF TypedDB
<1> QED BY <1>5 DEF q

\* Rows of two views that have their images.
LEMMA OverwriteBacked ==
    ASSUME NEW d, NEW p, NEW S, NEW I, Backed(d, I), Backed(p, I)
    PROVE  Backed(Overwrite(d, p, S), I)
<1> DEFINE q == Overwrite(d, p, S)
<1>2. Matches(d, p, S, q)
  BY OverwriteRows
<1> HIDE DEF q
<1>3. Backed(q, I)
  BY <1>2 DEF Matches, Backed
<1> QED BY <1>3 DEF q

\* A write of a part of an operation, from a view of the records, keeps the types, loses no image
\* and leaves no tag without its image.
LEMMA WriteKeeps ==
    ASSUME NEW d, TypedDB(d), Backed(d, d.image), NEW v, TypedDB(v), Backed(v, d.image),
           NEW o, Typed(o), Args(o), NEW i, ProperWrite(o, i), i.fx \notin {"owner", "query"}, NEW past,
           Writes(i.fx, o, v, past), i.do = "tx" => v = d,
           i.fx = "set" /\ i.do = "write" => o.img \in d.image
    PROVE  LET q == Overwrite(d, Apply(i.fx, o, v, past), i.rows) IN
           /\ TypedDB(q) /\ Backed(q, q.image) /\ d.image \subseteq q.image
           /\ i.fx = "image" => o.img \in q.image
<1> DEFINE p == Apply(i.fx, o, v, past)
           q == Overwrite(d, p, i.rows)
<1>1. i.fx \in Parts(o) \cap Fxs /\ Fits(i.fx, o)
  BY DEF ProperWrite
<1>2. Moved(i.fx, o, v, p)
  BY <1>1, PartArgs, ChangeMoves
<1> HIDE DEF p
<1>3. TypedDB(q)
  BY <1>2, OverwriteTyped DEF Moved
<1>4. Matches(d, p, i.rows, q)
  BY OverwriteRows
<1>q. i.do = "tx" => q = p
  <2>1. i.do = "tx" => i.rows = Rows
    BY DEF ProperWrite
  <2> QED BY <1>2, <2>1, CommitAll DEF Moved, TypedDB
<1> HIDE DEF q
<1>5. d.image \subseteq q.image /\ (i.fx \in {"image", "set"} => o.img \in q.image)
  <2>1. CASE i.do = "tx"
    BY <2>1, <1>q, <1>2 DEF Moved, ImagesMoved
  <2>2. CASE i.do = "write" /\ i.fx = "image"
    <3>1. i.rows = {<<"image", o.img>>} /\ o.img \in Images /\ o.img \in p.image
      BY <1>1, <1>2, <2>2 DEF ProperWrite, Fits, Moved, ImagesMoved
    <3>2. \A j \in Images : j \in d.image => j \in q.image
      BY <1>4, <3>1 DEF Matches
    <3>3. o.img \in q.image
      BY <1>4, <3>1 DEF Matches
    <3> QED BY <2>2, <3>2, <3>3 DEF TypedDB, IsDB
  <2>3. CASE i.do = "write" /\ i.fx # "image"
    <3>1. \A j : <<"image", j>> \notin i.rows
      BY <2>3 DEF ProperWrite
    <3>2. \A j \in Images : j \in d.image => j \in q.image
      BY <1>4, <3>1 DEF Matches
    <3> QED BY <2>3, <3>2 DEF TypedDB, IsDB
  <2> QED BY <2>1, <2>2, <2>3 DEF ProperWrite
<1>6. Backed(p, q.image)
  <2>1. ASSUME NEW r \in Repos PROVE TagsOf(p.repo[r]) \subseteq q.image
    <3>1. TagsOf(p.repo[r]) \subseteq TagsOf(v.repo[r]) \cup (IF i.fx = "set" THEN {o.img} ELSE {})
      BY <1>2, <2>1 DEF Moved, ImagesMoved
    <3>2. TagsOf(v.repo[r]) \subseteq q.image
      BY <1>5, <2>1 DEF Backed
    <3> QED BY <1>5, <3>1, <3>2
  <2> QED BY <2>1 DEF Backed
<1>7. Backed(d, q.image)
  BY <1>5 DEF Backed
<1>8. Backed(q, q.image)
  BY <1>6, <1>7, OverwriteBacked DEF q
<1> QED BY <1>3, <1>5, <1>8 DEF p, q

-----------------------------------------------------------------------------
(* The invariant of the types and of the queries.                            *)

\* The client k, when the records are d, the driver is b and the program of k has n calls.
ClientOK(k, d, b, n) ==
    /\ TypedDB(k.view) /\ Backed(k.view, d.image) /\ k.res # "missing"
    /\ k.op # None =>
         /\ Args(k.op) /\ k.pc \in 1..n
         /\ b = "dynamo" /\ k.op.name = "set" /\ k.pc \in 2..5 => k.op.img \in d.image
         /\ b # "bolt" /\ k.op.name = "query" /\ k.pc = 3 => Backed(k.view, k.view.image)

\* The records have their types, and every tag that is stored or that a client has read names an
\* image that is stored.
Stocked ==
    /\ TypedDB(db) /\ Backed(db, db.image)
    /\ \A c \in Clients : ClientOK(client[c], db, backend, Last(c))

\* The other variables.
Bounded ==
    /\ locks \in [LockNames -> Clients \cup {None, "dead"}]
    /\ late \in SUBSET Keys /\ added \in SUBSET Keys /\ revoked \in SUBSET Keys /\ gone \in SUBSET Keys
    /\ dropped \in SUBSET Repos
    /\ ops \in 0..load.max /\ faults \in 0..MaxFaults

\* The images that are stored stay.
LEMMA ClientStays ==
    ASSUME NEW k, NEW d, NEW e, NEW b, NEW n, ClientOK(k, d, b, n), d.image \subseteq e.image
    PROVE  ClientOK(k, e, b, n)
<1>1. Backed(k.view, d.image) => Backed(k.view, e.image)
  BY DEF Backed
<1> QED BY <1>1 DEF ClientOK

\* A step of client c: what is left to show.
LEMMA StockStep ==
    ASSUME Stocked, backend' = backend, NEW c \in Clients, NEW k, Moves(client, client', c, k),
           TypedDB(db'), Backed(db', db'.image), db.image \subseteq db'.image,
           ClientOK(k, db', backend, Len(Program(k.op)))
    PROVE  Stocked'
<1>1. /\ client'[c] = k /\ \A x \in Clients \ {c} : client'[x] = client[x]
  BY DEF Moves
<1>2. ASSUME NEW x \in Clients PROVE ClientOK(client'[x], db', backend', Last(x)')
  <2>1. CASE x = c
    <3>1. Last(c)' = Len(Program(k.op))
      BY <1>1, SameProgram
    <3> QED BY <1>1, <2>1, <3>1
  <2>2. CASE x # c
    <3>1. client'[x] = client[x]
      BY <1>1, <2>2
    <3>2. Last(x)' = Last(x)
      BY <3>1, SameProgram DEF Last
    <3>3. ClientOK(client[x], db, backend, Last(x))
      BY DEF Stocked
    <3> QED BY <3>1, <3>2, <3>3, ClientStays
  <2> QED BY <2>1, <2>2
<1> QED BY <1>2 DEF Stocked

\* A step that no client takes.
LEMMA StockRests ==
    ASSUME Stocked, backend' = backend, client' = client, db' = db
    PROVE  Stocked'
<1>1. ASSUME NEW x \in Clients PROVE Last(x)' = Last(x)
  BY SameProgram DEF Last
<1> QED BY <1>1 DEF Stocked

\* The place of a client, whatever the driver.
LEMMA PlaceOf ==
    ASSUME Inv, Stocked, NEW c \in Clients, client[c].op # None
    PROVE  /\ Typed(client[c].op) /\ Args(client[c].op) /\ Last(c) \in Nat /\ Last(c) > 1 /\ client[c].pc \in 1..Last(c)
           /\ Instr(c).do # "release" => client[c].pc < Last(c) 
           /\ client[c].pc < Last(c) => Proper(client[c].op, Instr(c))
<1>1. Typed(client[c].op)
  BY DEF Inv, Formed
<1>2. Tidy(client[c].op, Program(client[c].op))
  BY <1>1, Drivers, ProgramTidy
<1>3. Args(client[c].op) /\ client[c].pc \in 1..Last(c)
  BY DEF Stocked, ClientOK
<1> QED BY <1>1, <1>2, <1>3 DEF Tidy, Last, Instr

\* Client c goes on to k, one call further or at the end of its operation.
Goes(c, k) ==
    /\ client[c].op # None /\ Moves(client, client', c, k) /\ k.op = client[c].op /\ k.old = client[c].old
    /\ backend' = backend /\ load' = load /\ late' = late /\ added' = added /\ revoked' = revoked /\ gone' = gone
    /\ ops' = ops
    /\ k.pc = Last(c) \/ (client[c].pc < Last(c) /\ k.pc = client[c].pc + 1)

\* A client that goes on: what is left to show.
LEMMA GoesStocked ==
    ASSUME Inv, Stocked, NEW c \in Clients, NEW k, Goes(c, k),
           TypedDB(db'), Backed(db', db'.image), db.image \subseteq db'.image,
           TypedDB(k.view), Backed(k.view, db'.image), k.res # "missing",
           backend = "dynamo" /\ k.op.name = "set" /\ client[c].pc = 1 /\ k.pc = 2 => k.op.img \in db'.image,
           backend # "bolt" /\ k.op.name = "query" /\ client[c].pc = 2 /\ k.pc = 3 => Backed(k.view, k.view.image)
    PROVE  Stocked'
<1>1. k.op = client[c].op /\ Last(c) = Len(Program(k.op)) /\ k.op # None
  BY DEF Goes, Last
<1>2. /\ Typed(k.op) /\ Args(k.op) /\ Last(c) \in Nat /\ Last(c) > 1 /\ client[c].pc \in 1..Last(c)
      /\ ClientOK(client[c], db, backend, Last(c))
  BY <1>1, PlaceOf DEF Stocked
<1>3. k.pc = Last(c) \/ (client[c].pc < Last(c) /\ k.pc = client[c].pc + 1)
  BY DEF Goes
<1>4. k.pc \in 1..Last(c)
  BY <1>2, <1>3
<1>5. ASSUME backend = "dynamo", k.op.name = "set", k.pc \in 2..5 PROVE k.op.img \in db'.image
  <2>1. Last(c) = 6
    BY <1>1, <1>5, DynamoImageFirst
  <2>2. client[c].pc = k.pc - 1
    BY <1>2, <1>3, <1>5, <2>1
  <2>3. CASE k.pc = 2
    BY <1>5, <2>2, <2>3
  <2>4. CASE k.pc # 2
    <3>1. client[c].pc \in 2..5
      BY <1>5, <2>2, <2>4
    <3>2. k.op.img \in db.image
      BY <1>1, <1>2, <1>5, <3>1 DEF ClientOK
    <3> QED BY <3>2
  <2> QED BY <2>3, <2>4
<1>6. ASSUME backend # "bolt", k.op.name = "query", k.pc = 3 PROVE Backed(k.view, k.view.image)
  <2>1. backend \in {"redis", "dynamo"}
    BY <1>6, Drivers
  <2>2. Last(c) = 4
    BY <1>1, <1>6, <2>1, QueryCalls
  <2>3. client[c].pc = 2
    BY <1>2, <1>3, <1>6, <2>2
  <2> QED BY <1>6, <2>3
<1>7. ClientOK(k, db', backend, Len(Program(k.op)))
  BY <1>1, <1>2, <1>4, <1>5, <1>6 DEF ClientOK
<1> QED BY <1>7, StockStep DEF Goes

-----------------------------------------------------------------------------
(* The moves of a client, as the types and the keys need them.               *)

\* The new state after Continue: the fields.
LEMMA ContinueGoes ==
    ASSUME Inv, Stocked, NEW c \in Clients, client[c].op # None, NEW v, NEW res, Continue(c, v, res),
           client[c].pc < Last(c), backend' = backend, load' = load, late' = late, added' = added,
           revoked' = revoked, gone' = gone, ops' = ops
    PROVE  \E k : /\ Goes(c, k) /\ k.view = v /\ k.res = res /\ k.failed = client[c].failed
                  /\ k.pc = IF res = "ok" THEN client[c].pc + 1 ELSE Last(c)
<1> DEFINE p == IF res = "ok" THEN client[c].pc + 1 ELSE Last(c)
           k == Cl(client[c].op, p, v, res, client[c].failed, client[c].old)
<1>1. Moves(client, client', c, k)
  BY Continues DEF Inv
<1>2. /\ k.op = client[c].op /\ k.pc = p /\ k.view = v /\ k.res = res /\ k.failed = client[c].failed
      /\ k.old = client[c].old
  BY ClIs
<1> HIDE DEF k
<1>3. Goes(c, k)
  BY <1>1, <1>2 DEF Goes
<1> QED BY <1>2, <1>3

\* A client that begins.
LEMMA BeginMove ==
    ASSUME Inv, NEW c \in Clients, NEW o \in Requests, Begin(c, o)
    PROVE  /\ Typed(o) /\ Args(o) /\ client[c] = Idle
           /\ \E k : /\ Moves(client, client', c, k) /\ k.op = o /\ k.pc = 1
                     /\ k.view = client[c].view /\ k.res = client[c].res /\ k.failed = client[c].failed
                     /\ k.old = "gone" <=> o.key \in gone
                     /\ k.old = "late" => o.key \in late
<1> DEFINE a == CASE o.key \in gone    -> "gone"
                  [] o.key \in revoked \ gone -> "revoked"
                  [] o.key \in late \ (revoked \cup gone) -> "late"
                  [] OTHER -> "no"
           one == 1
           k == Cl(o, one, client[c].view, client[c].res, client[c].failed, a)
<1>1. client = [x \in Clients |-> client[x]] /\ IsCl(client[c]) /\ client[c] = Idle
  BY DEF Inv, Formed, Begin
<1>2. client' = [client EXCEPT ![c].op = o, ![c].pc = one, ![c].old = a]
  BY DEF Begin
<1>3. OpOK(o)
  <2>1. PICK n \in load.ops : o \in Calls(n)
    BY DEF Requests
  <2>2. load.ops \subseteq OpNames
    BY MetaClientsAssumption DEF Inv, Formed
  <2> QED BY <2>1, <2>2 DEF OpOK
<1>4. Typed(o) /\ Args(o)
  BY <1>3, OpTyped, OpArgs
<1>a. /\ a = "gone" <=> o.key \in gone
      /\ a = "late" => o.key \in late
  <2>1. CASE o.key \in gone
    <3>1. a = "gone"
      BY <2>1
    <3> QED BY <2>1, <3>1
  <2>2. CASE o.key \in revoked \ gone
    <3>1. a = "revoked"
      BY <2>2
    <3> QED BY <2>2, <3>1
  <2>3. CASE o.key \notin gone /\ o.key \notin revoked /\ o.key \in late
    <3>1. a = "late"
      BY <2>3
    <3> QED BY <2>3, <3>1
  <2>4. CASE o.key \notin gone /\ o.key \notin revoked /\ o.key \notin late
    <3>1. a = "no"
      BY <2>4
    <3> QED BY <2>4, <3>1
  <2> QED BY <2>1, <2>2, <2>3, <2>4
<1> HIDE DEF a, one
<1>5. Moves(client, client', c, k)
  <2>0. client' = [client EXCEPT ![c] = [client[c] EXCEPT !.op = o, !.pc = one, !.old = a]]
    BY <1>1, <1>2, FoldBegin
  <2>1. client' = [client EXCEPT ![c] = ToBegin(client[c], o, one, a)]
    BY <2>0 DEF ToBegin
  <2>3. ToBegin(client[c], o, one, a) = k
    BY <1>1, ClExceptBegin
  <2>4. client' = [client EXCEPT ![c] = k]
    BY <2>1, <2>3
  <2> HIDE DEF k
  <2> QED BY <1>1, <2>4, MoveOne
<1>6. /\ k.op = o /\ k.pc = one /\ k.view = client[c].view /\ k.res = client[c].res
      /\ k.failed = client[c].failed /\ k.old = a
  BY ClIs
<1> HIDE DEF k
<1> QED BY <1>1, <1>4, <1>5, <1>6, <1>a DEF one

\* A client whose call fails.
LEMMA FailsMove ==
    ASSUME Inv, Stocked, NEW c \in Clients, CallFails(c)
    PROVE  \E k : /\ Goes(c, k) /\ k.view = client[c].view /\ k.pc = Last(c) /\ k.failed
                  /\ k.res = "error" \/ (k.res = "ok" /\ Instr(c).fx = "delkey")
<1> DEFINE r == IF backend = "redis" /\ Instr(c).fx = "delkey" THEN "ok" ELSE "error"
           yes == TRUE
           k == Cl(client[c].op, Last(c), client[c].view, r, yes, client[c].old)
<1>0. client = [x \in Clients |-> client[x]] /\ IsCl(client[c])
  BY DEF Inv, Formed
<1>1. /\ client[c].op # None
      /\ client' = [client EXCEPT ![c].pc = Last(c), ![c].failed = yes, ![c].res = r]
      /\ backend' = backend /\ load' = load /\ late' = late /\ added' = added
      /\ revoked' = revoked /\ gone' = gone /\ ops' = ops
  BY DEF CallFails, At, history
<1>r. r = "error" \/ (r = "ok" /\ Instr(c).fx = "delkey")
  OBVIOUS
<1>y. yes
  OBVIOUS
<1> HIDE DEF r, yes
<1>2. Moves(client, client', c, k)
  <2>0. client' = [client EXCEPT ![c] = [client[c] EXCEPT !.pc = Last(c), !.failed = yes, !.res = r]]
    BY <1>0, <1>1, FoldFails
  <2>1. client' = [client EXCEPT ![c] = ToFailed(client[c], Last(c), yes, r)]
    BY <2>0 DEF ToFailed
  <2>2. ToFailed(client[c], Last(c), yes, r) = k
    BY <1>0, ClExceptFails
  <2>3. client' = [client EXCEPT ![c] = k]
    BY <2>1, <2>2
  <2> HIDE DEF k
  <2> QED BY <1>0, <2>3, MoveOne
<1>3. /\ k.op = client[c].op /\ k.pc = Last(c) /\ k.view = client[c].view /\ k.res = r /\ k.failed = yes
      /\ k.old = client[c].old
  BY ClIs
<1> HIDE DEF k
<1>4. Goes(c, k)
  BY <1>1, <1>2, <1>3 DEF Goes
<1>5. k.failed
  BY <1>3, <1>y
<1> QED BY <1>3, <1>4, <1>5, <1>r

\* A lock is taken or not, or a section ends.
LEMMA LockMove ==
    ASSUME Inv, Stocked, NEW c \in Clients, Take(c) \/ LockFails(c) \/ (ReleaseLocks(c) /\ client[c].pc < Last(c))
    PROVE  \E k : /\ Goes(c, k) /\ k.view = client[c].view /\ k.failed = client[c].failed
                  /\ (k.res = "error" /\ k.pc = Last(c)) \/ (k.res = "ok" /\ k.pc = client[c].pc + 1)
                  /\ client[c].pc < Last(c) /\ Instr(c).do \in {"lock", "release"}
                  /\ db' = db /\ dropped' = dropped /\ faults' = faults
<1>1. CASE Take(c)
  <2>1. /\ client[c].op # None /\ Instr(c).do = "lock" /\ Continue(c, client[c].view, "ok")
        /\ backend' = backend /\ load' = load /\ late' = late /\ added' = added
        /\ revoked' = revoked /\ gone' = gone /\ ops' = ops /\ db' = db /\ dropped' = dropped /\ faults' = faults
    BY <1>1 DEF Take, At, Instr, history
  <2>2. client[c].pc < Last(c)
    BY <2>1, PlaceOf
  <2> QED BY <2>1, <2>2, ContinueGoes
<1>2. CASE LockFails(c)
  <2>1. /\ client[c].op # None /\ Instr(c).do = "lock" /\ Continue(c, client[c].view, "error")
        /\ backend' = backend /\ load' = load /\ late' = late /\ added' = added
        /\ revoked' = revoked /\ gone' = gone /\ ops' = ops /\ db' = db /\ dropped' = dropped /\ faults' = faults
    BY <1>2 DEF LockFails, At, Instr, history
  <2>2. client[c].pc < Last(c)
    BY <2>1, PlaceOf
  <2> QED BY <2>1, <2>2, ContinueGoes
<1>3. CASE ReleaseLocks(c) /\ client[c].pc < Last(c)
  <2>1. /\ client[c].op # None /\ Instr(c).do = "release" /\ Continue(c, client[c].view, "ok")
        /\ backend' = backend /\ load' = load /\ late' = late /\ added' = added
        /\ revoked' = revoked /\ gone' = gone /\ ops' = ops /\ db' = db /\ dropped' = dropped /\ faults' = faults
    BY <1>3 DEF ReleaseLocks, At, Instr
  <2> QED BY <1>3, <2>1, ContinueGoes
<1> QED BY <1>1, <1>2, <1>3

\* Rows are read.
LEMMA ReadMove ==
    ASSUME Inv, Stocked, NEW c \in Clients, ReadRow(c)
    PROVE  /\ client[c].op # None /\ Instr(c).do = "read" /\ client[c].pc < Last(c)
           /\ db' = db /\ dropped' = dropped /\ locks' = locks /\ faults' = faults
           /\ \E k : /\ Goes(c, k) /\ k.view = Overwrite(client[c].view, db, Instr(c).rows)
                     /\ k.failed = client[c].failed /\ k.res = "ok" /\ k.pc = client[c].pc + 1
<1> DEFINE v == Overwrite(client[c].view, db, Instr(c).rows)
<1>1. /\ client[c].op # None /\ Instr(c).do = "read" /\ Continue(c, v, "ok")
      /\ backend' = backend /\ load' = load /\ late' = late /\ added' = added
      /\ revoked' = revoked /\ gone' = gone /\ ops' = ops /\ db' = db /\ dropped' = dropped /\ locks' = locks
      /\ faults' = faults
  BY DEF ReadRow, At, Instr, history
<1>2. client[c].pc < Last(c)
  BY <1>1, PlaceOf
<1> HIDE DEF v
<1>3. \E k : /\ Goes(c, k) /\ k.view = v /\ k.failed = client[c].failed /\ k.res = "ok" /\ k.pc = client[c].pc + 1
  BY <1>1, <1>2, ContinueGoes
<1> QED BY <1>1, <1>2, <1>3 DEF v

\* The view of a write.
ViewOf(c) == IF Instr(c).do = "tx" THEN db ELSE client[c].view

\* Rows are written.
LEMMA WriteMove ==
    ASSUME Inv, Stocked, NEW c \in Clients, WriteRows(c)
    PROVE  LET o == client[c].op
               R == Result(Instr(c).fx, o, ViewOf(c))
           IN  /\ o # None /\ Instr(c).do \in {"write", "tx"} /\ client[c].pc < Last(c)
               /\ locks' = locks /\ faults' = faults
               /\ db' = IF Writes(Instr(c).fx, o, ViewOf(c), late)
                        THEN Overwrite(db, Apply(Instr(c).fx, o, ViewOf(c), late), Instr(c).rows) ELSE db
               /\ dropped' = IF Instr(c).fx = "drop" THEN dropped \cup {o.repo} ELSE dropped
               /\ \E k : /\ Goes(c, k) /\ k.view = client[c].view /\ k.failed = client[c].failed
                         /\ k.res = R /\ k.pc = IF R = "ok" THEN client[c].pc + 1 ELSE Last(c)
<1> DEFINE o == client[c].op
           R == Result(Instr(c).fx, o, ViewOf(c))
<1>1. /\ o # None /\ Instr(c).do \in {"write", "tx"} /\ Continue(c, client[c].view, R)
      /\ backend' = backend /\ load' = load /\ late' = late /\ added' = added
      /\ revoked' = revoked /\ gone' = gone /\ ops' = ops /\ locks' = locks /\ faults' = faults
  BY DEF WriteRows, At, Instr, ViewOf
<1>2. /\ db' = IF Writes(Instr(c).fx, o, ViewOf(c), late)
               THEN Overwrite(db, Apply(Instr(c).fx, o, ViewOf(c), late), Instr(c).rows) ELSE db
      /\ dropped' = IF Instr(c).fx = "drop" THEN dropped \cup {o.repo} ELSE dropped
  BY DEF WriteRows, ViewOf
<1>3. client[c].pc < Last(c)
  BY <1>1, PlaceOf
<1> HIDE DEF R
<1>4. \E k : /\ Goes(c, k) /\ k.view = client[c].view /\ k.failed = client[c].failed
             /\ k.res = R /\ k.pc = IF R = "ok" THEN client[c].pc + 1 ELSE Last(c)
  BY <1>1, <1>3, ContinueGoes
<1> QED BY <1>1, <1>2, <1>3, <1>4 DEF R

-----------------------------------------------------------------------------
(* Every step keeps the types and the images behind the tags.                *)

\* An operation begins.
LEMMA StockBegin ==
    ASSUME Inv, Stocked, NEW c \in Clients, NEW o \in Requests, Begin(c, o)
    PROVE  Stocked'
<1>1. Typed(o) /\ Args(o) /\ backend' = backend /\ db' = db
  BY BeginMove DEF Begin
<1>2. PICK k : /\ Moves(client, client', c, k) /\ k.op = o /\ k.pc = 1
               /\ k.view = client[c].view /\ k.res = client[c].res
  BY BeginMove
<1>3. Len(Program(o)) \in Nat /\ Len(Program(o)) > 1
  BY <1>1, Drivers, ProgramTidy DEF Tidy
<1>4. ClientOK(client[c], db, backend, Last(c)) /\ TypedDB(db) /\ Backed(db, db.image)
  BY DEF Stocked
<1>5. ClientOK(k, db', backend, Len(Program(k.op)))
  BY <1>1, <1>2, <1>3, <1>4 DEF ClientOK
<1> QED BY <1>1, <1>2, <1>4, <1>5, StockStep

\* A lock is taken or not, or a section ends.
LEMMA StockLock ==
    ASSUME Inv, Stocked, NEW c \in Clients, Take(c) \/ LockFails(c) \/ (ReleaseLocks(c) /\ client[c].pc < Last(c))
    PROVE  Stocked'
<1>1. PICK k : /\ Goes(c, k) /\ k.view = client[c].view
               /\ (k.res = "error" /\ k.pc = Last(c)) \/ (k.res = "ok" /\ k.pc = client[c].pc + 1)
               /\ client[c].pc < Last(c) /\ Instr(c).do \in {"lock", "release"} /\ db' = db
  BY LockMove
<1>2. ClientOK(client[c], db, backend, Last(c)) /\ TypedDB(db) /\ Backed(db, db.image)
  BY DEF Stocked
<1>3. k.op = client[c].op /\ client[c].op # None
  BY <1>1 DEF Goes
<1>4. ASSUME backend = "dynamo", k.op.name = "set", client[c].pc = 1, k.pc = 2 PROVE FALSE
  <2>1. Instr(c) = Write({ImageRow(k.op)}, "image")
    BY <1>3, <1>4, DynamoImageFirst DEF Instr
  <2> QED BY <1>1, <2>1, Instrs
<1>5. ASSUME backend # "bolt", k.op.name = "query", client[c].pc = 2, k.pc = 3 PROVE FALSE
  <2>1. Instr(c) = ReadImages
    BY <1>3, <1>5, QueryCalls, Drivers DEF Instr
  <2> QED BY <1>1, <2>1, Instrs
<1> QED BY <1>1, <1>2, <1>4, <1>5, GoesStocked DEF ClientOK

\* A call fails.
LEMMA StockFails ==
    ASSUME Inv, Stocked, NEW c \in Clients, CallFails(c)
    PROVE  Stocked'
<1>1. PICK k : /\ Goes(c, k) /\ k.view = client[c].view /\ k.pc = Last(c)
               /\ k.res = "error" \/ (k.res = "ok" /\ Instr(c).fx = "delkey")
  BY FailsMove
<1>2. ClientOK(client[c], db, backend, Last(c)) /\ TypedDB(db) /\ Backed(db, db.image) /\ db' = db
  BY DEF Stocked, CallFails
<1>3. k.op = client[c].op /\ client[c].op # None
  BY <1>1 DEF Goes
<1>4. ASSUME backend = "dynamo", k.op.name = "set", client[c].pc = 1, k.pc = 2 PROVE FALSE
  <2>1. Len(Program(k.op)) = 6 /\ Last(c) = Len(Program(k.op))
    BY <1>3, <1>4, DynamoImageFirst DEF Last
  <2>2. k.pc = Last(c)
    BY <1>1
  <2>3. k.pc = 6
    BY <2>1, <2>2
  <2> QED BY <1>4, <2>3
<1>5. ASSUME backend # "bolt", k.op.name = "query", client[c].pc = 2, k.pc = 3 PROVE FALSE
  <2>1. Len(Program(k.op)) = 4 /\ Last(c) = Len(Program(k.op))
    BY <1>3, <1>5, QueryCalls, Drivers DEF Last
  <2>2. k.pc = Last(c)
    BY <1>1
  <2>3. k.pc = 4
    BY <2>1, <2>2
  <2> QED BY <1>5, <2>3
<1> QED BY <1>1, <1>2, <1>4, <1>5, GoesStocked DEF ClientOK

\* The images of the view after they are read are those of the records.
LEMMA ReadsImages ==
    ASSUME NEW v, NEW d, IsDB(d)
    PROVE  d.image \subseteq Overwrite(v, d, ReadImages.rows).image
<1>1. d.image \subseteq Images
  BY DEF IsDB
<1>2. ReadImages.rows = {<<"image", i>> : i \in Images}
  BY DEF ReadImages
<1>3. ASSUME NEW j \in Images, j \in d.image PROVE j \in Overwrite(v, d, ReadImages.rows).image
  <2>1. <<"image", j>> \in ReadImages.rows
    BY <1>2, <1>3
  <2> QED BY <2>1, <1>3 DEF Overwrite
<1> QED BY <1>1, <1>3

\* Rows are read.
LEMMA StockRead ==
    ASSUME Inv, Stocked, NEW c \in Clients, ReadRow(c)
    PROVE  Stocked'
<1>1. /\ client[c].op # None /\ Instr(c).do = "read" /\ client[c].pc < Last(c) /\ db' = db
  BY ReadMove
<1>2. PICK k : /\ Goes(c, k) /\ k.view = Overwrite(client[c].view, db, Instr(c).rows)
               /\ k.res = "ok" /\ k.pc = client[c].pc + 1
  BY ReadMove
<1>3. ClientOK(client[c], db, backend, Last(c)) /\ TypedDB(db) /\ Backed(db, db.image)
  BY DEF Stocked
<1>4. k.op = client[c].op
  BY <1>2 DEF Goes
<1>5. TypedDB(k.view) /\ Backed(k.view, db.image)
  BY <1>2, <1>3, OverwriteTyped, OverwriteBacked DEF ClientOK
<1>6. ASSUME backend = "dynamo", k.op.name = "set", client[c].pc = 1, k.pc = 2 PROVE FALSE
  <2>1. Instr(c) = Write({ImageRow(k.op)}, "image")
    BY <1>4, <1>6, DynamoImageFirst DEF Instr
  <2> QED BY <1>1, <2>1, Instrs
<1>7. ASSUME backend # "bolt", k.op.name = "query", client[c].pc = 2, k.pc = 3 PROVE Backed(k.view, k.view.image)
  <2>1. Instr(c) = ReadImages
    BY <1>4, <1>7, QueryCalls, Drivers DEF Instr
  <2>2. db.image \subseteq k.view.image
    BY <1>2, <1>3, <2>1, ReadsImages DEF TypedDB
  <2> QED BY <1>5, <2>2 DEF Backed
<1> QED BY <1>1, <1>2, <1>3, <1>5, <1>6, <1>7, GoesStocked

\* A client that writes the record of a push has its image stored.
LEMMA SetHasImage ==
    ASSUME Inv, Stocked, NEW c \in Clients, client[c].op # None, client[c].pc < Last(c),
           Instr(c).fx = "set", Instr(c).do = "write"
    PROVE  client[c].op.img \in db.image
<1> DEFINE o == client[c].op
           p == client[c].pc
<1>1. CASE backend = "redis"
  <2>1. Advances(o, p, Instr(c)) /\ Knows(o, p, client[c].view, db, locks, c)
    BY <1>1, RedisAt
  <2>2. MayWrite(o, p, Instr(c).rows, "set")
    BY <2>1 DEF Advances, WritesThem
  <2>3. ImageKnown(o.name, p)
    BY <2>2 DEF MayWrite
  <2> QED BY <2>1, <2>3 DEF Knows
<1>2. CASE backend = "dynamo"
  <2>1. Proper(o, Instr(c)) /\ p \in 1..Last(c) /\ Last(c) \in Nat
    BY PlaceOf
  <2>2. "set" \in Parts(o)
    BY <2>1 DEF Proper, ProperWrite
  <2>3. o.name = "set"
    BY <2>2 DEF Parts
  <2>4. Last(c) = 6 /\ Program(o)[1] = Write({ImageRow(o)}, "image")
    BY <1>2, <2>3, DynamoImageFirst DEF Last
  <2>5. p # 1
    <3>1. ASSUME p = 1 PROVE FALSE
      <4>1. Instr(c).fx = "image"
        BY <2>4, <3>1, Instrs DEF Instr
      <4> QED BY <4>1
    <3> QED BY <3>1
  <2>6. p \in 2..5
    BY <2>1, <2>4, <2>5
  <2>7. ClientOK(client[c], db, backend, Last(c))
    BY DEF Stocked
  <2> QED BY <1>2, <2>3, <2>6, <2>7 DEF ClientOK
<1>3. CASE backend = "bolt"
  <2>1. TxFits(o, Instr(c))
    BY <1>3, BoltAt
  <2> QED BY <2>1 DEF TxFits
<1> QED BY <1>1, <1>2, <1>3, Drivers

\* The result of a write is not that an image is missing.
LEMMA ResultFound ==
    ASSUME Inv, Stocked, NEW c \in Clients, client[c].op # None, client[c].pc < Last(c), Instr(c).do \in {"write", "tx"}
    PROVE  Result(Instr(c).fx, client[c].op, ViewOf(c)) # "missing"
<1> DEFINE o == client[c].op
           p == client[c].pc
           v == ViewOf(c)
<1>1. CASE Instr(c).fx # "query"
  <2>1. CASE Instr(c).fx = "owner"
    BY <2>1 DEF Result
  <2>2. CASE Instr(c).fx = "expired"
    BY <2>2 DEF Result
  <2>3. CASE Instr(c).fx \notin {"owner", "expired"}
    <3> HIDE DEF v
    <3>1. Result(Instr(c).fx, o, v) = IF Writes(Instr(c).fx, o, v, late) THEN "ok" ELSE "nothing"
      BY <1>1, <2>3 DEF Result
    <3> QED BY <3>1 DEF v
  <2> QED BY <2>1, <2>2, <2>3
<1>2. CASE Instr(c).fx = "query"
  <2>1. Proper(o, Instr(c)) /\ p \in 1..Last(c) /\ Last(c) \in Nat /\ Typed(o)
    BY PlaceOf
  <2>2. "query" \notin Fxs
    BY DEF Fxs, RepoFx, UserFx
  <2>3. o.name = "query" /\ o.repo \in Repos
    BY <1>2, <2>1, <2>2 DEF Proper, ProperWrite, Typed, RepoNames
  <2>4. ClientOK(client[c], db, backend, Last(c)) /\ Backed(db, db.image)
    BY DEF Stocked
  <2>5. Backed(v, v.image)
    <3>1. CASE Instr(c).do = "tx"
      BY <2>4, <3>1 DEF ViewOf
    <3>2. CASE Instr(c).do = "write"
      <4>1. backend # "bolt"
        <5>1. ASSUME backend = "bolt" PROVE FALSE
          <6>1. TxFits(o, Instr(c))
            BY <5>1, BoltAt
          <6> QED BY <3>2, <6>1 DEF TxFits
        <5> QED BY <5>1
      <4>2. /\ Last(c) = 4 /\ Program(o)[1] = Read(RepoRow(o)) /\ Program(o)[2] = ReadImages
        BY <4>1, <2>3, QueryCalls, Drivers DEF Last
      <4>3. p # 1 /\ p # 2
        BY <3>2, <4>2, Instrs DEF Instr
      <4>4. p = 3
        BY <2>1, <4>2, <4>3
      <4>5. v = client[c].view
        BY <3>2 DEF ViewOf
      <4> QED BY <2>3, <2>4, <4>1, <4>4, <4>5 DEF ClientOK
    <3> QED BY <3>1, <3>2
  <2> HIDE DEF v
  <2>6. v.repo[o.repo] # None => Tagged(v.repo[o.repo]) \subseteq v.image
    BY <2>3, <2>5 DEF Backed, TagsOf
  <2>7. Result("query", o, v) = IF v.repo[o.repo] # None /\ ~(Tagged(v.repo[o.repo]) \subseteq v.image)
                                THEN "missing" ELSE "ok"
    BY DEF Result
  <2> QED BY <1>2, <2>6, <2>7 DEF v
<1> QED BY <1>1, <1>2

\* Rows are written.
LEMMA StockWrite ==
    ASSUME Inv, Stocked, NEW c \in Clients, WriteRows(c)
    PROVE  Stocked'
<1> DEFINE o == client[c].op
           i == Instr(c)
           v == ViewOf(c)
           R == Result(i.fx, o, v)
<1>1. /\ o # None /\ i.do \in {"write", "tx"} /\ client[c].pc < Last(c)
      /\ db' = IF Writes(i.fx, o, v, late) THEN Overwrite(db, Apply(i.fx, o, v, late), i.rows) ELSE db
  BY WriteMove
<1>2. PICK k : /\ Goes(c, k) /\ k.view = client[c].view
               /\ k.res = R /\ k.pc = IF R = "ok" THEN client[c].pc + 1 ELSE Last(c)
  BY WriteMove
<1>3. ClientOK(client[c], db, backend, Last(c)) /\ TypedDB(db) /\ Backed(db, db.image)
  BY DEF Stocked
<1>4. k.op = o
  BY <1>2 DEF Goes
<1>5. Typed(o) /\ Args(o) /\ Proper(o, i)
  BY <1>1, PlaceOf
<1>6. R # "missing"
  BY <1>1, ResultFound
<1>7. TypedDB(v) /\ Backed(v, db.image) /\ (i.do = "tx" => v = db)
  BY <1>3 DEF ViewOf, ClientOK
<1>8. i.fx = "set" /\ i.do = "write" => o.img \in db.image
  BY <1>1, SetHasImage
<1>9. ProperWrite(o, i)
  BY <1>1, <1>5 DEF Proper
<1>w. CASE Writes(i.fx, o, v, late)
  <2>1. i.fx \notin {"owner", "query"}
    BY <1>w, NeverWrites
  <2> DEFINE q == Overwrite(db, Apply(i.fx, o, v, late), i.rows)
  <2>2. db' = q
    BY <1>1, <1>w
  <2> HIDE DEF o, v, i, R
  <2>3. TypedDB(q) /\ Backed(q, q.image) /\ db.image \subseteq q.image /\ (i.fx = "image" => o.img \in q.image)
    BY <1>3, <1>5, <1>7, <1>8, <1>9, <1>w, <2>1, WriteKeeps
  <2> HIDE DEF q
  <2> USE DEF o, i
  <2>4. Backed(k.view, db'.image) /\ TypedDB(k.view)
    BY <1>2, <1>3, <2>2, <2>3 DEF ClientOK, Backed
  <2>5. ASSUME backend = "dynamo", k.op.name = "set", client[c].pc = 1, k.pc = 2 PROVE k.op.img \in db'.image
    <3>1. i = Write({ImageRow(k.op)}, "image")
      BY <1>4, <2>5, DynamoImageFirst DEF Instr
    <3>2. i.fx = "image"
      BY <3>1, Instrs
    <3> QED BY <1>4, <2>2, <2>3, <3>2
  <2>6. ASSUME backend # "bolt", k.op.name = "query", client[c].pc = 2, k.pc = 3 PROVE FALSE
    <3>1. i = ReadImages
      BY <1>4, <2>6, QueryCalls, Drivers, <1>1 DEF Instr
    <3> QED BY <1>1, <3>1, Instrs
  <2> QED BY <1>2, <1>6, <2>2, <2>3, <2>4, <2>5, <2>6, GoesStocked
<1>n. CASE ~Writes(i.fx, o, v, late)
  <2>2. db' = db
    BY <1>1, <1>n
  <2> HIDE DEF v, R
  <2>4. Backed(k.view, db'.image) /\ TypedDB(k.view)
    BY <1>2, <1>3, <2>2 DEF ClientOK
  <2>5. ASSUME backend = "dynamo", k.op.name = "set", client[c].pc = 1, k.pc = 2 PROVE FALSE
    <3>1. i = Write({ImageRow(k.op)}, "image")
      BY <1>4, <2>5, DynamoImageFirst DEF Instr
    <3>2. i.fx = "image"
      BY <3>1, Instrs
    <3>3. Writes("image", o, v, late)
      BY DEF Writes
    <3> QED BY <1>n, <3>2, <3>3
  <2>6. ASSUME backend # "bolt", k.op.name = "query", client[c].pc = 2, k.pc = 3 PROVE FALSE
    <3>1. i = ReadImages
      BY <1>4, <2>6, QueryCalls, Drivers, <1>1 DEF Instr
    <3> QED BY <1>1, <3>1, Instrs
  <2> QED BY <1>2, <1>3, <1>6, <2>2, <2>4, <2>5, <2>6, GoesStocked
<1> QED BY <1>w, <1>n

\* The records of a new server.
LEMMA EmptyStock == TypedDB(EmptyDB) /\ Backed(EmptyDB, {})
<1>1. IsDB(EmptyDB)
  BY EmptyIsDB
<1>2. /\ \A r \in Repos : EmptyDB.repo[r] = None /\ EmptyDB.blobs[r] = {}
      /\ \A u \in Users : EmptyDB.user[u] = None
      /\ \A k \in Keys : EmptyDB.key[k] = None
  BY DEF EmptyDB
<1> QED BY <1>1, <1>2 DEF TypedDB, TypedRepos, TypedUsers, TypedKeys, Backed, TagsOf

\* A client that has its answer, or has died.
LEMMA StockEnd ==
    ASSUME Inv, Stocked, NEW c \in Clients, client' = [client EXCEPT ![c] = Idle], backend' = backend, db' = db
    PROVE  Stocked'
<1> DEFINE k == Idle
<1>1. Moves(client, client', c, Idle)
  BY MoveOne DEF Inv, Formed
<1>2. Idle.op = None /\ Idle.view = EmptyDB /\ Idle.res = "ok"
  BY DEF Idle
<1>3. TypedDB(db) /\ Backed(db, db.image)
  BY DEF Stocked
<1>4. ClientOK(Idle, db', backend, Len(Program(Idle.op)))
  BY <1>2, EmptyStock DEF ClientOK, Backed
<1> QED BY <1>1, <1>3, <1>4, StockStep

\* Every step.
LEMMA StockNext ==
    ASSUME Inv, Stocked, [Next]_vars
    PROVE  Stocked'
<1>1. CASE UNCHANGED vars
  BY <1>1, StockRests DEF vars
<1>2. ASSUME NEW c \in Clients, NEW o \in Requests, Begin(c, o) PROVE Stocked'
  BY <1>2, StockBegin
<1>3. ASSUME NEW c \in Clients, Take(c) \/ LockFails(c) PROVE Stocked'
  BY <1>3, StockLock
<1>5. ASSUME NEW c \in Clients, ReadRow(c) PROVE Stocked'
  BY <1>5, StockRead
<1>6. ASSUME NEW c \in Clients, WriteRows(c) PROVE Stocked'
  BY <1>6, StockWrite
<1>7. ASSUME NEW c \in Clients, CallFails(c) PROVE Stocked'
  BY <1>7, StockFails
<1>8. ASSUME NEW c \in Clients, ReleaseLocks(c) PROVE Stocked'
  <2>1. CASE client[c].pc < Last(c)
    BY <1>8, <2>1, StockLock
  <2>2. CASE ~(client[c].pc < Last(c))
    BY <1>8, <2>2, StockEnd DEF ReleaseLocks
  <2> QED BY <2>1, <2>2
<1>9. ASSUME NEW c \in Clients, Crash(c) PROVE Stocked'
  BY <1>9, StockEnd DEF Crash
<1>10. ASSUME NEW l \in LockNames, LockExpires(l) PROVE Stocked'
  BY <1>10, StockRests DEF LockExpires
<1>11. ASSUME NEW k \in Keys, DatePasses(k) PROVE Stocked'
  BY <1>11, StockRests DEF DatePasses
<1> QED BY <1>1, <1>2, <1>3, <1>5, <1>6, <1>7, <1>8, <1>9, <1>10, <1>11 DEF Next

-----------------------------------------------------------------------------
(* The first states.                                                         *)

\* The records of a server with an image and keys.
LEMMA SetupStock ==
    /\ TypedDB(Setup) /\ Backed(Setup, Setup.image)
    /\ \A r \in Repos : StarsOf(Setup.repo[r]) = 0
    /\ \A u \in Users : Starred(Setup.user[u]) = {}
    /\ \A k \in Keys : Setup.key[k] = Owner[k] /\ Named(Setup.user[Owner[k]], k)
<1> DEFINE i == CHOOSE i \in Images : SigOf[i] = None
           t == CHOOSE t \in Tags : TRUE
           m == SetRepoReference(EmptyMeta, t, i)
           rm == [m EXCEPT !.blobs = {}]
           e == [named |-> TRUE, expired |-> FALSE]
           K(u) == [k \in Keys |-> IF Owner[k] = u THEN e ELSE None]
           us(u) == IF \E k \in Keys : Owner[k] = u THEN [NewUser EXCEPT !.keys = K(u)] ELSE None
<1>1. i \in Images /\ t \in Tags
  BY MetaRecordsAssumption
<1>2. Setup = [repo |-> [r \in Repos |-> rm], blobs |-> [r \in Repos |-> {i}],
               user |-> [u \in Users |-> us(u)], key |-> Owner, image |-> {i}]
  BY DEF Setup
<1>e. e \in KeyEntries /\ e.named
  BY DEF KeyEntries
<1> HIDE DEF i, t, e
<1>3. Follows(EmptyMeta, m, {i})
  BY <1>1, EmptyRecord, SetFollows
<1> HIDE DEF m
<1>4. Follows(m, rm, {})
  BY <1>3, PutBlobs DEF Follows
<1> HIDE DEF rm
<1>5. rm \in RepoRecords /\ Tagged(rm) \subseteq {i} /\ rm.stars = 0 /\ rm # None
  BY <1>3, <1>4, EmptyRecord, RecordsExist DEF Follows
<1>6. ASSUME NEW u \in Users PROVE /\ us(u) \in UserRecords \cup {None} /\ Starred(us(u)) = {}
                                 /\ \A k \in Keys : Owner[k] = u => Named(us(u), k)
  <2>1. K(u) \in [Keys -> KeyEntries \cup {None}] /\ \A k \in Keys : Owner[k] = u => K(u)[k] = e
    BY <1>e
  <2>2. \A k \in Keys \ {} : NewUser.keys[k] # None /\ NewUser.keys[k].named => K(u)[k] # None /\ K(u)[k].named
    BY NewUserRecord
  <2> HIDE DEF K
  <2>3. UserFollows(NewUser, [NewUser EXCEPT !.keys = K(u)], {}) /\ [NewUser EXCEPT !.keys = K(u)].keys = K(u)
    BY <2>1, <2>2, NewUserRecord, KeysFollow
  <2> DEFINE y == [NewUser EXCEPT !.keys = K(u)]
  <2>4. y \in UserRecords /\ y # None /\ Starred(y) = {} /\ y.keys = K(u)
    BY <2>3, NewUserRecord, RecordsExist DEF UserFollows, Starred
  <2>5. us(u) = IF \E k \in Keys : Owner[k] = u THEN y ELSE None
    OBVIOUS
  <2> HIDE DEF y, us
  <2>6. us(u) \in UserRecords \cup {None} /\ Starred(us(u)) = {}
    BY <2>4, <2>5 DEF Starred
  <2>7. ASSUME NEW k \in Keys, Owner[k] = u PROVE Named(us(u), k)
    <3>1. us(u) = y /\ K(u)[k] = e
      BY <2>1, <2>5, <2>7
    <3>2. e # None
      BY <1>e, RecordsExist
    <3> QED BY <1>e, <2>4, <3>1, <3>2 DEF Named
  <2> QED BY <2>6, <2>7
<1> HIDE DEF us
<1>7. /\ \A r \in Repos : Setup.repo[r] = rm /\ Setup.blobs[r] = {i}
      /\ \A u \in Users : Setup.user[u] = us(u)
      /\ Setup.key = Owner /\ Setup.image = {i}
  BY <1>2
<1>8. \A k \in Keys : Owner[k] \in Users
  BY MetaRecordsAssumption
<1>9. TypedDB(Setup)
  <2>1. TypedRepos(Setup)
    BY <1>1, <1>5, <1>7 DEF TypedRepos
  <2>2. TypedUsers(Setup)
    BY <1>6, <1>7 DEF TypedUsers
  <2>3. TypedKeys(Setup)
    BY <1>7, <1>8 DEF TypedKeys
  <2> QED BY <2>1, <2>2, <2>3, SetupIsDB DEF TypedDB
<1>10. Backed(Setup, Setup.image) /\ \A r \in Repos : StarsOf(Setup.repo[r]) = 0
  BY <1>5, <1>7 DEF Backed, TagsOf, StarsOf
<1>11. \A u \in Users : Starred(Setup.user[u]) = {}
  BY <1>6, <1>7
<1>12. \A k \in Keys : Setup.key[k] = Owner[k] /\ Named(Setup.user[Owner[k]], k)
  BY <1>6, <1>7, <1>8
<1> QED BY <1>9, <1>10, <1>11, <1>12

\* The first states.
LEMMA StockInit == Init => Stocked
<1> SUFFICES ASSUME Init PROVE Stocked
  OBVIOUS
<1>1. db \in {EmptyDB, Setup} /\ client = [c \in Clients |-> Idle]
  BY DEF Init
<1>2. TypedDB(db) /\ Backed(db, db.image)
  <2>1. CASE db = EmptyDB
    BY <2>1, EmptyStock, EmptyIsDB
  <2>2. CASE db = Setup
    BY <2>2, SetupStock
  <2> QED BY <1>1, <2>1, <2>2
<1>3. Idle.op = None /\ Idle.view = EmptyDB /\ Idle.res = "ok"
  BY DEF Idle
<1>4. ASSUME NEW c \in Clients PROVE ClientOK(client[c], db, backend, Last(c))
  <2>1. client[c] = Idle
    BY <1>1
  <2> QED BY <1>3, <2>1, EmptyStock DEF ClientOK, Backed
<1> QED BY <1>2, <1>4 DEF Stocked

-----------------------------------------------------------------------------
(* The other variables.                                                      *)

\* At the start.
LEMMA BoundedInit == Init => Bounded
<1> SUFFICES ASSUME Init PROVE Bounded
  OBVIOUS
<1>1. load.max \in Nat /\ MaxFaults \in Nat
  BY MetaClientsAssumption DEF Init
<1>2. locks \in [LockNames -> Clients \cup {None, "dead"}]
  BY DEF Init
<1>3. added \in SUBSET Keys
  BY DEF Init
<1> QED BY <1>1, <1>2, <1>3 DEF Init, Bounded

\* After every step.
LEMMA BoundedNext ==
    ASSUME Inv, Stocked, Bounded, [Next]_vars
    PROVE  Bounded'
<1>0. /\ load.max \in Nat /\ MaxFaults \in Nat /\ ops \in 0..load.max /\ faults \in 0..MaxFaults
      /\ locks \in [LockNames -> Clients \cup {None, "dead"}]
  BY MetaClientsAssumption DEF Inv, Formed, Bounded
<1>1. CASE UNCHANGED vars
  BY <1>1 DEF vars, history, Bounded
<1>2. ASSUME NEW c \in Clients, NEW o \in Requests, Begin(c, o) PROVE Bounded'
  <2>1. Typed(o)
    BY <1>2, BeginMove
  <2>2. o.name = "addkey" => o.key \in Keys
    BY <2>1 DEF Typed, KeyNames
  <2>3. added' \in SUBSET Keys
    BY <1>2, <2>2 DEF Begin, Bounded
  <2>4. ops' \in 0..load.max /\ load' = load
    BY <1>0, <1>2 DEF Begin
  <2> QED BY <1>2, <2>3, <2>4 DEF Begin, Bounded
<1>3. ASSUME NEW c \in Clients, Take(c) PROVE Bounded'
  <2>1. locks' \in [LockNames -> Clients \cup {None, "dead"}]
    BY <1>0, <1>3 DEF Take
  <2> QED BY <1>3, <2>1 DEF Take, Bounded, history
<1>4. ASSUME NEW c \in Clients, LockFails(c) PROVE Bounded'
  BY <1>4 DEF LockFails, Bounded, history
<1>5. ASSUME NEW c \in Clients, ReadRow(c) PROVE Bounded'
  BY <1>5 DEF ReadRow, Bounded, history
<1>6. ASSUME NEW c \in Clients, WriteRows(c) PROVE Bounded'
  <2> DEFINE o == client[c].op
  <2>1. /\ o # None /\ Instr(c).do \in {"write", "tx"} /\ client[c].pc < Last(c)
        /\ dropped' = IF Instr(c).fx = "drop" THEN dropped \cup {o.repo} ELSE dropped
    BY <1>6, WriteMove
  <2>2. Proper(o, Instr(c))
    BY <2>1, PlaceOf
  <2>3. Instr(c).fx = "drop" => o.repo \in Repos
    BY <2>1, <2>2 DEF Proper, ProperWrite, Fits, RepoFx
  <2>4. dropped' \in SUBSET Repos
    BY <2>1, <2>3 DEF Bounded
  <2> QED BY <1>6, <2>4 DEF WriteRows, Bounded
<1>7. ASSUME NEW c \in Clients, CallFails(c) PROVE Bounded'
  <2>1. faults' \in 0..MaxFaults
    BY <1>0, <1>7 DEF CallFails
  <2> QED BY <1>7, <2>1 DEF CallFails, Bounded, history
<1>8. ASSUME NEW c \in Clients, ReleaseLocks(c) PROVE Bounded'
  <2>1. locks' \in [LockNames -> Clients \cup {None, "dead"}]
    BY <1>0, <1>8 DEF ReleaseLocks
  <2>2. client[c].op # None
    BY <1>8 DEF ReleaseLocks, At
  <2>3. client[c].op.name = "delkey" => client[c].op.key \in Keys
    BY <2>2, PlaceOf DEF Typed, KeyNames
  <2>4. revoked' \in SUBSET Keys /\ gone' \in SUBSET Keys
    BY <1>8, <2>3 DEF ReleaseLocks, Bounded
  <2> QED BY <1>8, <2>1, <2>4 DEF ReleaseLocks, Bounded
<1>9. ASSUME NEW c \in Clients, Crash(c) PROVE Bounded'
  <2>1. faults' \in 0..MaxFaults
    BY <1>0, <1>9 DEF Crash
  <2>2. locks' \in [LockNames -> Clients \cup {None, "dead"}]
    BY <1>0, <1>9 DEF Crash
  <2> QED BY <1>9, <2>1, <2>2 DEF Crash, Bounded, history
<1>10. ASSUME NEW l \in LockNames, LockExpires(l) PROVE Bounded'
  <2>1. locks' \in [LockNames -> Clients \cup {None, "dead"}]
    BY <1>0, <1>10 DEF LockExpires
  <2> QED BY <1>10, <2>1 DEF LockExpires, Bounded, history
<1>11. ASSUME NEW k \in Keys, DatePasses(k) PROVE Bounded'
  BY <1>11 DEF DatePasses, Bounded, history
<1> QED BY <1>1, <1>2, <1>3, <1>4, <1>5, <1>6, <1>7, <1>8, <1>9, <1>10, <1>11 DEF Next

-----------------------------------------------------------------------------
(* The stars.                                                                *)

\* The users who starred r.
Fans(d, r) == {u \in Users : r \in Starred(d.user[u])}

\* They are counted right.
Counted ==
    backend # "dynamo" =>
      \A r \in Repos \ dropped : StarsOf(db.repo[r]) = Cardinality(Fans(db, r))

\* One user more, or one less.
LEMMA FansFinite ==
    ASSUME NEW d, NEW r
    PROVE  /\ IsFiniteSet(Fans(d, r)) /\ Cardinality(Fans(d, r)) \in Nat
           /\ \A u : u \in Fans(d, r) => Cardinality(Fans(d, r) \ {u}) = Cardinality(Fans(d, r)) - 1
           /\ \A u : u \notin Fans(d, r) => Cardinality(Fans(d, r) \cup {u}) = Cardinality(Fans(d, r)) + 1
<1>1. IsFiniteSet(Users) /\ Fans(d, r) \subseteq Users
  BY MetaRecordsAssumption DEF Fans
<1>2. IsFiniteSet(Fans(d, r))
  BY <1>1, FS_Subset
<1> HIDE DEF Fans
<1> QED BY <1>2, FS_CardinalityType, FS_AddElement, FS_RemoveElement

\* A change of the records that moves the stars together.
LEMMA StarsStay ==
    ASSUME NEW fx, NEW o, NEW d, NEW p, StarsMoved(fx, o, d, p), fx = "star" => o.user \in Users /\ o.repo \in Repos,
           NEW r \in Repos, ~(fx = "drop" /\ r = o.repo), StarsOf(d.repo[r]) = Cardinality(Fans(d, r))
    PROVE  StarsOf(p.repo[r]) = Cardinality(Fans(p, r))
<1>1. CASE ~(fx = "star" /\ r = o.repo)
  <2>1. StarsOf(p.repo[r]) = StarsOf(d.repo[r])
    BY <1>1 DEF StarsMoved
  <2>2. ASSUME NEW u \in Users PROVE r \in Starred(p.user[u]) <=> r \in Starred(d.user[u])
    <3>1. CASE fx = "star" /\ u = o.user
      <4>1. r # o.repo /\ Starred(p.user[u]) = Toggle(o.repo, Starred(d.user[u]))
        BY <1>1, <3>1 DEF StarsMoved
      <4> QED BY <4>1 DEF Toggle
    <3>2. CASE ~(fx = "star" /\ u = o.user)
      BY <3>2 DEF StarsMoved
    <3> QED BY <3>1, <3>2
  <2>3. Fans(p, r) = Fans(d, r)
    BY <2>2 DEF Fans
  <2> QED BY <2>1, <2>3
<1>2. CASE fx = "star" /\ r = o.repo
  <2>1. /\ Starred(p.user[o.user]) = Toggle(r, Starred(d.user[o.user]))
        /\ StarsOf(p.repo[r]) = IF r \in Starred(d.user[o.user]) THEN StarsOf(d.repo[r]) - 1 ELSE StarsOf(d.repo[r]) + 1
        /\ \A u \in Users : u # o.user => Starred(p.user[u]) = Starred(d.user[u])
        /\ o.user \in Users
    BY <1>2 DEF StarsMoved
  <2>2. CASE r \in Starred(d.user[o.user])
    <3>1. r \notin Starred(p.user[o.user])
      BY <2>1, <2>2 DEF Toggle
    <3>2. Fans(p, r) = Fans(d, r) \ {o.user} /\ o.user \in Fans(d, r)
      BY <2>1, <2>2, <3>1 DEF Fans
    <3>3. StarsOf(p.repo[r]) = StarsOf(d.repo[r]) - 1
      BY <2>1, <2>2
    <3> QED BY <3>2, <3>3, FansFinite
  <2>3. CASE r \notin Starred(d.user[o.user])
    <3>1. r \in Starred(p.user[o.user])
      BY <2>1, <2>3 DEF Toggle
    <3>2. Fans(p, r) = Fans(d, r) \cup {o.user} /\ o.user \notin Fans(d, r)
      BY <2>1, <2>3, <3>1 DEF Fans
    <3>3. StarsOf(p.repo[r]) = StarsOf(d.repo[r]) + 1
      BY <2>1, <2>3
    <3> QED BY <3>2, <3>3, FansFinite
  <2> QED BY <2>2, <2>3
<1> QED BY <1>1, <1>2

\* A change of the records by BoltDB or Redis is one of its operation, applied to the records as
\* they are.
LEMMA WriteMoved ==
    ASSUME Inv, Stocked, backend # "dynamo", NEW c \in Clients, WriteRows(c)
    PROVE  LET o == client[c].op
               fx == Instr(c).fx
           IN  \/ db' = db /\ ~Writes(fx, o, ViewOf(c), late)
               \/ /\ fx \in Parts(o) \cap Fxs /\ Fits(fx, o) /\ Writes(fx, o, db, late)
                  /\ Moved(fx, o, db, db')
<1> DEFINE o == client[c].op
           fx == Instr(c).fx
<1>1. CASE ~(db' = db /\ ~Writes(fx, o, ViewOf(c), late))
  <2>1. /\ fx \in Parts(o) \cap Fxs /\ Fits(fx, o) /\ Writes(fx, o, db, late) /\ db' = Apply(fx, o, db, late)
    BY <1>1, WriteChanges DEF ViewOf
  <2>2. o # None
    BY WriteMove
  <2>3. Typed(o) /\ Args(o)
    BY <2>2, PlaceOf
  <2>4. fx # "query"
    BY <2>1 DEF Fxs, RepoFx, UserFx
  <2>5. FxArgs(fx, o)
    BY <2>1, <2>3, <2>4, PartArgs
  <2>6. TypedDB(db)
    BY DEF Stocked
  <2>7. Moved(fx, o, db, db')
    BY <2>1, <2>5, <2>6, ChangeMoves
  <2> QED BY <2>1, <2>7
<1> QED BY <1>1

\* Nobody has starred anything at the start.
LEMMA CountedInit == Init => Counted
<1> SUFFICES ASSUME Init PROVE Counted
  OBVIOUS
<1>1. db \in {EmptyDB, Setup}
  BY DEF Init
<1>2. /\ \A r \in Repos : StarsOf(db.repo[r]) = 0
      /\ \A u \in Users : Starred(db.user[u]) = {}
  <2>1. CASE db = EmptyDB
    BY <2>1 DEF EmptyDB, StarsOf, Starred
  <2>2. CASE db = Setup
    BY <2>2, SetupStock
  <2> QED BY <1>1, <2>1, <2>2
<1>3. \A r \in Repos : Fans(db, r) = {}
  BY <1>2 DEF Fans
<1> QED BY <1>2, <1>3, FS_EmptySet DEF Counted

\* Every step keeps the stars.
LEMMA CountedNext ==
    ASSUME Inv, Stocked, Counted, [Next]_vars
    PROVE  Counted'
<1>1. CASE UNCHANGED <<db, backend, dropped>>
  BY <1>1 DEF Counted, Fans
<1>2. ASSUME NEW c \in Clients, WriteRows(c) PROVE Counted'
  <2> DEFINE o == client[c].op
             fx == Instr(c).fx
  <2>0. backend' = backend
    BY <1>2 DEF WriteRows
  <2> SUFFICES ASSUME backend # "dynamo", NEW r \in Repos \ dropped'
               PROVE  StarsOf(db'.repo[r]) = Cardinality(Fans(db', r))
    BY <2>0 DEF Counted
  <2>1. dropped' = IF fx = "drop" THEN dropped \cup {o.repo} ELSE dropped
    BY <1>2, WriteMove
  <2>2. r \in Repos \ dropped /\ ~(fx = "drop" /\ r = o.repo)
    BY <2>1
  <2>3. StarsOf(db.repo[r]) = Cardinality(Fans(db, r))
    BY <2>2 DEF Counted
  <2>4. CASE db' = db
    BY <2>3, <2>4
  <2>5. CASE /\ fx \in Parts(o) \cap Fxs /\ Fits(fx, o) /\ Writes(fx, o, db, late)
             /\ Moved(fx, o, db, db')
    <3>1. fx = "star" => o.user \in Users /\ o.repo \in Repos
      BY <2>5 DEF Fits, RepoFx, UserFx
    <3>2. StarsMoved(fx, o, db, db')
      BY <2>5 DEF Moved
    <3> HIDE DEF o, fx
    <3> QED BY <2>2, <2>3, <3>1, <3>2, StarsStay
  <2> QED BY <1>2, <2>4, <2>5, WriteMoved
<1>3. ASSUME NEW c \in Clients, (\E o \in Requests : Begin(c, o)) \/ Take(c) \/ LockFails(c) \/ ReadRow(c)
                                \/ CallFails(c) \/ ReleaseLocks(c) \/ Crash(c)
      PROVE  UNCHANGED <<db, backend, dropped>>
  BY <1>3 DEF Begin, Take, LockFails, ReadRow, CallFails, ReleaseLocks, Crash, history
<1>4. ASSUME NEW l \in LockNames, LockExpires(l) PROVE UNCHANGED <<db, backend, dropped>>
  BY <1>4 DEF LockExpires, history
<1>5. ASSUME NEW k \in Keys, DatePasses(k) PROVE UNCHANGED <<db, backend, dropped>>
  BY <1>5 DEF DatePasses, history
<1>6. CASE UNCHANGED vars
  BY <1>1, <1>6 DEF vars, history
<1> QED BY <1>1, <1>2, <1>3, <1>4, <1>5, <1>6 DEF Next

-----------------------------------------------------------------------------
(* The keys.                                                                 *)

\* A client x whose program has n calls is creating the key k.
Creates(x, n, k) == x.op # None /\ x.op.name = "addkey" /\ x.op.key = k /\ x.pc < n
Creating(c, k)   == Creates(client[c], Last(c), k)

\* The key was created and nobody is at it any more; it was, and it is not there.
Born(k) == k \in added /\ \A c \in Clients : ~Creating(c, k)
Shut(k) == Born(k) /\ db.key[k] = None

\* A key is created once.
OneCreator == \A c \in Clients, k \in Keys :
    Creating(c, k) => k \in added /\ \A d \in Clients : Creating(d, k) => d = c

\* A key that is there is its owner's, whose record names it.
KeyHeld(k) == db.key[k] # None => Born(k) /\ db.key[k] = Owner[k] /\ Named(db.user[Owner[k]], k)

\* The calls of AuthenticateAPIKey that ask for the owner, and whether the key is expired.
OwnerCall   == IF backend = "bolt" THEN 1 ELSE 2
ExpiredCall == IF backend = "bolt" THEN 2 ELSE 5
Through(x, n, p) == x.pc > p /\ (x.pc < n \/ x.res = "ok")

\* What is known of the key of client x: of one it revokes, of one that was revoked, or the date
\* of which had passed, before x began to let it in.
RevokeOK(x, n) ==
    /\ Born(x.op.key)
    /\ x.pc = n /\ ~x.failed /\ x.res \in {"ok", "nothing"} => Shut(x.op.key)
GoneOK(x, n) ==
    /\ x.op.key \in gone
    /\ \/ x.pc = 1
       \/ backend = "redis" /\ x.pc = 2 /\ x.view.key[x.op.key] = None
       \/ x.pc = n /\ x.res # "ok"
LateOK(x, n) ==
    /\ x.op.key \in late
    /\ Through(x, n, OwnerCall) => Born(x.op.key)
    /\ Through(x, n, ExpiredCall) => Shut(x.op.key)
KeyOK(x, n) ==
    /\ \A k \in Keys : x.view.key[k] # None => Born(k)
    /\ x.op # None =>
         /\ x.op.name = "delkey" => RevokeOK(x, n)
         /\ x.op.name = "auth" /\ x.old = "gone" => GoneOK(x, n)
         /\ x.op.name = "auth" /\ x.old = "late" => LateOK(x, n)

\* The invariant of the keys.
KeysKept ==
    backend # "dynamo" =>
      /\ OneCreator /\ \A k \in Keys : KeyHeld(k)
      /\ \A k \in gone : Shut(k)
      /\ \A c \in Clients : KeyOK(client[c], Last(c))

\* What every step keeps.
KeysStay ==
    /\ backend' = backend /\ late \subseteq late' /\ gone \subseteq gone'
    /\ \A k \in Keys : (Born(k) => Born(k)') /\ (Shut(k) => Shut(k)')

\* A client that does not move.
LEMMA KeyOKStays ==
    ASSUME KeysStay, NEW x, NEW n, KeyOK(x, n), x.op # None => Typed(x.op)
    PROVE  KeyOK(x, n)'
<1>1. \A k \in Keys : x.view.key[k] # None => Born(k)'
  BY DEF KeyOK, KeysStay
<1>2. ASSUME x.op # None, x.op.name \in {"delkey", "auth"} PROVE x.op.key \in Keys
  BY <1>2 DEF Typed, KeyNames
<1>3. ASSUME x.op # None, x.op.name = "delkey" PROVE RevokeOK(x, n)'
  BY <1>2, <1>3 DEF KeyOK, RevokeOK, KeysStay
<1>4. ASSUME x.op # None, x.op.name = "auth", x.old = "gone" PROVE GoneOK(x, n)'
  BY <1>2, <1>4 DEF KeyOK, GoneOK, KeysStay
<1>5. ASSUME x.op # None, x.op.name = "auth", x.old = "late" PROVE LateOK(x, n)'
  <2>1. OwnerCall' = OwnerCall /\ ExpiredCall' = ExpiredCall
    BY DEF OwnerCall, ExpiredCall, KeysStay
  <2>2. LateOK(x, n)
    BY <1>5 DEF KeyOK
  <2> HIDE DEF OwnerCall, ExpiredCall
  <2> QED BY <1>2, <1>5, <2>1, <2>2 DEF LateOK, KeysStay, Through
<1> QED BY <1>1, <1>3, <1>4, <1>5 DEF KeyOK

\* A step of client c: what is left to show.
LEMMA KeyStep ==
    ASSUME Inv, KeysKept, backend # "dynamo", KeysStay, NEW c \in Clients, NEW x, Moves(client, client', c, x),
           NEW n, n = Len(Program(x.op)), KeyOK(x, n)', OneCreator', \A k \in Keys : KeyHeld(k)',
           \A k \in gone' : Shut(k)'
    PROVE  KeysKept'
<1>1. /\ client'[c] = x /\ \A y \in Clients \ {c} : client'[y] = client[y]
      /\ backend' = backend
  BY DEF Moves, KeysStay
<1>2. ASSUME NEW y \in Clients PROVE KeyOK(client[y], Last(y))'
  <2>1. CASE y = c
    <3>1. Last(y)' = n
      BY <1>1, <2>1, SameProgram
    <3>2. client'[y] = x
      BY <1>1, <2>1
    <3> QED BY <3>1, <3>2 DEF KeyOK, RevokeOK, GoneOK, LateOK, Through
  <2>2. CASE y # c
    <3> PICK z : z = client[y]
      OBVIOUS
    <3> PICK m : m = Last(y)
      OBVIOUS
    <3>1. client'[y] = z /\ Last(y)' = m
      BY <1>1, <2>2, SameProgram DEF Last
    <3>2. KeyOK(z, m)
      BY DEF KeysKept
    <3>3. z.op # None => Typed(z.op)
      BY DEF Inv, Formed
    <3>4. KeyOK(z, m)'
      BY <3>2, <3>3, KeyOKStays
    <3> QED BY <3>1, <3>4 DEF KeyOK, RevokeOK, GoneOK, LateOK, Through
  <2> QED BY <2>1, <2>2
<1> QED BY <1>1, <1>2 DEF KeysKept

\* No key is being created that was not.
Calmer == added' = added /\ \A d \in Clients, k \in Keys : Creating(d, k)' => Creating(d, k)

\* Then a key that was created stays so, and has one creator.
LEMMA CalmBorn ==
    ASSUME Calmer
    PROVE  (\A k \in Keys : Born(k) => Born(k)') /\ (OneCreator => OneCreator')
BY DEF Calmer, Born, OneCreator

\* A step of one client that does not begin to create a key is calm,
LEMMA CalmMove ==
    ASSUME Inv, backend' = backend, added' = added, NEW c \in Clients, NEW x, Moves(client, client', c, x),
           \A k \in Keys : Creates(x, Len(Program(x.op)), k) => Creating(c, k)
    PROVE  Calmer
<1> SUFFICES ASSUME NEW d \in Clients, NEW k \in Keys, Creating(d, k)' PROVE Creating(d, k)
  BY DEF Calmer
<1>0. client'[c] = x /\ \A y \in Clients \ {c} : client'[y] = client[y]
  BY DEF Moves
<1>1. CASE d = c
  <2>1. Last(d)' = Len(Program(x.op)) /\ client'[d] = x
    BY <1>0, <1>1, SameProgram
  <2>2. Creates(x, Len(Program(x.op)), k)
    BY <2>1 DEF Creating, Creates
  <2> QED BY <1>1, <2>2
<1>2. CASE d # c
  <2>1. client'[d] = client[d] /\ Last(d)' = Last(d)
    BY <1>0, <1>2, SameProgram DEF Last
  <2> QED BY <2>1 DEF Creating, Creates
<1> QED BY <1>1, <1>2

\* as one that goes on
LEMMA CalmGoes ==
    ASSUME Inv, Stocked, NEW c \in Clients, NEW x, Goes(c, x)
    PROVE  Calmer
<1>1. /\ client[c].op # None /\ Moves(client, client', c, x) /\ x.op = client[c].op
      /\ backend' = backend /\ added' = added
      /\ x.pc = Last(c) \/ (client[c].pc < Last(c) /\ x.pc = client[c].pc + 1)
      /\ Last(c) = Len(Program(x.op))
  BY DEF Goes, Last
<1>2. Last(c) \in Nat /\ client[c].pc \in 1..Last(c)
  BY <1>1, PlaceOf
<1>3. ASSUME NEW k \in Keys, Creates(x, Len(Program(x.op)), k) PROVE Creating(c, k)
  <2>1. x.pc < Last(c) /\ x.op.name = "addkey" /\ x.op.key = k
    BY <1>1, <1>3 DEF Creates
  <2>2. client[c].pc < Last(c)
    BY <1>1, <1>2, <2>1
  <2> QED BY <1>1, <2>1, <2>2 DEF Creating, Creates
<1> QED BY <1>1, <1>3, CalmMove

\* and one that ends.
LEMMA CalmEnd ==
    ASSUME Inv, NEW c \in Clients, client' = [client EXCEPT ![c] = Idle], backend' = backend, added' = added
    PROVE  Moves(client, client', c, Idle) /\ Calmer
<1>1. Moves(client, client', c, Idle)
  BY MoveOne DEF Inv, Formed
<1>2. \A k \in Keys : ~Creates(Idle, Len(Program(Idle.op)), k)
  BY IdleIs DEF Creates
<1> QED BY <1>1, <1>2, CalmMove

\* A client that does not write leaves every key as it is.
LEMMA QuietKeys ==
    ASSUME Calmer, backend' = backend, late \subseteq late', gone \subseteq gone', db' = db, KeysKept, backend # "dynamo"
    PROVE  KeysStay /\ OneCreator' /\ \A k \in Keys : KeyHeld(k)'
<1>1. \A k \in Keys : Born(k) => Born(k)'
  BY CalmBorn
<1>2. OneCreator'
  BY CalmBorn DEF KeysKept
<1>3. \A k \in Keys : Shut(k) => Shut(k)'
  BY <1>1 DEF Shut
<1>4. \A k \in Keys : KeyHeld(k)'
  BY <1>1 DEF KeysKept, KeyHeld
<1> QED BY <1>1, <1>2, <1>3, <1>4 DEF KeysStay

-----------------------------------------------------------------------------
(* Where the clients that handle keys are.                                   *)

\* A client that creates or revokes a key writes last, from the user's record as it is.
LEMMA UserOpPlace ==
    ASSUME Inv, Stocked, backend # "dynamo", NEW c \in Clients, client[c].op # None,
           client[c].op.name \in {"addkey", "delkey"}, client[c].pc < Last(c)
    PROVE  /\ Instr(c).do # "release"
           /\ Instr(c).do \in {"lock", "read"} => client[c].pc + 1 # Last(c)
           /\ Instr(c).do \in {"write", "tx"} =>
                /\ Instr(c).fx = client[c].op.name /\ client[c].pc + 1 = Last(c)
                /\ ViewOf(c).user[client[c].op.user] = db.user[client[c].op.user]
<1> DEFINE o == client[c].op
           p == client[c].pc
<1>1. CASE backend = "bolt"
  <2>1. Program(o) = <<Tx(o.name), Release>>
    BY <1>1 DEF Program
  <2>2. Last(c) = 2 /\ Program(o)[1] = Tx(o.name)
    BY <2>1 DEF Last
  <2>3. p \in 1..Last(c)
    BY PlaceOf
  <2>4. p = 1
    BY <2>2, <2>3
  <2>5. Instr(c) = Tx(o.name)
    BY <2>2, <2>4 DEF Instr
  <2>6. Instr(c).do = "tx" /\ Instr(c).fx = o.name
    BY <2>5, Transacts
  <2>7. ViewOf(c) = db
    BY <2>6 DEF ViewOf
  <2> QED BY <2>2, <2>4, <2>6, <2>7
<1>2. CASE backend = "redis"
  <2>1. Calls4(Program(o), Lock(UserLock(o)), Read(UserRow(o)), Write(UserRows(o), o.name), Release)
    BY <1>2, RedisUserOp DEF UserNames
  <2>2. /\ Last(c) = 4 /\ Program(o)[1].do = "lock" /\ Program(o)[2].do = "read" /\ Program(o)[3].do = "write"
        /\ Program(o)[3].fx = o.name
    BY <2>1, Instrs DEF Calls4, Last
  <2>3. p \in 1..Last(c) /\ Last(c) \in Nat
    BY PlaceOf
  <2>4. p = 1 \/ p = 2 \/ p = 3
    BY <2>2, <2>3
  <2>5. CASE p = 1
    BY <2>2, <2>5 DEF Instr
  <2>6. CASE p = 2
    BY <2>2, <2>6 DEF Instr
  <2>7. CASE p = 3
    <3>1. Instr(c).do = "write" /\ Instr(c).fx = o.name
      BY <2>2, <2>7 DEF Instr
    <3>2. Knows(o, p, client[c].view, db, locks, c)
      BY <1>2, RedisAt
    <3>3. UserRead(o.name, p)
      BY <2>7 DEF UserRead, UserNames
    <3>4. client[c].view.user[o.user] = db.user[o.user]
      BY <3>2, <3>3 DEF Knows
    <3>5. ViewOf(c) = client[c].view
      BY <3>1 DEF ViewOf
    <3> QED BY <2>2, <2>7, <3>1, <3>4, <3>5
  <2> QED BY <2>4, <2>5, <2>6, <2>7
<1> QED BY <1>1, <1>2, Drivers

\* A client that lets a key in asks for its owner, then whether it is expired.
AuthAt(c) ==
    LET p == client[c].pc
        i == Instr(c)
        o == client[c].op
    IN  /\ Last(c) > ExpiredCall /\ i.fx # "delkey"
        /\ p = 1 => \/ OwnerCall = 1
                    \/ i.do = "read" /\ i.rows = {KeyRow(o)}
        /\ p = OwnerCall => i.do \in {"write", "tx"} /\ i.fx = "owner" /\ (backend = "redis" => i.do = "write")
        /\ p = ExpiredCall =>
             i.do \in {"write", "tx"} /\ i.fx = "expired" /\ ViewOf(c).user[o.user] = db.user[o.user]

\* In BoltDB,
LEMMA BoltAuthAt ==
    ASSUME Inv, Stocked, backend = "bolt", NEW c \in Clients, client[c].op # None,
           client[c].op.name = "auth", client[c].pc < Last(c)
    PROVE  AuthAt(c)
<1> DEFINE o == client[c].op
           p == client[c].pc
<1>1. Program(o) = <<Tx("owner"), Tx("expired"), Tx("lastused"), Release>>
  BY DEF Program, AuthenticateAPIKey
<1>2. /\ Last(c) = 4 /\ Program(o)[1] = Tx("owner") /\ Program(o)[2] = Tx("expired")
      /\ Program(o)[3] = Tx("lastused")
  BY <1>1 DEF Last
<1>3. p \in 1..Last(c)
  BY PlaceOf
<1>4. p = 1 \/ p = 2 \/ p = 3
  BY <1>2, <1>3
<1>5. OwnerCall = 1 /\ ExpiredCall = 2
  BY DEF OwnerCall, ExpiredCall
<1>6. Instr(c).do = "tx" /\ ViewOf(c) = db
  BY <1>2, <1>4, Transacts DEF Instr, ViewOf
<1>7. /\ p = 1 => Instr(c).fx = "owner"
      /\ p = 2 => Instr(c).fx = "expired"
      /\ p = 3 => Instr(c).fx = "lastused"
  BY <1>2, Transacts DEF Instr
<1> QED BY <1>2, <1>4, <1>5, <1>6, <1>7 DEF AuthAt

\* in Redis,
LEMMA RedisAuthAt ==
    ASSUME Inv, Stocked, backend = "redis", NEW c \in Clients, client[c].op # None,
           client[c].op.name = "auth", client[c].pc < Last(c)
    PROVE  AuthAt(c)
<1> DEFINE o == client[c].op
           p == client[c].pc
           P == Program(o)
<1>1. Calls12(P, Read(KeyRow(o)), Write({}, "owner"), Lock(UserLock(o)), Read(UserRow(o)),
                   Write({UserRow(o)}, "expired"), Release, Write({UserRow(o)}, "lastused"), Read(UserRow(o)))
  BY RedisAuth
<1> HIDE DEF P
<1>2. /\ Len(P) = 12 /\ P[1] = Read(KeyRow(o)) /\ P[2] = Write({}, "owner")
      /\ P[5] = Write({UserRow(o)}, "expired")
  BY <1>1 DEF Calls12
<1>3. p \in 1..Last(c) /\ Last(c) = 12 /\ Instr(c) = P[p]
  BY <1>2, PlaceOf DEF Last, Instr, P
<1>4. OwnerCall = 2 /\ ExpiredCall = 5
  BY DEF OwnerCall, ExpiredCall
<1>5. p = 1 => Instr(c).do = "read" /\ Instr(c).rows = {KeyRow(o)}
  BY <1>2, <1>3, Instrs
<1>6. p = 2 => Instr(c).do = "write" /\ Instr(c).fx = "owner"
  BY <1>2, <1>3, Instrs
<1>7. ASSUME p = 5 PROVE Instr(c).do = "write" /\ Instr(c).fx = "expired" /\ ViewOf(c).user[o.user] = db.user[o.user]
  <2>1. Instr(c).do = "write" /\ Instr(c).fx = "expired"
    BY <1>2, <1>3, <1>7, Instrs
  <2>2. Knows(o, p, client[c].view, db, locks, c)
    BY RedisAt
  <2>3. UserRead(o.name, p)
    BY <1>7 DEF UserRead
  <2>4. client[c].view.user[o.user] = db.user[o.user]
    BY <2>2, <2>3 DEF Knows
  <2> QED BY <2>1, <2>4 DEF ViewOf
<1>8. Instr(c).fx # "delkey"
  <2>1. \A S, f : Write(S, f).fx = f
    BY Instrs
  <2>2. (\A r : Read(r).fx = "none") /\ (\A l : Lock(l).fx = "none") /\ Release.fx = "none"
    BY DEF Read, Lock, Release
  <2>3. p \in 1..11
    BY <1>3
  <2>4. P[p].fx \in {"none", "owner", "expired", "lastused"}
    <3>1. CASE p \in 1..6
      BY <1>1, <2>1, <2>2, <3>1 DEF Calls12
    <3>2. CASE p \in 7..11
      BY <1>1, <2>1, <2>2, <3>2 DEF Calls12
    <3> QED BY <2>3, <3>1, <3>2
  <2> QED BY <1>3, <2>4
<1> QED BY <1>3, <1>4, <1>5, <1>6, <1>7, <1>8 DEF AuthAt

\* and so in both.
LEMMA AuthPlace ==
    ASSUME Inv, Stocked, backend # "dynamo", NEW c \in Clients, client[c].op # None,
           client[c].op.name = "auth", client[c].pc < Last(c)
    PROVE  AuthAt(c)
BY BoltAuthAt, RedisAuthAt, Drivers

-----------------------------------------------------------------------------
(* Every step keeps the keys.                                                *)

\* An operation begins: the key that is created was not there before.
LEMMA KeyBegin ==
    ASSUME Inv, Stocked, Bounded, KeysKept, backend # "dynamo", NEW c \in Clients, NEW o \in Requests, Begin(c, o)
    PROVE  KeysKept'
<1>1. Typed(o) /\ backend' = backend /\ db' = db /\ late' = late /\ gone' = gone
  BY BeginMove DEF Begin
<1>2. PICK x : /\ Moves(client, client', c, x) /\ x.op = o /\ x.pc = 1 /\ x.view = client[c].view
               /\ x.old = "gone" <=> o.key \in gone
               /\ x.old = "late" => o.key \in late
  BY BeginMove
<1>3. /\ o.name = "addkey" => o.key \notin added
      /\ o.name = "delkey" => db.key[o.key] # None
      /\ added' = added \cup (IF o.name = "addkey" THEN {o.key} ELSE {})
  BY DEF Begin
<1>l. Len(Program(x.op)) # 1
  <2>1. Tidy(o, Program(o))
    BY <1>1, Drivers, ProgramTidy
  <2> QED BY <1>2, <2>1 DEF Tidy
<1>4. PICK n : n = Len(Program(x.op)) /\ n # 1
  BY <1>l, Zenon
<1>5. client'[c] = x /\ \A y \in Clients \ {c} : client'[y] = client[y]
  BY <1>2 DEF Moves
<1>6. ASSUME NEW d \in Clients, NEW k \in Keys, Creating(d, k)'
      PROVE  (d = c /\ k \notin added /\ k \in added') \/ (d # c /\ Creating(d, k))
  <2>1. CASE d = c
    <3>1. client'[d].op = o /\ Creates(client'[d], Last(d)', k)
      BY <1>2, <1>5, <1>6, <2>1 DEF Creating, Creates
    <3>2. o.name = "addkey" /\ o.key = k
      BY <3>1 DEF Creates
    <3> QED BY <1>3, <2>1, <3>2
  <2>2. CASE d # c
    <3>1. client'[d] = client[d] /\ Last(d)' = Last(d)
      BY <1>1, <1>5, <2>2, SameProgram DEF Last
    <3> QED BY <1>6, <2>2, <3>1 DEF Creating, Creates
  <2> QED BY <2>1, <2>2
<1>7. \A k \in Keys : Born(k) => Born(k)'
  BY <1>3, <1>6 DEF Born
<1>8. OneCreator /\ (\A k \in Keys : KeyHeld(k)) /\ (\A k \in gone : Shut(k)) /\ KeyOK(client[c], Last(c))
  BY DEF KeysKept
<1>9. OneCreator'
  <2> SUFFICES ASSUME NEW d \in Clients, NEW k \in Keys, Creating(d, k)'
               PROVE  k \in added' /\ \A e \in Clients : Creating(e, k)' => e = d
    BY DEF OneCreator
  <2>1. CASE d = c
    BY <1>6, <1>8, <2>1 DEF OneCreator
  <2>2. CASE d # c
    BY <1>3, <1>6, <1>8, <2>2 DEF OneCreator
  <2> QED BY <2>1, <2>2
<1>10. \A k \in Keys : (Shut(k) => Shut(k)') /\ KeyHeld(k)'
  BY <1>1, <1>7, <1>8 DEF Shut, KeyHeld
<1>11. KeysStay
  BY <1>1, <1>7, <1>10 DEF KeysStay
<1>12. \A k \in Keys : x.view.key[k] # None => Born(k)'
  BY <1>2, <1>7, <1>8 DEF KeyOK
<1>13. o.name \in {"delkey", "auth"} => o.key \in Keys
  BY <1>1 DEF Typed, KeyNames
<1>14. ASSUME o.name = "delkey" PROVE RevokeOK(x, n)'
  <2>1. Born(o.key)'
    BY <1>3, <1>7, <1>8, <1>13, <1>14 DEF KeyHeld
  <2>2. x.pc = 1
    BY <1>2
  <2>4. x.pc # n
    BY <1>4, <2>2, Zenon
  <2> QED BY <1>2, <2>1, <2>4 DEF RevokeOK
<1>15. x.old = "gone" => GoneOK(x, n)'
  BY <1>1, <1>2 DEF GoneOK
<1>16. ASSUME x.old = "late" PROVE LateOK(x, n)'
  <2>1. ~Through(x, n, OwnerCall') /\ ~Through(x, n, ExpiredCall')
    BY <1>2 DEF Through, OwnerCall, ExpiredCall
  <2>2. o.key \in late'
    BY <1>1, <1>2, <1>16
  <2> HIDE DEF OwnerCall, ExpiredCall, Through
  <2> QED BY <1>2, <2>1, <2>2 DEF LateOK, Through
<1>17. KeyOK(x, n)'
  BY <1>2, <1>12, <1>14, <1>15, <1>16 DEF KeyOK
<1>18. \A k \in gone' : Shut(k)'
  BY <1>1, <1>8, <1>10 DEF Bounded
<1> QED BY <1>2, <1>4, <1>9, <1>10, <1>11, <1>17, <1>18, KeyStep

\* A client that goes on: what is left to show.
LEMMA GoesKey ==
    ASSUME Inv, Stocked, KeysKept, backend # "dynamo", KeysStay, NEW c \in Clients, NEW x, Goes(c, x), NEW n, n = Last(c),
           \A k \in Keys : x.view.key[k] # None => Born(k)',
           x.op.name = "delkey" /\ x.pc = n /\ ~x.failed /\ x.res \in {"ok", "nothing"} => Shut(x.op.key)',
           x.op.name = "auth" /\ x.old = "gone" => GoneOK(x, n)',
           x.op.name = "auth" /\ x.old = "late" =>
             /\ (x.pc = client[c].pc + 1 /\ x.res = "ok") \/ (x.pc = n /\ x.res # "ok")
             /\ x.res = "ok" /\ client[c].pc = OwnerCall => Born(x.op.key)'
             /\ x.res = "ok" /\ client[c].pc = ExpiredCall => Shut(x.op.key)'
    PROVE  KeyOK(x, n)'
<1>1. /\ client[c].op # None /\ x.op = client[c].op /\ x.old = client[c].old /\ backend' = backend /\ late' = late
      /\ x.pc = n \/ (client[c].pc < n /\ x.pc = client[c].pc + 1)
  BY DEF Goes
<1>2. KeyOK(client[c], n) /\ n \in Nat /\ client[c].pc \in 1..n /\ Typed(x.op)
  BY <1>1, PlaceOf DEF KeysKept
<1>3. x.op.name \in {"delkey", "auth"} => x.op.key \in Keys
  BY <1>2 DEF Typed, KeyNames
<1>4. ASSUME x.op.name = "delkey" PROVE RevokeOK(x, n)'
  <2>1. Born(x.op.key)'
    BY <1>1, <1>2, <1>3, <1>4 DEF KeyOK, RevokeOK, KeysStay
  <2> QED BY <1>4, <2>1 DEF RevokeOK
<1>5. ASSUME x.op.name = "auth", x.old = "late" PROVE LateOK(x, n)'
  <2>0. OwnerCall' = OwnerCall /\ ExpiredCall' = ExpiredCall /\ OwnerCall \in Nat /\ ExpiredCall \in Nat
    BY <1>1 DEF OwnerCall, ExpiredCall
  <2> HIDE DEF OwnerCall, ExpiredCall
  <2>1. LateOK(client[c], n)
    BY <1>1, <1>2, <1>5 DEF KeyOK
  <2>2. (x.pc = client[c].pc + 1 /\ x.res = "ok") \/ (x.pc = n /\ x.res # "ok")
    BY <1>5
  <2>3. ASSUME NEW p \in Nat, Through(x, n, p) PROVE x.res = "ok" /\ (Through(client[c], n, p) \/ client[c].pc = p)
    <3>1. x.res = "ok" /\ x.pc = client[c].pc + 1 /\ x.pc > p
      BY <1>2, <2>2, <2>3 DEF Through
    <3>2. CASE client[c].pc = p
      BY <3>1, <3>2
    <3>3. CASE client[c].pc # p
      <4>1. client[c].pc > p
        BY <1>2, <3>1, <3>3
      <4>2. client[c].pc < n
        BY <1>1, <1>2, <3>1
      <4> QED BY <3>1, <4>1, <4>2 DEF Through
    <3> QED BY <3>2, <3>3
  <2>4. Through(x, n, OwnerCall) => Born(x.op.key)'
    BY <1>1, <1>3, <1>5, <2>0, <2>1, <2>3 DEF LateOK, KeysStay
  <2>5. Through(x, n, ExpiredCall) => Shut(x.op.key)'
    BY <1>1, <1>3, <1>5, <2>0, <2>1, <2>3 DEF LateOK, KeysStay
  <2>6. x.op.key \in late'
    BY <1>1, <2>1 DEF LateOK
  <2> QED BY <2>0, <2>4, <2>5, <2>6 DEF LateOK, Through
<1> QED BY <1>4, <1>5 DEF KeyOK

\* A client of BoltDB or Redis goes on without a write: what is left to show.
LEMMA KeyGoes ==
    ASSUME Inv, Stocked, Bounded, KeysKept, backend # "dynamo", NEW c \in Clients, NEW x, Goes(c, x), db' = db,
           NEW n, n = Last(c), KeyOK(x, n)'
    PROVE  KeysKept'
<1>1. /\ Moves(client, client', c, x) /\ x.op = client[c].op /\ backend' = backend /\ late' = late /\ gone' = gone
  BY DEF Goes
<1>2. Calmer
  BY CalmGoes
<1>3. KeysStay /\ OneCreator' /\ \A k \in Keys : KeyHeld(k)'
  BY <1>1, <1>2, QuietKeys
<1>4. \A k \in gone' : Shut(k)'
  BY <1>1, <1>3 DEF KeysKept, KeysStay, Bounded
<1>5. n = Len(Program(x.op))
  BY <1>1 DEF Last
<1> QED BY <1>1, <1>3, <1>4, <1>5, KeyStep

\* A lock is taken or not, or a section ends.
LEMMA KeyLock ==
    ASSUME Inv, Stocked, Bounded, KeysKept, backend # "dynamo", NEW c \in Clients,
           Take(c) \/ LockFails(c) \/ (ReleaseLocks(c) /\ client[c].pc < Last(c))
    PROVE  KeysKept'
<1>1. PICK x : /\ Goes(c, x) /\ x.view = client[c].view
               /\ (x.res = "error" /\ x.pc = Last(c)) \/ (x.res = "ok" /\ x.pc = client[c].pc + 1)
               /\ client[c].pc < Last(c) /\ Instr(c).do \in {"lock", "release"} /\ db' = db
  BY LockMove
<1> PICK n : n = Last(c)
  OBVIOUS
<1>2. client[c].op # None /\ x.op = client[c].op /\ x.old = client[c].old /\ backend' = backend /\ late' = late /\ gone' = gone
  BY <1>1 DEF Goes
<1>3. KeysStay
  BY <1>1, <1>2, CalmGoes, QuietKeys
<1>4. KeyOK(client[c], n) /\ n \in Nat /\ client[c].pc \in 1..n
  BY <1>2, PlaceOf DEF KeysKept
<1>5. \A k \in Keys : x.view.key[k] # None => Born(k)'
  BY <1>1, <1>3, <1>4 DEF KeyOK, KeysStay
<1>6. x.op.name = "delkey" => ~(x.pc = n /\ x.res \in {"ok", "nothing"})
  BY <1>1, <1>2, UserOpPlace
<1>7. ASSUME x.op.name = "auth" PROVE /\ client[c].pc # 1 /\ client[c].pc # OwnerCall /\ client[c].pc # ExpiredCall
  <2>1. AuthAt(c)
    BY <1>1, <1>2, <1>7, AuthPlace
  <2>2. client[c].pc # OwnerCall /\ client[c].pc # ExpiredCall
    BY <1>1, <2>1 DEF AuthAt
  <2> HIDE DEF OwnerCall, ExpiredCall
  <2>3. client[c].pc # 1
    BY <1>1, <2>1, <2>2 DEF AuthAt
  <2> QED BY <2>2, <2>3
<1>8. ~(x.op.name = "auth" /\ x.old = "gone")
  <2> SUFFICES ASSUME x.op.name = "auth", x.old = "gone" PROVE FALSE
    OBVIOUS
  <2>1. GoneOK(client[c], n)
    BY <1>2, <1>4 DEF KeyOK
  <2>2. client[c].pc # n
    BY <1>1, <1>4
  <2>3. backend = "redis" => OwnerCall = 2
    BY DEF OwnerCall
  <2>4. client[c].pc # 1 /\ client[c].pc # OwnerCall
    BY <1>7
  <2> HIDE DEF OwnerCall
  <2> QED BY <2>1, <2>2, <2>3, <2>4 DEF GoneOK
<1>9. (x.pc = client[c].pc + 1 /\ x.res = "ok") \/ (x.pc = n /\ x.res # "ok")
  BY <1>1
<1>10. KeyOK(x, n)'
  BY <1>1, <1>3, <1>5, <1>6, <1>7, <1>8, <1>9, GoesKey
<1> QED BY <1>1, <1>10, KeyGoes

\* A call fails.
LEMMA KeyFails ==
    ASSUME Inv, Stocked, Bounded, KeysKept, backend # "dynamo", NEW c \in Clients, CallFails(c)
    PROVE  KeysKept'
<1>1. PICK x : /\ Goes(c, x) /\ x.view = client[c].view /\ x.pc = Last(c) /\ x.failed
               /\ x.res = "error" \/ (x.res = "ok" /\ Instr(c).fx = "delkey")
  BY FailsMove
<1> PICK n : n = Last(c)
  OBVIOUS
<1>2. /\ client[c].op # None /\ x.op = client[c].op /\ x.old = client[c].old /\ backend' = backend /\ late' = late
      /\ gone' = gone
  BY <1>1 DEF Goes
<1>a. db' = db /\ Instr(c).do # "release"
  BY DEF CallFails, At, Instr
<1>b. client[c].pc < Last(c)
  BY <1>2, <1>a, PlaceOf
<1>3. KeysStay
  BY <1>1, <1>2, <1>a, CalmGoes, QuietKeys
<1>4. KeyOK(client[c], n)
  BY DEF KeysKept
<1>5. \A k \in Keys : x.view.key[k] # None => Born(k)'
  BY <1>1, <1>3, <1>4 DEF KeyOK, KeysStay
<1>6. ASSUME x.op.name = "auth" PROVE x.pc = n /\ x.res # "ok"
  <2>1. AuthAt(c)
    BY <1>2, <1>6, <1>b, AuthPlace
  <2> QED BY <1>1, <2>1 DEF AuthAt
<1>7. ASSUME x.op.name = "auth", x.old = "gone" PROVE GoneOK(x, n)'
  <2>1. GoneOK(client[c], n)
    BY <1>2, <1>4, <1>7 DEF KeyOK
  <2>2. x.op.key \in gone'
    BY <1>2, <2>1 DEF GoneOK
  <2> QED BY <1>6, <1>7, <2>2 DEF GoneOK
<1>8. ~(x.op.name = "delkey" /\ ~x.failed)
  BY <1>1
<1>10. KeyOK(x, n)'
  BY <1>1, <1>3, <1>5, <1>6, <1>7, <1>8, GoesKey
<1> QED BY <1>1, <1>a, <1>10, KeyGoes

\* Rows are read.
LEMMA KeyRead ==
    ASSUME Inv, Stocked, Bounded, KeysKept, backend # "dynamo", NEW c \in Clients, ReadRow(c)
    PROVE  KeysKept'
<1>1. /\ client[c].op # None /\ Instr(c).do = "read" /\ client[c].pc < Last(c) /\ db' = db
  BY ReadMove
<1>2. PICK x : /\ Goes(c, x) /\ x.view = Overwrite(client[c].view, db, Instr(c).rows)
               /\ x.res = "ok" /\ x.pc = client[c].pc + 1
  BY ReadMove
<1> PICK n : n = Last(c)
  OBVIOUS
<1>3. /\ x.op = client[c].op /\ x.old = client[c].old /\ backend' = backend /\ late' = late /\ gone' = gone
  BY <1>2 DEF Goes
<1>4. KeysStay
  BY <1>1, <1>2, <1>3, CalmGoes, QuietKeys
<1>5. KeyOK(client[c], n) /\ n \in Nat /\ client[c].pc \in 1..n /\ Typed(x.op) /\ \A k \in Keys : KeyHeld(k)
  BY <1>1, <1>3, PlaceOf DEF KeysKept
<1>v. \A k \in Keys : x.view.key[k] = IF <<"key", k>> \in Instr(c).rows THEN db.key[k] ELSE client[c].view.key[k]
  BY <1>2 DEF Overwrite
<1>6. \A k \in Keys : x.view.key[k] # None => Born(k)'
  BY <1>4, <1>5, <1>v DEF KeyOK, KeysStay, KeyHeld
<1>7. x.op.name = "delkey" => x.pc # n
  BY <1>1, <1>2, <1>3, UserOpPlace
<1>8. x.op.name = "auth" => AuthAt(c)
  BY <1>1, <1>3, AuthPlace
<1>9. ASSUME x.op.name = "auth" PROVE client[c].pc # OwnerCall /\ client[c].pc # ExpiredCall
  BY <1>1, <1>8, <1>9 DEF AuthAt
<1>10. ASSUME x.op.name = "auth", x.old = "gone" PROVE GoneOK(x, n)'
  <2>1. GoneOK(client[c], n)
    BY <1>1, <1>3, <1>5, <1>10 DEF KeyOK
  <2>2. x.op.key \in gone /\ x.op.key \in Keys
    BY <1>3, <1>5, <1>10, <2>1 DEF GoneOK, Typed, KeyNames
  <2>3. db.key[x.op.key] = None
    BY <2>2 DEF KeysKept, Shut
  <2>4. backend = "redis" => OwnerCall = 2
    BY DEF OwnerCall
  <2>5. client[c].pc # OwnerCall
    BY <1>9, <1>10
  <2>6. client[c].pc = 1
    <3> HIDE DEF OwnerCall
    <3> QED BY <1>1, <1>5, <2>1, <2>4, <2>5 DEF GoneOK
  <2>7. backend = "redis"
    <3>1. backend = "bolt" => OwnerCall = 1
      BY DEF OwnerCall
    <3> HIDE DEF OwnerCall
    <3> QED BY <2>5, <2>6, <3>1, Drivers
  <2>8. Instr(c).rows = {<<"key", x.op.key>>}
    <3> HIDE DEF OwnerCall, ExpiredCall
    <3> QED BY <1>3, <1>8, <1>10, <2>5, <2>6 DEF AuthAt, KeyRow
  <2>9. x.view.key[x.op.key] = None
    BY <1>v, <2>2, <2>3, <2>8
  <2>10. x.pc = 2
    BY <1>2, <2>6
  <2> QED BY <1>3, <2>2, <2>7, <2>9, <2>10 DEF GoneOK
<1>11. KeyOK(x, n)'
  BY <1>2, <1>4, <1>6, <1>7, <1>9, <1>10, GoesKey
<1> QED BY <1>1, <1>2, <1>11, KeyGoes

\* The rows a write is made from name no key that is not there.
LEMMA ViewKeys ==
    ASSUME KeysKept, backend # "dynamo", NEW c \in Clients, NEW k \in Keys, ViewOf(c).key[k] # None
    PROVE  Born(k)
BY DEF KeysKept, ViewOf, KeyHeld, KeyOK

\* A key that the record of its user does not name is not there.
LEMMA UnnamedKey ==
    ASSUME Stocked, KeysKept, backend # "dynamo", NEW o, o.key \in Keys, o.user = Owner[o.key], NEW v,
           v.user[o.user] = db.user[o.user], ~KeyEntry(v, o).named
    PROVE  db.key[o.key] = None
<1>1. o.user \in Users
  BY MetaRecordsAssumption
<1>2. v.user[o.user] \in UserRecords \cup {None}
  BY <1>1 DEF Stocked, TypedDB, TypedUsers
<1>3. ~Named(db.user[o.user], o.key)
  BY <1>1, <1>2, KeyEntryIs
<1> QED BY <1>3 DEF KeysKept, KeyHeld

\* The keys after a write.
LEMMA WriteKeys ==
    ASSUME Inv, Stocked, KeysKept, backend # "dynamo", NEW c \in Clients, WriteRows(c)
    PROVE  KeysStay /\ OneCreator' /\ \A k \in Keys : KeyHeld(k)'
<1> DEFINE o == client[c].op
           fx == Instr(c).fx
           R == Result(fx, o, ViewOf(c))
<1>1. /\ o # None /\ Instr(c).do \in {"write", "tx"} /\ client[c].pc < Last(c)
  BY WriteMove
<1>2. PICK x : /\ Goes(c, x) /\ x.res = R /\ x.pc = IF R = "ok" THEN client[c].pc + 1 ELSE Last(c)
  BY WriteMove
<1>3. /\ Moves(client, client', c, x) /\ x.op = o /\ backend' = backend /\ late' = late /\ gone' = gone /\ added' = added
  BY <1>2 DEF Goes
<1>4. Calmer
  BY <1>2, CalmGoes
<1>5. OneCreator' /\ OneCreator /\ \A k \in Keys : KeyHeld(k) /\ (Born(k) => Born(k)')
  BY <1>4, CalmBorn DEF KeysKept
<1>6. Typed(o) /\ Args(o)
  BY <1>1, PlaceOf
<1>7. fx \in Parts(o) /\ fx \in {"addkey", "delkey"} => o.name = fx
  BY DEF Parts
<1>8. CASE db' = db
  BY <1>3, <1>4, <1>8, QuietKeys
<1>9. CASE fx \in Parts(o) \cap Fxs /\ Moved(fx, o, db, db')
  <2>0. KeysMoved(fx, o, db, db')
    BY <1>9 DEF Moved
  <2>1. ASSUME NEW k \in Keys, Shut(k) PROVE Shut(k)'
    <3>1. ~(fx = "addkey" /\ k = o.key)
      <4>1. ASSUME fx = "addkey", k = o.key PROVE FALSE
        <5>1. Creating(c, k)
          BY <1>1, <1>7, <1>9, <4>1 DEF Creating, Creates
        <5> QED BY <2>1, <5>1 DEF Shut, Born
      <4> QED BY <4>1
    <3>2. db'.key[k] = None
      BY <2>0, <2>1, <3>1 DEF KeysMoved, Shut
    <3> QED BY <1>5, <2>1, <3>2 DEF Shut
  <2>2. ASSUME NEW k \in Keys PROVE KeyHeld(k)'
    <3>1. CASE fx = "addkey" /\ k = o.key
      <4>1. o.name = "addkey" /\ o.user = Owner[k]
        BY <1>6, <1>7, <1>9, <3>1 DEF Args, KeyNames
      <4>2. db'.key[k] = Owner[k] /\ Named(db'.user[Owner[k]], k)
        BY <2>0, <3>1, <4>1 DEF KeysMoved
      <4>3. Creating(c, k)
        BY <1>1, <3>1, <4>1 DEF Creating, Creates
      <4>4. R = "ok"
        BY <3>1 DEF Result, Writes
      <4>5. x.pc = Last(c)
        BY <1>1, <1>2, <4>1, <4>4, UserOpPlace
      <4>6. ~Creating(c, k)'
        <5>1. client'[c] = x /\ Last(c)' = Last(c)
          BY <1>3, SameProgram DEF Moves, Last
        <5>2. Last(c) \in Nat
          BY <1>1, PlaceOf
        <5> QED BY <4>5, <5>1, <5>2 DEF Creating, Creates
      <4>7. Born(k)'
        BY <1>3, <1>4, <1>5, <4>3, <4>6 DEF Born, OneCreator, Calmer
      <4> QED BY <4>2, <4>7 DEF KeyHeld
    <3>2. CASE fx = "delkey" /\ k = o.key
      BY <2>0, <3>2 DEF KeysMoved, KeyHeld
    <3>3. CASE ~(fx \in {"addkey", "delkey"} /\ k = o.key)
      <4>1. db'.key[k] = db.key[k]
        BY <2>0, <3>3 DEF KeysMoved
      <4>2. Owner[k] \in Users
        BY MetaRecordsAssumption
      <4>3. Named(db.user[Owner[k]], k) => Named(db'.user[Owner[k]], k)
        BY <2>0, <3>3, <4>2 DEF KeysMoved
      <4> QED BY <1>5, <4>1, <4>3 DEF KeyHeld
    <3> QED BY <3>1, <3>2, <3>3
  <2> QED BY <1>3, <1>5, <2>1, <2>2 DEF KeysStay
<1> QED BY <1>8, <1>9, WriteMoved

\* What letting a key in learns at the two calls.
LEMMA OwnerFound ==
    ASSUME NEW o, NEW v, o.key \in Keys, o.user = Owner[o.key], Result("owner", o, v) = "ok"
    PROVE  v.key[o.key] # None
<1>1. o.user \in Users /\ o.user # None
  BY MetaRecordsAssumption
<1>2. Result("owner", o, v) = IF v.key[o.key] = o.user THEN "ok" ELSE "denied"
  BY DEF Result
<1> QED BY <1>1, <1>2

\* A key the date of which has passed is not named by the record that says it is not expired.
LEMMA DateAsked ==
    ASSUME NEW o, NEW v, o.key \in late, Result("expired", o, v) = "ok"
    PROVE  ~KeyEntry(v, o).named
<1>1. Result("expired", o, v) = IF KeyEntry(v, o).expired \/ PastDate(v, o, late) THEN "denied" ELSE "ok"
  BY DEF Result
<1>2. ~PastDate(v, o, late)
  BY <1>1
<1> QED BY <1>2 DEF PastDate

\* Rows are written.
LEMMA KeyWrite ==
    ASSUME Inv, Stocked, Bounded, KeysKept, backend # "dynamo", NEW c \in Clients, WriteRows(c)
    PROVE  KeysKept'
<1> DEFINE o == client[c].op
           fx == Instr(c).fx
           v == ViewOf(c)
           R == Result(fx, o, v)
<1>1. /\ o # None /\ Instr(c).do \in {"write", "tx"} /\ client[c].pc < Last(c)
  BY WriteMove
<1>2. PICK x : /\ Goes(c, x) /\ x.view = client[c].view
               /\ x.res = R /\ x.pc = IF R = "ok" THEN client[c].pc + 1 ELSE Last(c)
  BY WriteMove
<1>3. PICK n : n = Last(c)
  OBVIOUS
<1>4. /\ Moves(client, client', c, x) /\ x.op = o /\ x.old = client[c].old /\ backend' = backend
      /\ late' = late /\ gone' = gone
  BY <1>2 DEF Goes
<1>5. KeysStay /\ OneCreator' /\ \A k \in Keys : KeyHeld(k)'
  BY WriteKeys
<1>6. Typed(o) /\ Args(o) /\ KeyOK(client[c], n) /\ n \in Nat /\ client[c].pc \in 1..n
  BY <1>1, <1>3, PlaceOf DEF KeysKept
<1>k. o.name \in {"delkey", "auth"} => o.key \in Keys /\ o.user = Owner[o.key]
  BY <1>6 DEF Typed, Args, KeyNames
<1>7. \A k \in Keys : x.view.key[k] # None => Born(k)'
  BY <1>2, <1>5, <1>6 DEF KeyOK, KeysStay
<1>8. ASSUME x.op.name = "delkey" PROVE Shut(x.op.key)'
  <2>1. o.name = "delkey" /\ o.key \in Keys /\ o.user = Owner[o.key]
    BY <1>4, <1>8, <1>k
  <2>2. fx = "delkey" /\ v.user[o.user] = db.user[o.user]
    BY <1>1, <2>1, UserOpPlace
  <2>3. Born(x.op.key)'
    BY <1>1, <1>4, <1>5, <1>6, <2>1 DEF KeyOK, RevokeOK, KeysStay
  <2>4. db'.key[o.key] = None
    <3>1. CASE db' = db /\ ~Writes(fx, o, v, late)
      <4>1. ~KeyEntry(v, o).named
        BY <2>2, <3>1 DEF Writes
      <4> HIDE DEF v, o
      <4> QED BY <2>1, <2>2, <3>1, <4>1, UnnamedKey
    <3>2. CASE Moved(fx, o, db, db')
      BY <2>2, <3>2 DEF Moved, KeysMoved
    <3> QED BY <3>1, <3>2, WriteMoved
  <2> QED BY <1>4, <2>3, <2>4 DEF Shut
<1>9. x.op.name = "auth" => AuthAt(c)
  BY <1>1, <1>4, AuthPlace
<1>10. ASSUME x.op.name = "auth", x.old = "gone" PROVE GoneOK(x, n)'
  <2>1. GoneOK(client[c], n) /\ o.key \in Keys /\ o.user = Owner[o.key]
    BY <1>1, <1>4, <1>6, <1>10, <1>k DEF KeyOK
  <2>2. o.key \in gone /\ db.key[o.key] = None
    BY <2>1 DEF GoneOK, KeysKept, Shut
  <2>3. AuthAt(c)
    BY <1>9, <1>10
  <2>4. client[c].pc = OwnerCall /\ v.key[o.key] = None
    <3>1. CASE backend = "bolt"
      <4>1. OwnerCall = 1
        BY <3>1 DEF OwnerCall
      <4>2. client[c].pc = 1
        BY <1>1, <1>3, <1>6, <2>1, <3>1 DEF GoneOK
      <4>3. Instr(c).do = "tx"
        <5>1. TxFits(o, Instr(c))
          BY <1>1, <3>1, BoltAt
        <5> QED BY <5>1 DEF TxFits
      <4> QED BY <2>2, <4>1, <4>2, <4>3 DEF ViewOf
    <3>2. CASE backend = "redis"
      <4>1. OwnerCall = 2
        BY <3>2 DEF OwnerCall
      <4>2. client[c].pc # 1
        <5>1. ASSUME client[c].pc = 1 PROVE FALSE
          <6>1. Instr(c).do = "read"
            BY <2>3, <4>1, <5>1 DEF AuthAt
          <6> QED BY <1>1, <6>1
        <5> QED BY <5>1
      <4>3. client[c].pc = 2 /\ client[c].view.key[o.key] = None
        BY <1>1, <1>3, <1>6, <2>1, <4>2 DEF GoneOK
      <4>4. Instr(c).do = "write"
        BY <2>3, <3>2, <4>1, <4>3 DEF AuthAt
      <4> QED BY <4>1, <4>3, <4>4 DEF ViewOf
    <3> QED BY <3>1, <3>2, Drivers
  <2>5. fx = "owner"
    BY <2>3, <2>4 DEF AuthAt
  <2>6. R # "ok"
    <3> HIDE DEF v, o
    <3> QED BY <2>1, <2>4, <2>5, OwnerFound
  <2>7. x.pc = n /\ x.res # "ok"
    BY <1>2, <1>3, <2>6
  <2> QED BY <1>4, <2>2, <2>7 DEF GoneOK
<1>11. (x.pc = client[c].pc + 1 /\ x.res = "ok") \/ (x.pc = n /\ x.res # "ok")
  BY <1>2, <1>3
<1>12. ASSUME x.op.name = "auth", x.res = "ok", client[c].pc = OwnerCall PROVE Born(x.op.key)'
  <2>1. fx = "owner" /\ o.key \in Keys /\ o.user = Owner[o.key]
    BY <1>4, <1>9, <1>12, <1>k DEF AuthAt
  <2>2. Result("owner", o, v) = "ok"
    BY <1>2, <1>12, <2>1
  <2>3. v.key[o.key] # None
    <3> HIDE DEF v, o
    <3> QED BY <2>1, <2>2, OwnerFound
  <2>4. Born(o.key)
    BY <2>1, <2>3, ViewKeys
  <2> QED BY <1>4, <1>5, <2>1, <2>4 DEF KeysStay
<1>13. ASSUME x.op.name = "auth", x.old = "late", x.res = "ok", client[c].pc = ExpiredCall PROVE Shut(x.op.key)'
  <2>1. fx = "expired" /\ o.key \in Keys /\ o.user = Owner[o.key] /\ v.user[o.user] = db.user[o.user]
    BY <1>4, <1>9, <1>13, <1>k DEF AuthAt
  <2>2. LateOK(client[c], n)
    BY <1>1, <1>4, <1>6, <1>13 DEF KeyOK
  <2>3. Through(client[c], n, OwnerCall)
    BY <1>1, <1>3, <1>13 DEF Through, OwnerCall, ExpiredCall
  <2>4. Born(o.key) /\ o.key \in late
    BY <2>2, <2>3 DEF LateOK
  <2>5. Result("expired", o, v) = "ok"
    BY <1>2, <1>13, <2>1
  <2>6. db.key[o.key] = None
    <3> HIDE DEF v, o
    <3>1. ~KeyEntry(v, o).named
      BY <2>4, <2>5, DateAsked
    <3> QED BY <2>1, <3>1, UnnamedKey
  <2>7. Shut(o.key)
    BY <2>4, <2>6 DEF Shut
  <2> QED BY <1>4, <1>5, <2>1, <2>7 DEF KeysStay
<1>14. KeyOK(x, n)'
  <2> HIDE DEF o, v, R, fx
  <2> QED BY <1>2, <1>3, <1>5, <1>7, <1>8, <1>10, <1>11, <1>12, <1>13, GoesKey
<1>15. \A k \in gone' : Shut(k)'
  BY <1>4, <1>5 DEF KeysKept, KeysStay, Bounded
<1>16. n = Len(Program(x.op))
  BY <1>3, <1>4 DEF Last
<1> QED BY <1>4, <1>5, <1>14, <1>15, <1>16, KeyStep

\* A client that has its answer, or has died.
LEMMA KeyEnd ==
    ASSUME Inv, Stocked, Bounded, KeysKept, backend # "dynamo", NEW c \in Clients, client[c].op # None,
           client' = [client EXCEPT ![c] = Idle],
           backend' = backend, db' = db, late' = late, added' = added,
           \/ gone' = gone
           \/ /\ gone' = gone \cup {client[c].op.key} /\ client[c].op.name = "delkey"
              /\ client[c].pc = Last(c) /\ ~client[c].failed /\ client[c].res \in {"ok", "nothing"}
    PROVE  KeysKept'
<1>1. Moves(client, client', c, Idle) /\ Calmer
  BY CalmEnd
<1>2. KeysStay /\ OneCreator' /\ \A k \in Keys : KeyHeld(k)'
  BY <1>1, QuietKeys
<1>3. PICK x : x = Idle
  OBVIOUS
<1>4. PICK n : n = Len(Program(x.op))
  OBVIOUS
<1>5. KeyOK(x, n)'
  <2>1. x.op = None /\ \A k \in Keys : x.view.key[k] = None
    BY <1>3, IdleIs DEF EmptyDB
  <2> QED BY <2>1 DEF KeyOK
<1>6. ASSUME NEW k \in gone' PROVE Shut(k)'
  <2>1. CASE k \in gone
    BY <1>2, <2>1 DEF KeysKept, KeysStay, Bounded
  <2>2. CASE k \notin gone
    <3>1. /\ k = client[c].op.key /\ client[c].op.name = "delkey"
          /\ client[c].pc = Last(c) /\ ~client[c].failed /\ client[c].res \in {"ok", "nothing"}
      BY <1>6, <2>2
    <3>2. Shut(k) /\ k \in Keys
      BY <3>1, PlaceOf DEF KeysKept, KeyOK, RevokeOK, Typed, KeyNames
    <3> QED BY <1>2, <3>2 DEF KeysStay
  <2> QED BY <2>1, <2>2
<1>7. Moves(client, client', c, x)
  BY <1>1, <1>3
<1> QED BY <1>2, <1>4, <1>5, <1>6, <1>7, KeyStep

\* A step that no client takes.
LEMMA KeyRests ==
    ASSUME Inv, Bounded, KeysKept, backend # "dynamo", client' = client, backend' = backend, db' = db, added' = added,
           gone' = gone, late \subseteq late'
    PROVE  KeysKept'
<1>1. ASSUME NEW d \in Clients PROVE Last(d)' = Last(d)
  BY SameProgram DEF Last
<1>2. Calmer
  BY <1>1 DEF Calmer, Creating, Creates
<1>3. KeysStay /\ OneCreator' /\ \A k \in Keys : KeyHeld(k)'
  BY <1>2, QuietKeys
<1>4. ASSUME NEW y \in Clients PROVE KeyOK(client[y], Last(y))'
  <2>1. PICK z : z = client[y]
    OBVIOUS
  <2>2. PICK m : m = Last(y)
    OBVIOUS
  <2>3. client'[y] = z /\ Last(y)' = m
    BY <1>1, <2>1, <2>2
  <2>4. KeyOK(z, m) /\ (z.op # None => Typed(z.op))
    BY <2>1, <2>2 DEF KeysKept, Inv, Formed
  <2>5. KeyOK(z, m)'
    BY <1>3, <2>4, KeyOKStays
  <2> QED BY <2>3, <2>5 DEF KeyOK, RevokeOK, GoneOK, LateOK, Through
<1>5. \A k \in gone' : Shut(k)'
  BY <1>3 DEF KeysKept, KeysStay, Bounded
<1> QED BY <1>3, <1>4, <1>5 DEF KeysKept

\* At the start.
LEMMA KeysInit == Init => KeysKept
<1> SUFFICES ASSUME Init PROVE KeysKept
  OBVIOUS
<1>1. db \in {EmptyDB, Setup} /\ client = [c \in Clients |-> Idle] /\ gone = {} /\ added = {k \in Keys : db.key[k] # None}
  BY DEF Init
<1>2. \A c \in Clients : client[c] = Idle
  BY <1>1
<1>3. \A c \in Clients, k \in Keys : ~Creating(c, k)
  BY <1>2, IdleIs DEF Creating, Creates
<1>4. OneCreator
  BY <1>3 DEF OneCreator
<1>5. ASSUME NEW k \in Keys PROVE KeyHeld(k)
  <2>1. CASE db = EmptyDB
    <3>1. db.key[k] = None
      BY <2>1 DEF EmptyDB
    <3> QED BY <3>1 DEF KeyHeld
  <2>2. CASE db = Setup
    <3>1. db.key[k] = Owner[k] /\ Named(db.user[Owner[k]], k)
      BY <2>2, SetupStock
    <3>2. db.key[k] # None => Born(k)
      BY <1>1, <1>3 DEF Born
    <3> QED BY <3>1, <3>2 DEF KeyHeld
  <2> QED BY <1>1, <2>1, <2>2
<1>6. ASSUME NEW c \in Clients PROVE KeyOK(client[c], Last(c))
  <2>1. client[c].op = None /\ \A k \in Keys : client[c].view.key[k] = None
    BY <1>2, IdleIs DEF EmptyDB
  <2> QED BY <2>1 DEF KeyOK
<1> QED BY <1>1, <1>4, <1>5, <1>6 DEF KeysKept

\* Every step keeps the keys.
LEMMA KeysNext ==
    ASSUME Inv, Stocked, Bounded, KeysKept, [Next]_vars
    PROVE  KeysKept'
<1>0. CASE backend = "dynamo"
  <2>1. backend' = backend
    BY DEF Next, vars, Begin, Take, LockFails, ReadRow, WriteRows, CallFails, ReleaseLocks, Crash, LockExpires, DatePasses
  <2> QED BY <1>0, <2>1 DEF KeysKept
<1>a. CASE backend # "dynamo"
  <2>1. CASE UNCHANGED vars
    BY <1>a, <2>1, KeyRests DEF vars, history
  <2>2. ASSUME NEW c \in Clients, NEW o \in Requests, Begin(c, o) PROVE KeysKept'
    BY <1>a, <2>2, KeyBegin
  <2>3. ASSUME NEW c \in Clients, Take(c) \/ LockFails(c) PROVE KeysKept'
    BY <1>a, <2>3, KeyLock
  <2>5. ASSUME NEW c \in Clients, ReadRow(c) PROVE KeysKept'
    BY <1>a, <2>5, KeyRead
  <2>6. ASSUME NEW c \in Clients, WriteRows(c) PROVE KeysKept'
    BY <1>a, <2>6, KeyWrite
  <2>7. ASSUME NEW c \in Clients, CallFails(c) PROVE KeysKept'
    BY <1>a, <2>7, KeyFails
  <2>8. ASSUME NEW c \in Clients, ReleaseLocks(c) PROVE KeysKept'
    <3>1. CASE client[c].pc < Last(c)
      BY <1>a, <2>8, <3>1, KeyLock
    <3>2. CASE ~(client[c].pc < Last(c))
      <4> DEFINE revokes == client[c].op.name = "delkey" /\ client[c].res \in {"ok", "nothing"}
      <4>1. /\ client[c].op # None /\ client' = [client EXCEPT ![c] = Idle] /\ backend' = backend /\ db' = db
            /\ late' = late /\ added' = added
            /\ gone' = IF client[c].failed THEN gone ELSE gone \cup (IF revokes THEN {client[c].op.key} ELSE {})
        BY <2>8, <3>2 DEF ReleaseLocks, At
      <4>2. client[c].pc = Last(c)
        BY <3>2, <4>1, PlaceOf
      <4>3. CASE client[c].failed
        BY <1>a, <4>1, <4>3, KeyEnd
      <4>4. CASE ~client[c].failed /\ ~revokes
        <5>1. gone' = gone
          BY <4>1, <4>4
        <5> QED BY <1>a, <4>1, <5>1, KeyEnd
      <4>5. CASE ~client[c].failed /\ revokes
        <5>1. gone' = gone \cup {client[c].op.key}
          BY <4>1, <4>5
        <5> QED BY <1>a, <4>1, <4>2, <4>5, <5>1, KeyEnd
      <4> QED BY <4>3, <4>4, <4>5
    <3> QED BY <3>1, <3>2
  <2>9. ASSUME NEW c \in Clients, Crash(c) PROVE KeysKept'
    BY <1>a, <2>9, KeyEnd DEF Crash, history
  <2>10. ASSUME NEW l \in LockNames, LockExpires(l) PROVE KeysKept'
    BY <1>a, <2>10, KeyRests DEF LockExpires, history
  <2>11. ASSUME NEW k \in Keys, DatePasses(k) PROVE KeysKept'
    BY <1>a, <2>11, KeyRests DEF DatePasses, history
  <2> QED BY <2>1, <2>2, <2>3, <2>5, <2>6, <2>7, <2>8, <2>9, <2>10, <2>11 DEF Next
<1> QED BY <1>0, <1>a

-----------------------------------------------------------------------------
(* What the clients see.                                                     *)

\* The inductive invariant.
ClientsInv == Inv /\ Stocked /\ Bounded /\ Counted /\ KeysKept

\* Each part of ClientsSound follows.
LEMMA InvTypes ==
    ASSUME ClientsInv
    PROVE  TypeOK
<1>1. TypedDB(db) /\ Bounded
  BY DEF ClientsInv, Stocked
<1>2. IsDB(db) /\ TypedRepos(db) /\ TypedUsers(db) /\ TypedKeys(db)
  BY <1>1 DEF TypedDB
<1>3. db.repo \in [Repos -> RepoRecords \cup {None}] /\ db.blobs \in [Repos -> SUBSET Images]
  BY <1>2 DEF IsDB, TypedRepos
<1>4. db.user \in [Users -> UserRecords \cup {None}]
  BY <1>2 DEF IsDB, TypedUsers
<1>5. db.key \in [Keys -> Users \cup {None}] /\ db.image \subseteq Images
  BY <1>2 DEF IsDB, TypedKeys
<1>6. late \cup added \cup revoked \cup gone \subseteq Keys /\ dropped \subseteq Repos
  BY <1>1 DEF Bounded
<1> QED BY <1>1, <1>3, <1>4, <1>5, <1>6 DEF TypeOK, Bounded

\* The stars.
LEMMA InvStars ==
    ASSUME ClientsInv
    PROVE  StarsMatch
<1> SUFFICES ASSUME backend # "dynamo", NEW r \in Repos \ dropped, db.repo[r] # None
             PROVE  db.repo[r].stars = Cardinality({u \in Users : db.user[u] # None /\ r \in db.user[u].starred})
  BY DEF StarsMatch
<1>1. StarsOf(db.repo[r]) = Cardinality(Fans(db, r))
  BY DEF ClientsInv, Counted
<1>2. Fans(db, r) = {u \in Users : db.user[u] # None /\ r \in db.user[u].starred}
  BY DEF Fans, Starred
<1>3. StarsOf(db.repo[r]) = db.repo[r].stars
  BY DEF StarsOf
<1> QED BY <1>1, <1>2, <1>3

\* The queries.
LEMMA InvQueries ==
    ASSUME ClientsInv
    PROVE  QueriesSucceed
BY DEF ClientsInv, Stocked, ClientOK, QueriesSucceed

\* The keys.
LEMMA InvKeys ==
    ASSUME ClientsInv
    PROVE  KeysGuarded
<1> SUFFICES ASSUME backend # "dynamo", NEW c \in Clients
             PROVE  ~Accepted(c, {"gone"}) /\ (Accepted(c, {"late"}) => db.key[client[c].op.key] = None)
  BY DEF KeysGuarded
<1> SUFFICES ASSUME client[c].op # None, client[c].op.name = "auth", client[c].pc = Last(c), client[c].res = "ok"
             PROVE  client[c].old # "gone" /\ (client[c].old = "late" => db.key[client[c].op.key] = None)
  BY DEF Accepted
<1>0. Inv /\ Stocked /\ KeyOK(client[c], Last(c))
  BY DEF ClientsInv, KeysKept
<1>1. Last(c) > ExpiredCall /\ Last(c) # 1 /\ (backend = "redis" => Last(c) # 2) /\ Last(c) \in Nat
  <2>1. CASE backend = "bolt"
    <3>1. Program(client[c].op) = <<Tx("owner"), Tx("expired"), Tx("lastused"), Release>>
      BY <2>1 DEF Program, AuthenticateAPIKey
    <3>2. Last(c) = 4
      BY <3>1 DEF Last
    <3> QED BY <2>1, <3>2 DEF ExpiredCall
  <2>2. CASE backend = "redis"
    <3>1. Len(Program(client[c].op)) = 12
      BY <2>2, RedisAuth DEF Calls12
    <3> QED BY <2>2, <3>1 DEF ExpiredCall, Last
  <2> QED BY <1>0, <2>1, <2>2, Drivers
<1>2. client[c].old # "gone"
  <2>1. ASSUME client[c].old = "gone" PROVE FALSE
    <3>1. GoneOK(client[c], Last(c))
      BY <1>0, <2>1 DEF KeyOK
    <3> QED BY <1>1, <3>1 DEF GoneOK
  <2> QED BY <2>1
<1>3. ASSUME client[c].old = "late" PROVE db.key[client[c].op.key] = None
  <2>1. LateOK(client[c], Last(c))
    BY <1>0, <1>3 DEF KeyOK
  <2>2. Through(client[c], Last(c), ExpiredCall)
    <3> HIDE DEF ExpiredCall
    <3> QED BY <1>1 DEF Through
  <2> QED BY <2>1, <2>2 DEF LateOK, Shut
<1> QED BY <1>2, <1>3

\* It is inductive.
LEMMA ClientsInvNext ==
    ASSUME ClientsInv, [Next]_vars
    PROVE  ClientsInv'
<1>1. Inv /\ Stocked /\ Bounded /\ Counted /\ KeysKept
  BY DEF ClientsInv
<1>2. Inv'
  BY <1>1, NextStep
<1>3. Stocked'
  BY <1>1, StockNext
<1>4. Bounded'
  BY <1>1, BoundedNext
<1>5. Counted'
  BY <1>1, CountedNext
<1>6. KeysKept'
  BY <1>1, KeysNext
<1> QED BY <1>2, <1>3, <1>4, <1>5, <1>6 DEF ClientsInv

\* With any number of clients, calls that fail and processes that die, on every driver: no query
\* finds a tag the image of which is unknown.  On BoltDB and Redis the stars of a repository are
\* the users who starred it, a key that was revoked before a request began does not let it in, and
\* one the date of which had passed does not unless it is revoked while the request is checked.
THEOREM ClientsStaySound == Spec => []ClientsSound
<1>1. Init => ClientsInv
  BY InitInv, StockInit, BoundedInit, CountedInit, KeysInit DEF ClientsInv
<1>2. ClientsInv /\ [Next]_vars => ClientsInv'
  BY ClientsInvNext
<1>3. ClientsInv => ClientsSound
  BY InvTypes, InvStars, InvQueries, InvKeys DEF ClientsSound
<1> QED BY <1>1, <1>2, <1>3, PTL DEF Spec
=============================================================================
