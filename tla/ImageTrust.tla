----------------------------- MODULE ImageTrust -----------------------------
(***************************************************************************)
(* Trust in signatures (pkg/extensions/imagetrust): the uploaded cosign    *)
(* keys and notation certificates, on the local disk or in the AWS secrets *)
(* manager; the trust policy that every server writes when it starts; and  *)
(* the verdict on each signature that the metadata keeps, renewed when the *)
(* signature is pushed and by a periodic generator with a task per         *)
(* repository.  A transaction of the metadata is one step (BoltDB, Redis). *)
(***************************************************************************)
EXTENDS Integers, Sequences, FiniteSets, SequencesExt

CONSTANTS
    Repos, Digests,
    Sigs,           \* signatures: [repo, of, kind, by, claims, expiry, notAfter]
    Keys, Certs,    \* public keys; certificates
    Servers, Main,  \* servers that start; the one that serves here
    Backends,       \* subset of {"local", "aws"}
    Old,            \* levels that a trust policy left by somebody else may have
    MaxTime, MaxUploads, MaxDeletes, MaxRounds, MaxAttempts, MaxCrashes, None

VARIABLES
    backend,
    files,              \* files[k]: "none", "part" (being written) or "whole"
    policy, cached,     \* level of the policy; what each server has in its secrets cache
    srv, tries,         \* where the start of each server is; attempts of recreateSecret
    img,                \* digests with image metadata
    repos,              \* repositories with a record
    entry,              \* pairs <<repo, digest>> with an entry under Signatures
    rec,                \* rec[s]: None, or the recorded signer and date of signature s
    push,               \* a signature pushed and not yet verified, or None
    gen, tasks,         \* the generator; its tasks [repo, left]
    now, uploads, deletes, rounds, crashes,
    steady, owed,       \* history: nothing verification depends on changed in this round; the
                        \* entries there were when it began
    torn, panicked      \* history: a server gave up between delete and create; nil dereferenced

store == <<files, policy, cached>>
boot == <<srv, tries, torn>>
meta == <<img, repos, entry, rec>>
work == <<gen, tasks, rounds>>
bounds == <<now, uploads, deletes, crashes>>
vars == <<backend, store, boot, meta, work, bounds, push, steady, owed, panicked>>

NewGen == [list |-> <<>>, i |-> 0, done |-> FALSE]
At(s) == <<s.repo, s.of>>

Init ==
    /\ backend \in Backends
    /\ files = [k \in Keys \cup Certs |-> "none"]
    /\ policy \in IF backend = "aws" THEN {None} \cup Old ELSE {None}
    /\ cached = [x \in Servers |-> None]
    /\ srv = [x \in Servers |-> IF backend = "aws" \/ x = Main THEN "create" ELSE "down"]
    /\ tries = [x \in Servers |-> 0]
    /\ img = {} /\ repos = {} /\ entry = {} /\ rec = [s \in Sigs |-> None]
    /\ push = None /\ gen = NewGen /\ tasks = {}
    /\ now = 1 /\ uploads = 0 /\ deletes = 0 /\ rounds = 0 /\ crashes = 0
    /\ steady = FALSE /\ owed = {} /\ torn = FALSE /\ panicked = FALSE

----------------------------------------------------------------------------
(* The trust policy at the start of a server.                               *)

\* The first write: the local file is overwritten, the secret is created if there is none.
InitTrustpolicy(x) ==
    /\ srv[x] = "create"
    /\ \/ /\ backend = "local" \/ policy = None
          /\ policy' = "strict" /\ srv' = [srv EXCEPT ![x] = "up"]
       \/ /\ backend = "aws" /\ policy # None
          /\ srv' = [srv EXCEPT ![x] = "read"] /\ UNCHANGED policy
    /\ steady' = FALSE
    /\ UNCHANGED <<backend, files, cached, tries, torn, meta, work, bounds, push, owed, panicked>>

\* ResourceExistsException: the secret is read, through the cache, and kept if it is ours.
ComparePolicy(x) ==
    /\ srv[x] = "read"
    /\ cached' = [cached EXCEPT ![x] = policy]
    /\ srv' = [srv EXCEPT ![x] = CASE policy = None -> "down"
                                   [] policy = "strict" -> "up"
                                   [] OTHER -> "delete"]
    /\ steady' = FALSE
    /\ UNCHANGED <<backend, files, policy, tries, torn, meta, work, bounds, push, owed, panicked>>

DeleteSecret(x) ==
    /\ srv[x] = "delete"
    /\ policy' = None /\ srv' = [srv EXCEPT ![x] = "recreate"]
    /\ tries' = [tries EXCEPT ![x] = 0]
    /\ steady' = FALSE
    /\ UNCHANGED <<backend, files, cached, torn, meta, work, bounds, push, owed, panicked>>

\* An attempt fails while the deletion is under way, or when another server came first.
recreateSecret(x) ==
    /\ srv[x] = "recreate"
    /\ \/ /\ policy = None
          /\ policy' = "strict" /\ srv' = [srv EXCEPT ![x] = "up"]
          /\ UNCHANGED <<tries, torn>>
       \/ /\ tries' = [tries EXCEPT ![x] = @ + 1]
          /\ srv' = [srv EXCEPT ![x] = IF tries[x] + 1 = MaxAttempts THEN "down" ELSE @]
          /\ torn' = (torn \/ (policy = None /\ tries[x] + 1 = MaxAttempts))
          /\ UNCHANGED policy
    /\ steady' = FALSE
    /\ UNCHANGED <<backend, files, cached, meta, work, bounds, push, owed, panicked>>

\* A server dies while it starts.
Crash(x) ==
    /\ srv[x] \notin {"up", "down"}
    /\ crashes < MaxCrashes /\ crashes' = crashes + 1
    /\ srv' = [srv EXCEPT ![x] = "down"]
    /\ torn' = (torn \/ srv[x] = "recreate")
    /\ UNCHANGED <<backend, store, tries, meta, work, now, uploads, deletes, push, steady,
                   owed, panicked>>

\* CacheItemTTL has passed.
CacheExpires(x) ==
    /\ cached[x] # None
    /\ cached' = [cached EXCEPT ![x] = None]
    /\ steady' = FALSE
    /\ UNCHANGED <<backend, files, policy, boot, meta, work, bounds, push, owed, panicked>>

----------------------------------------------------------------------------
(* Uploads.  Content that does not parse, or a trust store type that does   *)
(* not exist, is answered with 400 and changes nothing.                     *)

Store(k, state) == files' = [files EXCEPT ![k] = state]

\* StorePublicKey and StoreCertificate on the local disk: the file, named by the digest
\* of the content, is truncated and written again.
StoreLocal(k) ==
    /\ srv[Main] = "up" /\ backend = "local"
    /\ \/ files[k] # "part" /\ uploads < MaxUploads /\ uploads' = uploads + 1 /\ Store(k, "part")
       \/ files[k] = "part" /\ uploads' = uploads /\ Store(k, "whole")
    /\ steady' = FALSE
    /\ UNCHANGED <<backend, policy, cached, boot, meta, work, now, deletes, crashes, push,
                   owed, panicked>>

\* The same in the secrets manager, where an existing secret is left alone.
StoreSecret(k) ==
    /\ srv[Main] = "up" /\ backend = "aws"
    /\ uploads < MaxUploads /\ uploads' = uploads + 1
    /\ Store(k, "whole")
    /\ steady' = (steady /\ files[k] = "whole")
    /\ UNCHANGED <<backend, policy, cached, boot, meta, work, now, deletes, crashes, push,
                   owed, panicked>>

UploadPublicKey(k) == k \in Keys /\ (StoreLocal(k) \/ StoreSecret(k))
UploadCertificate(c) == c \in Certs /\ (StoreLocal(c) \/ StoreSecret(c))

HandleCosignPublicKeyUpload == \E k \in Keys : UploadPublicKey(k)
HandleNotationCertificateUpload == \E c \in Certs : UploadCertificate(c)

----------------------------------------------------------------------------
(* The verdict on one signature: [signer, date], signer None if it is not   *)
(* trusted, date 0 if none is told.                                         *)

GetPublicKeys == {k \in Keys : files[k] # "none"}
\* A key that cannot be read is passed over.
Verifies(k, s) == files[k] = "whole" /\ k \in s.by

\* MUTANT: the digest in the payload is not compared.
AnyPayload(s) == s.claims = s.of \/ s.kind = "legacy"
\* The digest that was signed, in the payload or in the subject of the statement.
SubjectMatches(s) == s.claims = s.of

VerifyCosignSignature(s) ==
    {k \in GetPublicKeys : Verifies(k, s) /\ SubjectMatches(s)}

\* The bundle's subject is compared first, then any of its signatures may match any key.
verifyCosignBundleSignature(s) ==
    IF ~SubjectMatches(s) THEN {} ELSE {k \in GetPublicKeys : Verifies(k, s)}

\* The local file, or the secret through the cache of this server.
LoadTrustPolicyDocument == IF backend = "aws" /\ cached[Main] # None THEN cached[Main] ELSE policy

\* One file of the trust store that cannot be parsed fails all.
GetCertificates ==
    IF \E c \in Certs : files[c] = "part" THEN {} ELSE {c \in Certs : files[c] = "whole"}

Expired(s) == s.expiry # 0 /\ now >= s.expiry
CertOver(s) == now > s.notAfter

\* The check that verifier.Verify ends with: the first that fails and is enforced.
NotationError(s) ==
    LET strict == LoadTrustPolicyDocument = "strict"
    IN  CASE LoadTrustPolicyDocument = None -> "policy"
          [] GetCertificates \cap s.by = {} -> "authenticity"
          [] strict /\ Expired(s) -> "expiry"
          [] strict /\ CertOver(s) -> "authenticTimestamp"
          [] s.claims # s.of -> "descriptor"
          [] OTHER -> "ok"

CheckExpiryErr(e, s) == e = "expiry" \/ (e = "authenticTimestamp" /\ CertOver(s))

ExpiryDate(s) == IF s.expiry # 0 /\ s.expiry < s.notAfter THEN s.expiry ELSE s.notAfter

VerifyNotationSignature(s) ==
    LET e == NotationError(s)
    IN  [signers |-> IF e = "ok" THEN s.by ELSE {},
         date |-> IF LoadTrustPolicyDocument = "strict" /\ (e = "ok" \/ CheckExpiryErr(e, s))
                  THEN ExpiryDate(s) ELSE 0]

VerifySignature(s) ==
    CASE s.kind = "legacy"   -> [signers |-> VerifyCosignSignature(s), date |-> 0]
      [] s.kind = "bundle"   -> [signers |-> verifyCosignBundleSignature(s), date |-> 0]
      [] s.kind = "notation" -> VerifyNotationSignature(s)

\* The first key that verifies is recorded (in the order in which they are listed); a date
\* is only ever overwritten by another.
Renewed(s) ==
    LET v == VerifySignature(s)
    IN  {[signer |-> k, date |-> IF v.date # 0 THEN v.date ELSE rec[s].date] :
            k \in IF v.signers = {} THEN {None} ELSE v.signers}

ReadsPolicy(D) == \E s \in Sigs : s.kind = "notation" /\ At(s) \in D /\ rec[s] # None

\* UpdateSignaturesValidity(repo, d): nothing without image metadata; an error without
\* the record of the repository; Signatures[d].Map of a missing entry is a nil dereference.
UpdateSignaturesValidity(r, d) ==
    IF d \notin img \/ r \notin repos THEN UNCHANGED <<rec, cached, panicked>>
    ELSE IF <<r, d>> \notin entry THEN panicked' = TRUE /\ UNCHANGED <<rec, cached>>
    ELSE /\ rec' \in {f \in [Sigs -> UNION {Renewed(s) : s \in {t \in Sigs : rec[t] # None}}
                                     \cup {rec[t] : t \in Sigs}] :
                      \A s \in Sigs : IF At(s) = <<r, d>> /\ rec[s] # None
                                      THEN f[s] \in Renewed(s) ELSE f[s] = rec[s]}
         /\ cached' = IF backend = "aws" /\ cached[Main] = None /\ ReadsPolicy({<<r, d>>})
                      THEN [cached EXCEPT ![Main] = policy] ELSE cached
         /\ UNCHANGED panicked

----------------------------------------------------------------------------
(* Requests.                                                                *)

PushImage(d) ==
    /\ d \notin img /\ img' = img \cup {d}
    /\ steady' = FALSE
    /\ UNCHANGED <<backend, store, boot, repos, entry, rec, work, bounds, push, owed, panicked>>

\* AddManifestSignature.
PushSignature(s) ==
    /\ srv[Main] = "up" /\ push = None /\ rec[s] = None
    /\ push' = s
    /\ repos' = repos \cup {s.repo} /\ entry' = entry \cup {At(s)}
    /\ rec' = [rec EXCEPT ![s] = [signer |-> None, date |-> 0]]
    /\ UNCHANGED <<backend, store, boot, img, work, bounds, steady, owed, panicked>>

\* The verification that follows it.
PushVerified ==
    /\ push # None
    /\ UpdateSignaturesValidity(push.repo, push.of)
    /\ push' = None
    /\ UNCHANGED <<backend, files, policy, boot, img, repos, entry, work, bounds, steady, owed>>

Deleted == deletes < MaxDeletes /\ deletes' = deletes + 1

\* DeleteSignature: the entry of the manifest stays.
DeleteSignature(s) ==
    /\ rec[s] # None /\ Deleted
    /\ rec' = [rec EXCEPT ![s] = None]
    /\ UNCHANGED <<backend, store, boot, img, repos, entry, work, now, uploads, crashes, push,
                   steady, owed, panicked>>

\* RemoveRepoReference of the last tag: everything under the digest goes.
RemoveManifest(r, d) ==
    /\ <<r, d>> \in entry /\ Deleted
    /\ entry' = entry \ {<<r, d>>}
    /\ rec' = [s \in Sigs |-> IF At(s) = <<r, d>> THEN None ELSE rec[s]]
    /\ UNCHANGED <<backend, store, boot, img, repos, work, now, uploads, crashes, push, steady,
                   owed, panicked>>

DeleteRepoMeta(r) ==
    /\ r \in repos /\ Deleted
    /\ repos' = repos \ {r} /\ entry' = {e \in entry : e[1] # r}
    /\ rec' = [s \in Sigs |-> IF s.repo = r THEN None ELSE rec[s]]
    /\ UNCHANGED <<backend, store, boot, img, work, now, uploads, crashes, push, steady,
                   owed, panicked>>

----------------------------------------------------------------------------
(* The generator and its tasks.                                             *)

Snapshot(R) == LET row(r) == [repo |-> r, left |-> {e[2] : e \in {f \in entry : f[1] = r}}]
               IN  [i \in DOMAIN SetToSeq(R) |-> row(SetToSeq(R)[i])]

\* Next: the repositories are read when the list is empty; then a task for each of them.
GenNext ==
    /\ srv[Main] = "up" /\ ~gen.done
    /\ LET list == IF gen.list = <<>> THEN Snapshot(repos) ELSE gen.list
           i == gen.i + 1
       IN  /\ gen' = [list |-> list, i |-> i, done |-> i > Len(list)]
           /\ tasks' = IF i > Len(list) THEN tasks ELSE tasks \cup {list[i]}
    /\ IF gen.i = 0 THEN steady' = TRUE /\ owed' = entry ELSE UNCHANGED <<steady, owed>>
    /\ UNCHANGED <<backend, store, boot, meta, rounds, bounds, push, panicked>>

Reset(g) == NewGen

\* The scheduler starts the next round.
NextRound ==
    /\ gen.done /\ rounds < MaxRounds /\ rounds' = rounds + 1
    /\ gen' = Reset(gen) /\ steady' = FALSE
    /\ UNCHANGED <<backend, store, boot, meta, tasks, bounds, push, owed, panicked>>

\* validityTask.DoWork: the manifests of the snapshot that have signatures, in any order;
\* the first error ends the task.
DoWork(t) ==
    /\ t \in tasks
    /\ IF t.left = {} THEN /\ tasks' = tasks \ {t}
                           /\ UNCHANGED <<rec, cached, panicked, steady>>
       ELSE \E d \in t.left :
            /\ UpdateSignaturesValidity(t.repo, d)
            /\ LET err == d \in img /\ t.repo \notin repos
               IN  /\ tasks' = (tasks \ {t})
                                \cup (IF err THEN {} ELSE {[t EXCEPT !.left = @ \ {d}]})
                   /\ steady' = (steady /\ ~err)
    /\ UNCHANGED <<backend, files, policy, boot, img, repos, entry, gen, rounds, bounds, push,
                   owed>>

\* The context is cancelled.
Cancel(t) ==
    /\ t \in tasks /\ t.left # {}
    /\ tasks' = tasks \ {t} /\ steady' = FALSE
    /\ UNCHANGED <<backend, store, boot, meta, gen, rounds, bounds, push, owed, panicked>>

Tick ==
    /\ now < MaxTime /\ now' = now + 1 /\ steady' = FALSE
    /\ UNCHANGED <<backend, store, boot, meta, work, uploads, deletes, crashes, push, owed,
                   panicked>>

----------------------------------------------------------------------------
Booting == \E x \in Servers : \/ InitTrustpolicy(x) \/ ComparePolicy(x) \/ DeleteSecret(x)
                              \/ recreateSecret(x) \/ Crash(x) \/ CacheExpires(x)
Requests == \/ HandleCosignPublicKeyUpload \/ HandleNotationCertificateUpload
            \/ \E d \in Digests : PushImage(d)
            \/ \E s \in Sigs : PushSignature(s) \/ DeleteSignature(s)
            \/ PushVerified
            \/ \E r \in Repos : DeleteRepoMeta(r) \/ \E d \in Digests : RemoveManifest(r, d)
Rounds == GenNext \/ NextRound \/ \E t \in tasks : DoWork(t) \/ Cancel(t)
Next == ~panicked /\ (Booting \/ Requests \/ Rounds \/ Tick)

Spec == Init /\ [][Next]_vars

----------------------------------------------------------------------------
(* Properties.                                                              *)

\* Every variable holds a value of the kind the code gives it.
TypeOK ==
    /\ backend \in Backends /\ files \in [Keys \cup Certs -> {"none", "part", "whole"}]
    /\ policy \in {None, "strict"} \cup Old
    /\ srv \in [Servers -> {"create", "read", "delete", "recreate", "up", "down"}]
    /\ img \subseteq Digests /\ repos \subseteq Repos /\ entry \subseteq Repos \X Digests
    /\ \A s \in Sigs : rec[s] = None \/ rec[s].signer \in Keys \cup Certs \cup {None}
    /\ push \in Sigs \cup {None} /\ now \in 1..MaxTime
    /\ \A t \in tasks : t.repo \in Repos /\ t.left \subseteq Digests

\* A signature is shown as trusted only if the named key or certificate was uploaded, made
\* that signature, and signed exactly the manifest it is attached to: not after any order
\* of uploads, pushes, deletions, rounds and starts of other servers.
TrustedMeansSigned ==
    \A s \in Sigs : rec[s] # None /\ rec[s].signer # None =>
        /\ files[rec[s].signer] # "none" /\ rec[s].signer \in s.by /\ s.claims = s.of

RoundOver == gen.done /\ tasks = {} /\ steady
Live(s) == At(s) \in owed /\ rec[s] # None /\ push # s /\ s.of \in img

\* A round of the generator during which no key, policy, cache or date changed and no task
\* failed brings every verdict up to date: a key uploaded after the signature counts, and a
\* signature that ran out meanwhile does not.
RoundExact ==
    RoundOver => \A s \in Sigs : Live(s) /\ s.kind # "notation" =>
        (rec[s].signer # None <=>
            s.claims = s.of /\ \E k \in s.by \cap Keys : files[k] = "whole")

\* After such a round a notation signature that is not trusted, although its certificate is
\* there and it signed this manifest, has run out under the strict policy, and its date says so.
ExpiryTold ==
    RoundOver => \A s \in Sigs :
        (/\ Live(s) /\ s.kind = "notation" /\ LoadTrustPolicyDocument = "strict"
         /\ s.claims = s.of /\ s.by \subseteq GetCertificates)
        => IF rec[s].signer = None THEN rec[s].date # 0 /\ rec[s].date <= now
           ELSE now <= rec[s].date /\ ~Expired(s)

\* Once a server is up the shared policy is the strict one, whatever it was, unless another
\* server is between its deletion and its creation, or gave up there.
PolicyStanding ==
    (\E x \in Servers : srv[x] = "up") /\ ~torn /\ (\A x \in Servers : srv[x] # "recreate")
    => policy = "strict"

=============================================================================
