------------------------------ MODULE MCStorage ------------------------------
(***************************************************************************)
(* What is on the disk, for TLC.  The deduplication of a blob, with both   *)
(* walks and calls of every kind failing, or one of the components beside  *)
(* it: the drivers of the dedupe cache, the scrub task, and the keys,      *)
(* certificates and trust policy that the verdicts on signatures rest on.  *)
(* They share no state here; a behaviour runs one of them.                 *)
(***************************************************************************)
EXTENDS DedupeStore, TLC

CONSTANTS Off, None, Dead, c1, c2, p1, p2, p3, a, b, ix, o, ca, cb, la, lb

VARIABLE part   \* the component that runs in this behaviour
VARIABLES kind, rel, cacheOrig, cacheDups, lock, cl, calls, cacheFaults, kept,
          mixed, faulted, torn
VARIABLES blob, entries, task, deletes, deleted
VARIABLES trustIn, keyFiles, trustPolicy, cachedPolicy, server, tries, known,
          recorded, signed, verdicts, pushes, trustGen, trustTasks, now, uploads,
          removals, rounds, crashes, steady, owed, tornFile, panicked

MCRepos == {"a", "b", "c"}
MCOrder == <<"a", "b", "c">>
Toggled == BOOLEAN \X BOOLEAN

\* Once a record and its content have come apart the properties ask for nothing more: TLC
\* checks such a state and goes no further.
Unsevered == ~severed

\* Two clients of each driver, three paths, one failed request or crash.
Cache == INSTANCE CacheDrivers
    WITH Clients <- {c1, c2}, Paths <- {p1, p2, p3},
        Kinds <- {"boltdb", "redis", "dynamodb"}, MaxCalls <- 3, MaxFaults <- 1,
        orig <- cacheOrig, dups <- cacheDups, faults <- cacheFaults

ScrubKind == a :> "image" @@ b :> "image" @@ ix :> "index" @@ o :> "other"
ScrubConfig == a :> ca @@ b :> cb @@ ix :> None @@ o :> None
ScrubLayers == a :> <<la>> @@ b :> <<lb, la>> @@ ix :> <<>> @@ o :> <<>>
ScrubMembers == a :> <<>> @@ b :> <<>> @@ ix :> <<a, b>> @@ o :> <<>>
ScrubSubject == a :> None @@ b :> a @@ ix :> b @@ o :> None
ScrubEntries == [1..1 -> {a, b, ix, o}] \cup [1..2 -> {a, b, ix, o}] \cup {<<ix, a, b>>, <<b, a, ix>>}

\* Image a, image b with subject a and a layer in common, index ix of both, and o of another type.
Scrubber == INSTANCE Scrub
    WITH Manifests <- {a, b, ix, o},
        Others <- {ca, cb, la, lb}, Kind <- ScrubKind, Config <- ScrubConfig,
        Layers <- ScrubLayers, Members <- ScrubMembers, Subject <- ScrubSubject,
        Entries <- ScrubEntries, MaxDeletes <- 1, s <- task

Sig(r, k, by, claims, e, n) == [repo |-> r, of |-> "d1", kind |-> k, by |-> by,
                                claims |-> claims, expiry |-> e, notAfter |-> n]
CosignSigs == {Sig("r1", "bundle", {"k1", "k2"}, "d1", 0, 0), Sig("r2", "legacy", {"k1"}, "d2", 0, 0)}
NotationSigs == {Sig("r1", "notation", {"c1"}, "d1", 3, 1), Sig("r1", "notation", {"c2"}, "d1", 2, 3)}

\* Two keys; a signature by both of them, and one that claims another image.
Cosign == INSTANCE ImageTrust
    WITH Main <- "s1", Backends <- {"local", "aws"},
        Repos <- {"r1", "r2"}, Digests <- {"d1"}, Sigs <- CosignSigs,
        Keys <- {"k1", "k2"}, Certs <- {}, Servers <- {"s1"}, Old <- {},
        MaxTime <- 1, MaxUploads <- 2, MaxDeletes <- 1, MaxRounds <- 1,
        MaxAttempts <- 2, MaxCrashes <- 0, backend <- trustIn, files <- keyFiles,
        policy <- trustPolicy, cached <- cachedPolicy, srv <- server, img <- known,
        repos <- recorded, entry <- signed, rec <- verdicts, push <- pushes,
        gen <- trustGen, tasks <- trustTasks, deletes <- removals, torn <- tornFile

\* Two certificates and signatures that expire, on the disk; a policy that somebody left.
Notation == INSTANCE ImageTrust
    WITH Main <- "s1",
        Backends <- {"local"}, Repos <- {"r1", "r2"}, Digests <- {"d1"},
        Sigs <- NotationSigs, Keys <- {}, Certs <- {"c1", "c2"}, Servers <- {"s1"},
        Old <- {"permissive"}, MaxTime <- 2, MaxUploads <- 2, MaxDeletes <- 1,
        MaxRounds <- 1, MaxAttempts <- 2, MaxCrashes <- 0, backend <- trustIn,
        files <- keyFiles, policy <- trustPolicy, cached <- cachedPolicy,
        srv <- server, img <- known, repos <- recorded, entry <- signed,
        rec <- verdicts, push <- pushes, gen <- trustGen, tasks <- trustTasks,
        deletes <- removals, torn <- tornFile

\* Three servers start at once on one store of secrets.
Policy == INSTANCE ImageTrust
    WITH Main <- "s1", Backends <- {"local", "aws"},
        Repos <- {}, Digests <- {}, Sigs <- {}, Keys <- {}, Certs <- {},
        Servers <- {"s1", "s2", "s3"}, Old <- {"permissive"}, MaxTime <- 1,
        MaxUploads <- 0, MaxDeletes <- 0, MaxRounds <- 0, MaxAttempts <- 5,
        MaxCrashes <- 1, backend <- trustIn, files <- keyFiles,
        policy <- trustPolicy, cached <- cachedPolicy, srv <- server, img <- known,
        repos <- recorded, entry <- signed, rec <- verdicts, push <- pushes,
        gen <- trustGen, tasks <- trustTasks, deletes <- removals, torn <- tornFile

CacheState == <<kind, rel, cacheOrig, cacheDups, lock, cl, calls, cacheFaults,
            kept, mixed, faulted, torn>>
ScrubberState == <<blob, entries, task, deletes, deleted>>
TrustState == <<trustIn, keyFiles, trustPolicy, cachedPolicy, server, tries, known,
            recorded, signed, verdicts, pushes, trustGen, trustTasks, now, uploads,
            removals, rounds, crashes, steady, owed, tornFile, panicked>>

-----------------------------------------------------------------------------
(* The variables of a component that does not run hold Off.               *)
CacheOff == /\ kind = Off /\ rel = Off /\ cacheOrig = Off /\ cacheDups = Off /\ lock = Off
            /\ cl = Off /\ calls = Off /\ cacheFaults = Off /\ kept = Off /\ mixed = Off
            /\ faulted = Off /\ torn = Off
ScrubberOff == /\ blob = Off /\ entries = Off /\ task = Off /\ deletes = Off
               /\ deleted = Off
TrustOff == /\ trustIn = Off /\ keyFiles = Off /\ trustPolicy = Off /\ cachedPolicy = Off
            /\ server = Off /\ tries = Off /\ known = Off /\ recorded = Off /\ signed = Off
            /\ verdicts = Off /\ pushes = Off /\ trustGen = Off /\ trustTasks = Off
            /\ now = Off /\ uploads = Off /\ removals = Off /\ rounds = Off /\ crashes = Off
            /\ steady = Off /\ owed = Off /\ tornFile = Off /\ panicked = Off

MCInit ==
    \/ part = "dedupe" /\ Init /\ CacheOff /\ ScrubberOff /\ TrustOff
    \/ part = "cache" /\ Cache!Init /\ Init /\ dedupe /\ ScrubberOff /\ TrustOff
    \/ part = "scrub" /\ Scrubber!Init /\ Init /\ dedupe /\ CacheOff /\ TrustOff
    \/ part = "cosign" /\ Cosign!Init /\ Init /\ dedupe /\ CacheOff /\ ScrubberOff
    \/ part = "notation" /\ Notation!Init /\ Init /\ dedupe /\ CacheOff /\ ScrubberOff
    \/ part = "policy" /\ Policy!Init /\ Init /\ dedupe /\ CacheOff /\ ScrubberOff

MCNext ==
    /\ UNCHANGED part
    /\ \/ part = "dedupe" /\ Next /\ UNCHANGED <<CacheState, ScrubberState, TrustState>>
       \/ part = "cache" /\ Cache!Next /\ UNCHANGED <<vars, ScrubberState, TrustState>>
       \/ part = "scrub" /\ Scrubber!Next /\ UNCHANGED <<vars, CacheState, TrustState>>
       \/ part = "cosign" /\ Cosign!Next /\ UNCHANGED <<vars, CacheState, ScrubberState>>
       \/ part = "notation" /\ Notation!Next /\ UNCHANGED <<vars, CacheState, ScrubberState>>
       \/ part = "policy" /\ Policy!Next /\ UNCHANGED <<vars, CacheState, ScrubberState>>

MCVars == <<part, vars, CacheState, ScrubberState, TrustState>>
MCSpec == MCInit /\ [][MCNext]_MCVars

-----------------------------------------------------------------------------
(* The properties of the components, each where its component runs.        *)

\* Model values that no action tells apart.
MCSymmetry == Permutations({c1, c2}) \cup Permutations({p1, p2, p3})

\* Whatever two clients of a driver of the dedupe cache ask for, also when one of them stops or
\* fails between two commands: a path that was put and not deleted stays listed, the original of
\* a digest is one of its paths, a driver answers a read with a path it lists, and a put never
\* replaces the original of others.
CacheSound ==
    /\ [](part = "cache" => /\ Cache!TypeOK /\ Cache!KeptListed /\ Cache!OriginListed
                            /\ Cache!ReadsSound)
    /\ [][part = "cache" => Cache!KeepsOrigin]_MCVars

\* The scrub blames an image only for a blob it reaches that is missing, damaged, named by another
\* algorithm than sha256, or a config that is not JSON, and it misses none of these of an image
\* that stays, although images are deleted between the steps of its task.
ScrubSound ==
    part = "scrub" => /\ Scrubber!TypeOK /\ Scrubber!AffectedReal /\ Scrubber!DamageSeen

\* A signature is shown as trusted only if a key or certificate the server holds made it over
\* that very manifest; after a round of the task every verdict is the one the keys of that round
\* give, an expired notation signature is told as such, and whatever servers start, are stopped
\* or race on one store of secrets, a server that started finds a trust policy there.
TrustSound ==
    /\ part = "cosign" => /\ Cosign!TypeOK /\ Cosign!TrustedMeansSigned /\ Cosign!RoundExact
    /\ part = "notation" => /\ Notation!TypeOK /\ Notation!TrustedMeansSigned
                            /\ Notation!RoundExact /\ Notation!ExpiryTold
    /\ part = "policy" => /\ Policy!TypeOK /\ Policy!PolicyStanding

=============================================================================
