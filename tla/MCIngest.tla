------------------------------ MODULE MCIngest -------------------------------
(***************************************************************************)
(* How content comes into the registry, for TLC: the uploads of a blob,    *)
(* the sync of a tag from an upstream registry, or the credentials of the  *)
(* client that does it.  They share no state here; a behaviour runs one.   *)
(***************************************************************************)
EXTENDS BlobUpload, TLC

CONSTANTS Off, q1, q2, s1, s2, x, y, i, n, ch, m, kt, Periodic, Tag

VARIABLE part   \* the component that runs in this behaviour
VARIABLES upstream, local, worker, flight, retrying, checked, upstreamCreds,
          orphans, window, reaped, budget
VARIABLES helper, issued, due, source, spent, held, creds, client, writer, readers,
          callerPc, pass, left, broken, builds, calls, faults

MCBodies == {<<x>>, <<x, y>>}

SyncChildren == [d \in {i, n, ch, m} |-> CASE d = i -> {n, m} [] d = n -> {ch} [] OTHER -> {}]

\* Index i of image m, which refers to ch, and of the nested index n of ch; two requests for the tag and the periodic task.
Sync == INSTANCE SyncService
    WITH Requests <- {q1, q2}, Keys <- {kt},
        KeyKind <- kt :> "image", KeyRef <- kt :> Tag, Digests <- {i, n, ch, m}, Platforms <- {ch},
        Children <- SyncChildren, Targets <- {i, m}, Subject <- ch, Referrer <- m,
        Services <- {1}, CanRetry <- <<TRUE>>, MaxRequests <- 2, MaxFaults <- 1,
        MaxMoves <- 1, w <- worker, creds <- upstreamCreds

\* An upstream and a mirror, and two operations at once.
Creds == INSTANCE SyncCredentials
    WITH Callers <- {q1, q2}, N <- 2, MaxCalls <- 3, MaxDue <- 2, MaxFaults <- 1, pc <- callerPc

SyncState == <<upstream, local, worker, flight, retrying, checked, upstreamCreds,
            orphans, window, reaped, budget>>
CredsState == <<helper, issued, due, source, spent, held, creds, client, writer, readers,
            callerPc, pass, left, broken, builds, calls, faults>>

-----------------------------------------------------------------------------
(* The variables of a component that does not run hold Off.               *)
SyncOff == /\ upstream = Off /\ local = Off /\ worker = Off /\ flight = Off
           /\ retrying = Off /\ checked = Off /\ upstreamCreds = Off /\ orphans = Off
           /\ window = Off /\ reaped = Off /\ budget = Off

CredsOff == /\ helper = Off /\ issued = Off /\ due = Off /\ source = Off /\ spent = Off
            /\ held = Off /\ creds = Off /\ client = Off /\ writer = Off /\ readers = Off
            /\ callerPc = Off /\ pass = Off /\ left = Off /\ broken = Off /\ builds = Off
            /\ calls = Off /\ faults = Off

MCInit ==
    \/ part = "upload" /\ Init /\ SyncOff /\ CredsOff
    \/ part = "sync" /\ Sync!Init /\ Init /\ CredsOff
    \/ part = "credentials" /\ Creds!Init /\ Init /\ SyncOff

MCNext ==
    /\ UNCHANGED part
    /\ \/ part = "upload" /\ Next /\ UNCHANGED <<SyncState, CredsState>>
       \/ part = "sync" /\ Sync!Next /\ UNCHANGED <<vars, CredsState>>
       \/ part = "credentials" /\ Creds!Next /\ UNCHANGED <<vars, SyncState>>

MCVars == <<part, vars, SyncState, CredsState>>
MCSpec == MCInit /\ [][MCNext]_MCVars

-----------------------------------------------------------------------------
(* The properties of the components, each where its component runs.        *)

\* Model values that no action tells apart.
MCSymmetry == Permutations({q1, q2}) \cup Permutations({s1, s2})

\* Syncs of one tag on demand, in the background and by the periodic task, with the upstream
\* moving and failing: an image that was committed is there with all it needs, no request uses a
\* client whose credentials are being renewed, an answer is not older than what was upstream when
\* its sync began, a retry in the background has an owner that ends it, and a commit takes the
\* children the index names.  And while operations renew temporary credentials at once, with tokens
\* that expire or rotate under them and calls that fail: the client sends each host the token that
\* is taken for valid, it is rebuilt no more often than the tokens demand, and nothing is replaced
\* that is still good or in use.
SyncSound ==
    /\ [](part = "sync" => /\ Sync!TypeOK /\ Sync!SyncedWhole /\ Sync!ClientStable
                           /\ Sync!FreshIfSynced /\ Sync!RetryOwned)
    /\ [](part = "credentials" => Creds!TypeOK /\ Creds!ClientCurrent /\ Creds!RebuildsBounded)
    /\ [][/\ part = "sync" => Sync!PinsChildren
          /\ part = "credentials" => Creds!ReplacesDue /\ Creds!ReplacedUnused]_MCVars

ASSUME Sync!SyncAssumption /\ Creds!SyncCredentialsAssumption
=============================================================================
