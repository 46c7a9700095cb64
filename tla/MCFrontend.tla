----------------------------- MODULE MCFrontend ------------------------------
(***************************************************************************)
(* The server's front, for TLC: the authentication and authorization of    *)
(* requests under a reload, or one of the components around it: the        *)
(* watchers of the htpasswd file and of the TLS certificate, the life of   *)
(* the server with its reloads, the configurations it accepts, and the     *)
(* command line client at the other end.  They share no state here; a      *)
(* behaviour runs one of them.                                             *)
(***************************************************************************)
EXTENDS Gateway, TLC

CONSTANTS Off, NoPath, a, b, e, grp, r1, r2, pAll, p1, p2, t1, t2, cond, akey, st1,
          st2, q1, q2, x1, x2

VARIABLE part   \* the component that runs in this behaviour
VARIABLES htFile, htPath, htInfo, htCreds, htMu, htDone, htStopped, watcher,
          htTimer, gens, signalled, ended, htClosed, watched, htEvents, htLoop,
          caller, htChanges
VARIABLES disk, watch, tlsQueue, useInotify, open, tlsTimer, tlsLoop, tlsCert,
          modTime, inProgress, load, hs
VARIABLES confFile, ldapFile, mainPc, hr, hpc, newConf, debounce, event, lastRead,
          live, scheduler, schedulers, built, sig, http, reqs, recorder, recorders,
          wrapperClosed, metaOpen, early
VARIABLES phase, inForce, builtFrom, reloads
VARIABLES command, cliMain, img, call, jobs, lim, job, coll, wg, outClosed,
          cancelled, errCh, shown, failed

\* Two users and one that never presents a right secret, two repositories, configurations
\* between which the server is reloaded.
MCPatternLen == (pAll :> 1) @@ (p1 :> 2) @@ (p2 :> 2)
MCPatternMatches == (pAll :> {r1, r2}) @@ (p1 :> {r1}) @@ (p2 :> {r1})
MCCondTrue == cond :> {<<r1, t1>>, <<r1, Digest>>}
MCCondFails == cond :> {<<r2, t1>>}
MCGroups == (a :> {grp}) @@ (b :> {}) @@ (e :> {})
MCScope == (a :> {<<r1, "push">>, <<r2, "pull">>}) @@ (b :> {}) @@ (e :> {<<r1, "push">>})

MCKeyOwner == akey :> a

Pol(users, groups, actions, conds) ==
  [users |-> users, groups |-> groups, actions |-> actions, conds |-> conds]
PG(policies, default, anonymous) ==
  [policies |-> policies, default |-> default, anonymous |-> anonymous]
AC(repos, admin, groups, metrics) ==
  [on |-> TRUE, repos |-> repos, admin |-> admin, groups |-> groups, metrics |-> metrics]

\* Conditions on a user's rights; everybody logged in may read.
Strict == AC((pAll :> PG({}, {"read"}, {})) @@
             (p1 :> PG({Pol({a}, {}, {"create"}, {cond}), Pol({}, {grp}, {"read", "update"}, {})}, {}, {})),
             Pol({b}, {}, {"read", "delete"}, {cond}), grp :> {a},
             [users |-> {b}, anonymous |-> {}])
\* Anonymous pulls, a group that pushes, and two patterns of the same length.
Open == AC((pAll :> PG({}, {}, {"read"})) @@
           (p1 :> PG({Pol({}, {grp}, {"create", "update", "delete"}, {})}, {}, {"read"})) @@
           (p2 :> PG({Pol({a}, {}, {"read", "create"}, {})}, {}, {})),
           NoPolicy, grp :> {}, [users |-> {}, anonymous |-> {"read"}])

Keyed == [methods |-> {"htpasswd", "apikey", "challenge"}, ac |-> Strict]
Directory == [methods |-> {"htpasswd", "ldap", "openid", "mtls"}, ac |-> Open]
Bearer == [methods |-> {"bearer", "oidc", "apikey", "challenge", "upstream"}, ac |-> EmptyAccess]
Oidc == [methods |-> {"oidc", "challenge"}, ac |-> Strict]

Get(kind, user, good, route, repo, ref) ==
  Request(kind, user, good, FALSE, None, route, repo, ref, {})
Logins ==
  {Request("basic", a, "right", TRUE, None, "catalog", r1, t1, {}),
   Request("none", e, None, TRUE, None, "read", r1, t1, {}),
   Request("basic", e, "wrong", TRUE, None, "read", r2, t1, {}),
   Request("none", b, None, FALSE, None, "callback", r1, st1, {}),
   Request("none", b, None, FALSE, None, "callback", r1, st2, {}),
   Get("empty", e, "wrong", "base", r1, t1), Get("none", e, None, "metrics", r1, t1)}
Pushes ==
  {Request("none", e, None, FALSE, b, "delete", r1, t1, {}),
   Get("basic", a, "right", "write", r1, t1), Get("basic", a, "right", "metrics", r1, t1),
   Get("basic", b, "right", "delete", r1, t1), Get("none", e, None, "catalog", r1, t1)}
TagPushes ==
  {Request("basic", a, "right", FALSE, None, "write", r1, Digest, {t1, t2}),
   Request("oidc", a, "right", FALSE, None, "write", r1, Digest, {t1, BadTag}),
   Get("basic", a, "right", "write", r1, t1), Get("basic", b, "right", "delete", r1, t1),
   Get("basic", b, "right", "mount", r1, Digest)}
Tokens ==
  {Request("none", e, None, FALSE, None, "token", r1, t1, {"keyWrong", "foreign"}),
   Request("none", e, None, FALSE, None, "token", r1, t1, {"oidcRight", "openid"}),
   Request("none", e, None, FALSE, None, "token", r1, t1, {"foreign"}),
   Request("key", e, akey, FALSE, None, "catalog", r1, t1, {}),
   Request("oidc", a, "right", FALSE, None, "catalog", r1, t1, {}),
   Get("wrapped", a, akey, "mount", r1, Digest), Get("key", a, akey, "read", r1, t2),
   Get("token", a, "right", "mount", r1, Digest), Get("token", e, "wrong", "read", r1, t1),
   Get("multi", e, None, "read", r1, t1)}
MCMixes == {[requests |-> Logins, configs |-> {Keyed, Directory}],
            [requests |-> Pushes, configs |-> {Keyed, Directory}],
            [requests |-> TagPushes, configs |-> {Keyed, Directory, Oidc}],
            [requests |-> Tokens, configs |-> {Keyed, Bearer, Oidc}]}

\* Two files and two callers of Run, ChangeFile and Close.
Htpasswd == INSTANCE HtpasswdWatcher
    WITH Paths <- {x1, x2},
        Callers <- {q1, q2}, MaxWrites <- 2, MaxRuns <- 2, MaxChanges <- 1,
        Attempts <- 1, file <- htFile, filePath <- htPath, fileInfo <- htInfo,
        creds <- htCreds, mu <- htMu, done <- htDone, stopped <- htStopped,
        debounce <- htTimer, closed <- htClosed, events <- htEvents,
        loop <- htLoop, changes <- htChanges

\* The same with two calls of ChangeFile and one write.
HtChanges == INSTANCE HtpasswdWatcher
    WITH Paths <- {x1, x2},
        Callers <- {q1, q2}, MaxWrites <- 1, MaxRuns <- 2, MaxChanges <- 2,
        Attempts <- 1, file <- htFile, filePath <- htPath, fileInfo <- htInfo,
        creds <- htCreds, mu <- htMu, done <- htDone, stopped <- htStopped,
        debounce <- htTimer, closed <- htClosed, events <- htEvents,
        loop <- htLoop, changes <- htChanges

\* Two handshakes, a new version of each file.
Tls == INSTANCE TlsWatcher
    WITH Handshakes <- {q1, q2}, MaxVer <- 2,
        Attempts <- 2, queue <- tlsQueue, debounce <- tlsTimer, loop <- tlsLoop

\* A request in flight, two edits of the configuration and one of the credentials.
Life == INSTANCE Server
    WITH Requests <- {r1}, MaxEdits <- 2, MaxCreds <- 2,
        MaxBuilds <- 2, conf <- confFile, creds <- ldapFile, main <- mainPc,
        new <- newConf, read <- lastRead

LocalStore == [driver |-> "local", root |-> <<"a">>, dedupe |-> TRUE, remoteCache |-> "unset",
               cache |-> "none", refused |-> {}, bolt |-> FALSE, gc |-> TRUE, gcDelay |-> "unset",
               retention |-> "none", redirect |-> FALSE]
NoAuth == [present |-> FALSE, htpasswd |-> FALSE, ldap |-> "off", openid |-> "off",
           apikey |-> FALSE, mtls |-> "off", bearer |-> "off", session |-> "none",
           secrets |-> "ok"]
NoExt == [present |-> FALSE, search |-> "off", cve |-> FALSE, ui |-> "off", trust |-> "off", sync |-> "off",
          registry |-> "ok", metrics |-> "ok", events |-> "ok", ignoreFile |-> "ok"]
Base == [decodes |-> TRUE, storage |-> LocalStore, subs |-> <<>>, auth |-> NoAuth,
         ext |-> NoExt, authz |-> "none", tls |-> "off", quota |-> FALSE, port |-> "ok",
         cluster |-> "none"]

Roots == {<<"a">>, <<"a", "b">>, <<"c">>}
StoreSet == [driver : {"local", "s3", "bad"}, root : Roots, dedupe : BOOLEAN,
             remoteCache : {"unset", "yes", "no"}, cache : {"none", "redis", "dynamodb", "bad"},
             refused : {{}},
             bolt : BOOLEAN, gc : {TRUE}, gcDelay : {"unset"}, retention : {"none"},
             redirect : BOOLEAN]
\* storage: any default store, with nothing or with one subpath beside it
OneStore == {[Base EXCEPT !.storage = s, !.ext = [@ EXCEPT !.present = TRUE, !.search = ex]] :
                s \in {t \in StoreSet : t.root = <<"a">>}, ex \in {"off", "unset"}}
SubStores == {[Base EXCEPT !.storage.root = d, !.subs = (r1 :> s)] : d \in Roots, s \in StoreSet}
\* no root directory; a cache driver whose parameters do not do for the cache, for
\* the metadata, or for both
Plain == {c \in OneStore : ~c.storage.redirect /\ ~c.storage.bolt}
Unfit == {[c EXCEPT !.storage.root = <<"">>] : c \in Plain} \cup
         {[c EXCEPT !.storage.refused = x] : c \in Plain, x \in SUBSET {"cache", "meta"}} \cup
         {[Base EXCEPT !.subs = (r1 :> [s EXCEPT !.refused = {"cache"}])] :
            s \in {u \in StoreSet : u.root = <<"c">> /\ ~u.redirect /\ ~u.bolt}}
Azure == {[c EXCEPT !.storage.driver = "azure"] : c \in {p \in Plain : p.storage.driver = "s3"}}
Delays == {[Base EXCEPT !.storage.gcDelay = d, !.subs = (r1 :> [LocalStore EXCEPT !.root = <<"c">>,
               !.gc = on, !.gcDelay = ex, !.retention = p])] :
                d \in {"unset", "neg", "pos"}, on \in BOOLEAN, ex \in {"unset", "zero", "pos"},
                p \in {"none", "ok", "bad"}}
AuthSet == [present : {TRUE}, htpasswd : BOOLEAN, ldap : {"off", "ok", "incomplete"},
            openid : {"off", "ok", "incomplete"}, apikey : {FALSE}, mtls : {"off", "ok", "bad"},
            bearer : {"off", "ok", "bad"}, session : {"none", "keys"},
            secrets : {"ok"}]
Auths == {[Base EXCEPT !.auth = au, !.tls = t, !.authz = z] :
             au \in AuthSet, t \in {"off", "ca"},
             z \in {"none", "anonymous", "policies", "badpattern", "badcondition"}}
ExtSet == [present : {TRUE}, search : {"off", "unset", "on"}, cve : BOOLEAN, ui : {"off", "unset"},
           trust : {"off", "unset"}, sync : {"off", "nodir", "dir"}, registry : {"ok", "bad"},
           metrics : {"ok"}, events : {"ok"}, ignoreFile : {"ok"}]
Exts == {[Base EXCEPT !.ext = ex, !.storage.driver = d, !.storage.remoteCache = "no",
                      !.storage.retention = p] :
            ex \in ExtSet, d \in {"local", "s3"}, p \in {"none", "ok"}}
Odd == {[Base EXCEPT !.port = "bad"], [Base EXCEPT !.cluster = "bad"],
        [Base EXCEPT !.decodes = FALSE], [Base EXCEPT !.ext = [@ EXCEPT !.present = TRUE, !.metrics = "bad"]],
        [Base EXCEPT !.quota = TRUE], [Base EXCEPT !.auth.secrets = "bad"],
        [Base EXCEPT !.auth = [@ EXCEPT !.present = TRUE, !.htpasswd = TRUE, !.session = "redis"]]}
FileConfigs == OneStore \cup SubStores \cup Unfit \cup Azure \cup Delays \cup Exts \cup Odd \cup Auths
ReloadConfigs == Delays \cup Exts \cup Odd

\* Configurations that differ from a plain one in one section.
Config == INSTANCE ServerConfig
    WITH Routes <- {r1}, MaxReloads <- 1,
        conf <- inForce, built <- builtFrom

Img(r, t, k, s) == [repo |-> r, tag |-> t, kind |-> k, sig |-> s]
CliImages == {Img("r1", "a", "manifest", FALSE), Img("r1", "b", "index", FALSE),
              Img("r1", "c", "manifest", TRUE), Img("r2", "a", "other", FALSE),
              Img("r2", "b", "manifest", FALSE)}

\* Two repositories with images, an index, a signature and one that is neither.
Client == INSTANCE ClientSearch
    WITH Repos <- {"r1", "r2"},
        Images <- CliImages, Name <- [repo |-> "r1", tag |-> ""], MaxJobs <- 2,
        Fails <- TRUE, Timeouts <- TRUE, mode <- command, main <- cliMain,
        closed <- outClosed

HtpasswdState == <<htFile, htPath, htInfo, htCreds, htMu, htDone, htStopped,
            watcher, htTimer, gens, signalled, ended, htClosed, watched, htEvents,
            htLoop, caller, htChanges>>
TlsState == <<disk, watch, tlsQueue, useInotify, open, tlsTimer, tlsLoop, tlsCert,
            modTime, inProgress, load, hs>>
LifeState == <<confFile, ldapFile, mainPc, hr, hpc, newConf, debounce, event,
            lastRead, live, scheduler, schedulers, built, sig, http, reqs,
            recorder, recorders, wrapperClosed, metaOpen, early>>
ConfigState == <<phase, inForce, builtFrom, reloads>>
ClientState == <<command, cliMain, img, call, jobs, lim, job, coll, wg, outClosed,
            cancelled, errCh, shown, failed>>

-----------------------------------------------------------------------------
(* The variables of a component that does not run hold Off.               *)
HtpasswdOff == /\ htFile = Off /\ htPath = Off /\ htInfo = Off /\ htCreds = Off
               /\ htMu = Off /\ htDone = Off /\ htStopped = Off /\ watcher = Off
               /\ htTimer = Off /\ gens = Off /\ signalled = Off /\ ended = Off
               /\ htClosed = Off /\ watched = Off /\ htEvents = Off /\ htLoop = Off
               /\ caller = Off /\ htChanges = Off
TlsOff == /\ disk = Off /\ watch = Off /\ tlsQueue = Off /\ useInotify = Off /\ open = Off
          /\ tlsTimer = Off /\ tlsLoop = Off /\ tlsCert = Off /\ modTime = Off
          /\ inProgress = Off /\ load = Off /\ hs = Off
LifeOff == /\ confFile = Off /\ ldapFile = Off /\ mainPc = Off /\ hr = Off /\ hpc = Off
           /\ newConf = Off /\ debounce = Off /\ event = Off /\ lastRead = Off /\ live = Off
           /\ scheduler = Off /\ schedulers = Off /\ built = Off /\ sig = Off /\ http = Off
           /\ reqs = Off /\ recorder = Off /\ recorders = Off /\ wrapperClosed = Off
           /\ metaOpen = Off /\ early = Off
ConfigOff == /\ phase = Off /\ inForce = Off /\ builtFrom = Off /\ reloads = Off
ClientOff == /\ command = Off /\ cliMain = Off /\ img = Off /\ call = Off /\ jobs = Off
             /\ lim = Off /\ job = Off /\ coll = Off /\ wg = Off /\ outClosed = Off
             /\ cancelled = Off /\ errCh = Off /\ shown = Off /\ failed = Off

\* Where another component runs the gateway is at one of its initial states.
GatewayParked == Init /\ mix.requests = Logins /\ cfg = Keyed

MCInit ==
    \/ part = "gateway" /\ Init /\ HtpasswdOff /\ TlsOff /\ LifeOff /\ ConfigOff /\ ClientOff
    \/ part = "htpasswd" /\ Htpasswd!Init /\ GatewayParked /\ TlsOff /\ LifeOff /\ ConfigOff /\ ClientOff
    \/ part = "htchanges" /\ HtChanges!Init /\ GatewayParked /\ TlsOff /\ LifeOff /\ ConfigOff /\ ClientOff
    \/ part = "tls" /\ Tls!Init /\ GatewayParked /\ HtpasswdOff /\ LifeOff /\ ConfigOff /\ ClientOff
    \/ part = "server" /\ Life!Init /\ GatewayParked /\ HtpasswdOff /\ TlsOff /\ ConfigOff /\ ClientOff
    \/ part = "config" /\ Config!Init /\ GatewayParked /\ HtpasswdOff /\ TlsOff /\ LifeOff /\ ClientOff
    \/ part = "client" /\ Client!Init /\ GatewayParked /\ HtpasswdOff /\ TlsOff /\ LifeOff /\ ConfigOff

MCNext ==
    /\ UNCHANGED part
    /\ \/ part = "gateway" /\ Next /\ UNCHANGED <<HtpasswdState, TlsState, LifeState, ConfigState, ClientState>>
       \/ part = "htpasswd" /\ Htpasswd!Next /\ UNCHANGED <<vars, TlsState, LifeState, ConfigState, ClientState>>
       \/ part = "htchanges" /\ HtChanges!Next /\ UNCHANGED <<vars, TlsState, LifeState, ConfigState, ClientState>>
       \/ part = "tls" /\ Tls!Next /\ UNCHANGED <<vars, HtpasswdState, LifeState, ConfigState, ClientState>>
       \/ part = "server" /\ Life!Next /\ UNCHANGED <<vars, HtpasswdState, TlsState, ConfigState, ClientState>>
       \/ part = "config" /\ Config!Next /\ UNCHANGED <<vars, HtpasswdState, TlsState, LifeState, ClientState>>
       \/ part = "client" /\ Client!Next /\ UNCHANGED <<vars, HtpasswdState, TlsState, LifeState, ConfigState>>

MCVars == <<part, vars, HtpasswdState, TlsState, LifeState, ConfigState,
             ClientState>>
MCSpec == MCInit /\ [][MCNext]_MCVars

-----------------------------------------------------------------------------
(* The properties of the components, each where its component runs.        *)

\* Model values that no action tells apart.
MCSymmetry == Permutations({q1, q2}) \cup Permutations({x1, x2})

\* However Run, ChangeFile, Close, writes of the file and file system events interleave: one loop
\* watches the htpasswd file, the credentials in force are those of the path in force, and no
\* version of the file is recorded as seen before it was read; a handshake that serves the TLS
\* pair from a poll and the loop never both claim the pair.
WatchersSound ==
    /\ part = "htpasswd" => /\ Htpasswd!TypeOK /\ Htpasswd!OneLoop /\ Htpasswd!PathHonest
                            /\ Htpasswd!BaselineHonest
    /\ part = "htchanges" => /\ HtChanges!OneLoop /\ HtChanges!PathHonest
                             /\ HtChanges!BaselineHonest
    /\ part = "tls" => /\ Tls!TypeOK /\ Tls!FlagSound

\* Over start, reloads and shutdown of the process: at most one scheduler runs, nothing of the
\* server is left when it has ended, the metadata database is closed after all that write to it,
\* events go to a recorder that is open, and an edit of the configuration while it is read is
\* noticed later.
LifecycleSound ==
    part = "server" => /\ Life!TypeOK /\ Life!OneScheduler /\ Life!NothingLeft
                       /\ Life!MetaClosedLast /\ Life!EmitsToOpen /\ Life!ConfigRedetected


\* The jobs of a search never send on the channel that was closed, all results are shown when the
\* command says it is done, and a request that failed is reported.
ClientSound ==
    part = "client" => /\ Client!TypeOK /\ Client!NoSendOnClosed /\ Client!AllShown
                       /\ Client!FailureReported

ASSUME Htpasswd!HtpasswdAssumption /\ HtChanges!HtpasswdAssumption
=============================================================================
