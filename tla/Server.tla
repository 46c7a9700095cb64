-------------------------------- MODULE Server --------------------------------
(***************************************************************************)
(* The life of the server process: start-up (pkg/cli/server/root.go),      *)
(* the hot reloader (pkg/cli/server/config_reloader.go), the background    *)
(* tasks and the shutdown of the controller (pkg/api/controller.go), and   *)
(* the reloadable event recorder (pkg/extensions/events/reloadable.go).    *)
(* Three goroutines meet here: main, the reloader's loop and the signal    *)
(* handler; requests come and go under them.  A file is the number of      *)
(* times it was written, and that number is its fingerprint; 0 is a nil    *)
(* fingerprint.  One credentials file can be named by a configuration.     *)
(***************************************************************************)
EXTENDS Naturals, FiniteSets

CONSTANTS Requests,   \* requests in flight
          MaxEdits,   \* bound on the writes of the configuration file
          MaxCreds,   \* bound on the writes of the credentials file
          MaxBuilds   \* bound on the schedulers and on the recorders built

VARIABLES conf,      \* configuration file [ver, ldap: it names the credentials, ok: it is valid]
          creds,     \* credentials file [ver, there]
          main,      \* where main is
          hr,        \* baselines of the reloader [cfg, ldapPath, ldap, pending, pendingInfo]
          hpc,       \* where the reloader's loop is
          new,       \* what the reload in progress sampled and read
          debounce, event, \* the reloader's timer is armed; a write event is queued
          read,      \* versions the last LoadConfiguration read [cfg, ldap]
          live,      \* versions the controller runs with [cfg, ldap]
          scheduler, schedulers, built, \* c.taskScheduler, the ones running, the number built
          sig,       \* where the signal handler is
          http,      \* c.Server: none, up, closing, down
          reqs,      \* requests in flight -> the recorder they are inside of
          recorder, recorders, wrapperClosed, \* delegate, delegates open, r.closed
          metaOpen,  \* c.MetaDB is open
          early      \* a reload or a signal came before Run had started its tasks

files == <<conf, creds>>
loopv == <<hr, hpc, new, debounce, event, read>>
tasks == <<scheduler, schedulers, built>>
recs  == <<recorder, recorders, wrapperClosed>>
vars  == <<files, main, loopv, live, tasks, sig, http, reqs, recs, metaOpen, early>>

NoNew == [scfg |-> 0, sldap |-> 0, cfg |-> 0, named |-> FALSE, ldap |-> 0, ok |-> FALSE]
Outside == 0

Init == /\ conf \in [ver : {1}, ldap : BOOLEAN, ok : {TRUE}]
        /\ creds = [ver |-> 1, there |-> TRUE]
        /\ main = "load" /\ hpc = "off" /\ new = NoNew /\ debounce = FALSE /\ event = FALSE
        /\ hr = [cfg |-> 0, ldapPath |-> FALSE, ldap |-> 0, pending |-> FALSE, pendingInfo |-> 0]
        /\ read = [cfg |-> 0, ldap |-> 0] /\ live = read
        /\ scheduler = 0 /\ schedulers = {} /\ built = 0
        /\ sig = "none" /\ http = "none" /\ reqs = [r \in Requests |-> 0]
        /\ recorder = 0 /\ recorders = {} /\ wrapperClosed = FALSE
        /\ metaOpen = FALSE /\ early = FALSE

----------------------------------------------------------------------------
(* The files.  A write in place raises an event; a replacement does not.   *)

EditConfig ==
    /\ conf.ver < MaxEdits
    /\ \E l, k \in BOOLEAN : conf' = [ver |-> conf.ver + 1, ldap |-> l, ok |-> k]
    /\ event' \in {event, hpc \notin {"off", "gone"}}
    /\ UNCHANGED <<creds, main, hr, hpc, new, debounce, read, live, tasks, sig, http, reqs,
                   recs, metaOpen, early>>

EditCreds ==
    /\ creds.ver < MaxCreds
    /\ \E t \in BOOLEAN : creds' = [ver |-> creds.ver + 1, there |-> t]
    /\ event' \in {event, hr.ldapPath /\ hpc \notin {"off", "gone"}}
    /\ UNCHANGED <<conf, main, hr, hpc, new, debounce, read, live, tasks, sig, http, reqs,
                   recs, metaOpen, early>>

\* statOrNil of the credentials file, if one is named
CredsInfo(named) == IF named /\ creds.there THEN creds.ver ELSE 0

----------------------------------------------------------------------------
(* The controller's background tasks, used by main and by a reload.        *)

StartBackgroundTasks ==
    /\ built' = built + 1 /\ scheduler' = built' /\ schedulers' = schedulers \cup {built'}

StopBackgroundTasks == schedulers' = schedulers \ {scheduler} /\ UNCHANGED <<scheduler, built>>

\* ReloadableRecorder.Swap waits for the calls inside the delegate
RecorderIdle == \A r \in Requests : reqs[r] \in {0, Outside + 1}

----------------------------------------------------------------------------
(* main: serve loads the configuration, InitController baselines it,       *)
(* initialises the controller and starts the reloader, Run serves.         *)

Load == /\ main = "load" /\ main' = "baseline"
        /\ read' = [cfg |-> conf.ver, ldap |-> CredsInfo(conf.ldap)]
        /\ hr' = [hr EXCEPT !.ldapPath = conf.ldap]
        /\ live' = read'
        /\ UNCHANGED <<files, hpc, new, debounce, event, tasks, sig, http, reqs, recs, metaOpen,
                       early>>

NewHotReloader ==
    /\ main = "baseline" /\ main' = "init"
    /\ hr' = [hr EXCEPT !.cfg = conf.ver, !.ldap = CredsInfo(hr.ldapPath)]
    /\ UNCHANGED <<files, hpc, new, debounce, event, read, live, tasks, sig, http, reqs, recs,
                   metaOpen, early>>

\* Controller.Init: event recorder, image store, MetaDB; its failure, and that of
\* applyLandlock once the reloader runs, both shut down and end the process
ControllerInit ==
    /\ main = "init"
    /\ \/ main' = "run" /\ hpc' = "select" /\ metaOpen' = TRUE
          /\ recorder' = 1 /\ recorders' = {1}
       \/ main' = "exited" /\ UNCHANGED <<hpc, metaOpen, recorder, recorders>>
    /\ UNCHANGED <<files, hr, new, debounce, event, read, live, tasks, sig, http, reqs,
                   wrapperClosed, early>>

\* Controller.Run: StartBackgroundTasks, then the listener
RunTasks ==
    /\ main = "run" /\ main' = "listen" /\ StartBackgroundTasks
    /\ UNCHANGED <<files, loopv, live, sig, http, reqs, recs, metaOpen, early>>

RunServe ==
    /\ main = "listen" /\ main' = "serving" /\ http' = "up"
    /\ UNCHANGED <<files, loopv, live, tasks, sig, reqs, recs, metaOpen, early>>

\* Serve returns as soon as the server's Shutdown is called
RunReturns ==
    /\ main = "serving" /\ http \in {"closing", "down"} /\ main' = "returned"
    /\ UNCHANGED <<files, loopv, live, tasks, sig, http, reqs, recs, metaOpen, early>>

\* the deferred hotReloader.Stop waits for the one in the signal handler
WaitsForStop == sig \notin {"hrstop", "wait"}
Exit ==
    /\ main = "returned" /\ WaitsForStop /\ main' = "exited"
    /\ UNCHANGED <<files, loopv, live, tasks, sig, http, reqs, recs, metaOpen, early>>

----------------------------------------------------------------------------
(* The reloader's loop.                                                    *)

fileChanged(there, now, prev) == there /\ now # prev

CredsChanged == fileChanged(hr.ldapPath /\ creds.there, creds.ver, hr.ldap)
checkFilesChanged ==
    \/ fileChanged(TRUE, conf.ver, hr.cfg)
    \/ CredsChanged
    \/ fileChanged(hr.pending /\ creds.there, creds.ver, hr.pendingInfo)

BeginReload == /\ built < MaxBuilds /\ hpc' = "sampled"
               /\ new' = [NoNew EXCEPT !.scfg = conf.ver, !.sldap = CredsInfo(hr.ldapPath)]
               /\ early' = (early \/ main = "run")

LoopStop == /\ hpc = "select" /\ sig # "none" /\ hpc' = "gone"
            /\ UNCHANGED <<files, main, hr, new, debounce, event, read, live, tasks, sig, http,
                           reqs, recs, metaOpen, early>>

LoopEvent == /\ hpc = "select" /\ event /\ event' = FALSE /\ debounce' = TRUE
             /\ UNCHANGED <<files, main, hr, hpc, new, read, live, tasks, sig, http, reqs, recs,
                            metaOpen, early>>

LoopDebounced ==
    /\ hpc = "select" /\ debounce /\ debounce' = FALSE
    /\ IF sig # "none" THEN hpc' = "gone" /\ UNCHANGED <<new, early>> ELSE BeginReload
    /\ UNCHANGED <<files, main, hr, event, read, live, tasks, sig, http, reqs, recs, metaOpen>>

\* pollForChanges: also cancels the debounce
pollForChanges ==
    /\ hpc = "select" /\ checkFilesChanged /\ debounce' = FALSE /\ BeginReload
    /\ UNCHANGED <<files, main, hr, event, read, live, tasks, sig, http, reqs, recs, metaOpen>>

\* reloadConfig: LoadConfiguration reads the configuration, then the credentials
ReadConfig ==
    /\ hpc = "sampled" /\ hpc' = "readcreds"
    /\ new' = [new EXCEPT !.cfg = conf.ver, !.ok = conf.ok, !.named = conf.ldap]
    /\ UNCHANGED <<files, main, hr, debounce, event, read, live, tasks, sig, http, reqs, recs,
                   metaOpen, early>>

ReadCreds ==
    /\ hpc = "readcreds"
    /\ new' = [new EXCEPT !.ldap = CredsInfo(new.named), !.ok = @ /\ (new.named => creds.there)]
    /\ read' = [cfg |-> new.cfg, ldap |-> CredsInfo(new.named)]
    /\ hpc' = IF new'.ok THEN "loaded" ELSE "failed"
    /\ UNCHANGED <<files, main, hr, debounce, event, live, tasks, sig, http, reqs, recs,
                   metaOpen, early>>

ConfigBaseline == new.scfg

\* a failed load: baseline the bad file, remember the credentials it named
\* (a configuration that could not even be decoded names none)
ReloadFailed ==
    /\ hpc = "failed" /\ hpc' = "select"
    /\ \E p \in {new.named, FALSE} :
          hr' = [hr EXCEPT !.cfg = ConfigBaseline, !.ldap = new.sldap,
                           !.pending = p, !.pendingInfo = CredsInfo(p)]
    /\ UNCHANGED <<files, main, new, debounce, event, read, live, tasks, sig, http, reqs, recs,
                   metaOpen, early>>

\* followLdapCredentials, then StopBackgroundTasks
followLdapCredentials ==
    /\ hpc = "loaded" /\ hpc' = "swap"
    /\ hr' = [hr EXCEPT !.ldapPath = new.named]
    /\ new' = [new EXCEPT !.sldap = IF new.named = hr.ldapPath THEN @ ELSE CredsInfo(new.named)]
    /\ StopBackgroundTasks
    /\ UNCHANGED <<files, main, debounce, event, read, live, sig, http, reqs, recs, metaOpen,
                   early>>

\* LoadNewConfig: the reloadable fields and the bind credentials ...
LoadNewConfig ==
    /\ hpc = "swap" /\ hpc' = "events"
    /\ live' = [cfg |-> new.cfg, ldap |-> new.ldap]
    /\ UNCHANGED <<files, main, hr, new, debounce, event, read, tasks, sig, http, reqs, recs,
                   metaOpen, early>>

SwapDrained == RecorderIdle

\* ... and reloadEventRecorder: nothing to do, a failed build, or a swap
reloadEventRecorder ==
    /\ hpc = "events" /\ hpc' = "starttasks"
    /\ \/ UNCHANGED recs
       \/ /\ SwapDrained /\ Cardinality(recorders) < MaxBuilds
          /\ LET n == 1 + (recorder % MaxBuilds) IN
             IF wrapperClosed THEN UNCHANGED recs   \* the new one is handed back and closed
             ELSE /\ recorder' = n /\ recorders' = (recorders \ {recorder}) \cup {n}
                  /\ UNCHANGED wrapperClosed
    /\ UNCHANGED <<files, main, hr, new, debounce, event, read, live, tasks, sig, http, reqs,
                   metaOpen, early>>

\* StartBackgroundTasks, and the fingerprints recorded
ReloadDone ==
    /\ hpc = "starttasks" /\ hpc' = "select" /\ StartBackgroundTasks
    /\ hr' = [hr EXCEPT !.cfg = ConfigBaseline, !.ldap = new.sldap,
                        !.pending = FALSE, !.pendingInfo = 0]
    /\ UNCHANGED <<files, main, new, debounce, event, read, live, sig, http, reqs, recs,
                   metaOpen, early>>

----------------------------------------------------------------------------
(* The signal handler: HotReloader.Stop, then Controller.Shutdown.         *)

Signal ==
    /\ main \in {"run", "listen", "serving"} /\ sig = "none" /\ sig' = "hrstop"
    /\ early' = (early \/ main # "serving")
    /\ UNCHANGED <<files, main, loopv, live, tasks, http, reqs, recs, metaOpen>>

\* MUTANT: the loop of the reloader is not waited for.
StopNow == TRUE

StopWaited == hpc \in {"off", "gone"}

StopReloader ==
    /\ sig = "hrstop" /\ StopWaited /\ sig' = "tasks"
    /\ UNCHANGED <<files, main, loopv, live, tasks, http, reqs, recs, metaOpen, early>>

ShutdownTasks ==
    /\ sig = "tasks" /\ sig' = "server" /\ StopBackgroundTasks
    /\ UNCHANGED <<files, main, loopv, live, http, reqs, recs, metaOpen, early>>

Drained == \A r \in Requests : reqs[r] = 0

ShutdownServer ==
    /\ sig = "server"
    /\ \/ http = "up" /\ http' = "closing" /\ UNCHANGED sig
       \/ http = "closing" /\ Drained /\ http' = "down" /\ sig' = "events"
       \/ http = "none" /\ sig' = "events" /\ UNCHANGED http
    /\ UNCHANGED <<files, main, loopv, live, tasks, reqs, recs, metaOpen, early>>

ShutdownEvents ==
    /\ sig = "events" /\ sig' = "meta" /\ RecorderIdle
    /\ wrapperClosed' = TRUE /\ recorder' = 0 /\ recorders' = recorders \ {recorder}
    /\ UNCHANGED <<files, main, loopv, live, tasks, http, reqs, metaOpen, early>>

ShutdownMeta ==
    /\ sig = "meta" /\ sig' = "done" /\ metaOpen' = FALSE
    /\ UNCHANGED <<files, main, loopv, live, tasks, http, reqs, recs, early>>

----------------------------------------------------------------------------
(* Requests: in flight (1), inside recorder n (n + 1), finished (0).       *)

Request(r) ==
    /\ \/ http = "up" /\ reqs[r] = 0 /\ reqs' = [reqs EXCEPT ![r] = Outside + 1]
       \/ reqs[r] = Outside + 1 /\ recorder # 0 /\ reqs' = [reqs EXCEPT ![r] = recorder + 1]
       \/ reqs[r] > Outside + 1 /\ reqs' = [reqs EXCEPT ![r] = Outside + 1]
    /\ UNCHANGED <<files, main, loopv, live, tasks, sig, http, recs, metaOpen, early>>

RequestEnds(r) ==
    /\ reqs[r] = Outside + 1 /\ reqs' = [reqs EXCEPT ![r] = 0]
    /\ UNCHANGED <<files, main, loopv, live, tasks, sig, http, recs, metaOpen, early>>

Main == Load \/ NewHotReloader \/ ControllerInit \/ RunTasks \/ RunServe \/ RunReturns \/ Exit
LoopReload == \/ ReadConfig \/ ReadCreds \/ ReloadFailed \/ followLdapCredentials
              \/ LoadNewConfig \/ reloadEventRecorder \/ ReloadDone
Loop == LoopStop \/ LoopEvent \/ LoopDebounced \/ LoopReload
Shutdown == \/ StopReloader \/ ShutdownTasks \/ ShutdownServer \/ ShutdownEvents
            \/ ShutdownMeta

Next == /\ main # "exited"
        /\ \/ Main \/ Loop \/ pollForChanges \/ Shutdown \/ Signal \/ EditConfig \/ EditCreds
           \/ \E r \in Requests : Request(r) \/ RequestEnds(r)

\* Every goroutine goes on and requests end; a select takes the done channel in
\* the end whatever else is ready, and the delegate's RWMutex goes to a writer
\* that waits for it although readers come and go.
Running(A) == main # "exited" /\ A
Fairness == /\ WF_vars(Running(Main)) /\ WF_vars(Running(Loop)) /\ WF_vars(Running(Shutdown))
            /\ WF_vars(Running(pollForChanges)) /\ SF_vars(Running(LoopStop))
            /\ SF_vars(Running(reloadEventRecorder \/ ShutdownEvents))
            /\ \A r \in Requests : WF_vars(Running(reqs[r] > 1 /\ Request(r)))
                                   /\ WF_vars(Running(RequestEnds(r)))
Spec == Init /\ [][Next]_vars
FairSpec == Spec /\ Fairness

----------------------------------------------------------------------------
\* Every variable holds a value of the kind the code gives it.
TypeOK ==
    /\ conf \in [ver : 1..MaxEdits, ldap : BOOLEAN, ok : BOOLEAN]
    /\ creds \in [ver : 1..MaxCreds, there : BOOLEAN]
    /\ {read.cfg, live.cfg, hr.cfg} \subseteq 0..MaxEdits
    /\ {read.ldap, live.ldap, hr.ldap, hr.pendingInfo} \subseteq 0..MaxCreds
    /\ scheduler \in 0..built /\ schedulers \subseteq 1..built /\ built \in 0..(MaxBuilds + 1)
    /\ recorders \subseteq 1..MaxBuilds /\ {wrapperClosed, metaOpen, early} \subseteq BOOLEAN

\* Reloads replace the scheduler: two never run at once (a reload or a signal
\* that beats Run to the first StartBackgroundTasks is excluded: it leaks one).
OneScheduler == early \/ Cardinality(schedulers) <= 1

\* After Shutdown nothing is left: the in-flight reload was waited for, so it
\* cannot start tasks or install a recorder behind the shutdown's back.
NothingLeft ==
    sig = "done" /\ ~early => schedulers = {} /\ recorders = {} /\ hpc \in {"off", "gone"}

\* The metadata database closes last: no task and no request can still use it.
MetaClosedLast ==
    sig # "none" /\ ~metaOpen /\ ~early => schedulers = {} /\ \A r \in Requests : reqs[r] = 0

\* A request never records into a delegate that was closed under it.
EmitsToOpen == \A r \in Requests : reqs[r] > 1 => (reqs[r] - 1) \in recorders

\* The fingerprint recorded for the configuration is not newer than what was
\* read, so a replacement during the read is seen by the next poll.
ConfigRedetected == hpc = "select" /\ new # NoNew => hr.cfg <= read.cfg

Stable == /\ main = "serving" /\ sig = "none" /\ built < MaxBuilds
          /\ conf.ok /\ ~conf.ldap /\ hr.cfg <= read.cfg

\* The configuration in the file is loaded in the end, if it stays valid and
\* names no credentials and its start-up baseline was the version loaded.
Converges == <>[]Stable => <>[](live.cfg = conf.ver)

===============================================================================
