------------------------------ MODULE TlsWatcher ------------------------------
(***************************************************************************)
(* The TLS certificate watcher (pkg/api/tls_config_watcher.go), from the   *)
(* moment the controller has loaded the first pair and called Start.  The  *)
(* certificate and the key are two files, written one after the other; a   *)
(* pair loads when both are of one version.  Handshakes ask for the        *)
(* certificate; Stop comes from Shutdown.                                  *)
(***************************************************************************)
EXTENDS Naturals, FiniteSets

CONSTANTS Handshakes, \* concurrent handshakes
          MaxVer,     \* bound on the versions of a file
          Attempts    \* tries of retryAddWatch (5 in the code)

Files == {"cert", "key"}
LoopA == 0            \* the loop as an actor, beside the handshakes

VARIABLES disk,       \* file -> [ver, there]
          watch,      \* files with a live inotify watch
          queue,      \* events of the watcher, file and operation
          useInotify, open, \* w.useInotify; w.done is not nil
          debounce,   \* the debounce timer is armed
          loop,       \* the goroutine [pc, file, try]
          tlsCert, modTime, \* the pair loaded, and the times recorded with it
          inProgress, \* w.tlsCertReloadInProgress
          load,       \* actor -> its ReloadCertificate in progress
          hs          \* handshake -> where it is

world == <<disk, watch, queue>>
wstat == <<useInotify, open, debounce>>
vars == <<world, wstat, loop, tlsCert, modTime, inProgress, load, hs>>

Actors == Handshakes \cup {LoopA}
NotLoading == [pc |-> "no", cert |-> 0, key |-> 0]

\* Start: both watches were added, or the watcher fell back to polling
Init == /\ disk = [f \in Files |-> [ver |-> 1, there |-> TRUE]]
        /\ useInotify \in BOOLEAN /\ open = useInotify
        /\ watch = IF useInotify THEN Files ELSE {}
        /\ queue = {} /\ debounce = FALSE /\ inProgress = FALSE
        /\ loop = [pc |-> IF useInotify THEN "select" ELSE "gone", file |-> "cert", try |-> 0]
        /\ tlsCert = 1 /\ modTime = [f \in Files |-> 1]
        /\ load = [a \in Actors |-> NotLoading] /\ hs = [h \in Handshakes |-> "idle"]

----------------------------------------------------------------------------
\* A write in place, or a replacement, which retires the watched inode.
Write(f) ==
    /\ disk[f].ver < MaxVer
    /\ \E t \in BOOLEAN, op \in {"write", "replace"} :
          /\ op = "write" => t /\ disk[f].there
          /\ disk' = [disk EXCEPT ![f] = [ver |-> @.ver + 1, there |-> t]]
          /\ queue' = IF f \in watch THEN queue \cup {[file |-> f, op |-> op]} ELSE queue
          /\ watch' = IF op = "replace" THEN watch \ {f} ELSE watch
    /\ UNCHANGED <<wstat, loop, tlsCert, modTime, inProgress, load, hs>>

----------------------------------------------------------------------------
(* ReloadCertificate by actor a: the two files, then the two times.        *)

LoadCert(a) ==
    /\ load[a].pc = "cert"
    /\ load' = [load EXCEPT ![a] = IF disk["cert"].there
                                   THEN [@ EXCEPT !.pc = "key", !.cert = disk["cert"].ver]
                                   ELSE [@ EXCEPT !.pc = "failed"]]
    /\ UNCHANGED <<world, wstat, loop, tlsCert, modTime, inProgress, hs>>

\* LoadX509KeyPair refuses a key that does not belong to the certificate
LoadKey(a) ==
    /\ load[a].pc = "key"
    /\ load' = [load EXCEPT ![a].pc = IF disk["key"].there /\ disk["key"].ver = load[a].cert
                                      THEN "stat" ELSE "failed"]
    /\ UNCHANGED <<world, wstat, loop, tlsCert, modTime, inProgress, hs>>

\* a stat that fails keeps the recorded time
LoadStat(a) ==
    /\ load[a].pc = "stat"
    /\ tlsCert' = load[a].cert
    /\ modTime' = [f \in Files |-> IF disk[f].there THEN disk[f].ver ELSE modTime[f]]
    /\ load' = [load EXCEPT ![a].pc = "ok"]
    /\ UNCHANGED <<world, wstat, loop, inProgress, hs>>

ReloadCertificate(a) == LoadCert(a) \/ LoadKey(a) \/ LoadStat(a)

----------------------------------------------------------------------------
(* The loop.                                                               *)

LoopStop == /\ loop.pc = "select" /\ ~open /\ loop' = [loop EXCEPT !.pc = "exit"]
            /\ UNCHANGED <<world, wstat, tlsCert, modTime, inProgress, load, hs>>

LoopEvent ==
    /\ loop.pc = "select" /\ open
    /\ \E e \in queue :
          /\ queue' = queue \ {e}
          /\ \/ e.op = "replace" /\ UNCHANGED debounce
                /\ loop' = [pc |-> "retry", file |-> e.file, try |-> 1]
             \/ e.op = "write" /\ debounce' = TRUE /\ UNCHANGED loop
    /\ UNCHANGED <<disk, watch, useInotify, open, tlsCert, modTime, inProgress, load, hs>>

\* MUTANT: the watch of a replaced file is not added again.
RewatchNothing(f) == watch

Rewatch(f) == watch \cup {f}

\* retryAddWatch; when the tries are exhausted the watcher switches to polling
retryAddWatch ==
    /\ loop.pc = "retry"
    /\ \/ ~open /\ loop' = [loop EXCEPT !.pc = "exit"] /\ UNCHANGED <<watch, useInotify, debounce>>
       \/ /\ open /\ disk[loop.file].there /\ watch' = Rewatch(loop.file)
          /\ loop' = [loop EXCEPT !.pc = "select"] /\ debounce' = TRUE /\ UNCHANGED useInotify
       \/ /\ open /\ ~disk[loop.file].there /\ UNCHANGED watch
          /\ IF loop.try < Attempts
             THEN loop' = [loop EXCEPT !.try = @ + 1] /\ UNCHANGED <<useInotify, debounce>>
             ELSE /\ loop' = [loop EXCEPT !.pc = "select"]
                  /\ debounce' = TRUE /\ useInotify' = FALSE
    /\ UNCHANGED <<disk, queue, open, tlsCert, modTime, inProgress, load, hs>>

LoopDebounced ==
    /\ loop.pc = "select" /\ debounce /\ debounce' = FALSE
    /\ IF open THEN /\ loop' = [loop EXCEPT !.pc = "reload"]
                    /\ load' = [load EXCEPT ![LoopA] = [NotLoading EXCEPT !.pc = "cert"]]
       ELSE loop' = [loop EXCEPT !.pc = "exit"] /\ UNCHANGED load
    /\ UNCHANGED <<world, useInotify, open, tlsCert, modTime, inProgress, hs>>

\* a failed reload is only logged
LoopReloaded ==
    /\ loop.pc = "reload" /\ load[LoopA].pc \in {"ok", "failed"}
    /\ load' = [load EXCEPT ![LoopA] = NotLoading] /\ loop' = [loop EXCEPT !.pc = "select"]
    /\ UNCHANGED <<world, wstat, tlsCert, modTime, inProgress, hs>>

LoopExit == /\ loop.pc = "exit" /\ loop' = [loop EXCEPT !.pc = "gone"]
            /\ open' = FALSE /\ useInotify' = FALSE /\ watch' = {}
            /\ UNCHANGED <<disk, queue, debounce, tlsCert, modTime, inProgress, load, hs>>

\* Stop signals and does not wait
Stop == /\ open /\ open' = FALSE /\ useInotify' = FALSE /\ debounce' = FALSE /\ watch' = {}
        /\ UNCHANGED <<disk, queue, loop, tlsCert, modTime, inProgress, load, hs>>

----------------------------------------------------------------------------
(* GetCertificate.                                                         *)

\* CheckCertificateModTime
CheckCertificateModTime ==
    (\A f \in Files : disk[f].there) /\ \E f \in Files : disk[f].ver > modTime[f]

\* with inotify the loaded pair is served; without, the files are polled
\* (rate limited: a handshake may skip the check)
GetCertificate(h) ==
    /\ hs[h] = "idle"
    /\ \E poll \in BOOLEAN :
          hs' = [hs EXCEPT ![h] = IF ~useInotify /\ poll /\ CheckCertificateModTime
                                  THEN "stale" ELSE "serve"]
    /\ UNCHANGED <<world, wstat, loop, tlsCert, modTime, inProgress, load>>

Claim(h) == inProgress' = TRUE

\* the CompareAndSwap on the in-progress flag
BeginReload(h) ==
    /\ hs[h] = "stale"
    /\ \/ /\ ~inProgress /\ Claim(h) /\ hs' = [hs EXCEPT ![h] = "reload"]
          /\ load' = [load EXCEPT ![h] = [NotLoading EXCEPT !.pc = "cert"]]
       \/ inProgress /\ hs' = [hs EXCEPT ![h] = "wait"] /\ UNCHANGED <<inProgress, load>>
    /\ UNCHANGED <<world, wstat, loop, tlsCert, modTime>>

\* a failed reload fails the handshake
EndReload(h) ==
    /\ hs[h] = "reload" /\ load[h].pc \in {"ok", "failed"}
    /\ hs' = [hs EXCEPT ![h] = IF load[h].pc = "ok" THEN "serve" ELSE "idle"]
    /\ load' = [load EXCEPT ![h] = NotLoading] /\ inProgress' = FALSE
    /\ UNCHANGED <<world, wstat, loop, tlsCert, modTime>>

\* until the other load has ended; after five seconds the handshake goes on with
\* the pair there is, which only makes the wait shorter
Wait(h) == /\ hs[h] = "wait" /\ ~inProgress /\ hs' = [hs EXCEPT ![h] = "serve"]
           /\ UNCHANGED <<world, wstat, loop, tlsCert, modTime, inProgress, load>>

Serve(h) == /\ hs[h] = "serve" /\ hs' = [hs EXCEPT ![h] = "idle"]
            /\ UNCHANGED <<world, wstat, loop, tlsCert, modTime, inProgress, load>>

Loop == \/ LoopStop \/ LoopEvent \/ retryAddWatch \/ LoopDebounced \/ LoopReloaded \/ LoopExit
        \/ ReloadCertificate(LoopA)
Handshake(h) == \/ BeginReload(h) \/ EndReload(h) \/ Wait(h) \/ Serve(h)
                \/ ReloadCertificate(h)
Next == \/ Loop \/ Stop \/ \E f \in Files : Write(f)
        \/ \E h \in Handshakes : GetCertificate(h) \/ Handshake(h)

\* The loop and a handshake under way go on.
Fairness == WF_vars(Loop) /\ \A h \in Handshakes : WF_vars(Handshake(h))
Spec == Init /\ [][Next]_vars
FairSpec == Spec /\ Fairness

----------------------------------------------------------------------------
\* Every variable holds a value of the kind the code gives it.
TypeOK ==
    /\ disk \in [Files -> [ver : 1..MaxVer, there : BOOLEAN]]
    /\ watch \subseteq Files /\ {useInotify, open, debounce, inProgress} \subseteq BOOLEAN
    /\ tlsCert \in 1..MaxVer /\ modTime \in [Files -> 1..MaxVer]

\* The in-progress flag is set exactly while one handshake reloads: two never
\* do, and a reload that failed never leaves the others waiting.
FlagSound == Cardinality({h \in Handshakes : hs[h] = "reload"}) = IF inProgress THEN 1 ELSE 0

Settled == useInotify /\ open /\ disk["cert"] = disk["key"] /\ disk["cert"].there

\* While inotify works, the pair on disk is loaded in the end once both files
\* agree, however the events of the two files and of the replacements interleave.
Fresh == <>[]Settled => <>[](tlsCert = disk["cert"].ver)
===============================================================================
