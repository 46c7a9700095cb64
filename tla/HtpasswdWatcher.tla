--------------------------- MODULE HtpasswdWatcher ---------------------------
(***************************************************************************)
(* The htpasswd store and the watcher that reloads it                      *)
(* (pkg/api/htpasswd.go).  Every Run starts a generation of the loop with  *)
(* its own done and stopped channels and its own fsnotify watcher; the     *)
(* controller calls Run and Close around each configuration reload and     *)
(* ChangeFile from it, and the files change at any time.  A file is the    *)
(* number of times it was written: two writes never have one fingerprint   *)
(* (the in-place rewrite of equal size within one clock tick, which the    *)
(* code's comment excludes, is left out).                                  *)
(***************************************************************************)
EXTENDS Naturals, FiniteSets

CONSTANTS Paths,      \* htpasswd files
          NoPath,     \* the empty path: nothing is watched
          Callers,    \* goroutines that call Run, ChangeFile and Close
          MaxWrites,  \* bound on the writes of each file
          MaxRuns,    \* bound on the generations of the loop
          MaxChanges, \* bound on the calls of ChangeFile
          Attempts    \* tries of retryAddWatch (5 in the code)

\* A file exists in some version from the start; callers are no generations of the loop.
HtpasswdAssumption ==
    /\ NoPath \notin Paths
    /\ MaxWrites \in Nat \ {0} /\ MaxRuns \in Nat /\ MaxChanges \in Nat
    /\ Callers \cap (0..MaxRuns) = {}

VARIABLES file,      \* path -> [ver: number of writes, there: it exists]
          filePath, fileInfo, creds,   \* s.filePath, s.fileInfo, htp.credMap
          mu,        \* holder of s.mu across a read of the file
          done, stopped, watcher,      \* generation of s.done, s.stopped, s.watcher; 0 is nil
          debounce,  \* s.debounceTimer is armed
          gens,      \* generations started
          signalled, ended, closed,    \* generations whose done, stopped, watcher is closed
          watched,   \* generation -> path its watcher was last told to watch
          events,    \* generation -> events its watcher holds
          loop,      \* generation -> its goroutine
          caller,    \* caller -> its call in progress
          changes    \* calls of ChangeFile

state == <<filePath, fileInfo, creds>>
chans == <<done, stopped, watcher, gens, signalled, ended, closed>>
vars  == <<file, state, mu, chans, debounce, watched, events, loop, caller, changes>>

Free == 0
Loops == 1..MaxRuns
NoFile == [path |-> NoPath, ver |-> 0]
Idle == [pc |-> "idle", path |-> NoPath, info |-> NoFile, gen |-> 0, stop |-> 0, w |-> 0]
Quiet == [pc |-> "gone", path |-> NoPath, info |-> NoFile, try |-> 0]

\* NewHTPasswd, NewHTPasswdWatcher(htp, "")
Init == /\ file = [p \in Paths |-> [ver |-> 1, there |-> TRUE]]
        /\ filePath = NoPath /\ fileInfo = NoFile /\ creds = NoFile
        /\ mu = Free /\ done = 0 /\ stopped = 0 /\ watcher = 0 /\ debounce = FALSE
        /\ gens = 0 /\ signalled = {} /\ ended = {} /\ closed = {}
        /\ watched = [g \in Loops |-> NoPath] /\ events = [g \in Loops |-> {}]
        /\ loop = [g \in Loops |-> Quiet] /\ caller = [c \in Callers |-> Idle] /\ changes = 0

----------------------------------------------------------------------------
(* The file system.  An event reaches a watcher, or the queue overflows.   *)

\* eventAffectsWatchedFile: only the watched file's own events matter
Notify(p, op) ==
    events' = [g \in Loops |-> IF watched[g] = p /\ g \notin closed
                              THEN events[g] \cup {[path |-> p, op |-> op]} ELSE events[g]]

Touch(p, there, op) ==
    /\ file[p].ver < MaxWrites
    /\ file' = [file EXCEPT ![p] = [ver |-> @.ver + 1, there |-> there]]
    /\ Notify(p, op) \/ UNCHANGED events
    /\ UNCHANGED <<state, mu, chans, debounce, watched, loop, caller, changes>>

Files == \E p \in Paths : \/ Touch(p, TRUE, "write")
                          \/ \E there \in BOOLEAN : Touch(p, there, "replace")

\* statFile, htpasswdFileStat
Stat(p) == IF file[p].there THEN [path |-> p, ver |-> file[p].ver] ELSE NoFile

\* addWatches: file and directory, or neither
addWatches(g, p) ==
    \/ /\ g # 0 /\ p # NoPath /\ file[p].there
       /\ watched' = [watched EXCEPT ![g] = p]
    \/ UNCHANGED watched

----------------------------------------------------------------------------
(* The calls.                                                              *)

\* MUTANT: a loop that has been told to stop is not waited for.
RunningDoneOnly == done # 0

Running == done # 0 \/ stopped # 0

Run(c) ==
    /\ caller[c].pc = "idle" /\ mu = Free /\ gens < MaxRuns
    /\ IF Running THEN UNCHANGED vars   \* ErrHTPasswdWatcherAlreadyRunning
       ELSE LET g == gens + 1 IN
            /\ gens' = g /\ done' = g /\ stopped' = g
            /\ watcher' \in {0, g}         \* fsnotify.NewWatcher may fail
            /\ addWatches(watcher', filePath)
            /\ loop' = [loop EXCEPT ![g] = [Quiet EXCEPT !.pc = "select"]]
            /\ UNCHANGED <<file, state, mu, signalled, ended, closed, debounce, events,
                           caller, changes>>

\* ChangeFile(""): clears the store
ChangeToNone(c) ==
    /\ caller[c].pc = "idle" /\ mu = Free /\ changes < MaxChanges
    /\ watched' = IF watcher = 0 THEN watched ELSE [watched EXCEPT ![watcher] = NoPath]
    /\ filePath' = NoPath /\ fileInfo' = NoFile /\ creds' = NoFile
    /\ changes' = changes + 1
    /\ UNCHANGED <<file, mu, chans, debounce, events, loop, caller>>

\* ChangeFile(p): the fingerprint, with s.mu taken ...
ChangeFile(c, p) ==
    /\ caller[c].pc = "idle" /\ mu = Free /\ changes < MaxChanges
    /\ mu' = c /\ changes' = changes + 1
    /\ caller' = [caller EXCEPT ![c] = [Idle EXCEPT !.pc = "read", !.path = p, !.info = Stat(p)]]
    /\ UNCHANGED <<file, state, chans, debounce, watched, events, loop>>

\* ... then HTPasswd.Reload, the watches and the new state
ChangeRead(c) ==
    LET p == caller[c].path IN
    /\ caller[c].pc = "read"
    /\ mu' = Free /\ caller' = [caller EXCEPT ![c] = Idle]
    /\ IF ~file[p].there THEN UNCHANGED <<state, watched>>
       ELSE /\ creds' = Stat(p) /\ filePath' = p /\ fileInfo' = caller[c].info
            /\ IF done # 0 /\ watcher # 0 THEN addWatches(watcher, p) ELSE UNCHANGED watched
    /\ UNCHANGED <<file, chans, debounce, events, loop, changes>>

\* Close: the capture, the watcher's Close, close(done), the wait for stopped
Close(c) ==
    /\ caller[c].pc = "idle" /\ mu = Free
    /\ Running   \* otherwise every capture is nil
    /\ debounce' = FALSE /\ done' = 0 /\ watcher' = 0
    /\ caller' = [caller EXCEPT ![c] = [Idle EXCEPT !.pc = "closewatcher", !.gen = done,
                                                    !.stop = stopped, !.w = watcher]]
    /\ UNCHANGED <<file, state, mu, stopped, gens, signalled, ended, closed, watched, events,
                   loop, changes>>

CloseWatcher(c) ==
    /\ caller[c].pc = "closewatcher"
    /\ closed' = closed \cup ({caller[c].w} \ {0})
    /\ caller' = [caller EXCEPT ![c].pc = "closedone"]
    /\ UNCHANGED <<file, state, mu, done, stopped, watcher, gens, signalled, ended, debounce,
                   watched, events, loop, changes>>

DoneToClose(c) == {caller[c].gen} \ {0}
CloseDone(c) ==
    /\ caller[c].pc = "closedone"
    /\ signalled' = signalled \cup DoneToClose(c)
    /\ caller' = [caller EXCEPT ![c].pc = "closewait"]
    /\ UNCHANGED <<file, state, mu, done, stopped, watcher, gens, ended, closed, debounce,
                   watched, events, loop, changes>>

CloseReturn(c) ==
    /\ caller[c].pc = "closewait"
    /\ caller[c].stop = 0 \/ caller[c].stop \in ended
    /\ caller' = [caller EXCEPT ![c] = Idle]
    /\ UNCHANGED <<file, state, mu, chans, debounce, watched, events, loop, changes>>

----------------------------------------------------------------------------
(* The loop of generation g.                                               *)

To(g, l) == loop' = [loop EXCEPT ![g] = l]
Goto(g, pc) == To(g, [Quiet EXCEPT !.pc = pc])

\* done is closed, or the watcher's channels are
LoopStop(g) ==
    /\ loop[g].pc = "select" /\ (g \in signalled \/ g \in closed)
    /\ Goto(g, "exit")
    /\ UNCHANGED <<file, state, mu, chans, debounce, watched, events, caller, changes>>

\* what follows a relevant event: leave if done, otherwise scheduleReload
Schedule(g) == IF g \in signalled THEN Goto(g, "exit") /\ UNCHANGED debounce
               ELSE Goto(g, "select") /\ debounce' = TRUE

LoopEvent(g) ==
    /\ loop[g].pc = "select" /\ mu = Free
    /\ \E e \in events[g] :
          /\ events' = [events EXCEPT ![g] = @ \ {e}]
          /\ \/ e.path # filePath /\ UNCHANGED <<loop, debounce>>
             \/ e.path = filePath /\ e.op = "write" /\ Schedule(g)
             \/ /\ e.path = filePath /\ e.op = "replace"
                /\ To(g, [Quiet EXCEPT !.pc = "retry", !.path = filePath, !.try = 1])
                /\ UNCHANGED debounce
    /\ UNCHANGED <<file, state, mu, chans, watched, caller, changes>>

\* retryAddWatch: path check and addWatches under s.mu; either way a reload follows
RetryAddWatch(g) ==
    /\ loop[g].pc = "retry" /\ mu = Free
    /\ \/ /\ g \in signalled \/ filePath # loop[g].path
          /\ Schedule(g) /\ UNCHANGED watched
       \/ /\ filePath = loop[g].path /\ file[filePath].there
          /\ watched' = [watched EXCEPT ![g] = filePath] /\ Schedule(g)
       \/ /\ filePath = loop[g].path /\ UNCHANGED watched
          /\ IF loop[g].try = Attempts THEN Schedule(g)
             ELSE To(g, [loop[g] EXCEPT !.try = @ + 1]) /\ UNCHANGED debounce
    /\ UNCHANGED <<file, state, mu, chans, events, caller, changes>>

\* an error of the watcher (events may have been dropped) schedules a reload
LoopError(g) ==
    /\ loop[g].pc = "select" /\ mu = Free /\ watched[g] # NoPath /\ g \notin closed
    /\ filePath # NoPath /\ ~debounce /\ debounce' = TRUE
    /\ UNCHANGED <<file, state, mu, chans, watched, events, loop, caller, changes>>

\* the debounce timer fires
LoopDebounced(g) ==
    /\ loop[g].pc = "select" /\ mu = Free /\ debounce /\ debounce' = FALSE
    /\ Goto(g, IF g \in signalled THEN "exit" ELSE "reload")
    /\ UNCHANGED <<file, state, mu, chans, watched, events, caller, changes>>

\* checkFileChanged: path and stat first, the baseline afterwards
LoopTick(g) ==
    /\ loop[g].pc = "select" /\ mu = Free /\ filePath # NoPath /\ file[filePath].there
    /\ To(g, [Quiet EXCEPT !.pc = "poll", !.path = filePath, !.info = Stat(filePath)])
    /\ UNCHANGED <<file, state, mu, chans, debounce, watched, events, caller, changes>>

Changed(info) == fileInfo = NoFile \/ fileInfo # info

checkFileChanged(g) ==
    /\ loop[g].pc = "poll" /\ mu = Free
    /\ Goto(g, IF Changed(loop[g].info) THEN "reload" ELSE "select")
    /\ UNCHANGED <<file, state, mu, chans, debounce, watched, events, caller, changes>>

\* reloadWatchedFile: the fingerprint, with s.mu taken, then HTPasswd.Reload
ReloadLock(g) == g

reloadWatchedFile(g) ==
    /\ loop[g].pc = "reload" /\ mu = Free
    /\ IF filePath = NoPath THEN Goto(g, "select") /\ UNCHANGED mu
       ELSE /\ mu' = ReloadLock(g)
            /\ To(g, [Quiet EXCEPT !.pc = "read", !.path = filePath, !.info = Stat(filePath)])
    /\ UNCHANGED <<file, state, chans, debounce, watched, events, caller, changes>>

ReloadRead(g) ==
    LET p == loop[g].path IN
    /\ loop[g].pc = "read"
    /\ IF file[p].there THEN creds' = Stat(p) /\ To(g, [loop[g] EXCEPT !.pc = "record"]) /\ mu' = mu
                        ELSE UNCHANGED creds /\ Goto(g, "select") /\ mu' = Free
    /\ UNCHANGED <<file, filePath, fileInfo, chans, debounce, watched, events, caller, changes>>

Baseline(g) == loop[g].info
ReloadRecord(g) ==
    /\ loop[g].pc = "record"
    /\ fileInfo' = Baseline(g) /\ mu' = Free /\ Goto(g, "select")
    /\ UNCHANGED <<file, filePath, creds, chans, debounce, watched, events, caller, changes>>

\* the deferred clean-up, then close(stopped)
LoopExit(g) ==
    /\ loop[g].pc = "exit" /\ mu = Free
    /\ Goto(g, "closing")
    /\ IF stopped = g THEN /\ done' = 0 /\ stopped' = 0 /\ watcher' = 0
                           /\ closed' = closed \cup ({watcher} \ {0})
       ELSE UNCHANGED <<done, stopped, watcher, closed>>
    /\ UNCHANGED <<file, state, mu, gens, signalled, ended, debounce, watched, events, caller,
                   changes>>

LoopEnd(g) ==
    /\ loop[g].pc = "closing" /\ To(g, Quiet) /\ ended' = ended \cup {g}
    /\ UNCHANGED <<file, state, mu, done, stopped, watcher, gens, signalled, closed, debounce,
                   watched, events, caller, changes>>

Loop(g) == \/ LoopStop(g) \/ LoopEvent(g) \/ RetryAddWatch(g) \/ LoopDebounced(g)
           \/ checkFileChanged(g) \/ reloadWatchedFile(g) \/ ReloadRead(g) \/ ReloadRecord(g)
           \/ LoopExit(g) \/ LoopEnd(g)
Finish(c) == ChangeRead(c) \/ CloseWatcher(c) \/ CloseDone(c) \/ CloseReturn(c)
Call(c) == \/ Run(c) \/ ChangeToNone(c) \/ Close(c) \/ Finish(c)
           \/ \E p \in Paths : ChangeFile(c, p)

Next == \/ Files \/ \E c \in Callers : Call(c)
        \/ \E g \in Loops : Loop(g) \/ LoopTick(g) \/ LoopError(g)

\* The loop and a call in progress go on; the ticker's channel keeps its tick
\* until a select takes it, and a select that finds the done channel ready again
\* and again picks it in the end (it picks among the ready cases at random).
Fairness == /\ \A c \in Callers : WF_vars(Finish(c))
            /\ \A g \in Loops : WF_vars(Loop(g)) /\ WF_vars(LoopTick(g))
            /\ SF_vars(\E g \in Loops : LoopStop(g))
Spec == Init /\ [][Next]_vars
FairSpec == Spec /\ Fairness

----------------------------------------------------------------------------
\* Every variable holds a value of the kind the code gives it.
TypeOK ==
    LET Infos == [path : Paths \cup {NoPath}, ver : 0..MaxWrites] IN
    /\ file \in [Paths -> [ver : 1..MaxWrites, there : BOOLEAN]]
    /\ filePath \in Paths \cup {NoPath} /\ fileInfo \in Infos /\ creds \in Infos
    /\ mu \in {Free} \cup Loops \cup Callers
    /\ {done, stopped, watcher, gens} \subseteq 0..MaxRuns
    /\ {signalled, ended, closed} \subseteq SUBSET Loops
    /\ debounce \in BOOLEAN /\ watched \in [Loops -> Paths \cup {NoPath}]
    /\ \A g \in Loops : loop[g].info \in Infos
    /\ \A c \in Callers : caller[c].info \in Infos

\* A Run that races a Close never starts a second loop while the old one can
\* still reload ("loops can never overlap even if Run() races Close()").
OneLoop == Cardinality({g \in Loops : loop[g].pc \notin {"gone", "closing"}}) <= 1

\* The credentials served are those of the configured file: a reload of the
\* previous path never overwrites what ChangeFile installed.
PathHonest == mu = Free => creds.path = filePath

\* The baseline never claims more than what was read: a replacement between the
\* fingerprint and the read leaves a baseline the next poll sees as changed.
BaselineHonest ==
    mu = Free /\ fileInfo # NoFile => fileInfo.path = filePath /\ fileInfo.ver <= creds.ver

Watching(g) == /\ loop[g].pc # "gone" /\ stopped = g /\ done = g
               /\ filePath # NoPath /\ file[filePath].there
Reloaded == filePath # NoPath /\ creds.ver = file[filePath].ver

\* While a loop keeps running and the watched file exists, the last version of
\* the file is loaded in the end, whatever events were lost.
Converges == \A g \in Loops : <>[]Watching(g) => <>[]Reloaded

=============================================================================
