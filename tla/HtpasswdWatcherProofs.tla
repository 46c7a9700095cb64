----------------------- MODULE HtpasswdWatcherProofs ------------------------
(* Proof that the htpasswd watcher serves the file that is configured, for   *)
(* any callers, files, generations of the loop, writes and lost events.      *)
EXTENDS HtpasswdWatcher, FiniteSetTheorems, TLAPS

Infos == [path : Paths \cup {NoPath}, ver : 0..MaxWrites]
LoopPcs == {"gone", "select", "retry", "poll", "reload", "read", "record", "exit", "closing"}
CallPcs == {"idle", "read", "closewatcher", "closedone", "closewait"}
LoopRec == [pc : LoopPcs, path : Paths \cup {NoPath}, info : Infos, try : Nat]
CallRec == [pc : CallPcs, path : Paths \cup {NoPath}, info : Infos,
            gen : 0..MaxRuns, stop : 0..MaxRuns, w : 0..MaxRuns]

\* The states of the goroutines and of the calls.
ThreadsOK ==
    /\ loop \in [Loops -> LoopRec]
    /\ caller \in [Callers -> CallRec]

\* s.mu is held exactly by who is between a fingerprint and the end of its reload.
MuOK ==
    /\ \A g \in Loops : loop[g].pc \in {"read", "record"} <=> mu = g
    /\ \A c \in Callers : caller[c].pc = "read" <=> mu = c

\* A fingerprint of p, taken at some time in the past.
Past(i, p) == i = NoFile \/ (i.path = p /\ i.ver <= file[p].ver)

\* Who reads has the fingerprint of what it reads: a loop that of the path in force, and once it
\* has read, of no later version than what it has read.
ReadsOK ==
    /\ \A g \in Loops :
         /\ loop[g].pc \in {"read", "record"} =>
              loop[g].path = filePath /\ filePath \in Paths /\ Past(loop[g].info, filePath)
         /\ loop[g].pc = "record" => loop[g].info = NoFile \/ loop[g].info.ver <= creds.ver
    /\ \A c \in Callers :
         caller[c].pc = "read" => caller[c].path \in Paths /\ Past(caller[c].info, caller[c].path)

\* The credentials are those of the path in force, also while s.mu is held; so is the baseline,
\* and it is no later than they are.
StoreOK ==
    /\ creds.path = filePath
    /\ filePath \in Paths => creds.ver <= file[filePath].ver
    /\ fileInfo # NoFile => fileInfo.path = filePath /\ fileInfo.ver <= creds.ver

\* Whatever loop may still reload is the one that s.stopped belongs to.
LoopsOK == \A g \in Loops : loop[g].pc \notin {"gone", "closing"} => stopped = g

\* The inductive invariant.
Rest == ThreadsOK /\ MuOK /\ ReadsOK /\ StoreOK /\ LoopsOK
WatcherInv == TypeOK /\ Rest

-----------------------------------------------------------------------------
(* Records.                                                                  *)

\* The constants of the records.
LEMMA NoFileIs ==
    ASSUME HtpasswdAssumption
    PROVE  NoFile \in Infos /\ NoFile.path = NoPath /\ NoFile.ver = 0
BY DEF NoFile, Infos, HtpasswdAssumption

\* A fingerprint.
LEMMA StatIs ==
    ASSUME HtpasswdAssumption, TypeOK, NEW p \in Paths
    PROVE  /\ Stat(p) \in Infos /\ Past(Stat(p), p)
           /\ file[p].there => Stat(p).path = p /\ Stat(p).ver = file[p].ver
<1>1. file[p].ver \in 1..MaxWrites /\ file[p].there \in BOOLEAN
  BY DEF TypeOK
<1>2. CASE file[p].there
  BY <1>1, <1>2, HtpasswdAssumption DEF Stat, Infos, Past, HtpasswdAssumption
<1>3. CASE ~file[p].there
  BY <1>3, NoFileIs DEF Stat, Past
<1> QED BY <1>2, <1>3

\* A loop that is at pc and nothing else.
LEMMA QuietIs ==
    ASSUME HtpasswdAssumption, NEW pc \in LoopPcs, NEW l, l = [Quiet EXCEPT !.pc = pc]
    PROVE  l \in LoopRec /\ l.pc = pc
BY NoFileIs DEF Quiet, LoopRec

\* A caller that makes no call.
LEMMA IdleIs ==
    ASSUME HtpasswdAssumption
    PROVE  Idle \in CallRec /\ Idle.pc = "idle"
BY NoFileIs DEF Idle, CallRec, CallPcs, HtpasswdAssumption

\* Where a loop holds the lock, or is at its end.
Outside == {"gone", "closing", "read", "record"}

-----------------------------------------------------------------------------
(* Moves that leave the store and its lock alone.                            *)

\* Loop g goes on, without the lock before and after.
LEMMA LoopMoves ==
    ASSUME HtpasswdAssumption, Rest, NEW g \in Loops, loop[g].pc \notin Outside,
           NEW l \in LoopRec, l.pc \notin {"read", "record"}, loop' = [loop EXCEPT ![g] = l],
           UNCHANGED <<file, state, mu, caller, stopped>>
    PROVE  Rest'
<1>1. loop' \in [Loops -> LoopRec] /\ loop'[g] = l /\ \A k \in Loops : k # g => loop'[k] = loop[k]
  BY DEF Rest, ThreadsOK, LoopRec
<1>2. stopped = g
  BY DEF Rest, LoopsOK, Outside
<1>3. ThreadsOK'
  BY <1>1 DEF Rest, ThreadsOK, LoopRec, Infos
<1>4. MuOK'
  BY <1>1 DEF Rest, MuOK, Outside
<1>5. ReadsOK' /\ StoreOK'
  BY <1>1 DEF Rest, ReadsOK, StoreOK, Past, state, NoFile
<1>6. LoopsOK'
  BY <1>1, <1>2 DEF Rest, LoopsOK
<1> QED BY <1>3, <1>4, <1>5, <1>6 DEF Rest

\* Nothing of it changes.
LEMMA RestStays ==
    ASSUME Rest, UNCHANGED <<file, state, mu, caller, stopped, loop>>
    PROVE  Rest'
BY DEF Rest, ThreadsOK, MuOK, ReadsOK, StoreOK, LoopsOK, Past, state

\* A call goes on, without the lock before and after.
LEMMA CallMoves ==
    ASSUME HtpasswdAssumption, Rest, NEW c \in Callers, caller[c].pc # "read",
           NEW x \in CallRec, x.pc # "read", caller' = [caller EXCEPT ![c] = x],
           UNCHANGED <<file, state, mu, loop, stopped>>
    PROVE  Rest'
<1>1. caller' \in [Callers -> CallRec] /\ caller'[c] = x /\ \A k \in Callers : k # c => caller'[k] = caller[k]
  BY DEF Rest, ThreadsOK, CallRec
<1>3. ThreadsOK'
  BY <1>1 DEF Rest, ThreadsOK, CallRec, Infos
<1>4. MuOK'
  BY <1>1 DEF Rest, MuOK
<1>5. ReadsOK' /\ StoreOK'
  BY <1>1 DEF Rest, ReadsOK, StoreOK, Past, state, NoFile
<1>6. LoopsOK'
  BY DEF Rest, LoopsOK
<1> QED BY <1>3, <1>4, <1>5, <1>6 DEF Rest

-----------------------------------------------------------------------------
(* The steps.                                                                *)

\* A file is written, replaced or removed: versions only grow.
LEMMA TouchKeeps ==
    ASSUME HtpasswdAssumption, WatcherInv, NEW p \in Paths, NEW there \in BOOLEAN, NEW op,
           Touch(p, there, op)
    PROVE  WatcherInv'
<1>1. /\ file' \in [Paths -> [ver : 1..MaxWrites, there : BOOLEAN]]
      /\ \A r \in Paths : file'[r].ver \in Nat /\ file[r].ver \in Nat /\ file[r].ver <= file'[r].ver
  BY DEF WatcherInv, TypeOK, Touch, HtpasswdAssumption
<1>2. TypeOK'
  BY <1>1 DEF WatcherInv, TypeOK, Touch, state, chans
<1>3. ThreadsOK' /\ MuOK' /\ LoopsOK'
  BY DEF WatcherInv, Rest, ThreadsOK, MuOK, LoopsOK, Touch, chans
<1>4. \A r \in Paths : \A i \in Infos : Past(i, r) => Past(i, r)'
  BY <1>1 DEF Past, Infos, NoFile
<1>5. ReadsOK'
  BY <1>4 DEF WatcherInv, Rest, ReadsOK, ThreadsOK, LoopRec, CallRec, Touch, state
<1>6. StoreOK'
  BY <1>1 DEF WatcherInv, Rest, StoreOK, TypeOK, Touch, state
<1> QED BY <1>2, <1>3, <1>5, <1>6 DEF WatcherInv, Rest

\* Run starts a loop only when the last one has left.
LEMMA RunKeeps ==
    ASSUME HtpasswdAssumption, WatcherInv, NEW c \in Callers, Run(c)
    PROVE  WatcherInv'
<1>1. CASE Running
  BY <1>1, RestStays DEF WatcherInv, Run, vars, state, chans, TypeOK
<1>2. CASE ~Running
  <2> DEFINE g == gens + 1
             l == [Quiet EXCEPT !.pc = "select"]
  <2>1. g \in Loops /\ stopped = 0 /\ stopped' = g /\ loop' = [loop EXCEPT ![g] = l] /\ mu = Free
    BY <1>2 DEF WatcherInv, TypeOK, Run, Running, Loops, HtpasswdAssumption
  <2>2. l \in LoopRec /\ l.pc = "select"
    BY QuietIs DEF LoopPcs
  <2>3. UNCHANGED <<file, state, mu, caller>>
    BY <1>2 DEF Run
  <2>4. TypeOK'
    <3>1. watched' \in [Loops -> Paths \cup {NoPath}]
      BY <1>2 DEF WatcherInv, TypeOK, Run, addWatches
    <3>2. {done', stopped', watcher', gens'} \subseteq 0..MaxRuns
      BY <1>2, <2>1 DEF WatcherInv, TypeOK, Run, Loops
    <3>3. \A k \in Loops : loop'[k].info \in Infos
      BY <2>1, <2>2 DEF WatcherInv, Rest, ThreadsOK, LoopRec
    <3> QED BY <1>2, <3>1, <3>2, <3>3 DEF WatcherInv, TypeOK, Run, state, Infos
  <2> HIDE DEF g, l
  <2>5. loop' \in [Loops -> LoopRec] /\ loop'[g] = l /\ \A k \in Loops : k # g => loop'[k] = loop[k]
    BY <2>1, <2>2 DEF WatcherInv, Rest, ThreadsOK
  <2>6. ThreadsOK'
    BY <2>3, <2>5 DEF WatcherInv, Rest, ThreadsOK
  <2>7. MuOK'
    BY <2>1, <2>2, <2>3, <2>5 DEF WatcherInv, Rest, MuOK, Free, Loops
  <2>8. ReadsOK' /\ StoreOK'
    BY <2>2, <2>3, <2>5 DEF WatcherInv, Rest, ReadsOK, StoreOK, Past, state
  <2>9. LoopsOK'
    BY <2>1, <2>5 DEF WatcherInv, Rest, LoopsOK, Loops
  <2> QED BY <2>4, <2>6, <2>7, <2>8, <2>9 DEF WatcherInv, Rest
<1> QED BY <1>1, <1>2

\* Nobody reads while the lock is free.
LEMMA FreeMeans ==
    ASSUME HtpasswdAssumption, WatcherInv, mu = Free
    PROVE  /\ \A g \in Loops : loop[g].pc \notin {"read", "record"}
           /\ \A c \in Callers : caller[c].pc # "read"
BY DEF WatcherInv, Rest, MuOK, Free, Loops, HtpasswdAssumption

\* ChangeFile("") clears the path and the credentials together.
LEMMA NoneKeeps ==
    ASSUME HtpasswdAssumption, WatcherInv, NEW c \in Callers, ChangeToNone(c)
    PROVE  WatcherInv'
<1>1. TypeOK'
  BY NoFileIs DEF WatcherInv, TypeOK, ChangeToNone, chans, Infos
<1>2. ThreadsOK' /\ MuOK' /\ LoopsOK'
  BY DEF WatcherInv, Rest, ThreadsOK, MuOK, LoopsOK, ChangeToNone, chans
<1>3. ReadsOK'
  BY FreeMeans DEF ReadsOK, ChangeToNone
<1>4. StoreOK'
  BY NoFileIs DEF StoreOK, ChangeToNone, HtpasswdAssumption
<1> QED BY <1>1, <1>2, <1>3, <1>4 DEF WatcherInv, Rest

\* ChangeFile takes the lock and the fingerprint.
LEMMA ChangeKeeps ==
    ASSUME HtpasswdAssumption, WatcherInv, NEW c \in Callers, NEW p \in Paths, ChangeFile(c, p)
    PROVE  WatcherInv'
<1> DEFINE x == [Idle EXCEPT !.pc = "read", !.path = p, !.info = Stat(p)]
<1>1. Stat(p) \in Infos /\ Past(Stat(p), p)
  BY StatIs DEF WatcherInv
<1>2. x \in CallRec /\ x.pc = "read" /\ x.path = p /\ x.info = Stat(p)
  BY <1>1, IdleIs DEF CallRec, CallPcs
<1>3. /\ mu = Free /\ mu' = c /\ caller' = [caller EXCEPT ![c] = x]
      /\ UNCHANGED <<file, state, loop>> /\ UNCHANGED chans
  BY DEF ChangeFile
<1> HIDE DEF x
<1>4. caller' \in [Callers -> CallRec] /\ caller'[c] = x /\ \A k \in Callers : k # c => caller'[k] = caller[k]
  BY <1>2, <1>3 DEF WatcherInv, Rest, ThreadsOK
<1>5. TypeOK'
  <2>1. \A k \in Callers : caller'[k].info \in Infos
    BY <1>4 DEF CallRec
  <2> QED BY <1>3, <2>1 DEF WatcherInv, TypeOK, ChangeFile, state, chans, Infos
<1>6. ThreadsOK' /\ LoopsOK'
  BY <1>3, <1>4 DEF WatcherInv, Rest, ThreadsOK, LoopsOK, chans
<1>7. MuOK'
  BY <1>2, <1>3, <1>4, FreeMeans DEF MuOK, Loops, HtpasswdAssumption
<1>8. ReadsOK'
  BY <1>1, <1>2, <1>3, <1>4, FreeMeans DEF ReadsOK, Past
<1>9. StoreOK'
  BY <1>3 DEF WatcherInv, Rest, StoreOK, state
<1> QED BY <1>5, <1>6, <1>7, <1>8, <1>9 DEF WatcherInv, Rest

\* A caller that reads is the only one that does.
LEMMA CallerReads ==
    ASSUME HtpasswdAssumption, WatcherInv, NEW c \in Callers, caller[c].pc = "read"
    PROVE  /\ mu = c
           /\ \A g \in Loops : loop[g].pc \notin {"read", "record"}
           /\ \A k \in Callers : k # c => caller[k].pc # "read"
BY DEF WatcherInv, Rest, MuOK, Loops, HtpasswdAssumption

\* It installs the path, the credentials and the baseline together, or nothing.
LEMMA ChangeReadKeeps ==
    ASSUME HtpasswdAssumption, WatcherInv, NEW c \in Callers, ChangeRead(c)
    PROVE  WatcherInv'
<1> DEFINE p == caller[c].path
<1>1. /\ caller[c].pc = "read" /\ mu' = Free /\ caller' = [caller EXCEPT ![c] = Idle]
      /\ UNCHANGED <<file, loop>> /\ UNCHANGED chans
  BY DEF ChangeRead
<1>2. p \in Paths /\ caller[c].info \in Infos /\ Past(caller[c].info, p)
  BY <1>1 DEF WatcherInv, Rest, ReadsOK, ThreadsOK, CallRec
<1>3. caller' \in [Callers -> CallRec] /\ caller'[c].pc = "idle" /\ \A k \in Callers : k # c => caller'[k] = caller[k]
  BY <1>1, IdleIs DEF WatcherInv, Rest, ThreadsOK
<1>4. \/ UNCHANGED <<state, watched>>
      \/ /\ creds' = Stat(p) /\ file[p].there /\ filePath' = p /\ fileInfo' = caller[c].info
         /\ watched' = watched \/ (watcher # 0 /\ watched' = [watched EXCEPT ![watcher] = p])
  BY DEF ChangeRead, addWatches
<1>5. /\ Stat(p) \in Infos /\ file[p].ver \in Nat
      /\ file[p].there => Stat(p).path = p /\ Stat(p).ver = file[p].ver
  BY <1>2, StatIs DEF WatcherInv, TypeOK
<1> HIDE DEF p
<1>6. TypeOK'
  <2>1. \A k \in Callers : caller'[k].info \in Infos
    BY <1>3 DEF CallRec
  <2>2. watched' \in [Loops -> Paths \cup {NoPath}]
    BY <1>2, <1>4 DEF WatcherInv, TypeOK
  <2>3. filePath' \in Paths \cup {NoPath} /\ fileInfo' \in Infos /\ creds' \in Infos
    BY <1>2, <1>4, <1>5 DEF WatcherInv, TypeOK, state, Infos
  <2> QED BY <1>1, <2>1, <2>2, <2>3 DEF WatcherInv, TypeOK, ChangeRead, chans, Infos, Free
<1>7. ThreadsOK' /\ LoopsOK'
  BY <1>1, <1>3 DEF WatcherInv, Rest, ThreadsOK, LoopsOK, chans
<1>8. MuOK' /\ ReadsOK'
  BY <1>1, <1>3, CallerReads DEF MuOK, ReadsOK, Free, Loops, HtpasswdAssumption
<1>9. StoreOK'
  <2>1. CASE UNCHANGED <<state, watched>>
    BY <1>1, <2>1 DEF WatcherInv, Rest, StoreOK, state
  <2>2. CASE creds' = Stat(p) /\ file[p].there /\ filePath' = p /\ fileInfo' = caller[c].info
    BY <1>1, <1>2, <1>5, <2>2 DEF StoreOK, Past
  <2> QED BY <1>4, <2>1, <2>2
<1> QED BY <1>6, <1>7, <1>8, <1>9 DEF WatcherInv, Rest

\* The steps of Close move the caller only, the lock and the loops stay as they are.
LEMMA CloseKeeps ==
    ASSUME HtpasswdAssumption, WatcherInv, NEW c \in Callers,
           Close(c) \/ CloseWatcher(c) \/ CloseDone(c) \/ CloseReturn(c)
    PROVE  WatcherInv'
<1> DEFINE x == IF Close(c) THEN [Idle EXCEPT !.pc = "closewatcher", !.gen = done, !.stop = stopped, !.w = watcher]
                ELSE IF CloseWatcher(c) THEN [caller[c] EXCEPT !.pc = "closedone"]
                ELSE IF CloseDone(c) THEN [caller[c] EXCEPT !.pc = "closewait"]
                ELSE Idle
<1>0. caller[c] \in CallRec /\ Idle \in CallRec /\ Idle.pc = "idle"
  BY IdleIs DEF WatcherInv, Rest, ThreadsOK
<1>1. /\ caller[c].pc # "read" /\ caller' = [caller EXCEPT ![c] = x]
      /\ UNCHANGED <<file, state, mu, loop, stopped>>
  <2>1. CASE Close(c)
    BY <2>1 DEF Close
  <2>2. CASE CloseWatcher(c) /\ ~Close(c)
    BY <2>2 DEF CloseWatcher
  <2>3. CASE CloseDone(c) /\ ~CloseWatcher(c) /\ ~Close(c)
    BY <2>3 DEF CloseDone
  <2>4. CASE CloseReturn(c) /\ ~CloseDone(c) /\ ~CloseWatcher(c) /\ ~Close(c)
    BY <2>4 DEF CloseReturn, chans
  <2> QED BY <2>1, <2>2, <2>3, <2>4
<1>2. x \in CallRec /\ x.pc # "read"
  <2>1. {done, stopped, watcher} \subseteq 0..MaxRuns
    BY DEF WatcherInv, TypeOK
  <2> QED BY <1>0, <2>1 DEF CallRec, CallPcs
<1> HIDE DEF x
<1>3. Rest'
  BY <1>1, <1>2, CallMoves DEF WatcherInv
<1>4. TypeOK'
  <2>1. \A k \in Callers : caller'[k].info \in Infos
    BY <1>3 DEF Rest, ThreadsOK, CallRec
  <2>2. {done', stopped', watcher', gens'} \subseteq 0..MaxRuns
    BY HtpasswdAssumption DEF WatcherInv, TypeOK, Close, CloseWatcher, CloseDone, CloseReturn, chans, HtpasswdAssumption
  <2>3. {signalled', ended', closed'} \subseteq SUBSET Loops
    <3>1. {caller[c].w} \ {0} \subseteq Loops /\ {caller[c].gen} \ {0} \subseteq Loops
      BY <1>0 DEF CallRec, Loops
    <3> QED BY <3>1 DEF WatcherInv, TypeOK, Close, CloseWatcher, CloseDone, DoneToClose, CloseReturn, chans
  <2>4. debounce' \in BOOLEAN /\ watched' = watched
    BY DEF WatcherInv, TypeOK, Close, CloseWatcher, CloseDone, CloseReturn
  <2> QED BY <1>1, <2>1, <2>2, <2>3, <2>4 DEF WatcherInv, TypeOK, state, Infos
<1> QED BY <1>3, <1>4 DEF WatcherInv

\* The type of what a step of a loop may change beside the loop.
LEMMA LoopTypes ==
    ASSUME WatcherInv, Rest', UNCHANGED <<file, state, mu, caller>>,
           {done', stopped', watcher', gens'} \subseteq 0..MaxRuns,
           {signalled', ended', closed'} \subseteq SUBSET Loops,
           debounce' \in BOOLEAN, watched' \in [Loops -> Paths \cup {NoPath}]
    PROVE  WatcherInv'
<1>1. \A k \in Loops : loop'[k].info \in Infos
  BY DEF Rest, ThreadsOK, LoopRec
<1>2. TypeOK'
  BY <1>1 DEF WatcherInv, TypeOK, state, Infos
<1> QED BY <1>2 DEF WatcherInv

\* A step of loop g that keeps the lock, the store and the channels.
LEMMA LoopGoes ==
    ASSUME HtpasswdAssumption, WatcherInv, NEW g \in Loops, loop[g].pc \notin Outside,
           NEW l \in LoopRec, l.pc \notin {"read", "record"}, loop' = [loop EXCEPT ![g] = l],
           UNCHANGED <<file, state, mu, caller>>, UNCHANGED chans,
           debounce' \in BOOLEAN, watched' \in [Loops -> Paths \cup {NoPath}]
    PROVE  WatcherInv'
<1>1. Rest'
  BY LoopMoves DEF WatcherInv, chans
<1>2. /\ {done', stopped', watcher', gens'} \subseteq 0..MaxRuns
      /\ {signalled', ended', closed'} \subseteq SUBSET Loops
  BY DEF WatcherInv, TypeOK, chans
<1> QED BY <1>1, <1>2, LoopTypes

\* The same with a loop that only moves.
LEMMA Goes ==
    ASSUME HtpasswdAssumption, WatcherInv, NEW g \in Loops, loop[g].pc \notin Outside,
           NEW pc \in LoopPcs, pc \notin {"read", "record"}, Goto(g, pc),
           UNCHANGED <<file, state, mu, caller>>, UNCHANGED chans,
           debounce' \in BOOLEAN, watched' \in [Loops -> Paths \cup {NoPath}]
    PROVE  WatcherInv'
<1> DEFINE l == [Quiet EXCEPT !.pc = pc]
<1>1. l \in LoopRec /\ l.pc = pc
  BY QuietIs
<1>2. loop' = [loop EXCEPT ![g] = l]
  BY DEF Goto, To
<1> HIDE DEF l
<1> QED BY <1>1, <1>2, LoopGoes

\* What follows an event.
LEMMA ScheduleKeeps ==
    ASSUME HtpasswdAssumption, WatcherInv, NEW g \in Loops, loop[g].pc \notin Outside, Schedule(g),
           UNCHANGED <<file, state, mu, caller>>, UNCHANGED chans,
           watched' \in [Loops -> Paths \cup {NoPath}]
    PROVE  WatcherInv'
<1>1. debounce \in BOOLEAN
  BY DEF WatcherInv, TypeOK
<1>2. CASE g \in signalled
  BY <1>1, <1>2, Goes DEF Schedule, LoopPcs
<1>3. CASE g \notin signalled
  BY <1>1, <1>3, Goes DEF Schedule, LoopPcs
<1> QED BY <1>2, <1>3

\* The loop leaves its select, or its timer fires, or it compares a fingerprint.
LEMMA MovesKeep ==
    ASSUME HtpasswdAssumption, WatcherInv, NEW g \in Loops,
           LoopStop(g) \/ LoopDebounced(g) \/ checkFileChanged(g)
    PROVE  WatcherInv'
<1>1. debounce \in BOOLEAN /\ watched \in [Loops -> Paths \cup {NoPath}]
  BY DEF WatcherInv, TypeOK
<1>2. CASE LoopStop(g)
  BY <1>1, <1>2, Goes DEF LoopStop, LoopPcs, Outside
<1>3. CASE LoopDebounced(g)
  <2>1. PICK pc \in {"exit", "reload"} : Goto(g, pc)
    BY <1>3 DEF LoopDebounced
  <2> QED BY <1>1, <1>3, <2>1, Goes DEF LoopDebounced, LoopPcs, Outside
<1>4. CASE checkFileChanged(g)
  <2>1. PICK pc \in {"select", "reload"} : Goto(g, pc)
    BY <1>4 DEF checkFileChanged
  <2> QED BY <1>1, <1>4, <2>1, Goes DEF checkFileChanged, LoopPcs, Outside
<1> QED BY <1>2, <1>3, <1>4

\* An event arrives.
LEMMA EventKeeps ==
    ASSUME HtpasswdAssumption, WatcherInv, NEW g \in Loops, LoopEvent(g)
    PROVE  WatcherInv'
<1>1. debounce \in BOOLEAN /\ watched \in [Loops -> Paths \cup {NoPath}] /\ filePath \in Paths \cup {NoPath}
  BY DEF WatcherInv, TypeOK
<1>2. /\ loop[g].pc \notin Outside /\ UNCHANGED <<file, state, mu, caller>> /\ UNCHANGED chans
      /\ watched' = watched
  BY DEF LoopEvent, Outside
<1>3. CASE UNCHANGED <<loop, debounce>>
  <2>1. Rest'
    BY <1>2, <1>3, RestStays DEF WatcherInv, chans
  <2>2. /\ {done', stopped', watcher', gens'} \subseteq 0..MaxRuns
        /\ {signalled', ended', closed'} \subseteq SUBSET Loops
    BY <1>2 DEF WatcherInv, TypeOK, chans
  <2> QED BY <1>1, <1>2, <1>3, <2>1, <2>2, LoopTypes
<1>4. CASE Schedule(g)
  BY <1>1, <1>2, <1>4, ScheduleKeeps
<1>5. CASE /\ To(g, [Quiet EXCEPT !.pc = "retry", !.path = filePath, !.try = 1])
           /\ UNCHANGED debounce
  <2> DEFINE l == [Quiet EXCEPT !.pc = "retry", !.path = filePath, !.try = 1]
  <2>1. l \in LoopRec /\ l.pc = "retry"
    BY <1>1, NoFileIs DEF Quiet, LoopRec, LoopPcs
  <2>2. loop' = [loop EXCEPT ![g] = l]
    BY <1>5 DEF To
  <2> HIDE DEF l
  <2> QED BY <1>1, <1>2, <1>5, <2>1, <2>2, LoopGoes
<1> QED BY <1>3, <1>4, <1>5 DEF LoopEvent

\* The watches are added again, or tried again, or given up.
LEMMA RetryKeeps ==
    ASSUME HtpasswdAssumption, WatcherInv, NEW g \in Loops, RetryAddWatch(g)
    PROVE  WatcherInv'
<1>1. debounce \in BOOLEAN /\ watched \in [Loops -> Paths \cup {NoPath}] /\ filePath \in Paths \cup {NoPath}
  BY DEF WatcherInv, TypeOK
<1>2. /\ loop[g].pc = "retry" /\ UNCHANGED <<file, state, mu, caller>> /\ UNCHANGED chans
      /\ watched' = watched \/ watched' = [watched EXCEPT ![g] = filePath]
  BY DEF RetryAddWatch
<1>3. watched' \in [Loops -> Paths \cup {NoPath}]
  BY <1>1, <1>2
<1>4. CASE Schedule(g)
  BY <1>2, <1>3, <1>4, ScheduleKeeps DEF Outside
<1>5. CASE To(g, [loop[g] EXCEPT !.try = @ + 1]) /\ UNCHANGED debounce
  <2> DEFINE l == [loop[g] EXCEPT !.try = @ + 1]
  <2>1. l \in LoopRec /\ l.pc = "retry"
    BY <1>2 DEF WatcherInv, Rest, ThreadsOK, LoopRec
  <2>2. loop' = [loop EXCEPT ![g] = l]
    BY <1>5 DEF To
  <2> HIDE DEF l
  <2> QED BY <1>1, <1>2, <1>3, <1>5, <2>1, <2>2, LoopGoes DEF Outside
<1> QED BY <1>4, <1>5 DEF RetryAddWatch

\* A tick of the poll, or an error of the watcher.
LEMMA TickKeeps ==
    ASSUME HtpasswdAssumption, WatcherInv, NEW g \in Loops, LoopTick(g) \/ LoopError(g)
    PROVE  WatcherInv'
<1>1. debounce \in BOOLEAN /\ watched \in [Loops -> Paths \cup {NoPath}] /\ filePath \in Paths \cup {NoPath}
  BY DEF WatcherInv, TypeOK
<1>2. CASE LoopTick(g)
  <2> DEFINE l == [Quiet EXCEPT !.pc = "poll", !.path = filePath, !.info = Stat(filePath)]
  <2>1. filePath \in Paths
    BY <1>1, <1>2 DEF LoopTick
  <2>2. l \in LoopRec /\ l.pc = "poll"
    BY <2>1, StatIs, NoFileIs DEF WatcherInv, Quiet, LoopRec, LoopPcs
  <2>3. loop' = [loop EXCEPT ![g] = l]
    BY <1>2 DEF LoopTick, To
  <2> HIDE DEF l
  <2> QED BY <1>1, <1>2, <2>2, <2>3, LoopGoes DEF LoopTick, Outside
<1>3. CASE LoopError(g)
  <2>1. Rest'
    BY <1>3, RestStays DEF LoopError, WatcherInv, chans
  <2>2. /\ {done', stopped', watcher', gens'} \subseteq 0..MaxRuns
        /\ {signalled', ended', closed'} \subseteq SUBSET Loops
    BY <1>3 DEF LoopError, WatcherInv, TypeOK, chans
  <2> QED BY <1>1, <1>3, <2>1, <2>2, LoopTypes DEF LoopError
<1> QED BY <1>2, <1>3

\* reloadWatchedFile takes the lock and the fingerprint of the path in force.
LEMMA ReloadKeeps ==
    ASSUME HtpasswdAssumption, WatcherInv, NEW g \in Loops, reloadWatchedFile(g)
    PROVE  WatcherInv'
<1>1. debounce \in BOOLEAN /\ watched \in [Loops -> Paths \cup {NoPath}] /\ filePath \in Paths \cup {NoPath}
  BY DEF WatcherInv, TypeOK
<1>2. CASE filePath = NoPath
  BY <1>1, <1>2, Goes DEF reloadWatchedFile, LoopPcs, Outside
<1>3. CASE filePath # NoPath
  <2> DEFINE l == [Quiet EXCEPT !.pc = "read", !.path = filePath, !.info = Stat(filePath)]
  <2>1. filePath \in Paths
    BY <1>1, <1>3
  <2>2. Stat(filePath) \in Infos /\ Past(Stat(filePath), filePath)
    BY <2>1, StatIs DEF WatcherInv
  <2>3. l \in LoopRec /\ l.pc = "read" /\ l.path = filePath /\ l.info = Stat(filePath)
    BY <2>1, <2>2 DEF Quiet, LoopRec, LoopPcs
  <2>4. /\ loop[g].pc = "reload" /\ mu = Free /\ mu' = g /\ loop' = [loop EXCEPT ![g] = l]
        /\ UNCHANGED <<file, state, caller>> /\ UNCHANGED chans /\ UNCHANGED <<debounce, watched>>
    BY <1>3 DEF reloadWatchedFile, ReloadLock, To
  <2> HIDE DEF l
  <2>5. loop' \in [Loops -> LoopRec] /\ loop'[g] = l /\ \A k \in Loops : k # g => loop'[k] = loop[k]
    BY <2>3, <2>4 DEF WatcherInv, Rest, ThreadsOK
  <2>6. TypeOK'
    <3>1. \A k \in Loops : loop'[k].info \in Infos
      BY <2>5 DEF LoopRec
    <3> QED BY <2>4, <3>1 DEF WatcherInv, TypeOK, state, chans, Infos
  <2>7. ThreadsOK' /\ LoopsOK'
    BY <2>3, <2>4, <2>5 DEF WatcherInv, Rest, ThreadsOK, LoopsOK, chans
  <2>8. MuOK'
    BY <2>3, <2>4, <2>5, FreeMeans DEF MuOK, Loops, HtpasswdAssumption
  <2>9. ReadsOK'
    BY <2>1, <2>2, <2>3, <2>4, <2>5, FreeMeans DEF ReadsOK, Past, state
  <2>10. StoreOK'
    BY <2>4 DEF WatcherInv, Rest, StoreOK, state
  <2> QED BY <2>6, <2>7, <2>8, <2>9, <2>10 DEF WatcherInv, Rest
<1> QED BY <1>2, <1>3

\* A loop that reads is the only one that does, and it may.
LEMMA LoopReads ==
    ASSUME HtpasswdAssumption, WatcherInv, NEW g \in Loops, loop[g].pc \in {"read", "record"}
    PROVE  /\ mu = g /\ stopped = g
           /\ \A k \in Loops : k # g => loop[k].pc \notin {"read", "record"}
           /\ \A c \in Callers : caller[c].pc # "read"
           /\ loop[g].path = filePath /\ filePath \in Paths
           /\ loop[g].info \in Infos /\ Past(loop[g].info, filePath)
           /\ loop[g].pc = "record" => loop[g].info = NoFile \/ loop[g].info.ver <= creds.ver
<1>1. mu = g /\ stopped = g
  BY DEF WatcherInv, Rest, MuOK, LoopsOK
<1>2. /\ \A k \in Loops : k # g => loop[k].pc \notin {"read", "record"}
      /\ \A c \in Callers : caller[c].pc # "read"
  BY <1>1 DEF WatcherInv, Rest, MuOK, Loops, HtpasswdAssumption
<1>3. loop[g].info \in Infos
  BY DEF WatcherInv, Rest, ThreadsOK, LoopRec
<1> QED BY <1>1, <1>2, <1>3 DEF WatcherInv, Rest, ReadsOK

\* The read: the credentials are those of the path in force, whatever was written meanwhile.
LEMMA ReadKeeps ==
    ASSUME HtpasswdAssumption, WatcherInv, NEW g \in Loops, ReloadRead(g)
    PROVE  WatcherInv'
<1> DEFINE p == loop[g].path
           l == IF file[p].there THEN [loop[g] EXCEPT !.pc = "record"] ELSE [Quiet EXCEPT !.pc = "select"]
<1>1. /\ loop[g].pc = "read" /\ loop' = [loop EXCEPT ![g] = l]
      /\ IF file[p].there THEN creds' = Stat(p) /\ mu' = mu ELSE creds' = creds /\ mu' = Free
      /\ UNCHANGED <<file, filePath, fileInfo, caller>> /\ UNCHANGED chans
      /\ UNCHANGED <<debounce, watched>>
  BY DEF ReloadRead, Goto, To
<1>2. p = filePath /\ p \in Paths /\ mu = g /\ stopped = g /\ Past(loop[g].info, p) /\ loop[g].info \in Infos
  BY <1>1, LoopReads
<1>3. /\ l \in LoopRec
      /\ file[p].there => l.pc = "record" /\ l.path = p /\ l.info = loop[g].info
      /\ ~file[p].there => l.pc = "select"
  <2>1. loop[g] \in LoopRec
    BY DEF WatcherInv, Rest, ThreadsOK
  <2> HIDE DEF p
  <2> QED BY <2>1, QuietIs, NoFileIs DEF LoopRec, LoopPcs, Quiet, p
<1>4. /\ Stat(p) \in Infos /\ file[p].ver \in Nat
      /\ file[p].there => Stat(p).path = p /\ Stat(p).ver = file[p].ver
  BY <1>2, StatIs DEF WatcherInv, TypeOK
<1> HIDE DEF p, l
<1>5. loop' \in [Loops -> LoopRec] /\ loop'[g] = l /\ \A k \in Loops : k # g => loop'[k] = loop[k]
  BY <1>1, <1>3 DEF WatcherInv, Rest, ThreadsOK
<1>6. TypeOK'
  <2>1. \A k \in Loops : loop'[k].info \in Infos
    BY <1>5 DEF LoopRec
  <2>2. creds' \in Infos /\ mu' \in {Free} \cup Loops \cup Callers
    BY <1>1, <1>4 DEF WatcherInv, TypeOK, Infos
  <2> QED BY <1>1, <2>1, <2>2 DEF WatcherInv, TypeOK, chans, Infos
<1>7. ThreadsOK' /\ LoopsOK'
  BY <1>1, <1>2, <1>5 DEF WatcherInv, Rest, ThreadsOK, LoopsOK, chans
<1>8. MuOK'
  BY <1>1, <1>2, <1>3, <1>5, LoopReads DEF MuOK, Free, Loops, HtpasswdAssumption
<1>9. ReadsOK'
  <2>1. \A k \in Loops : k # g => loop'[k].pc \notin {"read", "record"}
    BY <1>1, <1>5, LoopReads
  <2>2. \A c \in Callers : caller'[c].pc # "read"
    BY <1>1, LoopReads
  <2>3. CASE file[p].there
    BY <1>1, <1>2, <1>3, <1>4, <1>5, <2>1, <2>2, <2>3 DEF ReadsOK, Past
  <2>4. CASE ~file[p].there
    BY <1>3, <1>5, <2>1, <2>2, <2>4 DEF ReadsOK
  <2> QED BY <2>3, <2>4
<1>10. StoreOK'
  <2>1. fileInfo \in Infos /\ creds \in Infos
    BY DEF WatcherInv, TypeOK, Infos
  <2> QED BY <1>1, <1>2, <1>4, <2>1 DEF WatcherInv, Rest, StoreOK, Infos
<1> QED BY <1>6, <1>7, <1>8, <1>9, <1>10 DEF WatcherInv, Rest

\* The baseline is recorded after the read, and is no later.
LEMMA RecordKeeps ==
    ASSUME HtpasswdAssumption, WatcherInv, NEW g \in Loops, ReloadRecord(g)
    PROVE  WatcherInv'
<1> DEFINE l == [Quiet EXCEPT !.pc = "select"]
<1>1. /\ loop[g].pc = "record" /\ loop' = [loop EXCEPT ![g] = l] /\ fileInfo' = loop[g].info /\ mu' = Free
      /\ UNCHANGED <<file, filePath, creds, caller>> /\ UNCHANGED chans
      /\ UNCHANGED <<debounce, watched>>
  BY DEF ReloadRecord, Goto, To, Baseline
<1>2. l \in LoopRec /\ l.pc = "select"
  BY QuietIs DEF LoopPcs
<1> HIDE DEF l
<1>3. loop' \in [Loops -> LoopRec] /\ loop'[g] = l /\ \A k \in Loops : k # g => loop'[k] = loop[k]
  BY <1>1, <1>2 DEF WatcherInv, Rest, ThreadsOK
<1>4. TypeOK'
  <2>1. \A k \in Loops : loop'[k].info \in Infos
    BY <1>3 DEF LoopRec
  <2>2. fileInfo' \in Infos /\ mu' \in {Free} \cup Loops \cup Callers
    BY <1>1, LoopReads
  <2> QED BY <1>1, <2>1, <2>2 DEF WatcherInv, TypeOK, chans, Infos
<1>5. ThreadsOK' /\ LoopsOK'
  BY <1>1, <1>3, LoopReads DEF WatcherInv, Rest, ThreadsOK, LoopsOK, chans
<1>6. MuOK' /\ ReadsOK'
  BY <1>1, <1>2, <1>3, LoopReads DEF MuOK, ReadsOK, Free, Loops, HtpasswdAssumption
<1>7. StoreOK'
  BY <1>1, LoopReads DEF WatcherInv, Rest, StoreOK, Past
<1> QED BY <1>4, <1>5, <1>6, <1>7 DEF WatcherInv, Rest

\* The loop leaves: s.stopped is its own, and is cleared when it can no longer reload.
LEMMA ExitKeeps ==
    ASSUME HtpasswdAssumption, WatcherInv, NEW g \in Loops, LoopExit(g) \/ LoopEnd(g)
    PROVE  WatcherInv'
<1> DEFINE l == IF LoopExit(g) THEN [Quiet EXCEPT !.pc = "closing"] ELSE Quiet
<1>1. /\ l \in LoopRec /\ l.pc \in {"closing", "gone"}
  BY NoFileIs, QuietIs DEF Quiet, LoopRec, LoopPcs
<1>2. /\ loop' = [loop EXCEPT ![g] = l] /\ loop[g].pc \in {"exit", "closing"}
      /\ UNCHANGED <<file, state, mu, caller>> /\ UNCHANGED <<debounce, watched>>
  BY DEF LoopExit, LoopEnd, Goto, To
<1>3. \/ stopped' = stopped \/ stopped = g
  BY DEF LoopExit, LoopEnd
<1> HIDE DEF l
<1>4. loop' \in [Loops -> LoopRec] /\ loop'[g] = l /\ \A k \in Loops : k # g => loop'[k] = loop[k]
  BY <1>1, <1>2 DEF WatcherInv, Rest, ThreadsOK
<1>5. ThreadsOK'
  BY <1>2, <1>4 DEF WatcherInv, Rest, ThreadsOK
<1>6. LoopsOK'
  BY <1>1, <1>3, <1>4 DEF WatcherInv, Rest, LoopsOK
<1>7. MuOK'
  BY <1>1, <1>2, <1>4 DEF WatcherInv, Rest, MuOK
<1>8. ReadsOK' /\ StoreOK'
  BY <1>1, <1>2, <1>4 DEF WatcherInv, Rest, ReadsOK, StoreOK, Past, state
<1>9. {done', stopped', watcher', gens'} \subseteq 0..MaxRuns
  BY DEF WatcherInv, TypeOK, LoopExit, LoopEnd, HtpasswdAssumption
<1>10. {signalled', ended', closed'} \subseteq SUBSET Loops
  <2>1. {watcher} \ {0} \subseteq Loops /\ {signalled, ended, closed} \subseteq SUBSET Loops
    BY DEF WatcherInv, TypeOK, Loops
  <2> QED BY <2>1 DEF LoopExit, LoopEnd
<1>11. debounce' \in BOOLEAN /\ watched' \in [Loops -> Paths \cup {NoPath}]
  BY <1>2 DEF WatcherInv, TypeOK
<1> QED BY <1>2, <1>5, <1>6, <1>7, <1>8, <1>9, <1>10, <1>11, LoopTypes DEF Rest

-----------------------------------------------------------------------------
\* The store is empty and nothing runs.
LEMMA InitInv ==
    ASSUME HtpasswdAssumption, Init
    PROVE  WatcherInv
<1>1. Quiet \in LoopRec /\ Quiet.pc = "gone" /\ Idle \in CallRec /\ Idle.pc = "idle"
  BY NoFileIs, IdleIs DEF Quiet, LoopRec, LoopPcs
<1>2. ThreadsOK
  BY <1>1 DEF Init, ThreadsOK
<1>3. TypeOK
  <2>1. /\ \A g \in Loops : loop[g].info \in Infos
        /\ \A c \in Callers : caller[c].info \in Infos
    BY <1>2 DEF ThreadsOK, LoopRec, CallRec
  <2>2. fileInfo \in Infos /\ creds \in Infos
    BY NoFileIs DEF Init
  <2>3. file \in [Paths -> [ver : 1..MaxWrites, there : BOOLEAN]]
    BY DEF Init, HtpasswdAssumption
  <2>4. watched \in [Loops -> Paths \cup {NoPath}]
    BY DEF Init
  <2>5. {done, stopped, watcher, gens} \subseteq 0..MaxRuns
    BY DEF Init, HtpasswdAssumption
  <2>6. /\ {signalled, ended, closed} \subseteq SUBSET Loops /\ debounce \in BOOLEAN
        /\ filePath \in Paths \cup {NoPath} /\ mu \in {Free} \cup Loops \cup Callers
    BY DEF Init
  <2> QED BY <2>1, <2>2, <2>3, <2>4, <2>5, <2>6 DEF TypeOK, Infos
<1>4. MuOK /\ ReadsOK /\ LoopsOK
  BY <1>1 DEF Init, MuOK, ReadsOK, LoopsOK, Free, Loops, HtpasswdAssumption
<1>5. StoreOK
  BY NoFileIs DEF Init, StoreOK, HtpasswdAssumption
<1> QED BY <1>2, <1>3, <1>4, <1>5 DEF WatcherInv, Rest

\* Every step keeps the invariant.
LEMMA NextInv ==
    ASSUME HtpasswdAssumption, WatcherInv, [Next]_vars
    PROVE  WatcherInv'
<1>1. ASSUME Files PROVE WatcherInv'
  BY <1>1, TouchKeeps DEF Files
<1>2. ASSUME NEW c \in Callers, Call(c) PROVE WatcherInv'
  BY <1>2, RunKeeps, NoneKeeps, ChangeKeeps, ChangeReadKeeps, CloseKeeps DEF Call, Finish
<1>3. ASSUME NEW g \in Loops, Loop(g) \/ LoopTick(g) \/ LoopError(g) PROVE WatcherInv'
  BY <1>3, MovesKeep, EventKeeps, RetryKeeps, TickKeeps, ReloadKeeps, ReadKeeps, RecordKeeps, ExitKeeps
     DEF Loop
<1>4. CASE UNCHANGED vars
  BY <1>4, RestStays DEF WatcherInv, TypeOK, vars, state, chans
<1> QED BY <1>1, <1>2, <1>3, <1>4 DEF Next

\* The invariant implies what the watcher promises.
LEMMA InvImplies ==
    ASSUME HtpasswdAssumption, WatcherInv
    PROVE  TypeOK /\ OneLoop /\ PathHonest /\ BaselineHonest
<1> DEFINE S == {g \in Loops : loop[g].pc \notin {"gone", "closing"}}
<1>1. S \subseteq {stopped}
  BY DEF WatcherInv, Rest, LoopsOK
<1>2. IsFiniteSet({stopped}) /\ Cardinality({stopped}) = 1
  BY FS_Singleton
<1>3. Cardinality(S) <= 1
  BY <1>1, <1>2, FS_Subset
<1>4. OneLoop
  BY <1>3 DEF OneLoop
<1> QED BY <1>4 DEF WatcherInv, Rest, StoreOK, PathHonest, BaselineHonest

\* Whatever calls of Run, ChangeFile and Close overlap, however the files change and whichever
\* events are lost: one loop at most can reload, the credentials are those of the path in force, and
\* the recorded fingerprint claims no version that was not read.
THEOREM WatcherSound ==
    HtpasswdAssumption => (Spec => [](TypeOK /\ OneLoop /\ PathHonest /\ BaselineHonest))
<1> SUFFICES ASSUME HtpasswdAssumption PROVE Spec => [](TypeOK /\ OneLoop /\ PathHonest /\ BaselineHonest)
  OBVIOUS
<1>1. Init => WatcherInv
  BY InitInv
<1>2. WatcherInv /\ [Next]_vars => WatcherInv'
  BY NextInv
<1>3. WatcherInv => TypeOK /\ OneLoop /\ PathHonest /\ BaselineHonest
  BY InvImplies
<1> QED BY <1>1, <1>2, <1>3, PTL DEF Spec
=============================================================================
