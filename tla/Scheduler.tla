----------------------------- MODULE Scheduler -----------------------------
(***************************************************************************)
(* The task scheduler: pkg/scheduler/scheduler.go.                         *)
(*                                                                         *)
(* Generators wait in a heap ordered by ranking.  A dispatcher goroutine   *)
(* lets the generator at the top make one task, which goes to the bounded  *)
(* queue of its priority, and hands the first task of the highest queue to *)
(* the workers through a bounded channel.  A generator that is not ready   *)
(* is taken off the heap to the waiting list and comes back once it is.    *)
(* Shutdown cancels the dispatcher and waits for the workers.              *)
(*                                                                         *)
(* A task is known by its generator.  The generators' own Next, IsReady    *)
(* and IsDone are an environment: each run makes Tasks[g] tasks, Next may  *)
(* fail, and the generator may ask for a delay after each task.            *)
(***************************************************************************)
EXTENDS Integers, FiniteSets, SequencesExt

CONSTANTS
    Gens,           \* the submitted generators
    Level,          \* the priority of each: 0 low, 1 medium, 2 high
    Periodic,       \* those submitted with an interval
    Delayed,        \* those whose IsReady waits after a task (GC, sync)
    Tasks,          \* how many tasks a run of each generator makes
    Workers,        \* the worker goroutines; NumWorkers is also the channel's capacity
    QueueCap,       \* rateLimiterScheduler, the capacity of a queue
    External,       \* a task that comes from SubmitTask
    None,
    MaxErrors,      \* bound on failing calls of Next
    MaxRuns,        \* bound on the intervals that pass
    MaxSubmits      \* bound on calls of SubmitTask

Levels == 0..2
NumWorkers == Cardinality(Workers)
Task == Gens \cup {External}

ASSUME ConstantsAssumption ==
    /\ Level \in [Gens -> Levels] /\ Tasks \in [Gens -> Nat]
    /\ Periodic \subseteq Gens /\ Delayed \subseteq Gens
    /\ IsFiniteSet(Workers) /\ Workers # {} /\ QueueCap \in Nat \ {0}
    /\ External \notin Gens /\ None \notin Task /\ "exited" \notin Task \cup {None}
    /\ MaxErrors \in Nat /\ MaxRuns \in Nat /\ MaxSubmits \in Nat

VARIABLES
    submitted,      \* the generators that were submitted so far
    heap,           \* generators: the array of the priority queue
    waiting,        \* waitingGenerators
    finished,       \* doneGenerators
    done, remaining, taskCount,     \* per generator: done, remainingTask # nil, taskCount
    ready, elapsed, todo,           \* its IsReady, its interval has passed, tasks left in its run
    queue,          \* tasksQLow, tasksQMedium, tasksQHigh
    workerChan, chanClosed,
    worker,         \* what each worker runs
    disp,           \* the dispatcher: where it is and what it holds
    shuttingDown, cancelled, metricsClosed,
    stopper,        \* the caller of Shutdown
    produced, executed,     \* per generator: tasks made by Next, tasks run (ghosts)
    errors, runs, submits

genVars  == <<submitted, heap, waiting, finished>>
genState == <<done, remaining, taskCount, ready, elapsed, todo, produced>>
poolVars == <<workerChan, chanClosed, worker, executed>>
stopVars == <<shuttingDown, cancelled, metricsClosed, stopper>>
bounds   == <<errors, runs, submits>>
vars == <<submitted, heap, waiting, finished, done, remaining, taskCount, ready, elapsed, todo, produced,
          queue, workerChan, chanClosed, worker, executed, disp, shuttingDown, cancelled,
          metricsClosed, stopper, errors, runs, submits>>

\* The dispatcher holds a generator it has popped, or a task to send.
DispStates == [pc: {"loop", "generate", "take", "exited"}, held: {None}]
              \cup [pc: {"popped"}, held: Gens] \cup [pc: {"send"}, held: Task]

\* Every variable holds a value of the kind the code gives it.
TypeOK ==
    /\ submitted \subseteq Gens
    /\ heap \in Seq(Gens) /\ waiting \in Seq(Gens) /\ finished \subseteq Gens
    /\ done \in [Gens -> BOOLEAN] /\ remaining \in [Gens -> BOOLEAN]
    /\ ready \in [Gens -> BOOLEAN] /\ elapsed \in [Gens -> BOOLEAN]
    /\ taskCount \in [Gens -> Nat] /\ todo \in [Gens -> Nat]
    /\ produced \in [Gens -> Nat] /\ executed \in [Gens -> Nat]
    /\ queue \in [Levels -> Seq(Task)]
    /\ workerChan \in Seq(Task) /\ chanClosed \in BOOLEAN
    /\ worker \in [Workers -> Task \cup {None, "exited"}]
    /\ disp \in DispStates
    /\ shuttingDown \in BOOLEAN /\ cancelled \in BOOLEAN /\ metricsClosed \in Nat
    /\ stopper \in {"none", "store", "cancel", "close", "wait", "returned"}
    /\ errors \in Nat /\ runs \in Nat /\ submits \in Nat

-----------------------------------------------------------------------------
(* The priority queue: container/heap over getRanking, 10^priority over one  *)
(* plus the number of tasks of the run.                                      *)

Less(g, h, count) == 10^Level[g] * (1 + count[h]) > 10^Level[h] * (1 + count[g])

SwapAt(s, i, j) == [s EXCEPT ![i] = s[j], ![j] = s[i]]

\* The positions from j up to the root of the array, and those that the generator at the
\* root sinks through: always the better child, as long as it is better.
ClosedUp(S, j) == j \in S /\ \A i \in S \ {1} : i \div 2 \in S
PathUp(j) == {i \in 1..j : \A S \in SUBSET (1..j) : ClosedUp(S, j) => i \in S}
PathDown(s, count) ==
    LET Better(i) == IF i % 2 = 1 THEN Less(s[i], s[i - 1], count)
                     ELSE ~(i < Len(s) /\ Less(s[i + 1], s[i], count))
    IN  {j \in DOMAIN s : \A i \in PathUp(j) \ {1} : Better(i) /\ Less(s[i], s[1], count)}

\* heap.up and heap.down: the generator takes its place and those it passes move by one.
Up(s, j, count) ==
    LET k == Min({i \in PathUp(j) : \A h \in PathUp(j) : i <= h /\ h < j => Less(s[j], s[h], count)})
    IN  [i \in DOMAIN s |-> IF i = k THEN s[j]
                            ELSE IF i \in PathUp(j) /\ i > k THEN s[i \div 2] ELSE s[i]]
Down(s, count) ==
    LET path == PathDown(s, count)
    IN  [i \in DOMAIN s |-> IF i \notin path THEN s[i]
                            ELSE IF i = Max(path) THEN s[1] ELSE s[Min({j \in path : j > i})]]

HeapPush(s, g, count) == Up(Append(s, g), Len(s) + 1, count)
HeapPop(s, count)     == Down(Front(SwapAt(s, 1, Len(s))), count)
HeapFix(s, count)     == Down(s, count)

-----------------------------------------------------------------------------
(* Generators.                                                               *)

\* MUTANT: a periodic generator is done after its first run.
StateOnce(g) ==
    IF done[g] /\ ~remaining[g] THEN "done"
    ELSE IF g \in Periodic /\ done[g] /\ ~elapsed[g] /\ ~remaining[g] THEN "waiting"
    ELSE IF ready[g] THEN "ready" ELSE "waiting"

\* generator.getState.
State(g) ==
    IF g \notin Periodic /\ done[g] /\ ~remaining[g] THEN "done"
    ELSE IF g \in Periodic /\ done[g] /\ ~elapsed[g] /\ ~remaining[g] THEN "waiting"
    ELSE IF ready[g] THEN "ready" ELSE "waiting"

\* The clock: the interval of a periodic generator or its delay is over, at any time, also
\* between two calls of getState.
Elapse(g) ==
    /\ g \in Periodic /\ done[g] /\ ~elapsed[g]
    /\ runs < MaxRuns /\ runs' = runs + 1
    /\ elapsed' = [elapsed EXCEPT ![g] = TRUE]
    /\ UNCHANGED <<genVars, done, remaining, taskCount, ready, todo, produced, queue, poolVars,
                   disp, stopVars, errors, submits>>
BecomeReady(g) ==
    /\ ~ready[g]
    /\ ready' = [ready EXCEPT ![g] = TRUE]
    /\ UNCHANGED <<genVars, done, remaining, taskCount, elapsed, todo, produced, queue, poolVars,
                   disp, stopVars, bounds>>

\* generator.generate, once the heap has been put in order.  Next fails and leaves all as
\* it was, ...
NextFails(g) ==
    /\ ~remaining[g]
    /\ errors < MaxErrors /\ errors' = errors + 1
    /\ UNCHANGED <<genState, queue>>

\* ... or the generator has no task left and is reset for its next run, ...
GenerateDone(g) ==
    /\ ~remaining[g] /\ todo[g] = 0
    /\ done' = [done EXCEPT ![g] = TRUE]
    /\ elapsed' = [elapsed EXCEPT ![g] = FALSE]
    /\ taskCount' = [taskCount EXCEPT ![g] = 0]
    /\ todo' = [todo EXCEPT ![g] = Tasks[g]]
    /\ UNCHANGED <<remaining, ready, produced, queue, errors>>

\* MUTANT: the task that found no room is forgotten.
GenerateTaskDropped(g) ==
    LET fits == Len(queue[Level[g]]) < QueueCap
    IN  /\ remaining[g] \/ todo[g] > 0
        /\ IF remaining[g]
             THEN UNCHANGED <<todo, produced, ready>>
             ELSE /\ todo' = [todo EXCEPT ![g] = @ - 1]
                  /\ produced' = [produced EXCEPT ![g] = @ + 1]
                  /\ \E r \in (IF g \in Delayed THEN {TRUE, FALSE} ELSE {TRUE}) :
                       ready' = [ready EXCEPT ![g] = r]
        /\ taskCount' = [taskCount EXCEPT ![g] = @ + 1]
        /\ remaining' = [remaining EXCEPT ![g] = FALSE]
        /\ queue' = IF fits THEN [queue EXCEPT ![Level[g]] = Append(@, g)] ELSE queue
        /\ UNCHANGED <<done, elapsed, errors>>

\* ... or there is a task, which is kept for the next time if its queue is full.
GenerateTask(g) ==
    LET fits == Len(queue[Level[g]]) < QueueCap
    IN  /\ remaining[g] \/ todo[g] > 0
        /\ IF remaining[g]
             THEN UNCHANGED <<todo, produced, ready>>
             ELSE /\ todo' = [todo EXCEPT ![g] = @ - 1]
                  /\ produced' = [produced EXCEPT ![g] = @ + 1]
                  /\ \E r \in (IF g \in Delayed THEN {TRUE, FALSE} ELSE {TRUE}) :
                       ready' = [ready EXCEPT ![g] = r]
        /\ taskCount' = [taskCount EXCEPT ![g] = @ + 1]
        /\ remaining' = [remaining EXCEPT ![g] = ~fits]
        /\ queue' = IF fits THEN [queue EXCEPT ![Level[g]] = Append(@, g)] ELSE queue
        /\ UNCHANGED <<done, elapsed, errors>>

\* pushReadyGenerators: the first generator of the list that is ready goes back to the
\* heap, and the list is gone through again.
ReadyToGo(i) == State(waiting[i]) = "ready"
FirstReady(i) == ReadyToGo(i) /\ \A k \in 1..(i - 1) : ~ReadyToGo(k)

PushReady(i) ==
    /\ disp.pc = "generate" /\ FirstReady(i)
    /\ done' = [done EXCEPT ![waiting[i]] = FALSE]
    /\ heap' = HeapPush(heap, waiting[i], taskCount)
    /\ waiting' = RemoveAt(waiting, i)
    /\ UNCHANGED <<submitted, finished, remaining, taskCount, ready, elapsed, todo, produced, queue, poolVars,
                   disp, stopVars, bounds>>
NothingToPush == \A i \in DOMAIN waiting : ~ReadyToGo(i)

\* generateTasks with a ready generator at the top: the heap is put in order first, with
\* the counts the previous tasks have left.
Generate ==
    /\ disp.pc = "generate" /\ NothingToPush
    /\ heap # <<>> /\ State(heap[1]) = "ready"
    /\ heap' = HeapFix(heap, taskCount)
    /\ NextFails(heap[1]) \/ GenerateDone(heap[1]) \/ GenerateTask(heap[1])
    /\ disp' = [disp EXCEPT !.pc = "take"]
    /\ UNCHANGED <<submitted, waiting, finished, poolVars, stopVars, runs, submits>>

GenerateNothing ==
    /\ disp.pc = "generate" /\ NothingToPush
    /\ heap = <<>>
    /\ disp' = [disp EXCEPT !.pc = "take"]
    /\ UNCHANGED <<genVars, genState, queue, poolVars, stopVars, bounds>>

\* The generator at the top is not ready: it is popped, and its state is asked again.
PopTop ==
    /\ disp.pc = "generate" /\ NothingToPush
    /\ heap # <<>> /\ State(heap[1]) # "ready"
    /\ heap' = HeapPop(heap, taskCount)
    /\ disp' = [pc |-> "popped", held |-> heap[1]]
    /\ UNCHANGED <<submitted, waiting, finished, genState, queue, poolVars, stopVars, bounds>>

File ==
    /\ disp.pc = "popped"
    /\ waiting' = IF State(disp.held) = "waiting" THEN Append(waiting, disp.held) ELSE waiting
    /\ finished' = IF State(disp.held) = "done" THEN finished \cup {disp.held} ELSE finished
    /\ disp' = [pc |-> "take", held |-> None]
    /\ UNCHANGED <<submitted, heap, genState, queue, poolVars, stopVars, bounds>>

-----------------------------------------------------------------------------
(* The dispatcher's loop.                                                    *)

\* MUTANT: off by one in the test for room in the channel.
LoopOffByOne ==
    /\ disp.pc = "loop" /\ ~cancelled
    /\ Len(workerChan) <= NumWorkers
    /\ disp' = [disp EXCEPT !.pc = "generate"]
    /\ UNCHANGED <<genVars, genState, queue, poolVars, stopVars, bounds>>

Loop ==
    /\ disp.pc = "loop" /\ ~cancelled
    /\ Len(workerChan) < NumWorkers
    /\ disp' = [disp EXCEPT !.pc = "generate"]
    /\ UNCHANGED <<genVars, genState, queue, poolVars, stopVars, bounds>>

\* getTask: the oldest task of the highest queue that has one.
HighestTask(l) == queue[l] # <<>> /\ \A k \in Levels : k > l => queue[k] = <<>>
Take ==
    /\ disp.pc = "take"
    /\ \/ /\ \A l \in Levels : queue[l] = <<>>
          /\ disp' = [disp EXCEPT !.pc = "loop"]
          /\ UNCHANGED queue
       \/ \E l \in Levels :
          /\ HighestTask(l)
          /\ disp' = [pc |-> "send", held |-> Head(queue[l])]
          /\ queue' = [queue EXCEPT ![l] = Tail(@)]
    /\ UNCHANGED <<genVars, genState, poolVars, stopVars, bounds>>

Send ==
    /\ disp.pc = "send"
    /\ workerChan' = Append(workerChan, disp.held)
    /\ disp' = [pc |-> "loop", held |-> None]
    /\ UNCHANGED <<genVars, genState, queue, chanClosed, worker, executed, stopVars, bounds>>

\* The context is cancelled: the channel is closed, and so is metricsChan if nobody has
\* begun to shut down.
Stop ==
    /\ disp.pc = "loop" /\ cancelled
    /\ disp' = [disp EXCEPT !.pc = "exited"]
    /\ chanClosed' = TRUE
    /\ shuttingDown' = TRUE
    /\ metricsClosed' = IF shuttingDown THEN metricsClosed ELSE metricsClosed + 1
    /\ UNCHANGED <<genVars, genState, queue, workerChan, worker, executed, cancelled, stopper, bounds>>

\* SubmitTask: the task is dropped, without a word, if its queue is full.
SubmitTask(l) ==
    /\ ~shuttingDown
    /\ submits < MaxSubmits /\ submits' = submits + 1
    /\ queue' = IF Len(queue[l]) < QueueCap THEN [queue EXCEPT ![l] = Append(@, External)] ELSE queue
    /\ UNCHANGED <<genVars, genState, poolVars, disp, stopVars, errors, runs>>

\* SubmitGenerator waits for generatorsLock, which the dispatcher holds while it generates.
SubmitGenerator(g) ==
    /\ disp.pc \notin {"generate", "popped"}
    /\ g \notin submitted /\ submitted' = submitted \cup {g}
    /\ heap' = HeapPush(heap, g, taskCount)
    /\ UNCHANGED <<waiting, finished, genState, queue, poolVars, disp, stopVars, bounds>>

-----------------------------------------------------------------------------
(* The workers.                                                              *)

WorkerTake(w) ==
    /\ worker[w] = None /\ workerChan # <<>>
    /\ worker' = [worker EXCEPT ![w] = Head(workerChan)]
    /\ workerChan' = Tail(workerChan)
    /\ UNCHANGED <<genVars, genState, queue, chanClosed, executed, disp, stopVars, bounds>>

\* MUTANT: a worker whose task has failed leaves.
WorkerDoneLeaves(w) ==
    /\ worker[w] \in Task
    /\ executed' = IF worker[w] \in Gens THEN [executed EXCEPT ![worker[w]] = @ + 1] ELSE executed
    /\ \E failed \in BOOLEAN : worker' = [worker EXCEPT ![w] = IF failed THEN "exited" ELSE None]
    /\ UNCHANGED <<genVars, genState, queue, workerChan, chanClosed, disp, stopVars, bounds>>

\* DoWork returns; an error is only logged.
WorkerDone(w) ==
    /\ worker[w] \in Task
    /\ executed' = IF worker[w] \in Gens THEN [executed EXCEPT ![worker[w]] = @ + 1] ELSE executed
    /\ worker' = [worker EXCEPT ![w] = None]
    /\ UNCHANGED <<genVars, genState, queue, workerChan, chanClosed, disp, stopVars, bounds>>

\* MUTANT: a worker leaves as soon as the channel is closed.
WorkerExitEarly(w) ==
    /\ worker[w] = None /\ chanClosed
    /\ worker' = [worker EXCEPT ![w] = "exited"]
    /\ UNCHANGED <<genVars, genState, queue, workerChan, chanClosed, executed, disp, stopVars, bounds>>

WorkerExit(w) ==
    /\ worker[w] = None /\ chanClosed /\ workerChan = <<>>
    /\ worker' = [worker EXCEPT ![w] = "exited"]
    /\ UNCHANGED <<genVars, genState, queue, workerChan, chanClosed, executed, disp, stopVars, bounds>>

-----------------------------------------------------------------------------
(* Shutdown.                                                                 *)

ShutdownCall ==
    /\ stopper = "none"
    /\ stopper' = IF shuttingDown THEN "wait" ELSE "store"
    /\ UNCHANGED <<genVars, genState, queue, poolVars, disp, shuttingDown, cancelled,
                   metricsClosed, bounds>>

ShutdownStore ==
    /\ stopper = "store" /\ stopper' = "cancel"
    /\ shuttingDown' = TRUE
    /\ UNCHANGED <<genVars, genState, queue, poolVars, disp, cancelled, metricsClosed, bounds>>

ShutdownCancel ==
    /\ stopper = "cancel" /\ stopper' = "close"
    /\ cancelled' = TRUE
    /\ UNCHANGED <<genVars, genState, queue, poolVars, disp, shuttingDown, metricsClosed, bounds>>

ShutdownClose ==
    /\ stopper = "close" /\ stopper' = "wait"
    /\ metricsClosed' = metricsClosed + 1
    /\ UNCHANGED <<genVars, genState, queue, poolVars, disp, shuttingDown, cancelled, bounds>>

\* workerWg.Wait.
ShutdownReturn ==
    /\ stopper = "wait" /\ \A w \in Workers : worker[w] = "exited"
    /\ stopper' = "returned"
    /\ UNCHANGED <<genVars, genState, queue, poolVars, disp, shuttingDown, cancelled,
                   metricsClosed, bounds>>

-----------------------------------------------------------------------------
Init ==
    /\ submitted = {} /\ heap = <<>> /\ waiting = <<>> /\ finished = {}
    /\ done = [g \in Gens |-> FALSE] /\ remaining = [g \in Gens |-> FALSE]
    /\ ready = [g \in Gens |-> TRUE] /\ elapsed = [g \in Gens |-> FALSE]
    /\ taskCount = [g \in Gens |-> 0] /\ todo = Tasks
    /\ produced = [g \in Gens |-> 0] /\ executed = [g \in Gens |-> 0]
    /\ queue = [l \in Levels |-> <<>>]
    /\ workerChan = <<>> /\ chanClosed = FALSE
    /\ worker = [w \in Workers |-> None]
    /\ disp = [pc |-> "loop", held |-> None]
    /\ shuttingDown = FALSE /\ cancelled = FALSE /\ metricsClosed = 0
    /\ stopper = "none"
    /\ errors = 0 /\ runs = 0 /\ submits = 0

Clock      == \E g \in Gens : Elapse(g) \/ BecomeReady(g)
Submit     == (\E g \in Gens : SubmitGenerator(g)) \/ (\E l \in Levels : SubmitTask(l))
Dispatcher == \/ Loop \/ (\E i \in DOMAIN waiting : PushReady(i)) \/ Generate \/ GenerateNothing \/ PopTop \/ File
              \/ Take \/ Send \/ Stop
Work(w)    == WorkerTake(w) \/ WorkerDone(w) \/ WorkerExit(w)
Shutdown   == ShutdownStore \/ ShutdownCancel \/ ShutdownClose \/ ShutdownReturn

\* The scheduler has stopped; anything else that cannot move is a deadlock.
Stopped == stopper = "returned" /\ UNCHANGED vars

Next == \/ Clock \/ Submit \/ Dispatcher \/ (\E w \in Workers : Work(w))
        \/ ShutdownCall \/ Shutdown \/ Stopped

Spec == Init /\ [][Next]_vars

\* Every goroutine goes on, DoWork returns, and delays are finite.
FairSpec == /\ Spec
            /\ WF_vars(Dispatcher) /\ WF_vars(Shutdown)
            /\ \A w \in Workers : WF_vars(Work(w))
            /\ \A g \in Delayed : SF_vars(BecomeReady(g))

-----------------------------------------------------------------------------
(* Properties.                                                               *)

InSeq(s, t) == Cardinality({i \in DOMAIN s : s[i] = t})

\* where a generator can be: in one of the three lists, or in the dispatcher's hands
Placed(g) ==
    \/ Contains(heap, g) \/ Contains(waiting, g) \/ g \in finished
    \/ disp.pc = "popped" /\ disp.held = g

\* A submitted generator is in one of its places: "if the generator is periodic then it can be
\* waiting [...] or ready to generate a new task", and never done.
GeneratorsKept == finished \cap Periodic = {} /\ \A g \in submitted : Placed(g)

\* What generateTasks can lose: the generator it has popped because it was not ready, and which
\* is ready when getState is asked again.
Ripened(g) == disp.pc = "popped" /\ disp.held = g /\ State(g) = "ready"

\* The race of the two calls of getState is the only way out. Whatever the clock does, a
\* generator without an interval or a delay is in one of its places from its submission on, a
\* periodic one is never given up as done, and no step takes a generator out of its places but
\* for one that ripened in the dispatcher's hands.
GeneratorsTraced ==
    /\ [](/\ finished \cap Periodic = {}
         /\ \A g \in submitted \ (Periodic \cup Delayed) : Placed(g))
    /\ [][\A g \in submitted : Placed(g) /\ ~Ripened(g) => Placed(g)']_vars

Kept(g)    == IF remaining[g] THEN 1 ELSE 0
InHand(g)  == IF disp.pc = "send" /\ disp.held = g THEN 1 ELSE 0
Running(g) == Cardinality({w \in Workers : worker[w] = g})

\* Every task that Next made is in exactly one place until it has run, once.
TasksConserved ==
    \A g \in Gens :
        produced[g] = executed[g] + Kept(g) + InSeq(queue[Level[g]], g) + InHand(g)
                      + InSeq(workerChan, g) + Running(g)

\* The dispatcher never blocks on sending a task to the workers.
NeverBlocks == disp.pc \in {"generate", "popped", "take", "send"} => Len(workerChan) < NumWorkers

\* metricsChan is closed once: closing it twice would panic.
MetricsClosedOnce == metricsClosed <= 1

\* "It will wait for all tasks being run to finish their work before exiting": when
\* Shutdown returns no worker runs and no task that was handed out has been left behind.
Drained ==
    stopper = "returned" => /\ workerChan = <<>> /\ disp.pc = "exited"
                            /\ \A w \in Workers : worker[w] = "exited"

\* However the calls of Shutdown, the dispatcher and the workers interleave, Shutdown returns
\* only when all that was handed out has run, and metricsChan is closed once.
ShutdownClean == Drained /\ MetricsClosedOnce

=============================================================================
