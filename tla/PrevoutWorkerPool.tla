--------------------------- MODULE PrevoutWorkerPool ---------------------------
(***************************************************************************)
(* The pool of worker threads that look up prevouts                        *)
(* (src/infra/prevoutWorkerPool.js, prevoutWorker.js).  The main thread    *)
(* handles one event at a time; every thread runs on its own and reports   *)
(* through a port that keeps the order of its events and delivers them all *)
(* before its exit.  The indexer makes one fetchMany call at a time, and   *)
(* may destroy the pool at any moment.                                     *)
(*                                                                         *)
(* A promise that settles is abstracted to the fact that it has settled:   *)
(* fetchMany turns a rejection into a result.  Definitions ending in       *)
(* _Fault are plausible mistakes in the definition that follows them.      *)
(***************************************************************************)
EXTENDS Integers, Sequences, FiniteSets, SequencesExt

CONSTANTS
  Worker,      \* every thread the pool may ever create
  Size,        \* how many threads it runs
  MaxTasks,    \* bound: how many tasks are submitted
  MaxDeaths    \* bound: how many threads die on their own

ASSUME SizeAssumption == Size \in Nat \ {0}
ASSUME WorkerAssumption ==
  IsFiniteSet(Worker) /\ Cardinality(Worker) >= Size + MaxDeaths
ASSUME BoundsAssumption == MaxTasks \in Nat /\ MaxDeaths \in Nat

VARIABLES
  thread,      \* a thread: "none", "starting", "running", "exited", "gone"
  events,      \* what a thread has reported and the pool has not handled
  inbox,       \* the tasks posted to a thread and not answered
  workers,     \* this.workers
  idle,        \* this.idleWorkers
  queue,       \* this.queue, as task ids
  tasks,       \* the keys of this.tasks
  current,     \* this.workerState: the task of a worker, 0 for null
  nextTaskId,  \* this.nextTaskId
  destroyed,   \* this.destroyed
  terminated,  \* the workers terminate() was called on
  closed,      \* destroy() has returned
  waiting,     \* the tasks the fetchMany call in progress still waits for
  deaths,      \* how many threads have died on their own
  unspawned,   \* history: how many exited threads could not be replaced
  lost         \* history: the tasks whose worker exited before it answered

vars == <<thread, events, inbox, workers, idle, queue, tasks, current, nextTaskId,
          destroyed, terminated, closed, waiting, deaths, unspawned, lost>>

Task == 1..MaxTasks
Online == [type |-> "online", id |-> 0]
Exit == [type |-> "exit", id |-> 0]
Reply(t) == [type |-> "message", id |-> t]

\* The constructor and init(): Size threads are created.
Init ==
  /\ workers \in SUBSET Worker /\ Cardinality(workers) = Size
  /\ thread = [w \in Worker |-> IF w \in workers THEN "starting" ELSE "none"]
  /\ events = [w \in Worker |-> <<>>]
  /\ inbox = [w \in Worker |-> {}]
  /\ idle = <<>> /\ queue = <<>> /\ tasks = {}
  /\ current = [w \in Worker |-> 0]
  /\ nextTaskId = 0
  /\ destroyed = FALSE /\ terminated = {} /\ closed = FALSE
  /\ waiting = {}
  /\ deaths = 0 /\ unspawned = 0 /\ lost = {}

-----------------------------------------------------------------------------
(* The threads. *)

ThreadStarts(w) ==
  /\ thread[w] = "starting"
  /\ thread' = [thread EXCEPT ![w] = "running"]
  /\ events' = [events EXCEPT ![w] = Append(@, Online)]
  /\ UNCHANGED <<inbox, workers, idle, queue, tasks, current, nextTaskId, destroyed,
                 terminated, closed, waiting, deaths, unspawned, lost>>

\* The worker's message handler answers a task, with a prevout or an error.
WorkerReplies(w) ==
  /\ thread[w] = "running"
  /\ \E t \in inbox[w] :
        /\ inbox' = [inbox EXCEPT ![w] = @ \ {t}]
        /\ events' = [events EXCEPT ![w] = Append(@, Reply(t))]
  /\ UNCHANGED <<thread, workers, idle, queue, tasks, current, nextTaskId, destroyed,
                 terminated, closed, waiting, deaths, unspawned, lost>>

\* A thread ends: an uncaught error, or terminate().
WorkerEnds(w) ==
  /\ thread[w] \in {"starting", "running"}
  /\ thread' = [thread EXCEPT ![w] = "exited"]
  /\ events' = [events EXCEPT ![w] = Append(@, Exit)]
  /\ inbox' = [inbox EXCEPT ![w] = {}]
  /\ \/ w \in terminated /\ UNCHANGED deaths
     \/ w \notin terminated /\ deaths < MaxDeaths /\ deaths' = deaths + 1
  /\ UNCHANGED <<workers, idle, queue, tasks, current, nextTaskId, destroyed,
                 terminated, closed, waiting, unspawned, lost>>

-----------------------------------------------------------------------------
(* The pool. *)

\* Fault: the task is read from the queue and not taken off it.
Dispatch_Fault(free, jobs, cur) ==
  LET n == IF Len(free) < Len(jobs) THEN Len(free) ELSE Len(jobs)
      Given(w) == {jobs[i] : i \in {j \in 1..n : free[j] = w}}
  IN
  /\ idle' = SubSeq(free, n + 1, Len(free))
  /\ queue' = jobs
  /\ inbox' = [w \in Worker |-> IF thread[w] = "exited" THEN {} ELSE inbox[w] \cup Given(w)]
  /\ current' = [w \in Worker |->
        IF Given(w) = {} THEN cur[w] ELSE CHOOSE t \in Given(w) : \A u \in Given(w) : u <= t]

\* dispatch(): idle workers, in order, get the queued tasks, in order.
Dispatch(free, jobs, cur) ==
  LET n == IF Len(free) < Len(jobs) THEN Len(free) ELSE Len(jobs)
      Given(w) == {jobs[i] : i \in {j \in 1..n : free[j] = w}}
  IN
  /\ idle' = SubSeq(free, n + 1, Len(free))
  /\ queue' = SubSeq(jobs, n + 1, Len(jobs))
  /\ inbox' = [w \in Worker |-> IF thread[w] = "exited" THEN {} ELSE inbox[w] \cup Given(w)]
  /\ current' = [w \in Worker |->
        IF Given(w) = {} THEN cur[w] ELSE CHOOSE t \in Given(w) : \A u \in Given(w) : u <= t]

\* runTask() numbers the tasks.
NewIds(n) == [i \in 1..n |-> nextTaskId + i]

\* fetchMany(): runTask for every item, in one go.
FetchMany(n) ==
  /\ ~destroyed
  /\ waiting = {}
  /\ nextTaskId + n <= MaxTasks
  /\ nextTaskId' = nextTaskId + n
  /\ tasks' = tasks \cup (nextTaskId + 1)..(nextTaskId + n)
  /\ waiting' = (nextTaskId + 1)..(nextTaskId + n)
  /\ Dispatch(idle, queue \o NewIds(n), current)
  /\ UNCHANGED <<thread, events, workers, destroyed, terminated, closed,
                 deaths, unspawned, lost>>

Handles(w, type) ==
  /\ events[w] # <<>> /\ Head(events[w]).type = type
  /\ events' = [events EXCEPT ![w] = Tail(@)]

\* Fault: a worker that comes up is not given the work that waits.
HandleOnline_Fault(w) ==
  /\ Handles(w, "online")
  /\ idle' = Append(idle, w)
  /\ UNCHANGED <<inbox, queue, current, terminated>>
  /\ UNCHANGED <<thread, workers, tasks, nextTaskId, destroyed, closed, waiting,
                 deaths, unspawned, lost>>

HandleOnline(w) ==
  /\ Handles(w, "online")
  /\ \/ /\ ~destroyed
        /\ Dispatch(Append(idle, w), queue, current)
        /\ UNCHANGED terminated
     \/ /\ destroyed
        /\ terminated' = terminated \cup {w}
        /\ UNCHANGED <<inbox, idle, queue, current>>
  /\ UNCHANGED <<thread, workers, tasks, nextTaskId, destroyed, closed, waiting,
                 deaths, unspawned, lost>>

\* The answer settles its task, unless destroy() has done so.
HandleMessage(w) ==
  LET id == Head(events[w]).id
  IN
  /\ Handles(w, "message")
  /\ \/ /\ id \notin tasks
        /\ UNCHANGED <<inbox, idle, queue, tasks, current, waiting>>
     \/ /\ id \in tasks
        /\ tasks' = tasks \ {id}
        /\ waiting' = waiting \ {id}
        /\ Dispatch(Append(idle, w), queue, [current EXCEPT ![w] = 0])
  /\ UNCHANGED <<thread, workers, nextTaskId, destroyed, terminated, closed,
                 deaths, unspawned, lost>>

\* removeWorker() and spawnWorker(): w leaves the pool, the threads in `new' join.
Replace(w, new) ==
  /\ workers' = (workers \ {w}) \cup new
  /\ thread' = [v \in Worker |-> IF v = w THEN "gone" ELSE IF v \in new THEN "starting" ELSE thread[v]]
  /\ idle' = RemoveFirst(idle, w)
  /\ current' = [current EXCEPT ![w] = 0]

\* The threads that may take the place of one that exited.
Fresh == {{v} : v \in {x \in Worker : thread[x] = "none"}}

\* Fault: a thread takes its place even while the pool is being destroyed.
Successors_AlwaysFault == IF Fresh = {} THEN {{}} ELSE Fresh

\* spawnWorker() creates nothing once the pool is destroyed. It may also fail to
\* create a thread: handleExit() logs that, and the pool stays smaller.
Successors == IF destroyed THEN {{}} ELSE {{}} \cup Fresh

\* handleExit(): the worker's state is removed before its task is looked up,
\* so the task it was working on is neither rejected nor queued again.
HandleExit(w) ==
  /\ Handles(w, "exit")
  /\ \E new \in Successors :
       /\ Replace(w, new)
       /\ unspawned' = IF ~destroyed /\ new = {} THEN unspawned + 1 ELSE unspawned
  /\ lost' = lost \cup ({current[w]} \cap tasks)
  /\ UNCHANGED <<inbox, queue, tasks, nextTaskId, destroyed, terminated, closed, waiting, deaths>>

\* destroy() up to its await: every task is rejected, every thread terminated.
Destroy ==
  /\ ~destroyed
  /\ destroyed' = TRUE
  /\ queue' = <<>>
  /\ tasks' = {}
  /\ waiting' = waiting \ tasks
  /\ terminated' = workers
  /\ UNCHANGED <<thread, events, inbox, workers, idle, current, nextTaskId, closed,
                 deaths, unspawned, lost>>

\* Every terminate() has settled.
DestroyDone ==
  /\ destroyed /\ ~closed
  /\ \A w \in terminated : thread[w] = "gone"
  /\ closed' = TRUE
  /\ workers' = {} /\ idle' = <<>>
  /\ current' = [w \in Worker |-> 0]
  /\ UNCHANGED <<thread, events, inbox, queue, tasks, nextTaskId, destroyed, terminated, waiting,
                 deaths, unspawned, lost>>

-----------------------------------------------------------------------------

ThreadStep(w) == ThreadStarts(w) \/ WorkerReplies(w) \/ WorkerEnds(w)
Handle(w) == HandleOnline(w) \/ HandleMessage(w) \/ HandleExit(w)

Next ==
  \/ \E w \in Worker : ThreadStep(w) \/ Handle(w)
  \/ \E n \in Task : FetchMany(n)
  \/ Destroy
  \/ DestroyDone

Spec == Init /\ [][Next]_vars

\* Threads start and answer (the RPC has a timeout), and the event loop
\* delivers what they report.  Nobody has to die or to destroy the pool, and
\* a thread that died need not be replaced.
Fairness ==
  \A w \in Worker :
    /\ WF_vars(ThreadStarts(w))
    /\ WF_vars(WorkerReplies(w))
    /\ WF_vars(Handle(w))

FairSpec == Spec /\ Fairness

-----------------------------------------------------------------------------
(* Safety. *)

TypeOK ==
  /\ thread \in [Worker -> {"none", "starting", "running", "exited", "gone"}]
  /\ \A w \in Worker :
        /\ events[w] \in Seq([type : {"online", "message", "exit"}, id : 0..MaxTasks])
        /\ inbox[w] \subseteq Task
  /\ workers \subseteq Worker /\ terminated \subseteq Worker
  /\ idle \in Seq(Worker) /\ queue \in Seq(Task)
  /\ tasks \subseteq Task /\ waiting \subseteq Task /\ lost \subseteq Task
  /\ current \in [Worker -> 0..MaxTasks]
  /\ nextTaskId \in 0..MaxTasks
  /\ destroyed \in BOOLEAN /\ closed \in BOOLEAN
  /\ deaths \in 0..MaxDeaths /\ unspawned \in 0..Size

\* What a worker still has to answer, or has answered unheard.
Outstanding(w) ==
  inbox[w] \cup {events[w][i].id : i \in {j \in DOMAIN events[w] : events[w][j].type = "message"}}

\* Whatever order replies, exits and calls come in, a pending task is in one
\* place only (the queue, one worker, or lost with a worker that exited), and
\* a worker has no task but the one the pool knows of (dispatch,
\* handleMessage, handleExit).
OnePlacePerTask ==
  /\ \A t \in tasks :
        Cardinality({i \in DOMAIN queue : queue[i] = t})
          + Cardinality({w \in workers : current[w] = t})
          + Cardinality({t} \cap lost) = 1
  /\ \A w \in workers : Outstanding(w) \subseteq {current[w]}

\* A worker that is offered work belongs to the pool, is offered once, and has
\* no task: it will not get a second one before it has answered the first.
IdleIsFree ==
  \A i \in DOMAIN idle :
    /\ idle[i] \in workers
    /\ current[idle[i]] = 0 /\ Outstanding(idle[i]) = {}
    /\ \A j \in DOMAIN idle : idle[i] = idle[j] => i = j

\* No task waits while a worker is idle.
WorkConserving == ~destroyed => idle = <<>> \/ queue = <<>>

\* The pool is short of exactly the workers whose respawn failed, and it never
\* runs more threads than configured: however deaths, respawns and failures
\* come, none is replaced twice and none is forgotten.
ShortOfTheUnspawned ==
  /\ ~destroyed => Cardinality(workers) + unspawned = Size
  /\ Cardinality({w \in Worker : thread[w] \in {"starting", "running"}}) <= Size

\* Threads, tasks and the queue always agree: the five parts above
\* (prevoutWorkerPool.js:47-178).
PoolInvariant ==
  /\ TypeOK
  /\ OnePlacePerTask
  /\ IdleIsFree
  /\ WorkConserving
  /\ ShortOfTheUnspawned

\* Nothing survives destroy(): no caller still waits once it has begun, and no
\* thread runs once it has returned, even if a worker died, was respawned or
\* came up while the pool was being destroyed.
DestroyIsFinal ==
  /\ destroyed => waiting = {}
  /\ closed => \A w \in Worker : thread[w] \in {"none", "gone"}

-----------------------------------------------------------------------------
(* Liveness. *)

\* A fetchMany call returns, unless a worker died with a task, or every worker
\* died and none could be replaced: one is enough to serve the queue.
CallReturns == waiting # {} ~> (waiting = {} \/ lost # {} \/ unspawned = Size)

-----------------------------------------------------------------------------
(* What the code says, and does not do. *)

\* A task whose worker exited is rejected: as long as it is pending, it waits
\* in the queue or a worker of the pool has it.
TaskHasOwner ==
  \A t \in tasks :
    (\E i \in DOMAIN queue : queue[i] = t) \/ (\E w \in workers : current[w] = t)

=============================================================================
