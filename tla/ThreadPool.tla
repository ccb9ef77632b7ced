------------------------------ MODULE ThreadPool ------------------------------
(***************************************************************************)
(* thread/thread_pool.cpp, worker.cpp and scheduler.cpp as ErizoController *)
(* uses them: a fixed number of workers, each one thread that runs the     *)
(* tasks posted to its io_service, and a scheduler whose service threads   *)
(* wait for tasks with a date.  Nobody gives the scheduler any, so that    *)
(* its queue stays empty.                                                  *)
(***************************************************************************)
EXTENDS Integers, Sequences

CONSTANTS
    NumWorkers,     \* Config::erizo_controller_worker_num
    Service,        \* the threads of the scheduler: kNumThreadsPerScheduler
    Kind            \* what a task does

ASSUME PoolAssumption == NumWorkers \in Nat \ {0}

VARIABLES
    pool,           \* the unique_ptr: not set yet, set, or reset
    worker,         \* where the thread of each worker is
    closed,         \* closed_, and no io_service::work left
    tasks,          \* posted and not yet run; `late` if posted after closed_
    sched,          \* where the scheduler's threads are
    draining        \* stop_when_empty_

poolVars == <<pool, worker, closed, tasks, sched, draining>>

Worker == 1..NumWorkers
TaskOf == [kind : Kind, late : BOOLEAN]

PoolTypeOK ==
    /\ pool \in {"none", "up", "gone"}
    /\ worker \in [Worker -> {"off", "start", "promised", "run", "skipped", "exited"}]
    /\ closed \in [Worker -> BOOLEAN]
    /\ tasks \in [Worker -> Seq(TaskOf)]
    /\ sched \in [Service -> {"off", "test", "wait", "done"}]
    /\ draining \in BOOLEAN

PoolInit ==
    /\ pool = "none"
    /\ worker = [w \in Worker |-> "off"]
    /\ closed = [w \in Worker |-> FALSE]
    /\ tasks = [w \in Worker |-> <<>>]
    /\ sched = [s \in Service |-> "off"]
    /\ draining = FALSE

\* new ThreadPool, and the first half of start(): every thread is created.
Construct ==
    /\ pool' = "up"
    /\ worker' = [w \in Worker |-> "start"]
    /\ sched' = [s \in Service |-> "test"]
    /\ UNCHANGED <<closed, tasks, draining>>

\* The futures start() waits for.
Started == \A w \in Worker : worker[w] # "start"

Promise(w) ==
    /\ worker[w] = "start"
    /\ worker' = [worker EXCEPT ![w] = "promised"]
    /\ UNCHANGED <<pool, closed, tasks, sched, draining>>

\* A worker that is closed before it got here never runs its tasks.
Enter(w) ==
    /\ worker[w] = "promised"
    /\ worker' = [worker EXCEPT ![w] = IF closed[w] THEN "skipped" ELSE "run"]
    /\ UNCHANGED <<pool, closed, tasks, sched, draining>>

Running(w) == worker[w] = "run" /\ tasks[w] # <<>>

\* MUTANT: close() stops the io_service before it joins the thread.
ReturnsStopped(w) == closed[w]

\* io_service::run() returns: no work object, and nothing left to run.
Returns(w) == closed[w] /\ tasks[w] = <<>>

Exit(w) ==
    /\ worker[w] = "run"
    /\ Returns(w)
    /\ worker' = [worker EXCEPT ![w] = "exited"]
    /\ UNCHANGED <<pool, closed, tasks, sched, draining>>

\* MUTANT: index_ is not reduced.
SequenceNext == 1..(NumWorkers + 1)

\* getSequenceWorker: any one, as index_ is counted up by several threads at
\* once, without a lock.
Sequence == Worker

\* Worker::task(f) on the tasks ts.
Posted(ts, w, k) == [ts EXCEPT ![w] = Append(@, [kind |-> k, late |-> closed[w]])]

Gone(w) == worker[w] \in {"off", "skipped", "exited"}

\* ThreadPool::close() closes one worker after the other and joins each.
CloseWorker(w) ==
    /\ ~closed[w]
    /\ \A v \in 1..(w - 1) : closed[v] /\ Gone(v)
    /\ closed' = [closed EXCEPT ![w] = TRUE]
    /\ UNCHANGED <<pool, worker, tasks, sched, draining>>

AllJoined == \A w \in Worker : closed[w] /\ Gone(w)

\* Scheduler::serviceQueue with an empty queue.  The mutex is held from the test
\* to the wait.
ServiceStep(s) ==
    /\ sched[s] = "test"
    /\ sched' = [sched EXCEPT ![s] = IF draining THEN "done" ELSE "wait"]
    /\ UNCHANGED <<pool, worker, closed, tasks, draining>>

\* Scheduler::stop(true): the flag, under the mutex, ...
Drain ==
    /\ draining' = TRUE
    /\ UNCHANGED <<pool, worker, closed, tasks, sched>>

\* ... then notify_all.
NotifyAll ==
    /\ sched' = [s \in Service |-> IF sched[s] = "wait" THEN "test" ELSE sched[s]]
    /\ UNCHANGED <<pool, worker, closed, tasks, draining>>

ServiceDone == \A s \in Service : sched[s] = "done"

\* thread_pool_.reset().  The destructor closes again, which finds all joined.
Reset ==
    /\ pool' = "gone"
    /\ UNCHANGED <<worker, closed, tasks, sched, draining>>

\* A worker whose thread has run its loop leaves no task behind that had been
\* posted before it was closed.
PoolDrains ==
    \A w \in Worker : worker[w] = "exited" =>
        \A i \in 1..Len(tasks[w]) : tasks[w][i].late
===============================================================================
