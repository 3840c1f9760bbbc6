# A verification development for the distributed task orchestrator

TLA+ models of the orchestrator, TLC configurations that check them on small
instances, and machine-checked proofs of the main safety properties for every
size of system. Paths such as `coordinator/scheduler.h` are relative to the
repository.

## 1. The system

Three programs talk gRPC (`proto/orchestrator.proto`). Clients submit tasks to
a coordinator and poll for their state. The coordinator hands tasks to workers.
Workers execute them and report verdicts.

| component | state | operations | talks to |
|---|---|---|---|
| TaskStore (`coordinator/task_store.h`) | `tasks_` (records), `pending_queue_` (priority queue of record *copies*), one mutex | `add_task`, `pop_pending`, `assign_task`, `set_running` (never called), `complete_task`, `fail_task`, `requeue_task`, `get_timed_out_tasks`, `get_tasks_for_worker`, reads | called by every thread of the coordinator |
| WorkerPool (`coordinator/worker_pool.h`) | `workers_` (address, capacity, load, last heartbeat, alive), one mutex | `register_worker`, `heartbeat`, `select_worker`, `increment_load`, `decrement_load`, `mark_dead`, `find_dead_workers`, `remove_worker` (never called), reads | likewise |
| Scheduler (`coordinator/scheduler.h`) | `running_`, a condition variable, the locals of two threads | dispatch thread (`run`, `dispatch_pending`, `assign_to_worker`), health-check thread (`run_health_check`), `notify`, `stop` | store, pool, `AssignTask` RPC |
| Services (`coordinator/services.cpp`) | the locals of the handlers, one per thread of the gRPC pool | `SubmitTask`, `GetTaskStatus`, `GetMetrics`, `RegisterWorker`, `Heartbeat`, `ReportResult` | store, pool, metrics, `Scheduler::notify` |
| Metrics (`coordinator/metrics.h`) | a window of latency samples, two totals, a reporting thread | `record_completion`, `snapshot`, `start`, `stop` | store and pool (counts) |
| Coordinator process (`coordinator/main.cpp`) | all of the above, in memory only | start, shutdown on a signal | |
| Worker process (`worker/main.cpp`) | four atomics: shutdown, draining, active and completed tasks | `AssignTask` handler, one detached thread per task with a retry loop, heartbeat loop, drain | `RegisterWorker`, `Heartbeat`, `ReportResult` |
| Prime checker (`worker/main.cpp:28-53`) | none | `check_prime`, `run_prime_task` | |
| Client (`client/main.cpp`) | the ids of a batch and which are done | single and batch submit with polling, status | `SubmitTask`, `GetTaskStatus` |

**What is hard here.** Each store and pool method is atomic, but nothing larger
is: the dispatch thread, the health check and any number of handlers interleave
between any two calls, and act on lists and copies that go stale. Dispatching a
task spans an RPC to another process, which may report the task before the
caller has recorded the assignment, or accept it and never answer. Several
threads requeue the same task. Wakeups are unprotected and can be lost. All
coordinator state is lost in a crash while workers go on. `PROJECT.json` lists
the hazards at their lines, with the property aimed at each, or the reason
why there is none.

**What makes each part correct.**

- *Store*: a task that waits is in the queue or in the dispatch thread's hands;
  verdicts are not undone; the order of the queue is by priority, then age,
  whatever duplicate and stale entries it holds.
- *Pool*: loads stay within one of what workers report at most; a task in
  flight is on a known worker.
- *Scheduler*: an unreachable worker is swept; no task stays in flight, and
  waiting tasks do not all wait for ever beside a free worker; shutdown ends.
- *Services*: every verdict is counted, and no execution twice unless its report
  had to be sent twice; a re-registration sweeps; after a crash
  nothing comes back.
- *Metrics*: the window is the latest completions; the throughput and the
  percentiles are those of the window, although the clock is read outside the
  lock; shutdown ends although a notification can be lost.
- *Worker*: its count of tasks is right on every path; it takes no more tasks
  than its capacity, and a drain leaves nothing behind, but for overlapping
  handlers; shutdown ends and slots come back even without a coordinator.
- *Prime checker*: the right answer over the width of the integers; each thread
  reports that of its own task.
- *Client*: each task of a batch counted exactly once, under its true verdict;
  the polling ends.
- *Together*: the worker does what the coordinator's model expects of a worker; a
  task is executed again only when something went wrong; every submitted task
  gets a verdict and keeps one; a worker that was given up is used again.

## 2. The modules

```
Protocol                 ids, states            proto/orchestrator.proto
  TaskStore              tasks, pending_queue   coordinator/task_store.h
  WorkerPool             workers                coordinator/worker_pool.h
    Scheduler            running_, d_*, h_*     coordinator/scheduler.h
      Services           rpc, total_*           coordinator/services.cpp, metrics.h
        Coordinator      accepted, forgotten    coordinator/main.cpp + environment
          MCCoordinator      instances for TLC
          CoordinatorProofs  theorems
            LifecycleProofs  Coordinator implements TaskLifecycle
  TaskLifecycle          state, offered, taken  what clients may rely on (abstract)
    Client               batch, pc, task_ids... client/main.cpp
      ClientProofs       theorems

Worker                   the worker process     worker/main.cpp
  WorkerProofs           theorems
  PrimeWorker            payload, report        run_prime_task and execute_task
    PrimeProofs          theorems about check_prime and what is reported
  Orchestrator           Worker and (INSTANCE) Coordinator that call each other;
                         the instance is of LifecycleProofs, with its theorems
    OrchestratorProofs   theorems
      ExecutionProofs    theorems about the executions and the totals
PrimeCheck               check_prime            worker/main.cpp (used by PrimeWorker)
Metrics                  samples_, clock, stop  coordinator/metrics.h, main.cpp
  MetricsProofs          theorems
```

`TaskStore` and `WorkerPool` define one action per method, on their own
variables; both mutexes are held for whole methods, so a call is one step.
`Scheduler` and `Services` say which thread makes which call when, one step per
call. `Coordinator` composes them, adds the environment, the specification and
the properties.

### How state and actions correspond to the code

- **Records.** `tasks[t]` is the `TaskRecord`. Texts are left out; `resolved`
  is `completed_at_ms > 0`. `assigned_at_ms` is only ever compared with the
  execution timeout, so it is the flag `overdue`, set by `ExecutionTimeElapses`
  and cleared by `assign_task`. Likewise `last_heartbeat_ms` is `silent`.
- **Queue.** A heap entry is a copy of a record, but the heap reads only its
  priority and creation time, which never change: an entry is its task and the
  queue a bag. `pop_pending` skips entries whose task is not PENDING. Ties are
  in no particular order in a binary heap, so a stale entry that ties with the
  one returned may or may not have been dropped (`LeftAfterPop`).
- **`pop_pending` does not change the record.** A popped task stays PENDING
  until `assign_task`. This is what makes `NoTaskLost` worth stating.
- **The dispatch thread.** `d_pc` names the next call: `select`, `pop`, `rpc`,
  `accepted` (the worker has accepted, the reply is on its way), then `increment`;
  or `requeue`, `collect`, `sweep` for an unreachable worker; `idle`, `wait`,
  `woken` are the end of an iteration of `run`. Between `idle` and `wait` a
  notification is lost: `notify` only affects a thread in `wait`.
- **The AssignTask RPC.** `WorkerAccepts` is the worker's handler,
  `AssignSucceeded` the reply. `AssignUnreachable` may happen before the worker
  accepted and after: the deadline does not tell. A report
  may come as soon as the worker has accepted.
- **The health check.** `h_pc` likewise; each `requeue_task` is a step, on a list
  made earlier.
- **Handlers.** `rpc[th]` is what a thread of the pool has still to do.
  `SubmitTask` and `Heartbeat` change shared state once and are one step. The
  cv notification that ends a handler is part of its last step.
- **Workers and clients** are an environment that may do whatever the protocol
  allows: register at any time, heartbeat with any load up to `MaxLoad`, accept,
  refuse, never answer, report what they once accepted, late and repeatedly.
  `accepted` remembers what may be reported. A verdict depends on the payload
  only (`VerdictOf`), as in `run_prime_task`.
- **Crash** resets all of the coordinator and keeps `accepted`; `forgotten`
  records the lost ids (a new submission gets a new id).

- **The worker.** `Worker` has no mutex to hide behind: each access to
  `g_draining`, `g_shutdown` and `g_active_tasks` is a step. `assign[a]` says what
  the handler on thread `a` does next (`capacity` test, `increment`, `spawn`), a
  refusal changes nothing. `exec[e]` is a detached thread and the attempt at
  reporting it is in. `main_pc` follows `main` from the registration to the
  drain, to `server->Shutdown` (two steps: calls are refused from the first,
  the second waits for the handlers) and to the exit, which ends the detached
  threads wherever they are. The signal handler is two steps, for it interrupts
  one thread only. The coordinator makes one call at a time, but a call whose
  deadline has passed goes on in its handler, so handlers may overlap. Tasks
  have no identity here: no branch depends on one, but for the verdict
  reported. The signal is taken to arrive after `std::signal` (before, it kills
  the process).

- **What clients may rely on.** `TaskLifecycle` is the abstract specification of
  the coordinator: for each task a state, and of the dispatch thread only which
  task it is `offered` and which tasks were ever `taken` by a worker. `Coordinator`
  implements it under the mapping `state <- LifecycleState` (the state of the
  record; "forgotten" for the ids a crash wiped out), `offered <- d_task`,
  `taken <- Taken` (the tasks in `accepted`). Only `Assign`, which the abstract
  specification allows only right after an agreement, undoes a verdict.
- **The client.** `Client` extends `TaskLifecycle`: the coordinator it talks to is
  anything the abstract specification allows, crashes included. A call is three
  steps (`Send`, `ServeSubmit` or `ServeStatus`, then `SubmitSucceeds`, `SeeVerdict`
  or `SeeNoVerdict`) and may fail after each of the first two. `i` is the loop
  index of the submission and of each polling pass; `done` is the vector of flags.
  `ServeStatus` of a forgotten id is not possible: NOT_FOUND is a failed call.
- **Metrics.** `record_completion` and `snapshot` read the clock before they take
  `mutex_`: two steps each, and the samples may be out of the order of their
  times. `recorded` remembers all that was ever stored. The reporting thread's
  `r_pc` follows `run`: it holds `cv_mutex_` all the time but in the wait and in the
  report, and nobody else takes it, so `stop`'s flag and its notification may fall
  between the predicate and the sleep. `main_pc` is the order of start and
  shutdown in `coordinator/main.cpp`.
- **The prime checker.** `check_prime` over the unsigned integers below `Modulus`
  (2^64 for `uint64_t`), which wrap around; the trial division is a recursive
  function of the divisor. `PrimeWorker` adds to `Worker` what its threads compute:
  `payload[e]` is the copy of the payload that the handler hands to the thread it
  starts (`Spawns`), any number or a malformed text, for nothing has looked at it
  before; `report[e]` is the verdict in the thread's request, made once (`Computes`,
  with the exception of `run_prime_task`) and sent by every attempt (`Reports`).
- **The composition.** `Orchestrator` extends `Worker` and instantiates
  `Coordinator` as `C`. Every step is one of the coordinator and one of the worker
  at the two ends of a call, or a step of one of them. `handler` is the worker's
  thread that has the outstanding AssignTask, `carried` and `job` are the tasks of
  its handlers and executions, `caller` is the thread of the worker for which a
  handler of the coordinator works; `executions` and `begun` count the executions of
  each task and of all tasks, for the properties. What the coordinator's environment may do on
  its own in `Coordinator` is here done by a step of the worker. What goes wrong
  (`Deadline`, `RegisterError`, `ReportLost`, `HeartbeatLost`, `ListenError`, `Signal`,
  `Dies`, `Delay`, and a report that overtakes its assignment) is a trouble and
  counted. A process that ended is started again under the same id or another at
  the same address. Time: a worker is silent only if its heartbeat thread does not
  run (`Silence`), a task overdue only if the worker does not have it (`Timeout`),
  unless it is a trouble (`Delay`).

Left out: logging, the texts of results and errors, the stub cache
(`get_worker_stub` always returns a stub), the reads of `get_all_tasks`
and the like, which change nothing. `assigned_at_ms` of a fresh record is not
initialised in the code, but is read only in ASSIGNED or RUNNING, where it has
been set.

## 3. Model checking

Of the coordinator, the bounds are named: `MaxReports` (verdicts
counted), `MaxEntries` (the environment causes no more requeuing while a task
has that many queue entries; steps of the coordinator itself are not bounded),
`MaxLoad` (what a worker reports). `Faults` selects the kinds of trouble of an
instance, so that each run explores its question exhaustively.

| run | instance | what it shows |
|---|---|---|
| `recovery` | 1 task, 1 worker, 2 handler threads; RPC failure, refusal, silence, restart, overrun | `TypeOK`, `NoTaskLost`, `VerdictsCounted`, `RecoveryKeepsVerdicts`: the recovery paths, interleaved in every way, neither lose the task nor undo a verdict; `ImplementsLifecycle`: every step is one of `TaskLifecycle` or a stutter (715 000 states) |
| `dispatch` | 2 symmetric tasks of 2 priorities and 2 ages on a worker of capacity 2; RPC failure, overrun, crash | `MostUrgentFirst`, with duplicate and stale entries in the queue, `UnreachableSwept`, `ForgottenStayForgotten`, and the inductive invariant `IInv` (1 130 000 states) |
| `workers` | 2 symmetric workers; RPC failure, silence | `LoadBounded` (no count of a load above `MaxLoad + 1`), `InFlightOwned`: a task moves between workers that die and revive (636 000 states) |
| `liveness` | 2 tasks, 1 worker that never reports; RPC failure, refusal, silence, overrun, stop | `InFlightIsTransient`, `PendingIsOffered`, `StopCompletes` (116 000 states) |
| `terminal`, `reregister` | 1 task, 1 worker | two statements of the documentation that the coordinator does not meet (section 5) |
| `worker` | capacity 2, 2 handler threads, 2 attempts; payloads 25 and malformed, `Modulus` 2^10 | `ActiveCounted`, `OvershootBounded`, `LeftBehindBounded`, `DrainWaits`; `ShutdownCompletes` and `RoomAgain` with a coordinator that never answers or never stops calling; `ResultsRight`: every report is right for the payload of its own thread; `PrimeRight`: so it would be for every number below `Modulus` (282 000 states) |
| `worker_capacity`, `worker_drain` | capacity 1 | two statements of the documentation that the worker does not meet (section 5) |
| `metrics` | 2 handler threads and the reporting thread, a window of 3, 4 completions, a clock of two times | `WindowIsLatest`, `ThroughputExact`, `PercentilesRight`, `ShutdownCompletes` (176 000 states) |
| `client` | a batch of 3 and a single submission, 3 tasks, one of which fails; any call may fail, the coordinator may crash | `SubmissionsAccounted`, `TotalsRight`, `BatchEnds` (180 000 states) |
| `orchestrator` | 1 task, 1 worker process under 2 ids, 2 report attempts; any one trouble | `SystemInv` (the two ends of each call agree), `RunsCoordinator` (the worker does nothing that `Coordinator` does not provide for), `ExecutionsJustified`, `ReportsCounted` (the totals exceed the executions by the troubles at most), `SubmittedIsResolved`, `WorkerIsUsable`, `LoadCorrected` (155 000 states) |

Why the bounds suffice: the recovery hazards need one task handled by the
dispatch thread, the health check and two handlers at once, which `recovery`
has; order needs two tasks; ownership two workers. One entry beyond the first
(`MaxEntries` 1 stops the environment, not the coordinator, so two and more
entries do occur) gives duplicates and stale entries. The proofs remove the
bounds for the safety properties. In `metrics` the fourth completion overflows the
window of three, and two times suffice for a sample to be stored behind a later
one; `PercentilesRight` adds constant windows of up to 103 samples, in which every
rounding of the index occurs. In `client` three tasks of one batch can be in three
situations at once (verdict seen, answer lost, still running). `orchestrator` allows
one trouble, at any moment: what is shown is the recovery from it. With two
troubles the invariants were also checked (7.3 million states), the liveness
properties were not. One task cannot use up the bound of
`ExecutionsJustified`, which takes a second one (section 5); without trouble, where it
says that a task is executed once, it is exact, and the theorem does without the
bounds. `Modulus` 2^10 is large enough for primes whose loop bound wraps around,
those above 841; two payloads, a number and a malformed one, suffice for two
executions to differ, and the numbers themselves are the business of
`PrimeRight`. `LoadBounded` says how far a count of the coordinator may be
above the most any worker reports, not how far from the load a worker has at
the moment: a worker marked dead by mistake, or a count that heartbeats and
reports have moved, is corrected again and again (`WorkerIsUsable`,
`LoadCorrected`). In `liveness` the worker never reports, which is the worst for a
task in flight; reports, of one task, are in the liveness properties of
`orchestrator`. `PendingIsOffered` speaks of some waiting task: the queue is by
priority, and an urgent task that is refused again and again keeps the others
waiting. `VerdictsCounted` bounds the totals from below, `ReportsCounted` from
above.

**Fairness** (`FairSpec`): the dispatch thread, the health check and each handler
thread keep running (weak fairness of each as one process), `wait_for` returns
after its 100 ms, an AssignTask RPC ends by its 2 s deadline one way or the
other, and time passes (a task in flight becomes overdue). Nothing is assumed
of workers and clients: they need not heartbeat, report or register. Deadlock
is checked in every run of the coordinator, of the client and of the composition.
The worker and, in `metrics`, the coordinator may exit, so these runs do not check
it. In the worker
(`Worker!FairSpec`) every thread runs on while the process lives, an RPC with a
deadline returns, an execution ends (of a payload for which `check_prime` does),
and a signal handler that has begun ends; nothing is assumed of the
registration, which has no deadline, of calls, of signals or of reports getting
through.

The reporting thread, `main` and the handlers of `Metrics` run on, and `wait_for`
returns; calls and signals are not assumed. The client's own thread runs on
(`ClientSpec`); a call that can be served again and again is served, and its
answer arrives, now and then (strong fairness of `ServeStatus` and `SeeVerdict`): a
client all of whose calls fail for ever does poll for ever. Nothing is assumed of
the coordinator there: `BatchEnds` has its verdicts as a premise, and
`SubmittedIsResolved` of the composition provides them. In the composition
(`FairSystem`) every thread of both processes runs on, a call arrives unless there
is a trouble, time passes for tasks and workers that are really gone, and a
process that ended is started again. No fairness is assumed of troubles.

The worker needs no bound: its state is finite, since `OvershootBounded` bounds
the threads (`ThreadsSuffice` proves that `ExecThread` is large enough). Two
handlers are what an overshoot takes, and with two and a capacity of two a
worker can be under, at and over its capacity.

Every property has a mutant in `PROJECT.json`: a variant definition (`..._AnyState`,
`..._RunningOnly`, ...) standing for a plausible bug, under which TLC finds the
property violated.

## 4. Proofs

`CoordinatorProofs.tla`, and for the last one `LifecycleProofs.tla`, prove, for every number of tasks, workers, threads,
priorities, capacities and every set of faults, without bounds on the queue:

| theorem | statement |
|---|---|
| `InductiveInvariant` | `Spec => []IInv` |
| `TypeInvariant` | `Spec => []TypeOK`, in particular no load below zero |
| `NoTaskIsLost` | `Spec => []NoTaskLost` |
| `LoadIsBounded` | `Spec => []LoadBounded`, that is no load above `MaxLoad + 1` |
| `InFlightIsOwned` | `Spec => []InFlightOwned` |
| `CrashForgets` | `Spec => []ForgottenStayForgotten` |
| `RecoveryRespectsVerdicts` | `Spec => RecoveryKeepsVerdicts` |
| `UnreachableIsSwept` | `Spec => UnreachableSwept` |
| `MostUrgentIsFirst` | `Spec => MostUrgentFirst` |
| `VerdictsAreCounted` | `Spec => []VerdictsCounted` |
| `ThreadsHoldTheirTasks` | the task the dispatch thread holds is not in flight, and the health check's list is empty when it is not at work on it |
| `CoordinatorImplementsLifecycle` | `Spec => ImplementsLifecycle`, that is `Lifecycle!Spec` |

(`MaxReports` and `MaxEntries` are arbitrary naturals in the theorems.)

`WorkerProofs.tla` does so for the worker, for every capacity, number of handler
threads and number of attempts:

| theorem | statement |
|---|---|
| `WorkerInvariant` | `Spec => []IInv` |
| `WorkerTypes` | `Spec => []TypeOK`, in particular `g_active_tasks >= 0` |
| `ActiveIsCounted` | `Spec => []ActiveCounted` |
| `OvershootIsBounded` | `Spec => []OvershootBounded` |
| `LeftBehindIsBounded` | `Spec => []LeftBehindBounded` |
| `DrainDoesWait` | `Spec => DrainWaits` |
| `ThreadsSuffice` | a handler that starts a thread always finds a free name |

`ClientProofs.tla` does so for the client, for every size of batch and number of
tasks, whichever calls fail and however often the coordinator crashes, and
`OrchestratorProofs.tla` for the composition, for any number of tasks, threads,
ids and troubles; `MetricsProofs.tla` for the collector of metrics, for every size
of the window and of the clock, number of threads and set of latencies:

| theorem | statement |
|---|---|
| `ClientInvariant` | `ClientSpec => []CInv` |
| `ClientTypes` | `ClientSpec => []ClientTypeOK` |
| `SubmissionsAreAccounted` | `ClientSpec => []SubmissionsAccounted` |
| `TotalsAreRight` | `ClientSpec => []TotalsRight` |
| `CompositionRunsCoordinator` | `System => RunsCoordinator`, that is `C!Spec` |
| `LoadNeverOverstated` | `System => []OvershootBounded` |
| `MetricsInvariant` | `Spec => []MInv` |
| `MetricsTypes` | `Spec => []TypeOK` |
| `WindowHoldsLatest` | `Spec => []WindowIsLatest` |
| `ThroughputIsExact` | `Spec => []ThroughputExact` |

`OrchestratorProofs.tla` goes on from there. `Orchestrator` instantiates
`LifecycleProofs`, so the theorems about the coordinator are available about its
instance, and what they assume of its constants follows from the composition's
own assumptions (`CoordinatorConstants`):

| theorem | statement |
|---|---|
| `CoordinatorIsSound` | `System => []C!IInv`: the coordinator's invariant, with what `LoadBounded` and `NoTaskLost` say, holds with a real worker behind the calls |
| `CompositionImplementsLifecycle` | `System => C!ImplementsLifecycle` |
| `CompositionCountsVerdicts` | `System => []C!VerdictsCounted` |
| `SystemInvariant` | `System => []SystemInv`: the types, the worker's invariant and `CallsMatch` |
| `ExecutionsAreJustified` | `System => []ExecutionsJustified` (`ExecutionProofs.tla`) |
| `ReportsAreCounted` | `System => []ReportsCounted` (`ExecutionProofs.tla`) |

and these are about what is computed, for every number and every `Modulus`, for
every window of samples:

| theorem | statement |
|---|---|
| `CheckPrimeIsRight` | `CheckPrimeRight` (`PrimeProofs.tla`) |
| `LocalsChangeNothing` | `PrimeSpec => Spec`: with its payloads and reports the worker does nothing that `Worker` does not |
| `ResultsAreRight` | `PrimeSpec => []ResultsRight` |
| `PercentilesAreRight` | `Spec => []PercentilesRight` (`MetricsProofs.tla`) |

The theorems chain: the composition implements `Coordinator`, which implements
`TaskLifecycle`, on which the client's theorems rest.

**Assumptions**: the named `ASSUME`s of the modules: the placeholders are not ids,
priorities and times are integers, and no worker registers a capacity above
`MaxLoad`, where `MaxLoad` is also the largest load a worker reports.
`OvershootIsBounded` says what that is: capacity plus handler threads minus one.
Of the worker: finite sets of threads, at least one handler thread, a positive
capacity and number of attempts. Of the composition (`OrchestratorAssumption`): the
same of the coordinator's constants, where `MaxLoad` is now the worker's
`MostActive`, and that no thread is called "main" or "none". Of the prime checker,
only that `Modulus` is a positive integer.

**The argument.** `NoTaskLost` alone is not inductive: one must know that the
dispatch thread holds a task exactly between `pop_pending` and the call that
settles it (`DispatchControl`). `InFlightOwned` needs that the selected worker
stays known; `LoadBounded` that the selected worker's load is at most `MaxLoad`
until `increment_load` (`SelectedHasRoom`), whatever heartbeats come in between;
`UnreachableSwept` that nothing is added to the worker while its orphans are
requeued (`SweepListComplete`). `IInv` is their conjunction. A step is shown to
be a crash, a step of the dispatch thread, or a step of others, and what others
can do to the store and the pool is summarised once (`StoreEffect`,
`PoolEffect`): nobody but the dispatch thread takes entries from the queue, puts
a task in flight or takes it out of a terminal state. The action properties
follow from the invariant and these lemmas.

For the worker, three lemmas say how the move of one handler or one execution
thread changes the cardinalities. `ActiveCounted` is inductive with the types;
`OvershootBounded` holds because a handler that passes the test has seen
`g_active_tasks < capacity` and the others past it are at most the other
threads; `LeftBehindBounded` needs `ActiveCounted` (when main leaves the loop
nothing runs) and `ControlOrder` (`g_draining` is set before `g_shutdown`, so
nobody new gets past the draining test).

`VerdictsCounted` compares a cardinality with the totals, and a verdict is stored
one step before it is counted; `VInv` adds that the sets are finite, and four
kinds of step (`Uncounted`) say what a step may do to the sets and the totals.
The refinement is proved by the kinds of step of `CoordinatorProofs` again: a step
of the dispatch thread maps to `Offer`, `Assign`, `Withdraw` or, when it sweeps, to
`Requeue`; a worker's agreement to `Take`; a step of others to `Submit`, `Requeue`,
`Resolve` or a stutter; a crash to `Forget`. `LInv` adds to `IInv` that the task whose
acceptance is on its way is among those taken (`AcceptedIsTaken`).

The client's totals are right because of `DoneCounted`: the totals are those of
the tasks found done, and a pass that has counted nothing as running has found
all tasks behind the index done. That a task found done has the verdict that
was counted, although the coordinator may undo or forget it, rests on
`VerdictsEarned` (a verdict that is stored is `VerdictOf` of a task that was taken) and
`CallOfLoop` (so is one that an answer carries).

The composition implements `Coordinator` because of `LinkInv`: each step of the
composition is a step of the worker or a start or end of its process, so the
worker's `IInv` is an invariant here too, and its `OvershootBounded` is the bound
`MaxLoad` that `Coordinator` puts on a heartbeat. That the worker reports only what
it has accepted is a guard of `C!Report` in the composition, and that this guard
never blocks a report is part of `SystemInvariant`: `CallsMatch` says that the two
ends of each call agree. It is the conjunction of three parts, each preserved for
reasons of its own. `AssignmentMatches`: the worker's handler that has the
outstanding AssignTask carries the dispatch thread's task; only the steps of the RPC
move either. `WorkIsExpected`: what handlers and executions hold once their call is
over, by an answer or by its deadline, is in `accepted`, which never shrinks while
the process lives. `CallersAreServed`: who waits for an answer is where it called,
and exactly one handler of the coordinator works for it; here uniqueness is what
makes it inductive, for an answer ends one call and must not leave a second
handler behind that works for a caller that has gone on. A step that leaves a
call alone is shown to do so once for all three (`CallStays`).

The window of the metrics is the end of `recorded`, sample by sample
(`SamplesAreLatest`): the form in which a push at one end and a pop at the other
keep it. The throughput follows: the samples counted inject into those recorded,
and unless the window is full the two sequences are the same. No order of the
times is assumed.

That `percentile` picks by rank needs no induction over the sorting: `Sorted` puts
each value at the place that the number of values no later than it gives, two
values never share a place (`NoLaterOrder`), so by counting every place is taken
(`PlaceTaken`) and the sequence is sorted (`SortedSorts`). The index that `percentile`
computes is then within the bounds of the rank (`IndexBounds`).

The trial division is a recursive function of the divisor; that there is such a
function at all is proved first (`LoopExists`), by giving one: the result in the least
round in which one of the loop's tests holds. Any such function gives the result of
that round (`TrialLoop`, `LoopResult`), so no induction on the recursion is needed. The least factor of a number with
neither 2 nor 3 among its factors is 1 or 5 modulo 6, hence among the divisors
that are tried (`LeastFactor`, `LeastFactorTried`), before a smaller one that divides
n, of which there is none, and before a square above n, unless n is prime. No
wrap-around can come in between: the divisor stays at most n. `ResultsAreRight`
uses that for the step that computes, and shows of every other step of
`PrimeWorker` that a thread which still reports keeps its payload and its report
(`LocalsStay`), with the types of `Worker`, which hold because `PrimeSpec`
implements it.

`ExecutionsJustified` bounds a count over the whole history by the number of
troubles, and the proof keeps an account (`ExecutionProofs`). Whatever may yet lead
to an execution of a task is a *claim* (`Claims`): the task waits for a worker, or
is in flight and nobody executes it; it is on the list of the health check, or of a
registration whose caller has ended; a handler of the worker has it after the call
is over; the health check may find its worker dead; or the process will end, will
fall silent, will close its server. `AccountInv` says that the executions so far and
the claims are at most `1 + 3 * troubles`. Every step keeps that (`Balanced`): an
execution uses a claim up; a step without trouble keeps the claims or gives one up
for another (a heartbeat thread that ends turns the claim that it will into the
claim that its worker is found dead, for example); a trouble makes three claims at
most, and only the signal makes three. The claims are a set, not a number, so that
what a step does to them is an inclusion for each kind, and only `StillAccounted`
counts. The steps rely on `SystemInv` and `C!IInv`, and on four small facts
that are invariants of their own: `HeldNotInFlight` and `ListIsWalked` (of the
coordinator, `ThreadsHoldTheirTasks`), `HeartbeatStarts` and `RegistersItself`. Before
it was proved, TLC checked `AccountInv` on the instance of `orchestrator` and with
two troubles (7.3 million states).

`ReportsCounted` is proved by an account of the same kind. `Owed` is the set of
what the totals may still have to count: the executions whose report no handler
of the coordinator works on, and the handlers that have a report and are about
to count it. `TotalsInv` says that the totals and what is owed together are at most
`begun + troubles`. A new execution adds one to both sides; a report that arrives
turns an owed execution into an owed handler; `record_completion` turns that into
a count; a lost answer, which is a trouble, makes the execution owe again although
its first report may still be counted; a process that ends only takes away.
`CallsMatch` is what keeps an execution and its handler from owing twice without
a trouble.

**Only model-checked**: the liveness properties and what is stated with fairness
(fairness and ENABLED are beyond the prover). Every invariant and every action
property of a passing run has a theorem (of `PrimeRight` it is `CheckPrimeIsRight`,
which needs no state).

## 5. Where the code and its documentation disagree

1. **A verdict can be undone** (`terminal`, `TerminalIsFinal`). The dispatch
   thread records the assignment after the RPC (`scheduler.h:92-93`). If the
   report is handled first, `assign_task`, which has no test of the state, turns
   COMPLETED into ASSIGNED. The task times out after 3 s, is run again and
   counted twice, and clients see it go backwards. `requeue_task` has the guard
   that `assign_task` lacks. `RecoveryKeepsVerdicts` shows (and the theorem
   proves) that this is the only way.
2. **Re-registration may miss a task** (`reregister`, `RegistrationSweeps`). An
   assignment recorded between the sweep and the registration
   (`services.cpp:91-101`) stays in flight on a process that does not know it,
   until the execution timeout. `README.md:90` says any such task is requeued
   immediately.

3. **A worker may exceed its capacity** (`worker_capacity`, `CapacityRespected`).
   The test and the increment (`worker/main.cpp:136-144`) are separate, and a call
   whose deadline has passed still runs. `README.md:123`: "Max concurrent tasks".
   `OvershootBounded` is what does hold.
4. **A drain may lose a task** (`worker_drain`, `DrainLeavesNothing`). A handler
   past the draining test (`:128`) is not counted until `:144`; main may leave
   the loop (`:311`) in between. `README.md:104` says it waits for the tasks.
   `LeftBehindBounded` is what does hold.

Seen while modelling, where no document says otherwise or no behaviour follows:

- No task is ever RUNNING, although `README.md:23` gives the lifecycle PENDING,
  ASSIGNED, RUNNING, COMPLETED/FAILED: `set_running` has no caller.
- The health check requeues the tasks on a list it made before. A task of the list
  that was requeued and assigned afresh meanwhile is taken away from the worker
  that executes it. With the sweep after an RPC that failed, one trouble can cost
  three further executions, and not more (`ExecutionsJustified`): after a signal, a
  call that the closed server refuses has the dispatch thread requeue a task that
  no one executes any longer but that is on the list; the process started anew under
  another id executes it, has it taken away by the list, executes it again for the
  old entry of the pool, which a late heartbeat had revived, and once more when
  that entry is found dead. (TLC, confined to this scenario, finds the behaviour with
  two tasks and capacity 3: four executions after one trouble, so the bound is attained.)
- After a restart of the coordinator, heartbeats are answered
  `acknowledged = false`; the worker looks at the status of the call only
  (`worker/main.cpp:235`) and never registers again: it gets no more work.
- After a restart of the coordinator the client polls the ids of its batch, all
  NOT_FOUND, for ever (`client/main.cpp:183`): `BatchEnds` has to assume that the
  tasks keep their verdicts.
- For primes above (2^32 - 5)^2 the squares that should end the loop of `check_prime`
  wrap around. The loop then runs on to divisors near n, practically without end,
  and may at last give the prime as its own factor (`CheckPrimeRight` allows just
  that where `SquareFits` does not hold).
- The worker deregisters nowhere, although `README.md:104` says so: `remove_worker`
  has no caller. The help text gives a default capacity of 4, the code 2.

## 6. Not modelled and why

- *Utilities* (`common/utils.h`): logging and formatting; ids are model values,
  taken to be distinct; `now_ms` is the clock of `Metrics` and, elsewhere, the
  outcome of the tests made of it.
- *Client*: argument parsing, the random numbers of a batch, latency figures and
  output decide nothing. The status command shows one answer.
- *Metrics*: the queue depth (which counts stale entries) and the number of
  workers alive are read from the store and the pool and shown.
- *Worker*: `g_completed_tasks` is sent and not read; the wording of results.
- *Build* files and gRPC itself: what gRPC does with calls (deadlines, refused
  connections, threads of the server) is modelled as the code uses it.
- A crash of the coordinator in the composition: `Coordinator` and `Client` have it;
  with the worker, nothing more happens than section 5 says (no registration).
- Several worker processes in the composition: `workers` has two, as the
  environment of the coordinator; the composition's theorems rest on one.
