------------------------------ MODULE Scheduler ------------------------------
(***************************************************************************)
(* The scheduler (coordinator/scheduler.h): the dispatch thread (d_...)    *)
(* that offers pending tasks to workers over the AssignTask RPC, and the   *)
(* health-check thread (h_...) that requeues what looks lost.  A step is   *)
(* one call on the task store or the worker pool, with the thread-local    *)
(* work around it; the two threads, and the RPC handlers of Services.tla,  *)
(* interleave between any two such calls.                                  *)
(*                                                                         *)
(* An AssignTask RPC is two steps: the worker's handler accepts (d_pc goes *)
(* from "rpc" to "accepted"), then the reply, or the lack of one within    *)
(* the 2-second deadline, reaches the dispatch thread.                     *)
(***************************************************************************)
EXTENDS TaskStore, WorkerPool

VARIABLES
  running_,        \* the scheduler's running_ flag
  d_pc,            \* where the dispatch thread is
  d_worker,        \* the worker it selected: worker.worker_id ...
  d_address,       \* ... and worker.address, a copy
  d_task,          \* the task it popped
  d_todo,          \* the orphans it has still to requeue
  dispatched_any,  \* dispatch_pending's result so far
  h_pc,            \* where the health-check thread is
  h_dead,          \* the silent workers it has still to mark dead
  h_worker,        \* the worker whose tasks it is requeuing
  h_todo           \* the tasks it has still to requeue

dispatchVars == <<d_pc, d_worker, d_address, d_task, d_todo, dispatched_any>>
healthVars == <<h_pc, h_dead, h_worker, h_todo>>
schedulerVars == <<running_, dispatchVars, healthVars>>

DispatchPC ==
  {"select", "pop", "rpc", "accepted", "increment", "requeue", "collect",
   "sweep", "idle", "wait", "woken", "stopped"}
HealthPC ==
  {"sleep", "bury", "collect", "sweep", "timeouts", "expire", "stopped"}

SchedulerTypeOK ==
  /\ running_ \in BOOLEAN
  /\ d_pc \in DispatchPC
  /\ d_worker \in Worker \cup {NoWorker}
  /\ d_address \in Address \cup {NoAddress}
  /\ d_task \in Task \cup {NoTask}
  /\ d_todo \subseteq Task
  /\ dispatched_any \in BOOLEAN
  /\ h_pc \in HealthPC
  /\ h_dead \subseteq Worker
  /\ h_worker \in Worker \cup {NoWorker}
  /\ h_todo \subseteq Task

(* Scheduler::start has created both threads.                              *)
SchedulerInit ==
  /\ running_ = TRUE
  /\ d_pc = "select" /\ d_worker = NoWorker /\ d_address = NoAddress
  /\ d_task = NoTask /\ d_todo = {} /\ dispatched_any = FALSE
  /\ h_pc = "sleep" /\ h_dead = {} /\ h_worker = NoWorker /\ h_todo = {}

(* A new process starts a new scheduler.                                   *)
SchedulerReset ==
  /\ running_' = TRUE
  /\ d_pc' = "select" /\ d_worker' = NoWorker /\ d_address' = NoAddress
  /\ d_task' = NoTask /\ d_todo' = {} /\ dispatched_any' = FALSE
  /\ h_pc' = "sleep" /\ h_dead' = {} /\ h_worker' = NoWorker /\ h_todo' = {}

(* notify: cv_ wakes the dispatch thread if it is waiting; a notification  *)
(* that comes while it is busy is lost.                                    *)
notify == d_pc' = IF d_pc = "wait" THEN "woken" ELSE d_pc

(* stop: both threads see the flag at their next test of it.               *)
stop ==
  /\ running_
  /\ running_' = FALSE
  /\ notify
  /\ UNCHANGED <<d_worker, d_address, d_task, d_todo, dispatched_any, healthVars,
                 storeVars, workers>>

-----------------------------------------------------------------------------
(* run: the loop of the dispatch thread around dispatch_pending.           *)

(* Test the flag and enter dispatch_pending, or leave the loop.            *)
EnterDispatch ==
  /\ d_pc' = IF running_ THEN "select" ELSE "stopped"
  /\ dispatched_any' = FALSE

(* dispatch_pending returns any: go round at once if it dispatched a task, *)
(* else go and wait.                                                       *)
LeaveDispatch(any) ==
  IF any THEN EnterDispatch
  ELSE d_pc' = "idle" /\ UNCHANGED dispatched_any

EndIteration ==
  /\ d_worker' = NoWorker
  /\ d_address' = NoAddress
  /\ d_task' = NoTask

DispatchWait ==
  /\ d_pc = "idle"
  /\ d_pc' = "wait"
  /\ UNCHANGED <<running_, d_worker, d_address, d_task, d_todo, dispatched_any,
                 healthVars, storeVars, workers>>

(* Variant: wait in place of wait_for, only a notification ends it.        *)
DispatchWaitTimeout_Never ==
  /\ FALSE
  /\ UNCHANGED <<schedulerVars, storeVars, workers>>

(* wait_for returns by itself after 100 ms.                                *)
DispatchWaitTimeout ==
  /\ d_pc = "wait"
  /\ d_pc' = "woken"
  /\ UNCHANGED <<running_, d_worker, d_address, d_task, d_todo, dispatched_any,
                 healthVars, storeVars, workers>>

DispatchWake ==
  /\ d_pc = "woken"
  /\ EnterDispatch
  /\ UNCHANGED <<running_, d_worker, d_address, d_task, d_todo,
                 healthVars, storeVars, workers>>

-----------------------------------------------------------------------------
(* dispatch_pending: one iteration of its loop.                            *)

(* Variant: the inner loop does not test running_.                         *)
DispatchSelect_Always(w) ==
  /\ d_pc = "select"
  /\ w \in select_worker
  /\ d_worker' = w
  /\ d_address' = workers[w].address
  /\ d_pc' = "pop"
  /\ UNCHANGED <<running_, d_task, d_todo, dispatched_any, healthVars, storeVars,
                 workers>>

DispatchSelect(w) ==
  /\ d_pc = "select"
  /\ running_
  /\ w \in select_worker
  /\ d_worker' = w
  /\ d_address' = workers[w].address
  /\ d_pc' = "pop"
  /\ UNCHANGED <<running_, d_task, d_todo, dispatched_any, healthVars, storeVars,
                 workers>>

(* No worker has room, or the scheduler is stopping: break.                *)
DispatchGivesUp ==
  /\ d_pc = "select"
  /\ ~running_ \/ Available = {}
  /\ LeaveDispatch(dispatched_any)
  /\ UNCHANGED <<running_, d_worker, d_address, d_task, d_todo, healthVars,
                 storeVars, workers>>

DispatchPop(t) ==
  /\ d_pc = "pop"
  /\ pop_pending(t)
  /\ d_task' = t
  /\ d_pc' = "rpc"
  /\ UNCHANGED <<running_, d_worker, d_address, d_todo, dispatched_any, healthVars,
                 workers>>

DispatchNothingPending ==
  /\ d_pc = "pop"
  /\ pop_pending_nullopt
  /\ EndIteration
  /\ LeaveDispatch(dispatched_any)
  /\ UNCHANGED <<running_, d_todo, healthVars, workers>>

(* The RPC returns accepted: assign_task, then increment_load.             *)
AssignSucceeded ==
  /\ d_pc = "accepted"
  /\ assign_task(d_task, d_worker)
  /\ d_pc' = "increment"
  /\ d_task' = NoTask
  /\ UNCHANGED <<running_, d_worker, d_address, d_todo, dispatched_any, healthVars,
                 workers>>

DispatchIncrement ==
  /\ d_pc = "increment"
  /\ increment_load(d_worker)
  /\ EndIteration
  /\ d_pc' = "select"
  /\ dispatched_any' = TRUE
  /\ UNCHANGED <<running_, d_todo, healthVars, storeVars>>

(* The RPC returns a refusal: requeue the task and leave.                  *)
AssignRejected ==
  /\ d_pc = "rpc"
  /\ requeue_task(d_task)
  /\ EndIteration
  /\ LeaveDispatch(dispatched_any)
  /\ UNCHANGED <<running_, d_todo, healthVars, workers>>

(* The RPC fails, whether or not the worker has accepted the task: mark    *)
(* the worker dead, requeue the task, then what is assigned to the worker. *)
AssignUnreachable ==
  /\ d_pc \in {"rpc", "accepted"}
  /\ mark_dead(d_worker)
  /\ d_pc' = "requeue"
  /\ UNCHANGED <<running_, d_worker, d_address, d_task, d_todo, dispatched_any,
                 healthVars, storeVars>>

DispatchRequeue ==
  /\ d_pc = "requeue"
  /\ requeue_task(d_task)
  /\ d_task' = NoTask
  /\ d_pc' = "collect"
  /\ UNCHANGED <<running_, d_worker, d_address, d_todo, dispatched_any, healthVars,
                 workers>>

DispatchCollect ==
  /\ d_pc = "collect"
  /\ d_todo' = get_tasks_for_worker(d_worker)
  /\ IF d_todo' = {}
     THEN d_pc' = "select" /\ EndIteration
     ELSE d_pc' = "sweep" /\ UNCHANGED <<d_worker, d_address, d_task>>
  /\ UNCHANGED <<running_, dispatched_any, healthVars, storeVars, workers>>

DispatchSweep(t) ==
  /\ d_pc = "sweep"
  /\ t \in d_todo
  /\ requeue_task(t)
  /\ d_todo' = d_todo \ {t}
  /\ IF d_todo' = {}
     THEN d_pc' = "select" /\ EndIteration
     ELSE UNCHANGED <<d_pc, d_worker, d_address, d_task>>
  /\ UNCHANGED <<running_, dispatched_any, healthVars, workers>>

-----------------------------------------------------------------------------
(* run_health_check: one round, every 2 seconds.                           *)

HealthStop ==
  /\ h_pc = "sleep"
  /\ ~running_
  /\ h_pc' = "stopped"
  /\ UNCHANGED <<running_, dispatchVars, h_dead, h_worker, h_todo, storeVars, workers>>

HealthScan ==
  /\ h_pc = "sleep"
  /\ running_
  /\ h_dead' = find_dead_workers
  /\ h_pc' = IF h_dead' = {} THEN "timeouts" ELSE "bury"
  /\ UNCHANGED <<running_, dispatchVars, h_worker, h_todo, storeVars, workers>>

HealthBury(w) ==
  /\ h_pc = "bury"
  /\ w \in h_dead
  /\ mark_dead(w)
  /\ h_dead' = h_dead \ {w}
  /\ h_worker' = w
  /\ h_pc' = "collect"
  /\ UNCHANGED <<running_, dispatchVars, h_todo, storeVars>>

(* The loop over the dead workers moves on to the next one.                *)
NextDeadWorker ==
  /\ h_worker' = NoWorker
  /\ h_pc' = IF h_dead = {} THEN "timeouts" ELSE "bury"

HealthCollect ==
  /\ h_pc = "collect"
  /\ h_todo' = get_tasks_for_worker(h_worker)
  /\ IF h_todo' = {} THEN NextDeadWorker ELSE h_pc' = "sweep" /\ UNCHANGED h_worker
  /\ UNCHANGED <<running_, dispatchVars, h_dead, storeVars, workers>>

(* Requeue an orphan; after the last one, notify the dispatch thread.      *)
HealthSweep(t) ==
  /\ h_pc = "sweep"
  /\ t \in h_todo
  /\ requeue_task(t)
  /\ h_todo' = h_todo \ {t}
  /\ IF h_todo' = {}
     THEN notify /\ NextDeadWorker
     ELSE UNCHANGED <<d_pc, h_pc, h_worker>>
  /\ UNCHANGED <<running_, d_worker, d_address, d_task, d_todo, dispatched_any,
                 h_dead, workers>>

HealthTimeouts ==
  /\ h_pc = "timeouts"
  /\ h_todo' = get_timed_out_tasks
  /\ h_pc' = IF h_todo' = {} THEN "sleep" ELSE "expire"
  /\ UNCHANGED <<running_, dispatchVars, h_dead, h_worker, storeVars, workers>>

HealthExpire(t) ==
  /\ h_pc = "expire"
  /\ t \in h_todo
  /\ requeue_task(t)
  /\ IF Requeueable(t) THEN notify ELSE UNCHANGED d_pc
  /\ h_todo' = h_todo \ {t}
  /\ h_pc' = IF h_todo' = {} THEN "sleep" ELSE "expire"
  /\ UNCHANGED <<running_, d_worker, d_address, d_task, d_todo, dispatched_any,
                 h_dead, h_worker, workers>>

-----------------------------------------------------------------------------
(* The steps of the two threads.  The RPC's failure is a step of its own:  *)
(* it is not the thread's doing.                                           *)
DispatchStep ==
  \/ DispatchWait \/ DispatchWake \/ DispatchGivesUp
  \/ \E w \in Worker : DispatchSelect(w)
  \/ \E t \in Task : DispatchPop(t)
  \/ DispatchNothingPending
  \/ AssignSucceeded \/ DispatchIncrement
  \/ DispatchRequeue \/ DispatchCollect
  \/ \E t \in Task : DispatchSweep(t)

HealthStep ==
  \/ HealthStop \/ HealthScan \/ HealthCollect \/ HealthTimeouts
  \/ \E w \in Worker : HealthBury(w)
  \/ \E t \in Task : HealthSweep(t) \/ HealthExpire(t)

=============================================================================
