------------------------------ MODULE Services ------------------------------
(***************************************************************************)
(* The coordinator's RPC handlers (coordinator/services.cpp).  The gRPC    *)
(* server runs them on the threads of its pool; a handler makes several    *)
(* calls on the shared objects and other threads run between them.         *)
(* SubmitTask and Heartbeat change shared state in one call and are one    *)
(* step; RegisterWorker and ReportResult occupy a thread of the pool from  *)
(* one call to the next.  GetTaskStatus and GetMetrics change nothing.     *)
(***************************************************************************)
EXTENDS Scheduler

CONSTANT Thread  \* the threads of the server's pool

VARIABLES
  rpc,       \* what each thread of the pool is doing
  total_ok,  \* MetricsCollector::total_ok_
  total_err  \* MetricsCollector::total_err_

serviceVars == <<rpc, total_ok, total_err>>

Idle == [pc |-> "idle"]
RegisterCall ==
  [pc: {"collect", "requeue", "register"}, worker: Worker, address: Address,
   capacity: Capacity, todo: SUBSET Task]
ReportCall ==
  [pc: {"record"}, worker: Worker, success: BOOLEAN]
  \cup [pc: {"decrement"}, worker: Worker]

ServicesTypeOK ==
  /\ \A th \in Thread : rpc[th] \in {Idle} \cup RegisterCall \cup ReportCall
  /\ DOMAIN rpc = Thread
  /\ total_ok \in Nat
  /\ total_err \in Nat

ServicesInit ==
  /\ rpc = [th \in Thread |-> Idle]
  /\ total_ok = 0 /\ total_err = 0

(* A new process starts new servers and new metrics.                       *)
ServicesReset ==
  /\ rpc' = [th \in Thread |-> Idle]
  /\ total_ok' = 0 /\ total_err' = 0

(* What a handler thread leaves alone, and what notify may change.         *)
handlerUnchanged ==
  <<running_, d_worker, d_address, d_task, d_todo, dispatched_any, healthVars>>

-----------------------------------------------------------------------------
(* SubmitTask with a payload; without one it returns before it does        *)
(* anything.                                                               *)
SubmitTask(t, priority, now) ==
  /\ add_task(t, priority, now)
  /\ notify
  /\ UNCHANGED <<handlerUnchanged, workers, serviceVars>>

Heartbeat(w, active_tasks) ==
  /\ heartbeat(w, active_tasks)
  /\ UNCHANGED <<schedulerVars, storeVars, serviceVars>>

-----------------------------------------------------------------------------
(* RegisterWorker: look the worker up; if it is known, requeue what it had *)
(* in flight; then register it and notify.                                 *)
RegisterWorker(th, w, address, capacity) ==
  /\ rpc[th] = Idle
  /\ rpc' = [rpc EXCEPT ![th] =
       [pc |-> IF w \in DOMAIN workers THEN "collect" ELSE "register",
        worker |-> w, address |-> address, capacity |-> capacity, todo |-> {}]]
  /\ UNCHANGED <<schedulerVars, storeVars, workers, total_ok, total_err>>

RegisterCollect(th) ==
  /\ rpc[th].pc = "collect"
  /\ LET orphaned == get_tasks_for_worker(rpc[th].worker)
     IN rpc' = [rpc EXCEPT ![th].todo = orphaned,
                           ![th].pc = IF orphaned = {} THEN "register" ELSE "requeue"]
  /\ UNCHANGED <<schedulerVars, storeVars, workers, total_ok, total_err>>

RegisterRequeue(th, t) ==
  /\ rpc[th].pc = "requeue"
  /\ t \in rpc[th].todo
  /\ requeue_task(t)
  /\ rpc' = [rpc EXCEPT ![th].todo = @ \ {t},
                        ![th].pc = IF rpc[th].todo = {t} THEN "register" ELSE @]
  /\ UNCHANGED <<schedulerVars, workers, total_ok, total_err>>

RegisterStore(th) ==
  /\ rpc[th].pc = "register"
  /\ register_worker(rpc[th].worker, rpc[th].address, rpc[th].capacity)
  /\ notify
  /\ rpc' = [rpc EXCEPT ![th] = Idle]
  /\ UNCHANGED <<handlerUnchanged, storeVars, total_ok, total_err>>

-----------------------------------------------------------------------------
(* Variant: the verdict of a task that is not in flight is not counted.    *)
ReportResult_CountsInFlight(th, w, t) ==
  /\ rpc[th] = Idle
  /\ finish_task(t, VerdictOf(t))
  /\ rpc' = [rpc EXCEPT ![th] =
       IF t \in DOMAIN tasks /\ tasks[t].state \in InFlight
       THEN [pc |-> "record", worker |-> w, success |-> VerdictOf(t) = "COMPLETED"]
       ELSE [pc |-> "decrement", worker |-> w]]
  /\ UNCHANGED <<schedulerVars, workers, total_ok, total_err>>

(* ReportResult: store the verdict whatever state the task is in; if the   *)
(* task is known, count it in the metrics; then free the worker's slot and *)
(* notify.                                                                 *)
ReportResult(th, w, t) ==
  /\ rpc[th] = Idle
  /\ finish_task(t, VerdictOf(t))
  /\ rpc' = [rpc EXCEPT ![th] =
       IF t \in DOMAIN tasks
       THEN [pc |-> "record", worker |-> w, success |-> VerdictOf(t) = "COMPLETED"]
       ELSE [pc |-> "decrement", worker |-> w]]
  /\ UNCHANGED <<schedulerVars, workers, total_ok, total_err>>

(* MetricsCollector::record_completion.                                    *)
record_completion(success) ==
  IF success
  THEN total_ok' = total_ok + 1 /\ UNCHANGED total_err
  ELSE total_err' = total_err + 1 /\ UNCHANGED total_ok

ReportRecord(th) ==
  /\ rpc[th].pc = "record"
  /\ record_completion(rpc[th].success)
  /\ rpc' = [rpc EXCEPT ![th] = [pc |-> "decrement", worker |-> rpc[th].worker]]
  /\ UNCHANGED <<schedulerVars, storeVars, workers>>

ReportDecrement(th) ==
  /\ rpc[th].pc = "decrement"
  /\ decrement_load(rpc[th].worker)
  /\ notify
  /\ rpc' = [rpc EXCEPT ![th] = Idle]
  /\ UNCHANGED <<handlerUnchanged, storeVars, total_ok, total_err>>

(* The further steps of a handler that has begun.                          *)
HandlerStep(th) ==
  \/ RegisterCollect(th) \/ RegisterStore(th)
  \/ \E t \in Task : RegisterRequeue(th, t)
  \/ ReportRecord(th) \/ ReportDecrement(th)

=============================================================================
