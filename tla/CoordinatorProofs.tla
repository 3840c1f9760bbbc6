-------------------------- MODULE CoordinatorProofs --------------------------
(***************************************************************************)
(* Proofs about the coordinator, for every value of the constants.  They   *)
(* rest on lemmas of two kinds: what an operation of the store or the pool *)
(* does to what is known of it, and which operations a step of Next is     *)
(* made of.                                                                *)
(***************************************************************************)
EXTENDS Coordinator, FiniteSetTheorems, TLAPS

-----------------------------------------------------------------------------
(* The operations preserve the types.                                      *)

(* requeue_task keeps the store well typed.                                *)
LEMMA RequeueType ==
  ASSUME StoreTypeOK, NEW t, requeue_task(t)
  PROVE  StoreTypeOK'
<1>1. CASE Requeueable(t)
  <2>1. /\ tasks' = [tasks EXCEPT ![t].state = "PENDING",
                                  ![t].assigned_worker = NoWorker]
        /\ pending_queue' = [pending_queue EXCEPT ![t] = @ + 1]
    BY <1>1 DEF requeue_task
  <2>2. pending_queue' \in [Task -> Nat]
    BY <1>1, <2>1 DEF Requeueable, StoreTypeOK
  <2>3. DOMAIN tasks' = DOMAIN tasks
    BY <2>1
  <2>4. ASSUME NEW u \in DOMAIN tasks
        PROVE  tasks'[u] \in TaskRecord
    BY <2>1 DEF StoreTypeOK, TaskRecord, TaskState
  <2>. QED BY <2>2, <2>3, <2>4 DEF StoreTypeOK
<1>2. CASE ~Requeueable(t)
  BY <1>2 DEF requeue_task, StoreTypeOK, storeVars, TaskRecord
<1>. QED BY <1>1, <1>2

(* So do the other operations of the store.                                *)
LEMMA StoreOperationType ==
  ASSUME StoreTypeOK, NEW t,
         \/ t \in Task /\ \E p \in Priority, now \in Clock : add_task(t, p, now)
         \/ pop_pending(t) \/ pop_pending_nullopt
         \/ \E w \in Worker \cup {NoWorker} : assign_task(t, w)
         \/ finish_task(t, VerdictOf(t))
         \/ ExecutionTimeElapses(t)
  PROVE  StoreTypeOK'
<1>1. ASSUME t \in Task, NEW p \in Priority, NEW now \in Clock, add_task(t, p, now)
      PROVE  StoreTypeOK'
  BY <1>1 DEF add_task, StoreTypeOK, TaskRecord, TaskState
<1>2. CASE pop_pending(t)
  <2>1. pending_queue' \in [Task -> UNION {0..pending_queue[u] : u \in Task}]
    BY <1>2 DEF pop_pending, LeftAfterPop
  <2>2. pending_queue' \in [Task -> Nat]
    BY <2>1 DEF StoreTypeOK
  <2>. QED BY <1>2, <2>2 DEF pop_pending, StoreTypeOK, TaskRecord
<1>3. CASE pop_pending_nullopt
  BY <1>3 DEF pop_pending_nullopt, NoEntries, StoreTypeOK, TaskRecord
<1>4. ASSUME NEW w \in Worker \cup {NoWorker}, assign_task(t, w)
      PROVE  StoreTypeOK'
  <2>1. CASE t \in DOMAIN tasks
    <3>1. tasks' = [tasks EXCEPT ![t].state = "ASSIGNED",
                                 ![t].assigned_worker = w,
                                 ![t].overdue = FALSE]
      BY <1>4, <2>1 DEF assign_task
    <3>2. DOMAIN tasks' = DOMAIN tasks
      BY <3>1
    <3>3. ASSUME NEW u \in DOMAIN tasks
          PROVE  tasks'[u] \in TaskRecord
      BY <3>1, <1>4 DEF StoreTypeOK, TaskRecord, TaskState, InFlight
    <3>. QED BY <1>4, <3>2, <3>3 DEF assign_task, StoreTypeOK
  <2>2. CASE t \notin DOMAIN tasks
    BY <1>4, <2>2 DEF assign_task, StoreTypeOK, TaskRecord
  <2>. QED BY <2>1, <2>2
<1>5. CASE finish_task(t, VerdictOf(t))
  BY <1>5 DEF finish_task, VerdictOf, StoreTypeOK, TaskRecord, TaskState, Terminal
<1>6. CASE ExecutionTimeElapses(t)
  BY <1>6 DEF ExecutionTimeElapses, StoreTypeOK, TaskRecord
<1>. QED BY <1>1, <1>2, <1>3, <1>4, <1>5, <1>6

(* And those of the pool.                                                  *)
LEMMA PoolOperationType ==
  ASSUME PoolTypeOK, NEW w,
         \/ w \in Worker /\ \E a \in Address, c \in Capacity : register_worker(w, a, c)
         \/ \E n \in Nat : heartbeat(w, n)
         \/ increment_load(w) \/ decrement_load(w)
         \/ mark_dead(w) \/ HeartbeatsMissed(w)
  PROVE  PoolTypeOK'
<1>1. ASSUME w \in Worker, NEW a \in Address, NEW c \in Capacity, register_worker(w, a, c)
      PROVE  PoolTypeOK'
  BY <1>1 DEF register_worker, PoolTypeOK, WorkerInfo
<1>2. ASSUME NEW n \in Nat, heartbeat(w, n)
      PROVE  PoolTypeOK'
  BY <1>2 DEF heartbeat, PoolTypeOK, WorkerInfo
<1>3. CASE increment_load(w)
  BY <1>3 DEF increment_load, PoolTypeOK, WorkerInfo
<1>4. CASE decrement_load(w)
  BY <1>4 DEF decrement_load, PoolTypeOK, WorkerInfo
<1>5. CASE mark_dead(w)
  BY <1>5 DEF mark_dead, PoolTypeOK, WorkerInfo
<1>6. CASE HeartbeatsMissed(w)
  BY <1>6 DEF HeartbeatsMissed, PoolTypeOK, WorkerInfo
<1>. QED BY <1>1, <1>2, <1>3, <1>4, <1>5, <1>6

-----------------------------------------------------------------------------
(* The types.                                                              *)

(* What the store and the pool know is well typed whenever nothing changes.*)
LEMMA UnchangedType ==
  ASSUME StoreTypeOK, PoolTypeOK, ServicesTypeOK
  PROVE  /\ UNCHANGED storeVars => StoreTypeOK'
         /\ UNCHANGED workers => PoolTypeOK'
         /\ UNCHANGED serviceVars => ServicesTypeOK'
<1>1. UNCHANGED storeVars => StoreTypeOK'
  BY DEF storeVars, StoreTypeOK
<1>2. UNCHANGED workers => PoolTypeOK'
  BY DEF PoolTypeOK
<1>3. UNCHANGED serviceVars => ServicesTypeOK'
  BY DEF serviceVars, ServicesTypeOK
<1>. QED BY <1>1, <1>2, <1>3

LEMMA DispatchType ==
  ASSUME StoreTypeOK, PoolTypeOK, SchedulerTypeOK, ServicesTypeOK,
         DispatchStep \/ DispatchWaitTimeout \/ AssignRejected \/ AssignUnreachable
  PROVE  StoreTypeOK' /\ PoolTypeOK' /\ SchedulerTypeOK'
<1>. USE UnchangedType
<1>. USE DEF SchedulerTypeOK, DispatchPC, HealthPC, healthVars
<1>1. CASE DispatchWait
  BY <1>1 DEF DispatchWait
<1>2. CASE DispatchWake
  BY <1>2 DEF DispatchWake, EnterDispatch
<1>3. CASE DispatchGivesUp
  BY <1>3 DEF DispatchGivesUp, LeaveDispatch, EnterDispatch
<1>4. ASSUME NEW w \in Worker, DispatchSelect(w)
      PROVE  StoreTypeOK' /\ PoolTypeOK' /\ SchedulerTypeOK'
  <2>1. workers[w].address \in Address
    BY <1>4 DEF DispatchSelect, select_worker, Available, PoolTypeOK, WorkerInfo
  <2>. QED BY <1>4, <2>1 DEF DispatchSelect
<1>5. ASSUME NEW t \in Task, DispatchPop(t)
      PROVE  StoreTypeOK' /\ PoolTypeOK' /\ SchedulerTypeOK'
  BY <1>5, StoreOperationType DEF DispatchPop
<1>6. CASE DispatchNothingPending
  <2>1. StoreTypeOK'
    BY <1>6 DEF DispatchNothingPending, pop_pending_nullopt, NoEntries, StoreTypeOK
  <2>. QED BY <1>6, <2>1
         DEF DispatchNothingPending, EndIteration, LeaveDispatch, EnterDispatch
<1>7. CASE AssignSucceeded
  BY <1>7, StoreOperationType DEF AssignSucceeded
<1>8. CASE DispatchIncrement
  BY <1>8, PoolOperationType DEF DispatchIncrement, EndIteration
<1>9. CASE DispatchRequeue
  BY <1>9, RequeueType DEF DispatchRequeue
<1>10. CASE DispatchCollect
  BY <1>10 DEF DispatchCollect, get_tasks_for_worker, EndIteration, StoreTypeOK
<1>11. ASSUME NEW t \in Task, DispatchSweep(t)
       PROVE  StoreTypeOK' /\ PoolTypeOK' /\ SchedulerTypeOK'
  BY <1>11, RequeueType DEF DispatchSweep, EndIteration
<1>12. CASE DispatchWaitTimeout
  BY <1>12 DEF DispatchWaitTimeout
<1>13. CASE AssignRejected
  BY <1>13, RequeueType DEF AssignRejected, EndIteration, LeaveDispatch, EnterDispatch
<1>14. CASE AssignUnreachable
  BY <1>14, PoolOperationType DEF AssignUnreachable
<1>. QED
  BY <1>1, <1>2, <1>3, <1>4, <1>5, <1>6, <1>7, <1>8, <1>9, <1>10, <1>11, <1>12,
     <1>13, <1>14 DEF DispatchStep

LEMMA HealthType ==
  ASSUME StoreTypeOK, PoolTypeOK, SchedulerTypeOK, ServicesTypeOK, HealthStep
  PROVE  StoreTypeOK' /\ PoolTypeOK' /\ SchedulerTypeOK'
<1>. USE UnchangedType
<1>. USE DEF SchedulerTypeOK, DispatchPC, HealthPC, dispatchVars
<1>1. CASE HealthStop
  BY <1>1 DEF HealthStop
<1>2. CASE HealthScan
  BY <1>2 DEF HealthScan, find_dead_workers, PoolTypeOK
<1>3. CASE HealthCollect
  BY <1>3 DEF HealthCollect, NextDeadWorker, get_tasks_for_worker, StoreTypeOK
<1>4. CASE HealthTimeouts
  BY <1>4 DEF HealthTimeouts, get_timed_out_tasks, StoreTypeOK
<1>5. ASSUME NEW w \in Worker, HealthBury(w)
      PROVE  StoreTypeOK' /\ PoolTypeOK' /\ SchedulerTypeOK'
  BY <1>5, PoolOperationType DEF HealthBury
<1>6. ASSUME NEW t \in Task, HealthSweep(t)
      PROVE  StoreTypeOK' /\ PoolTypeOK' /\ SchedulerTypeOK'
  BY <1>6, RequeueType DEF HealthSweep, NextDeadWorker, notify
<1>7. ASSUME NEW t \in Task, HealthExpire(t)
      PROVE  StoreTypeOK' /\ PoolTypeOK' /\ SchedulerTypeOK'
  BY <1>7, RequeueType DEF HealthExpire, notify
<1>. QED BY <1>1, <1>2, <1>3, <1>4, <1>5, <1>6, <1>7 DEF HealthStep

(* A handler changes d_pc through notify only.                             *)
LEMMA NotifyType ==
  ASSUME SchedulerTypeOK, UNCHANGED handlerUnchanged, notify \/ UNCHANGED d_pc
  PROVE  SchedulerTypeOK'
BY DEF SchedulerTypeOK, DispatchPC, handlerUnchanged, healthVars, notify

(* Which call a busy thread is serving is known from its pc.               *)
LEMMA RpcCalls ==
  ASSUME ServicesTypeOK, NEW th \in Thread
  PROVE  /\ rpc[th].pc \in {"collect", "requeue", "register"} => rpc[th] \in RegisterCall
         /\ rpc[th].pc = "record"
              => rpc[th] \in [pc: {"record"}, worker: Worker, success: BOOLEAN]
         /\ rpc[th].pc = "decrement" => rpc[th] \in [pc: {"decrement"}, worker: Worker]
BY DEF ServicesTypeOK, Idle, RegisterCall, ReportCall

LEMMA HandlerType ==
  ASSUME TypeOK, NEW th \in Thread, HandlerStep(th)
  PROVE  StoreTypeOK' /\ PoolTypeOK' /\ SchedulerTypeOK' /\ ServicesTypeOK'
<1>. USE UnchangedType, RpcCalls DEF TypeOK
<1>1. UNCHANGED schedulerVars => SchedulerTypeOK'
  BY DEF schedulerVars, dispatchVars, healthVars, SchedulerTypeOK
<1>2. CASE RegisterCollect(th)
  <2>1. PICK todo \in SUBSET Task, pc \in {"requeue", "register"} :
          rpc' = [rpc EXCEPT ![th].todo = todo, ![th].pc = pc]
    BY <1>2 DEF RegisterCollect, get_tasks_for_worker, StoreTypeOK
  <2>2. rpc[th] \in RegisterCall
    BY <1>2 DEF RegisterCollect
  <2>3. rpc'[th] \in RegisterCall
    BY <2>1, <2>2 DEF RegisterCall, ServicesTypeOK
  <2>4. ServicesTypeOK'
    BY <1>2, <2>1, <2>3 DEF RegisterCollect, ServicesTypeOK
  <2>. QED BY <1>1, <1>2, <2>4 DEF RegisterCollect
<1>3. CASE RegisterStore(th)
  <2>1. ServicesTypeOK'
    BY <1>3 DEF RegisterStore, ServicesTypeOK
  <2>2. PoolTypeOK'
    BY <1>3, PoolOperationType DEF RegisterStore, RegisterCall
  <2>. QED BY <1>3, <2>1, <2>2, NotifyType DEF RegisterStore
<1>4. ASSUME NEW t \in Task, RegisterRequeue(th, t)
      PROVE  StoreTypeOK' /\ PoolTypeOK' /\ SchedulerTypeOK' /\ ServicesTypeOK'
  <2>1. PICK pc \in {"requeue", "register"} :
          rpc' = [rpc EXCEPT ![th].todo = @ \ {t}, ![th].pc = pc]
    BY <1>4 DEF RegisterRequeue
  <2>2. rpc[th] \in RegisterCall
    BY <1>4 DEF RegisterRequeue
  <2>3. rpc'[th] \in RegisterCall
    BY <2>1, <2>2 DEF RegisterCall, ServicesTypeOK
  <2>4. ServicesTypeOK'
    BY <1>4, <2>1, <2>3 DEF RegisterRequeue, ServicesTypeOK
  <2>. QED BY <1>1, <1>4, <2>4, RequeueType DEF RegisterRequeue
<1>5. CASE ReportRecord(th)
  <2>1. ServicesTypeOK'
    BY <1>5 DEF ReportRecord, record_completion, ServicesTypeOK, ReportCall
  <2>. QED BY <1>1, <1>5, <2>1 DEF ReportRecord
<1>6. CASE ReportDecrement(th)
  <2>1. ServicesTypeOK'
    BY <1>6 DEF ReportDecrement, ServicesTypeOK
  <2>2. PoolTypeOK'
    BY <1>6, PoolOperationType DEF ReportDecrement
  <2>. QED BY <1>6, <2>1, <2>2, NotifyType DEF ReportDecrement
<1>. QED BY <1>2, <1>3, <1>4, <1>5, <1>6 DEF HandlerStep

LEMMA InitType == Init => TypeOK
<1>. SUFFICES ASSUME Init PROVE TypeOK
  OBVIOUS
<1>1. StoreTypeOK
  BY DEF Init, StoreInit, NoTasks, NoEntries, StoreTypeOK
<1>2. PoolTypeOK
  BY DEF Init, PoolInit, NoWorkers, PoolTypeOK
<1>3. SchedulerTypeOK
  BY DEF Init, SchedulerInit, SchedulerTypeOK, DispatchPC, HealthPC
<1>4. ServicesTypeOK
  BY DEF Init, ServicesInit, ServicesTypeOK
<1>. QED BY <1>1, <1>2, <1>3, <1>4 DEF Init, TypeOK

LEMMA NextType ==
  ASSUME TypeOK, DispatchControl, [Next]_vars
  PROVE  TypeOK'
<1>. USE UnchangedType DEF TypeOK, environmentVars
<1>0. UNCHANGED schedulerVars => SchedulerTypeOK'
  BY DEF schedulerVars, dispatchVars, healthVars, SchedulerTypeOK
<1>1. CASE Dispatch
  BY <1>1, DispatchType DEF Dispatch
<1>2. CASE WaitTimeout
  BY <1>2, DispatchType DEF WaitTimeout
<1>3. CASE Health
  BY <1>3, HealthType DEF Health
<1>4. ASSUME NEW th \in Thread, Handler(th) PROVE TypeOK'
  BY <1>4, HandlerType DEF Handler
<1>5. ASSUME NEW t \in Task, NEW p \in Priority, NEW now \in Clock, Submit(t, p, now)
      PROVE  TypeOK'
  BY <1>5, StoreOperationType, NotifyType DEF Submit, SubmitTask
<1>6. ASSUME NEW th \in Thread, NEW w \in Worker, NEW a \in Address, NEW c \in Capacity,
             Register(th, w, a, c)
      PROVE  TypeOK'
  <2>1. ServicesTypeOK'
    BY <1>6 DEF Register, RegisterWorker, ServicesTypeOK, RegisterCall
  <2>. QED BY <1>0, <1>6, <2>1 DEF Register, RegisterWorker
<1>7. ASSUME NEW w \in Worker, NEW n \in 0..MaxLoad, Beat(w, n)
      PROVE  TypeOK'
  <2>1. n \in Nat
    BY PoolAssumption
  <2>. QED BY <1>0, <1>7, <2>1, PoolOperationType DEF Beat, Heartbeat
<1>8. ASSUME NEW th \in Thread, NEW w \in Worker, NEW t \in Task, Report(th, w, t)
      PROVE  TypeOK'
  <2>1. ServicesTypeOK'
    BY <1>8 DEF Report, ReportResult, VerdictOf, ServicesTypeOK, ReportCall
  <2>. QED BY <1>0, <1>8, <2>1, StoreOperationType DEF Report, ReportResult
<1>9. CASE WorkerAccepts
  <2>1. SchedulerTypeOK'
    BY <1>9 DEF WorkerAccepts, SchedulerTypeOK, DispatchPC, healthVars
  <2>2. accepted' \subseteq Worker \X Task
    BY <1>9 DEF WorkerAccepts, DispatchControl, StoreTypeOK, PoolTypeOK
  <2>. QED BY <1>9, <2>1, <2>2 DEF WorkerAccepts
<1>10. CASE WorkerRejects
  BY <1>10, DispatchType DEF WorkerRejects
<1>11. CASE WorkerUnreachable
  <2>1. accepted' \subseteq Worker \X Task
    BY <1>11 DEF WorkerUnreachable, DispatchControl, StoreTypeOK
  <2>. QED BY <1>11, <2>1, DispatchType DEF WorkerUnreachable
<1>12. ASSUME NEW w \in Worker, WorkerFallsSilent(w) PROVE TypeOK'
  BY <1>0, <1>12, PoolOperationType DEF WorkerFallsSilent
<1>13. ASSUME NEW t \in Task, TaskOverruns(t) PROVE TypeOK'
  BY <1>0, <1>13, StoreOperationType DEF TaskOverruns
<1>14. CASE Stop
  BY <1>14 DEF Stop, stop, notify, SchedulerTypeOK, DispatchPC, healthVars
<1>15. CASE Crash
  <2>1. StoreTypeOK'
    BY <1>15 DEF Crash, StoreReset, NoTasks, NoEntries, StoreTypeOK
  <2>2. PoolTypeOK'
    BY <1>15 DEF Crash, PoolReset, NoWorkers, PoolTypeOK
  <2>3. SchedulerTypeOK'
    BY <1>15 DEF Crash, SchedulerReset, SchedulerTypeOK, DispatchPC, HealthPC
  <2>4. ServicesTypeOK'
    BY <1>15 DEF Crash, ServicesReset, ServicesTypeOK
  <2>. QED BY <1>15, <2>1, <2>2, <2>3, <2>4 DEF Crash, StoreTypeOK
<1>16. CASE UNCHANGED vars
  BY <1>0, <1>16 DEF vars, coordinatorVars
<1>. QED
  BY <1>1, <1>2, <1>3, <1>4, <1>5, <1>6, <1>7, <1>8, <1>9, <1>10, <1>11, <1>12,
     <1>13, <1>14, <1>15, <1>16 DEF Next

-----------------------------------------------------------------------------
(* Who changes what.                                                       *)

(* What moves the dispatch thread on.                                      *)
DispatcherStep ==
  DispatchStep \/ DispatchWaitTimeout \/ AssignRejected \/ AssignUnreachable
    \/ WorkerAccepts

(* What the other threads, clients, workers and time do to the store, to   *)
(* the pool and to the dispatch thread.                                    *)
StoreByOthers ==
  \/ UNCHANGED storeVars
  \/ \E t \in Task : requeue_task(t)
  \/ \E t \in Task \ forgotten, p \in Priority, now \in Clock : add_task(t, p, now)
  \/ \E t \in Taken : finish_task(t, VerdictOf(t))
  \/ \E t \in Task : ExecutionTimeElapses(t)

PoolByOthers ==
  \/ UNCHANGED workers
  \/ \E w \in Worker, a \in Address, c \in Capacity : register_worker(w, a, c)
  \/ \E w \in Worker, n \in 0..MaxLoad : heartbeat(w, n)
  \/ \E w \in Worker : decrement_load(w) \/ mark_dead(w) \/ HeartbeatsMissed(w)

DispatchUndisturbed ==
  /\ UNCHANGED <<d_worker, d_task, d_todo>>
  /\ d_pc' = d_pc \/ (d_pc = "wait" /\ d_pc' = "woken")

OthersStep == StoreByOthers /\ PoolByOthers /\ DispatchUndisturbed

LEMMA HealthIsOther ==
  ASSUME TypeOK, HealthStep
  PROVE  OthersStep
<1>. USE DEF OthersStep, StoreByOthers, PoolByOthers, DispatchUndisturbed, dispatchVars
<1>1. CASE HealthStop
  BY <1>1 DEF HealthStop
<1>2. CASE HealthScan
  BY <1>2 DEF HealthScan
<1>3. CASE HealthCollect
  BY <1>3 DEF HealthCollect
<1>4. CASE HealthTimeouts
  BY <1>4 DEF HealthTimeouts
<1>5. ASSUME NEW w \in Worker, HealthBury(w) PROVE OthersStep
  BY <1>5 DEF HealthBury
<1>6. ASSUME NEW t \in Task, HealthSweep(t) PROVE OthersStep
  BY <1>6 DEF HealthSweep, notify
<1>7. ASSUME NEW t \in Task, HealthExpire(t) PROVE OthersStep
  BY <1>7 DEF HealthExpire, notify
<1>. QED BY <1>1, <1>2, <1>3, <1>4, <1>5, <1>6, <1>7 DEF HealthStep

LEMMA HandlerIsOther ==
  ASSUME TypeOK, NEW th \in Thread, HandlerStep(th)
  PROVE  OthersStep
<1>. USE RpcCalls
     DEF TypeOK, OthersStep, StoreByOthers, PoolByOthers, DispatchUndisturbed,
         schedulerVars, dispatchVars, handlerUnchanged
<1>1. CASE RegisterCollect(th)
  BY <1>1 DEF RegisterCollect
<1>2. CASE RegisterStore(th)
  BY <1>2 DEF RegisterStore, RegisterCall, notify
<1>3. ASSUME NEW t \in Task, RegisterRequeue(th, t) PROVE OthersStep
  BY <1>3 DEF RegisterRequeue
<1>4. CASE ReportRecord(th)
  BY <1>4 DEF ReportRecord
<1>5. CASE ReportDecrement(th)
  BY <1>5 DEF ReportDecrement, notify
<1>. QED BY <1>1, <1>2, <1>3, <1>4, <1>5 DEF HandlerStep

(* A step of the system moves the dispatch thread, or is one of others, or *)
(* is a crash; and only a crash adds to what is forgotten.                 *)
LEMMA StepKinds ==
  ASSUME TypeOK, [Next]_vars
  PROVE  ((DispatcherStep \/ OthersStep) /\ UNCHANGED forgotten) \/ Crash
<1>. DEFINE Kind == ((DispatcherStep \/ OthersStep) /\ UNCHANGED forgotten) \/ Crash
<1>. USE DEF StoreByOthers, PoolByOthers, DispatchUndisturbed, OthersStep,
             schedulerVars, dispatchVars, environmentVars
<1>1. CASE Dispatch
  BY <1>1 DEF Dispatch, DispatcherStep
<1>2. CASE WaitTimeout
  BY <1>2 DEF WaitTimeout, DispatcherStep
<1>3. CASE Health
  BY <1>3, HealthIsOther DEF Health
<1>4. ASSUME NEW th \in Thread, Handler(th) PROVE Kind
  BY <1>4, HandlerIsOther DEF Handler
<1>5. ASSUME NEW t \in Task, NEW p \in Priority, NEW now \in Clock, Submit(t, p, now)
      PROVE  Kind
  BY <1>5 DEF Submit, SubmitTask, handlerUnchanged, notify
<1>6. ASSUME NEW th \in Thread, NEW w \in Worker, NEW a \in Address, NEW c \in Capacity,
             Register(th, w, a, c)
      PROVE  Kind
  BY <1>6 DEF Register, RegisterWorker
<1>7. ASSUME NEW w \in Worker, NEW n \in 0..MaxLoad, Beat(w, n) PROVE Kind
  BY <1>7 DEF Beat, Heartbeat
<1>8. ASSUME NEW th \in Thread, NEW w \in Worker, NEW t \in Task, Report(th, w, t)
      PROVE  Kind
  BY <1>8 DEF Report, ReportResult, Taken
<1>9. CASE WorkerAccepts
  BY <1>9 DEF WorkerAccepts, DispatcherStep
<1>10. CASE WorkerRejects
  BY <1>10 DEF WorkerRejects, DispatcherStep
<1>11. CASE WorkerUnreachable
  BY <1>11 DEF WorkerUnreachable, DispatcherStep
<1>12. ASSUME NEW w \in Worker, WorkerFallsSilent(w) PROVE Kind
  BY <1>12 DEF WorkerFallsSilent
<1>13. ASSUME NEW t \in Task, TaskOverruns(t) PROVE Kind
  BY <1>13 DEF TaskOverruns
<1>14. CASE Stop
  BY <1>14 DEF Stop, stop, notify
<1>15. CASE UNCHANGED vars
  BY <1>15 DEF vars, coordinatorVars
<1>. QED
  BY <1>1, <1>2, <1>3, <1>4, <1>5, <1>6, <1>7, <1>8, <1>9, <1>10, <1>11, <1>12,
     <1>13, <1>14, <1>15 DEF Next

-----------------------------------------------------------------------------
(* What the operations do to a task and to a worker.                       *)

(* requeue_task makes t pending and queues it, or finds a verdict and      *)
(* leaves it alone; it leaves the other tasks alone.                       *)
LEMMA RequeueEffect ==
  ASSUME StoreTypeOK, NEW t, requeue_task(t)
  PROVE  /\ DOMAIN tasks' = DOMAIN tasks
         /\ \A u \in Task : pending_queue'[u] >= pending_queue[u]
         /\ \A u \in DOMAIN tasks : u # t => tasks'[u] = tasks[u]
         /\ t \in DOMAIN tasks =>
              \/ tasks[t].state \in Terminal /\ tasks'[t] = tasks[t]
              \/ /\ tasks[t].state \notin Terminal
                 /\ tasks'[t].state = "PENDING" /\ pending_queue'[t] > 0
<1>1. CASE Requeueable(t)
  BY <1>1 DEF requeue_task, Requeueable, StoreTypeOK, TaskRecord
<1>2. CASE ~Requeueable(t)
  BY <1>2 DEF requeue_task, Requeueable, StoreTypeOK, storeVars
<1>. QED BY <1>1, <1>2

(* Apart from the dispatch thread nobody takes an entry from the queue,    *)
(* puts a task in flight or takes it out of a terminal state.              *)
StoreEffect ==
  /\ DOMAIN tasks \subseteq DOMAIN tasks'
  /\ forgotten \cap DOMAIN tasks' \subseteq DOMAIN tasks
  /\ \A u \in Task : pending_queue'[u] >= pending_queue[u]
  /\ \A u \in DOMAIN tasks' :
       \/ /\ u \in DOMAIN tasks
          /\ tasks'[u].state = tasks[u].state
          /\ tasks'[u].assigned_worker = tasks[u].assigned_worker
       \/ /\ u \in DOMAIN tasks => tasks[u].state \notin Terminal
          /\ tasks'[u].state = "PENDING" /\ pending_queue'[u] > 0
       \/ tasks'[u].state \in Terminal

LEMMA OthersStoreEffect ==
  ASSUME StoreTypeOK, StoreByOthers
  PROVE  StoreEffect
<1>. USE DEF StoreEffect
<1>1. CASE UNCHANGED storeVars
  BY <1>1 DEF storeVars, StoreTypeOK
<1>2. ASSUME NEW t \in Task, requeue_task(t) PROVE StoreEffect
  <2>1. ASSUME NEW u \in DOMAIN tasks
        PROVE  \/ /\ tasks'[u].state = tasks[u].state
                  /\ tasks'[u].assigned_worker = tasks[u].assigned_worker
               \/ /\ tasks[u].state \notin Terminal
                  /\ tasks'[u].state = "PENDING" /\ pending_queue'[u] > 0
    BY <1>2, RequeueEffect
  <2>. QED BY <1>2, <2>1, RequeueEffect
<1>3. ASSUME NEW t \in Task \ forgotten, NEW p \in Priority, NEW now \in Clock,
             add_task(t, p, now)
      PROVE  StoreEffect
  BY <1>3 DEF add_task, StoreTypeOK
<1>4. ASSUME NEW t \in Task, finish_task(t, VerdictOf(t)) PROVE StoreEffect
  BY <1>4 DEF finish_task, VerdictOf, Terminal, StoreTypeOK, TaskRecord
<1>5. ASSUME NEW t \in Task, ExecutionTimeElapses(t) PROVE StoreEffect
  BY <1>5 DEF ExecutionTimeElapses, StoreTypeOK, TaskRecord
<1>. QED BY <1>1, <1>2, <1>3, <1>4, <1>5 DEF StoreByOthers, Taken

(* Apart from the dispatch thread nobody raises a load, except that a      *)
(* heartbeat or a registration replaces it by what the worker reports.     *)
PoolEffect ==
  /\ DOMAIN workers \subseteq DOMAIN workers'
  /\ \A w \in DOMAIN workers' :
       \/ workers'[w].active_tasks <= MaxLoad
       \/ w \in DOMAIN workers /\ workers'[w].active_tasks <= workers[w].active_tasks

LEMMA OthersPoolEffect ==
  ASSUME PoolTypeOK, PoolByOthers
  PROVE  PoolEffect
<1>. USE PoolAssumption DEF PoolEffect, PoolTypeOK, WorkerInfo
<1>1. CASE UNCHANGED workers
  BY <1>1
<1>2. ASSUME NEW w \in Worker, NEW a \in Address, NEW c \in Capacity,
             register_worker(w, a, c)
      PROVE  PoolEffect
  BY <1>2 DEF register_worker
<1>3. ASSUME NEW w \in Worker, NEW n \in 0..MaxLoad, heartbeat(w, n)
      PROVE  PoolEffect
  BY <1>3 DEF heartbeat
<1>4. ASSUME NEW w \in Worker, decrement_load(w) PROVE PoolEffect
  BY <1>4 DEF decrement_load
<1>5. ASSUME NEW w \in Worker, mark_dead(w) PROVE PoolEffect
  BY <1>5 DEF mark_dead
<1>6. ASSUME NEW w \in Worker, HeartbeatsMissed(w) PROVE PoolEffect
  BY <1>6 DEF HeartbeatsMissed
<1>. QED BY <1>1, <1>2, <1>3, <1>4, <1>5, <1>6 DEF PoolByOthers

-----------------------------------------------------------------------------
(* The inductive invariant.                                                *)

LEMMA InitIInv == Init => IInv
<1>. SUFFICES ASSUME Init PROVE IInv
  OBVIOUS
<1>1. TypeOK
  BY InitType
<1>2. tasks = NoTasks /\ workers = NoWorkers /\ d_pc = "select" /\ d_task = NoTask
  BY DEF Init, StoreInit, PoolInit, SchedulerInit
<1>. QED
  BY <1>1, <1>2
     DEF IInv, NoTasks, NoWorkers, DispatchControl, NoTaskLost, InFlightOwned,
         LoadBounded, SelectedHasRoom, SweepListComplete, ForgottenStayForgotten

LEMMA CrashIInv ==
  ASSUME Crash, TypeOK'
  PROVE  IInv'
<1>1. /\ tasks' = NoTasks /\ workers' = NoWorkers
      /\ d_pc' = "select" /\ d_task' = NoTask
  BY DEF Crash, StoreReset, PoolReset, SchedulerReset
<1>. QED
  BY <1>1
     DEF IInv, NoTasks, NoWorkers, DispatchControl, NoTaskLost, InFlightOwned,
         LoadBounded, SelectedHasRoom, SweepListComplete, ForgottenStayForgotten

LEMMA OthersIInv ==
  ASSUME IInv, OthersStep, UNCHANGED forgotten, TypeOK'
  PROVE  IInv'
<1>. USE DEF IInv, TypeOK
<1>1. StoreEffect /\ PoolEffect /\ DispatchUndisturbed
  BY OthersStoreEffect, OthersPoolEffect DEF OthersStep
<1>. USE <1>1 DEF DispatchUndisturbed
<1>2. DispatchControl'
  BY DEF DispatchControl, StoreEffect, PoolEffect
<1>3. NoTaskLost'
  <2>. SUFFICES ASSUME NEW t \in DOMAIN tasks', tasks'[t].state = "PENDING"
                PROVE  pending_queue'[t] > 0 \/ Held(t)'
    BY DEF NoTaskLost
  <2>1. Held(t) => Held(t)'
    BY DEF Held
  <2>2. t \in DOMAIN tasks /\ tasks[t].state = "PENDING" => pending_queue'[t] > 0 \/ Held(t)'
    BY <2>1 DEF NoTaskLost, StoreEffect, StoreTypeOK
  <2>. QED BY <2>2 DEF StoreEffect, Terminal
<1>4. InFlightOwned'
  BY DEF InFlightOwned, StoreEffect, PoolEffect, InFlight, Terminal
<1>5. LoadBounded'
  BY PoolAssumption DEF LoadBounded, PoolEffect, PoolTypeOK, WorkerInfo
<1>6. SelectedHasRoom'
  BY PoolAssumption DEF SelectedHasRoom, DispatchControl, PoolEffect, PoolTypeOK, WorkerInfo
<1>7. SweepListComplete'
  BY DEF SweepListComplete, StoreEffect, InFlight, Terminal
<1>8. ForgottenStayForgotten'
  BY DEF ForgottenStayForgotten, StoreEffect
<1>. QED BY <1>2, <1>3, <1>4, <1>5, <1>6, <1>7, <1>8

(* The steps of the dispatch thread that leave the store and the pool      *)
(* alone, up to the selection of a worker and around the RPC.              *)
LEMMA DispatchMovesIInv ==
  ASSUME IInv, UNCHANGED forgotten, TypeOK',
         \/ DispatchWait \/ DispatchWaitTimeout \/ DispatchWake \/ DispatchGivesUp
         \/ \E w \in Worker : DispatchSelect(w)
         \/ WorkerAccepts \/ DispatchCollect
  PROVE  IInv'
<1>1. UNCHANGED <<storeVars, workers, d_task>>
  BY DEF DispatchWait, DispatchWaitTimeout, DispatchWake, DispatchGivesUp,
         DispatchSelect, WorkerAccepts, DispatchCollect, EndIteration, IInv,
         DispatchControl
<1>. USE <1>1 DEF IInv, storeVars
<1>2. /\ NoTaskLost'
      /\ InFlightOwned'
      /\ LoadBounded'
      /\ ForgottenStayForgotten'
  <2>1. ASSUME NEW t, Held(t) PROVE Held(t)'
    <3>1. d_task = t /\ d_pc \in {"rpc", "accepted", "requeue"}
      BY <2>1 DEF Held
    <3>2. WorkerAccepts
      BY <3>1 DEF DispatchWait, DispatchWaitTimeout, DispatchWake, DispatchGivesUp,
                  DispatchSelect, DispatchCollect
    <3>3. d_pc' = "accepted"
      BY <3>2 DEF WorkerAccepts
    <3>. QED BY <1>1, <3>1, <3>3 DEF Held
  <2>2. NoTaskLost'
    BY <2>1 DEF NoTaskLost
  <2>. QED BY <2>2 DEF InFlightOwned, LoadBounded, ForgottenStayForgotten
<1>. USE DEF DispatchControl, SelectedHasRoom, SweepListComplete
<1>3. CASE DispatchWait
  BY <1>2, <1>3 DEF DispatchWait
<1>4. CASE DispatchWaitTimeout
  BY <1>2, <1>4 DEF DispatchWaitTimeout
<1>5. CASE DispatchWake
  BY <1>2, <1>5 DEF DispatchWake, EnterDispatch
<1>6. CASE DispatchGivesUp
  BY <1>2, <1>6 DEF DispatchGivesUp, LeaveDispatch, EnterDispatch
<1>7. ASSUME NEW w \in Worker, DispatchSelect(w) PROVE IInv'
  <2>1. w \in DOMAIN workers /\ workers[w].active_tasks < workers[w].capacity
    BY <1>7 DEF DispatchSelect, select_worker, Available
  <2>2. workers[w].active_tasks <= MaxLoad
    <3>1. workers[w].active_tasks \in Nat /\ workers[w].capacity \in Capacity
      BY <2>1 DEF TypeOK, PoolTypeOK, WorkerInfo
    <3>2. workers[w].capacity \in Int /\ workers[w].capacity <= MaxLoad
      BY <3>1, PoolAssumption
    <3>. QED BY <2>1, <3>1, <3>2, PoolAssumption
  <2>3. d_pc = "select" /\ d_pc' = "pop" /\ d_worker' = w
    BY <1>7 DEF DispatchSelect
  <2>4. DispatchControl'
    BY <2>1, <2>3
  <2>5. SelectedHasRoom' /\ SweepListComplete'
    BY <2>2, <2>3
  <2>. QED BY <1>2, <2>4, <2>5
<1>8. CASE WorkerAccepts
  BY <1>2, <1>8 DEF WorkerAccepts
<1>9. CASE DispatchCollect
  BY <1>2, <1>9 DEF DispatchCollect, EndIteration, get_tasks_for_worker
<1>. QED BY <1>3, <1>4, <1>5, <1>6, <1>7, <1>8, <1>9

(* A requeue of the dispatch thread, whatever it was for.                  *)
LEMMA RequeueIInv ==
  ASSUME IInv, NEW t, requeue_task(t),
         d_task = t \/ d_task = NoTask
  PROVE  /\ \A u \in DOMAIN tasks' : tasks'[u].state = "PENDING" => pending_queue'[u] > 0
         /\ DOMAIN tasks' = DOMAIN tasks
         /\ \A u \in DOMAIN tasks' :
              tasks'[u].state \in InFlight
                => u # t /\ tasks'[u] = tasks[u]
<1>. USE RequeueEffect DEF IInv, TypeOK, StoreTypeOK
<1>1. ASSUME NEW u \in DOMAIN tasks', tasks'[u].state = "PENDING"
      PROVE  pending_queue'[u] > 0
  <2>1. NoTask \notin Task
    BY ProtocolAssumption
  <2>2. CASE u = t
    BY <1>1, <2>2 DEF Terminal
  <2>3. CASE u # t
    <3>1. u \in DOMAIN tasks /\ tasks[u].state = "PENDING"
      BY <1>1, <2>3
    <3>2. ~Held(u)
      BY <2>1, <2>3, <3>1 DEF Held
    <3>3. pending_queue[u] > 0
      BY <3>1, <3>2 DEF NoTaskLost
    <3>. QED BY <3>1, <3>3, RequeueType
  <2>. QED BY <2>2, <2>3
<1>2. ASSUME NEW u \in DOMAIN tasks', tasks'[u].state \in InFlight
      PROVE  u # t /\ tasks'[u] = tasks[u]
  BY <1>2 DEF InFlight, Terminal
<1>. QED BY <1>1, <1>2

(* When it pops, the dispatch thread holds no task: every pending task is  *)
(* then in the queue.                                                      *)
LEMMA PendingIsReady ==
  ASSUME NoTaskLost, d_pc = "pop", NEW u \in DOMAIN tasks, tasks[u].state = "PENDING"
  PROVE  u \in Ready
BY DEF NoTaskLost, Held, Ready, Queued

LEMMA DispatchPopIInv ==
  ASSUME IInv, UNCHANGED forgotten, TypeOK',
         (\E t \in Task : DispatchPop(t)) \/ DispatchNothingPending
  PROVE  IInv'
<1>. USE DEF IInv
<1>1. UNCHANGED <<tasks, workers>> /\ d_pc = "pop" /\ d_task = NoTask
  BY DEF DispatchPop, DispatchNothingPending, pop_pending, pop_pending_nullopt,
         DispatchControl
<1>2. InFlightOwned' /\ LoadBounded' /\ ForgottenStayForgotten'
  BY <1>1 DEF InFlightOwned, LoadBounded, ForgottenStayForgotten
<1>3. ASSUME NEW u \in DOMAIN tasks, tasks[u].state = "PENDING"
      PROVE  u \in Ready
  BY <1>1, <1>3, PendingIsReady
<1>4. ASSUME NEW t \in Task, DispatchPop(t) PROVE IInv'
  <2>1. d_pc' = "rpc" /\ d_task' = t /\ t \in Ready /\ UNCHANGED d_worker
    BY <1>4 DEF DispatchPop, pop_pending
  <2>2. DispatchControl' /\ SelectedHasRoom' /\ SweepListComplete'
    BY <1>1, <2>1 DEF DispatchControl, SelectedHasRoom, SweepListComplete, Ready, Queued
  <2>3. ASSUME NEW u \in DOMAIN tasks', tasks'[u].state = "PENDING", u # t
        PROVE  pending_queue'[u] > 0
    <3>1. u \in Ready /\ u \in Task
      BY <1>1, <1>3, <2>3 DEF TypeOK, StoreTypeOK
    <3>2. pending_queue'[u] = pending_queue[u]
      BY <1>4, <2>3, <3>1 DEF DispatchPop, pop_pending, LeftAfterPop
    <3>. QED BY <3>1, <3>2 DEF Ready, Queued
  <2>4. NoTaskLost'
    BY <2>1, <2>3 DEF NoTaskLost, Held
  <2>. QED BY <1>2, <2>2, <2>4
<1>5. CASE DispatchNothingPending
  <2>1. \A u \in DOMAIN tasks : tasks[u].state # "PENDING"
    BY <1>3, <1>5 DEF DispatchNothingPending, pop_pending_nullopt
  <2>2. d_pc' \in {"idle", "select", "stopped"} /\ d_task' = NoTask
    BY <1>5 DEF DispatchNothingPending, EndIteration, LeaveDispatch, EnterDispatch
  <2>. QED
    BY <1>1, <1>2, <2>1, <2>2
       DEF NoTaskLost, DispatchControl, SelectedHasRoom, SweepListComplete
<1>. QED BY <1>4, <1>5

LEMMA DispatchAssignIInv ==
  ASSUME IInv, UNCHANGED forgotten, TypeOK', AssignSucceeded \/ DispatchIncrement
  PROVE  IInv'
<1>. USE DEF IInv
<1>1. CASE AssignSucceeded
  <2>1. /\ d_pc = "accepted" /\ d_pc' = "increment" /\ d_task' = NoTask
        /\ UNCHANGED <<d_worker, workers, pending_queue>>
        /\ d_task \in DOMAIN tasks /\ d_worker \in DOMAIN workers
    BY <1>1 DEF AssignSucceeded, assign_task, DispatchControl
  <2>2. tasks' = [tasks EXCEPT ![d_task].state = "ASSIGNED",
                               ![d_task].assigned_worker = d_worker,
                               ![d_task].overdue = FALSE]
    BY <1>1, <2>1 DEF AssignSucceeded, assign_task
  <2>3. /\ DOMAIN tasks' = DOMAIN tasks
        /\ \A u \in DOMAIN tasks : u # d_task => tasks'[u] = tasks[u]
        /\ tasks'[d_task].state = "ASSIGNED"
        /\ tasks'[d_task].assigned_worker = d_worker
    BY <2>1, <2>2 DEF TypeOK, StoreTypeOK, TaskRecord
  <2>4. NoTaskLost'
    BY <2>1, <2>3 DEF NoTaskLost, Held
  <2>5. InFlightOwned'
    BY <2>1, <2>3 DEF InFlightOwned
  <2>. QED
    BY <2>1, <2>3, <2>4, <2>5
       DEF DispatchControl, LoadBounded, SelectedHasRoom, SweepListComplete,
           ForgottenStayForgotten
<1>2. CASE DispatchIncrement
  <2>1. /\ d_pc = "increment" /\ d_pc' = "select" /\ d_task' = NoTask
        /\ UNCHANGED storeVars
        /\ d_worker \in DOMAIN workers
        /\ workers[d_worker].active_tasks <= MaxLoad
    BY <1>2 DEF DispatchIncrement, EndIteration, DispatchControl, SelectedHasRoom
  <2>2. workers' = [workers EXCEPT ![d_worker].active_tasks = @ + 1]
    BY <1>2, <2>1 DEF DispatchIncrement, increment_load
  <2>3. LoadBounded'
    BY <2>1, <2>2, PoolAssumption DEF LoadBounded, TypeOK, PoolTypeOK, WorkerInfo
  <2>4. NoTaskLost' /\ InFlightOwned' /\ ForgottenStayForgotten'
    BY <2>1, <2>2 DEF NoTaskLost, Held, InFlightOwned, ForgottenStayForgotten, storeVars
  <2>. QED
    BY <2>1, <2>3, <2>4 DEF DispatchControl, SelectedHasRoom, SweepListComplete
<1>. QED BY <1>1, <1>2

LEMMA DispatchRequeueIInv ==
  ASSUME IInv, UNCHANGED forgotten, TypeOK',
         \/ AssignRejected \/ AssignUnreachable \/ DispatchRequeue
         \/ \E t \in Task : DispatchSweep(t)
  PROVE  IInv'
<1>. USE DEF IInv
<1>1. CASE AssignUnreachable
  <2>1. /\ d_pc \in {"rpc", "accepted"} /\ d_pc' = "requeue"
        /\ UNCHANGED <<d_worker, d_task, storeVars>>
        /\ mark_dead(d_worker)
    BY <1>1 DEF AssignUnreachable
  <2>2. /\ DOMAIN workers' = DOMAIN workers
        /\ \A w \in DOMAIN workers : workers'[w].active_tasks = workers[w].active_tasks
    BY <2>1 DEF mark_dead, TypeOK, PoolTypeOK, WorkerInfo
  <2>3. NoTaskLost'
    BY <2>1 DEF NoTaskLost, Held, storeVars
  <2>. QED
    BY <2>1, <2>2, <2>3
       DEF DispatchControl, InFlightOwned, LoadBounded, SelectedHasRoom,
           SweepListComplete, ForgottenStayForgotten, storeVars
<1>2. ASSUME NEW t, requeue_task(t), d_task = t \/ d_task = NoTask, UNCHANGED workers
      PROVE  /\ NoTaskLost' /\ InFlightOwned' /\ LoadBounded' /\ ForgottenStayForgotten'
             /\ DOMAIN tasks' = DOMAIN tasks
             /\ \A u \in DOMAIN tasks' :
                  tasks'[u].state \in InFlight => u # t /\ tasks'[u] = tasks[u]
  BY <1>2, RequeueIInv
     DEF NoTaskLost, InFlightOwned, LoadBounded, ForgottenStayForgotten
<1>3. CASE AssignRejected
  <2>1. /\ requeue_task(d_task) /\ UNCHANGED workers /\ d_task' = NoTask
        /\ d_pc' \in {"idle", "select", "stopped"}
    BY <1>3 DEF AssignRejected, EndIteration, LeaveDispatch, EnterDispatch
  <2>. QED
    BY <1>2, <2>1 DEF DispatchControl, SelectedHasRoom, SweepListComplete
<1>4. CASE DispatchRequeue
  <2>1. /\ requeue_task(d_task) /\ UNCHANGED <<workers, d_worker>> /\ d_task' = NoTask
        /\ d_pc = "requeue" /\ d_pc' = "collect"
    BY <1>4 DEF DispatchRequeue
  <2>. QED
    BY <1>2, <2>1 DEF DispatchControl, SelectedHasRoom, SweepListComplete
<1>5. ASSUME NEW t \in Task, DispatchSweep(t) PROVE IInv'
  <2>1. /\ requeue_task(t) /\ UNCHANGED workers
        /\ d_pc = "sweep" /\ d_todo' = d_todo \ {t}
        /\ d_task = NoTask /\ d_task' = NoTask
        /\ d_pc' = "select" \/ (d_pc' = "sweep" /\ UNCHANGED d_worker)
    BY <1>5 DEF DispatchSweep, EndIteration, DispatchControl
  <2>2. DispatchControl'
    BY <2>1 DEF DispatchControl
  <2>3. SweepListComplete'
    BY <1>2, <2>1 DEF SweepListComplete
  <2>. QED BY <1>2, <2>1, <2>2, <2>3 DEF SelectedHasRoom
<1>. QED BY <1>1, <1>3, <1>4, <1>5

(* Every step preserves the invariant.                                     *)
LEMMA NextIInv == IInv /\ [Next]_vars => IInv'
<1>. SUFFICES ASSUME IInv, [Next]_vars PROVE IInv'
  OBVIOUS
<1>1. TypeOK'
  BY NextType DEF IInv
<1>2. CASE Crash
  BY <1>1, <1>2, CrashIInv
<1>3. CASE OthersStep /\ UNCHANGED forgotten
  BY <1>1, <1>3, OthersIInv
<1>4. CASE DispatcherStep /\ UNCHANGED forgotten
  BY <1>1, <1>4, DispatchMovesIInv, DispatchPopIInv, DispatchAssignIInv,
     DispatchRequeueIInv
     DEF DispatcherStep, DispatchStep
<1>. QED BY <1>2, <1>3, <1>4, StepKinds DEF IInv

-----------------------------------------------------------------------------
(* The theorems.                                                           *)

(* What the dispatch thread, the health check and the handlers preserve    *)
(* together, whatever clients, workers and the network do.                 *)
THEOREM InductiveInvariant == Spec => []IInv
<1>1. Init => IInv
  BY InitIInv
<1>2. IInv /\ [Next]_vars => IInv'
  BY NextIInv
<1>. QED BY <1>1, <1>2, PTL DEF Spec

(* Every variable keeps its type: in particular no load goes below zero,   *)
(* whatever order increments, decrements and heartbeats come in.           *)
THEOREM TypeInvariant == Spec => []TypeOK
<1>1. IInv => TypeOK
  BY DEF IInv
<1>. QED BY <1>1, InductiveInvariant, PTL

(* A task that waits is queued, or in the hands of the dispatch thread.    *)
THEOREM NoTaskIsLost == Spec => []NoTaskLost
<1>1. IInv => NoTaskLost
  BY DEF IInv
<1>. QED BY <1>1, InductiveInvariant, PTL

(* The count of a load exceeds the largest that any worker reports by one  *)
(* at most.                                                                *)
THEOREM LoadIsBounded == Spec => []LoadBounded
<1>1. IInv => LoadBounded
  BY DEF IInv
<1>. QED BY <1>1, InductiveInvariant, PTL

(* A task in flight is on a worker that the pool knows.                    *)
THEOREM InFlightIsOwned == Spec => []InFlightOwned
<1>1. IInv => InFlightOwned
  BY DEF IInv
<1>. QED BY <1>1, InductiveInvariant, PTL

(* What a crash has wiped out stays out of the store.                      *)
THEOREM CrashForgets == Spec => []ForgottenStayForgotten
<1>1. IInv => ForgottenStayForgotten
  BY DEF IInv
<1>. QED BY <1>1, InductiveInvariant, PTL

(* What a step of the dispatch thread does to the records of the store.    *)
LEMMA DispatcherOnTasks ==
  ASSUME DispatcherStep
  PROVE  UNCHANGED tasks \/ AssignSucceeded \/ \E t : requeue_task(t)
BY DEF DispatcherStep, DispatchStep, DispatchWait, DispatchWaitTimeout, DispatchWake,
       DispatchGivesUp, DispatchSelect, DispatchPop, pop_pending,
       DispatchNothingPending, pop_pending_nullopt, DispatchIncrement,
       DispatchRequeue, DispatchCollect, DispatchSweep, AssignRejected,
       AssignUnreachable, WorkerAccepts, storeVars

(* Only a late assign_task takes a task out of a terminal state.           *)
THEOREM RecoveryRespectsVerdicts == Spec => RecoveryKeepsVerdicts
<1>. DEFINE Keeps(t) ==
       IsTerminal(t) /\ t \in DOMAIN tasks' /\ tasks'[t].state \notin Terminal
         => d_pc = "accepted" /\ d_task = t
<1>1. ASSUME IInv, [Next]_vars, NEW t \in Task PROVE Keeps(t)
  <2>. USE <1>1 DEF IInv, TypeOK, IsTerminal, Known
  <2>1. CASE Crash
    BY <2>1 DEF Crash, StoreReset, NoTasks
  <2>2. CASE OthersStep
    <3>1. StoreEffect
      BY <2>2, OthersStoreEffect DEF OthersStep
    <3>. QED BY <3>1 DEF StoreEffect
  <2>3. CASE AssignSucceeded
    BY <2>3 DEF AssignSucceeded, assign_task
  <2>4. ASSUME NEW u, requeue_task(u) PROVE Keeps(t)
    BY <2>4, RequeueEffect
  <2>. QED BY <2>1, <2>2, <2>3, <2>4, StepKinds, DispatcherOnTasks
<1>2. IInv /\ [Next]_vars => [\A t \in Task : Keeps(t)]_vars
  BY <1>1
<1>. QED BY <1>2, InductiveInvariant, PTL DEF Spec, RecoveryKeepsVerdicts

(* After an unreachable worker no task is left in flight on it.            *)
THEOREM UnreachableIsSwept == Spec => UnreachableSwept
<1>. DEFINE Swept ==
       d_pc' = "select" /\ d_pc \in {"collect", "sweep"}
         => \A t \in DOMAIN tasks' :
              tasks'[t].state \in InFlight => tasks'[t].assigned_worker # d_worker
<1>1. ASSUME IInv, [Next]_vars, d_pc' = "select", d_pc \in {"collect", "sweep"}
      PROVE  Swept
  <2>. USE <1>1
  <2>1. CASE Crash
    BY <2>1 DEF Crash, StoreReset, NoTasks
  <2>2. CASE DispatchCollect
    BY <2>2 DEF DispatchCollect, get_tasks_for_worker, storeVars
  <2>3. ASSUME NEW t \in Task, DispatchSweep(t) PROVE Swept
    <3>1. d_pc = "sweep" /\ requeue_task(t) /\ d_todo \ {t} = {}
      BY <2>3 DEF DispatchSweep
    <3>2. d_task = NoTask
      BY <3>1 DEF IInv, DispatchControl
    <3>. QED BY <3>1, <3>2, RequeueIInv DEF IInv, SweepListComplete
  <2>4. DispatchCollect \/ (\E t \in Task : DispatchSweep(t)) \/ OthersStep \/ Crash
    BY StepKinds
       DEF IInv, DispatcherStep, DispatchStep, DispatchWait, DispatchWaitTimeout,
           DispatchWake, DispatchGivesUp, DispatchSelect, DispatchPop,
           DispatchNothingPending, AssignSucceeded, DispatchIncrement,
           DispatchRequeue, AssignRejected, AssignUnreachable, WorkerAccepts
  <2>. QED BY <2>1, <2>2, <2>3, <2>4 DEF OthersStep, DispatchUndisturbed
<1>2. IInv /\ [Next]_vars => [Swept]_vars
  BY <1>1
<1>. QED BY <1>2, InductiveInvariant, PTL DEF Spec, UnreachableSwept

(* The task taken is the most urgent, then the oldest, of all that wait.   *)
THEOREM MostUrgentIsFirst == Spec => MostUrgentFirst
<1>. DEFINE First(t) ==
       d_task' = t /\ d_task # t
         => \A u \in DOMAIN tasks :
              tasks[u].state = "PENDING" =>
                /\ tasks[u].priority <= tasks[t].priority
                /\ tasks[u].priority = tasks[t].priority
                     => tasks[t].created_at_ms <= tasks[u].created_at_ms
<1>1. ASSUME IInv, [Next]_vars, NEW t \in Task, d_task' = t, d_task # t
      PROVE  First(t)
  <2>. USE <1>1 DEF IInv
  <2>1. t # NoTask
    BY ProtocolAssumption
  <2>2. ~Crash /\ ~OthersStep
    BY <2>1 DEF Crash, SchedulerReset, OthersStep, DispatchUndisturbed
  <2>3. DispatchPop(t)
    BY <2>1, <2>2, StepKinds
       DEF DispatcherStep, DispatchStep, DispatchWait, DispatchWaitTimeout,
           DispatchWake, DispatchGivesUp, DispatchSelect, DispatchPop,
           DispatchNothingPending, AssignSucceeded, DispatchIncrement,
           DispatchRequeue, DispatchCollect, DispatchSweep, AssignRejected,
           AssignUnreachable, WorkerAccepts, EndIteration
  <2>4. d_pc = "pop" /\ t \in Ready /\ \A u \in Ready : ~Before(u, t)
    BY <2>3 DEF DispatchPop, pop_pending
  <2>5. ASSUME NEW u \in DOMAIN tasks, tasks[u].state = "PENDING"
        PROVE  /\ tasks[u].priority <= tasks[t].priority
               /\ tasks[u].priority = tasks[t].priority
                    => tasks[t].created_at_ms <= tasks[u].created_at_ms
    <3>1. ~Before(u, t)
      BY <2>4, <2>5, PendingIsReady
    <3>2. \A v \in {t, u} : tasks[v].priority \in Int /\ tasks[v].created_at_ms \in Int
      BY <2>4, ProtocolAssumption, ClockAssumption
         DEF TypeOK, StoreTypeOK, TaskRecord, Ready, Queued
    <3>. QED BY <3>1, <3>2 DEF Before
  <2>. QED BY <2>5
<1>2. IInv /\ [Next]_vars => [\A t \in Task : First(t)]_vars
  BY <1>1
<1>. QED BY <1>2, InductiveInvariant, PTL DEF Spec, MostUrgentFirst

-----------------------------------------------------------------------------
(* No verdict goes uncounted (VerdictsCounted), for any number of tasks    *)
(* and handler threads.  A verdict is stored by one step and counted by a  *)
(* later one, so the invariant counts the handlers in between; the sets    *)
(* are finite since a step adds one element at most.                       *)

Resolved == {t \in DOMAIN tasks : tasks[t].resolved}
Recording == {th \in Thread : rpc[th].pc = "record"}

(* VerdictsCounted, with what makes the cardinalities meaningful.          *)
VInv ==
  /\ IsFiniteSet(Resolved) /\ IsFiniteSet(Recording)
  /\ VerdictsCounted

(* What a step may do to the three counts without a verdict going missing. *)
Uncounted ==
  \/ Resolved' = Resolved /\ Recording' = Recording /\ UNCHANGED <<total_ok, total_err>>
  \/ Resolved' = {} /\ Recording' = {} /\ total_ok' = 0 /\ total_err' = 0
  \/ \E th \in Thread \ Recording, t \in Task :
       /\ Resolved' \in SUBSET (Resolved \cup {t})
       /\ Recording' = Recording \cup {th}
       /\ UNCHANGED <<total_ok, total_err>>
  \/ \E th \in Recording :
       /\ Resolved' = Resolved
       /\ Recording' = Recording \ {th}
       /\ total_ok' + total_err' = total_ok + total_err + 1

-----------------------------------------------------------------------------
(* The store.                                                              *)

(* A requeue leaves every result where it is.                              *)
LEMMA RequeueResolved ==
  ASSUME StoreTypeOK, NEW t, requeue_task(t)
  PROVE  Resolved' = Resolved
BY DEF requeue_task, Requeueable, Resolved, storeVars, StoreTypeOK, TaskRecord

(* So does everything else but complete_task and fail_task.                *)
LEMMA OperationResolved ==
  ASSUME StoreTypeOK, NEW t,
         \/ UNCHANGED storeVars \/ UNCHANGED tasks
         \/ \E p, now : add_task(t, p, now)
         \/ \E w : assign_task(t, w)
         \/ ExecutionTimeElapses(t)
  PROVE  Resolved' = Resolved
<1>. USE DEF Resolved, StoreTypeOK, TaskRecord
<1>1. CASE UNCHANGED storeVars \/ UNCHANGED tasks
  BY <1>1 DEF storeVars
<1>2. ASSUME NEW p, NEW now, add_task(t, p, now) PROVE Resolved' = Resolved
  BY <1>2 DEF add_task
<1>3. ASSUME NEW w, assign_task(t, w) PROVE Resolved' = Resolved
  BY <1>3 DEF assign_task
<1>4. CASE ExecutionTimeElapses(t)
  BY <1>4 DEF ExecutionTimeElapses
<1>. QED BY <1>1, <1>2, <1>3, <1>4

(* No step of the two scheduler threads stores a verdict.                  *)
LEMMA SchedulerResolved ==
  ASSUME StoreTypeOK, DispatcherStep \/ HealthStep
  PROVE  Resolved' = Resolved
<1>1. ASSUME NEW t, requeue_task(t) PROVE Resolved' = Resolved
  BY <1>1, RequeueResolved
<1>2. ASSUME NEW t, \E w : assign_task(t, w) PROVE Resolved' = Resolved
  BY <1>2, OperationResolved
<1>3. CASE UNCHANGED storeVars \/ UNCHANGED tasks
  BY <1>3, OperationResolved
<1>4. CASE DispatcherStep
  BY <1>1, <1>2, <1>3, <1>4
     DEF DispatcherStep, DispatchStep, DispatchWait, DispatchWaitTimeout, DispatchWake,
         DispatchGivesUp, DispatchSelect, DispatchPop, DispatchNothingPending, pop_pending,
         pop_pending_nullopt, AssignSucceeded, DispatchIncrement, DispatchRequeue,
         DispatchCollect, DispatchSweep, AssignRejected, AssignUnreachable, WorkerAccepts
<1>5. CASE HealthStep
  BY <1>1, <1>3, <1>5
     DEF HealthStep, HealthStop, HealthScan, HealthCollect, HealthTimeouts, HealthBury,
         HealthSweep, HealthExpire
<1>. QED BY <1>4, <1>5

-----------------------------------------------------------------------------
(* The handlers.                                                           *)

(* ReportResult stores one verdict at most and, if the task is known, has  *)
(* it counted by the same thread.                                          *)
LEMMA ReportCounts ==
  ASSUME TypeOK, NEW th \in Thread, NEW w, NEW t \in Task, ReportResult(th, w, t)
  PROVE  Uncounted
<1>. USE DEF ReportResult, finish_task, TypeOK, ServicesTypeOK, Idle
<1>1. th \notin Recording /\ UNCHANGED <<total_ok, total_err>>
  BY DEF Recording
<1>2. CASE t \in DOMAIN tasks
  <2>1. Recording' = Recording \cup {th}
    BY <1>2 DEF Recording
  <2>2. Resolved' \in SUBSET (Resolved \cup {t})
    BY <1>2 DEF Resolved, StoreTypeOK
  <2>. QED BY <1>1, <2>1, <2>2 DEF Uncounted
<1>3. CASE t \notin DOMAIN tasks
  <2>1. Recording' = Recording
    BY <1>1, <1>3 DEF Recording
  <2>2. Resolved' = Resolved
    BY <1>3 DEF Resolved
  <2>. QED BY <1>1, <2>1, <2>2 DEF Uncounted
<1>. QED BY <1>2, <1>3

(* record_completion counts exactly one.                                   *)
LEMMA HandlerCounts ==
  ASSUME TypeOK, NEW th \in Thread, HandlerStep(th)
  PROVE  Uncounted
<1>. USE DEF TypeOK, ServicesTypeOK, Recording
<1>1. CASE RegisterCollect(th)
  <2>1. Recording' = Recording
    BY <1>1 DEF RegisterCollect
  <2>. QED BY <1>1, <2>1, OperationResolved DEF RegisterCollect, Uncounted
<1>2. CASE RegisterStore(th)
  <2>1. Recording' = Recording
    BY <1>2 DEF RegisterStore, Idle
  <2>. QED BY <1>2, <2>1, OperationResolved DEF RegisterStore, Uncounted
<1>3. ASSUME NEW t \in Task, RegisterRequeue(th, t) PROVE Uncounted
  <2>1. Recording' = Recording
    BY <1>3 DEF RegisterRequeue
  <2>. QED BY <1>3, <2>1, RequeueResolved DEF RegisterRequeue, Uncounted
<1>4. CASE ReportRecord(th)
  <2>1. th \in Recording /\ Recording' = Recording \ {th}
    BY <1>4 DEF ReportRecord
  <2>2. total_ok' + total_err' = total_ok + total_err + 1
    BY <1>4 DEF ReportRecord, record_completion
  <2>3. Resolved' = Resolved
    BY <1>4, OperationResolved DEF ReportRecord
  <2>. QED BY <2>1, <2>2, <2>3 DEF Uncounted
<1>5. CASE ReportDecrement(th)
  <2>1. Recording' = Recording
    BY <1>5 DEF ReportDecrement, Idle
  <2>. QED BY <1>5, <2>1, OperationResolved DEF ReportDecrement, Uncounted
<1>. QED BY <1>1, <1>2, <1>3, <1>4, <1>5 DEF HandlerStep

-----------------------------------------------------------------------------
(* Every step.                                                             *)

LEMMA StepCounts ==
  ASSUME TypeOK, [Next]_vars
  PROVE  Uncounted
<1>. USE DEF TypeOK, environmentVars
<1>1. UNCHANGED serviceVars => Recording' = Recording /\ UNCHANGED <<total_ok, total_err>>
  BY DEF serviceVars, Recording
<1>2. ASSUME UNCHANGED serviceVars, Resolved' = Resolved PROVE Uncounted
  BY <1>1, <1>2 DEF Uncounted
<1>3. ASSUME DispatcherStep \/ HealthStep, UNCHANGED serviceVars PROVE Uncounted
  BY <1>2, <1>3, SchedulerResolved
<1>4. CASE Dispatch \/ WaitTimeout \/ Health \/ RpcEnds
  BY <1>3, <1>4 DEF Dispatch, WaitTimeout, Health, RpcEnds, WorkerAccepts, WorkerRejects,
                    WorkerUnreachable, DispatcherStep
<1>5. ASSUME NEW th \in Thread, Handler(th) PROVE Uncounted
  BY <1>5, HandlerCounts DEF Handler
<1>6. ASSUME NEW t \in Task, NEW p \in Priority, NEW now \in Clock, Submit(t, p, now)
      PROVE  Uncounted
  BY <1>2, <1>6, OperationResolved DEF Submit, SubmitTask
<1>7. ASSUME NEW th \in Thread, NEW w \in Worker, NEW a \in Address, NEW c \in Capacity,
             Register(th, w, a, c)
      PROVE  Uncounted
  <2>1. Recording' = Recording
    BY <1>7 DEF Register, RegisterWorker, Recording, ServicesTypeOK, Idle
  <2>2. Resolved' = Resolved /\ UNCHANGED <<total_ok, total_err>>
    BY <1>7, OperationResolved DEF Register, RegisterWorker
  <2>. QED BY <2>1, <2>2 DEF Uncounted
<1>8. ASSUME NEW w \in Worker, NEW n \in 0..MaxLoad, Beat(w, n) PROVE Uncounted
  BY <1>2, <1>8, OperationResolved DEF Beat, Heartbeat
<1>9. ASSUME NEW th \in Thread, NEW w \in Worker, NEW t \in Task, Report(th, w, t)
      PROVE  Uncounted
  BY <1>9, ReportCounts DEF Report
<1>10. ASSUME NEW w \in Worker, WorkerFallsSilent(w) PROVE Uncounted
  BY <1>2, <1>10, OperationResolved DEF WorkerFallsSilent
<1>11. ASSUME NEW t \in Task, TaskOverruns(t) PROVE Uncounted
  BY <1>2, <1>11, OperationResolved DEF TaskOverruns
<1>12. CASE Stop
  BY <1>2, <1>12, OperationResolved DEF Stop, stop
<1>13. CASE Crash
  <2>1. tasks' = NoTasks /\ rpc' = [th \in Thread |-> Idle] /\ total_ok' = 0 /\ total_err' = 0
    BY <1>13 DEF Crash, StoreReset, ServicesReset
  <2>2. Resolved' = {} /\ Recording' = {}
    BY <2>1 DEF Resolved, Recording, NoTasks, Idle
  <2>. QED BY <2>1, <2>2 DEF Uncounted
<1>14. CASE UNCHANGED vars
  BY <1>2, <1>14, OperationResolved DEF vars, coordinatorVars
<1>. QED
  BY <1>4, <1>5, <1>6, <1>7, <1>8, <1>9, <1>10, <1>11, <1>12, <1>13, <1>14 DEF Next, RpcEnds

(* Such a step keeps the balance.                                          *)
LEMMA CountsKept ==
  ASSUME TypeOK, TypeOK', VInv, Uncounted
  PROVE  VInv'
<1>. DEFINE total == total_ok + total_err
<1>1. /\ Cardinality(Resolved) \in Nat /\ Cardinality(Recording) \in Nat
      /\ total \in Nat /\ total' \in Nat
  BY FS_CardinalityType DEF VInv, TypeOK, ServicesTypeOK
<1>2. Cardinality(Resolved) <= total + Cardinality(Recording)
  BY DEF VInv, VerdictsCounted, Resolved, Recording
<1>3. SUFFICES /\ IsFiniteSet(Resolved') /\ IsFiniteSet(Recording')
               /\ Cardinality(Resolved') <= total' + Cardinality(Recording')
  BY DEF VInv, VerdictsCounted, Resolved, Recording
<1>. HIDE DEF total
<1>4. CASE Resolved' = Resolved /\ Recording' = Recording /\ UNCHANGED <<total_ok, total_err>>
  BY <1>2, <1>4 DEF VInv, total
<1>5. CASE Resolved' = {} /\ Recording' = {} /\ total_ok' = 0 /\ total_err' = 0
  BY <1>1, <1>5, FS_EmptySet
<1>6. ASSUME NEW th \in Thread \ Recording, NEW t \in Task,
             Resolved' \in SUBSET (Resolved \cup {t}), Recording' = Recording \cup {th},
             UNCHANGED <<total_ok, total_err>>
      PROVE  /\ IsFiniteSet(Resolved') /\ IsFiniteSet(Recording')
             /\ Cardinality(Resolved') <= total' + Cardinality(Recording')
  <2>1. /\ IsFiniteSet(Recording')
        /\ Cardinality(Recording') = Cardinality(Recording) + 1
    BY <1>6, FS_AddElement DEF VInv
  <2>2. /\ IsFiniteSet(Resolved \cup {t})
        /\ Cardinality(Resolved \cup {t}) <= Cardinality(Resolved) + 1
    BY <1>1, FS_AddElement DEF VInv
  <2>3. /\ IsFiniteSet(Resolved')
        /\ Cardinality(Resolved') <= Cardinality(Resolved \cup {t})
    BY <1>6, <2>2, FS_Subset
  <2>4. total' = total
    BY <1>6 DEF total
  <2>5. /\ Cardinality(Resolved') \in Nat
        /\ Cardinality(Resolved \cup {t}) \in Nat
    BY <2>2, <2>3, FS_CardinalityType
  <2>. QED BY <1>1, <1>2, <2>1, <2>2, <2>3, <2>4, <2>5
<1>7. ASSUME NEW th \in Recording, Resolved' = Resolved, Recording' = Recording \ {th},
             total_ok' + total_err' = total_ok + total_err + 1
      PROVE  /\ IsFiniteSet(Resolved') /\ IsFiniteSet(Recording')
             /\ Cardinality(Resolved') <= total' + Cardinality(Recording')
  <2>1. /\ IsFiniteSet(Recording')
        /\ Cardinality(Recording') = Cardinality(Recording) - 1
    BY <1>7, FS_RemoveElement DEF VInv
  <2>2. total' = total + 1
    BY <1>7 DEF total
  <2>. QED BY <1>1, <1>2, <1>7, <2>1, <2>2 DEF VInv
<1>. QED BY <1>4, <1>5, <1>6, <1>7 DEF Uncounted

(* Every verdict that a client can see is in the totals of the metrics, or *)
(* a handler is about to count it.                                         *)
THEOREM VerdictsAreCounted == Spec => []VerdictsCounted
<1>1. Init => VInv
  <2>. SUFFICES ASSUME Init PROVE VInv
    OBVIOUS
  <2>1. Resolved = {} /\ Recording = {} /\ total_ok = 0 /\ total_err = 0
    BY DEF Init, StoreInit, ServicesInit, NoTasks, Idle, Resolved, Recording
  <2>. QED BY <2>1, FS_EmptySet DEF VInv, VerdictsCounted, Resolved, Recording
<1>2. VInv /\ IInv /\ IInv' /\ [Next]_vars => VInv'
  BY StepCounts, CountsKept DEF IInv
<1>3. VInv => VerdictsCounted
  BY DEF VInv
<1>. QED BY <1>1, <1>2, <1>3, InductiveInvariant, PTL DEF Spec

-----------------------------------------------------------------------------
(* The threads' own variables.                                             *)

(* The task in the hands of the dispatch thread is not in flight: no other *)
(* thread puts it there before the dispatch thread has let go of it.       *)
HeldNotInFlight ==
  d_pc \in {"rpc", "accepted", "requeue"} => tasks[d_task].state \notin InFlight

(* The health check has a list of tasks only while it goes through it.     *)
ListIsWalked == h_pc \notin {"sweep", "expire"} => h_todo = {}

(* A step of the coordinator keeps HeldNotInFlight.                        *)
LEMMA HeldNotInFlightStep ==
  ASSUME IInv, HeldNotInFlight, [Next]_vars
  PROVE  HeldNotInFlight'
<1>. USE DEF IInv, TypeOK, HeldNotInFlight
<1>1. CASE Crash
  BY <1>1 DEF Crash, SchedulerReset
<1>2. CASE OthersStep
  <2>1. StoreEffect /\ DispatchUndisturbed
    BY <1>2, OthersStoreEffect DEF OthersStep
  <2>. QED BY <2>1 DEF DispatchUndisturbed, StoreEffect, DispatchControl, InFlight, Terminal
<1>3. CASE DispatcherStep
  <2>1. ASSUME NEW t \in Task, DispatchPop(t) PROVE HeldNotInFlight'
    BY <2>1 DEF DispatchPop, pop_pending, Ready, InFlight
  <2>2. CASE WorkerAccepts \/ AssignUnreachable
    BY <2>2 DEF WorkerAccepts, AssignUnreachable, storeVars
  <2>3. CASE ~WorkerAccepts /\ ~AssignUnreachable /\ ~\E t \in Task : DispatchPop(t)
    BY <1>3, <2>3
       DEF DispatcherStep, DispatchStep, DispatchWait, DispatchWaitTimeout, DispatchWake,
           DispatchGivesUp, DispatchSelect, DispatchNothingPending, AssignSucceeded,
           DispatchIncrement, DispatchRequeue, DispatchCollect, DispatchSweep, AssignRejected,
           EnterDispatch, LeaveDispatch
  <2>. QED BY <2>1, <2>2, <2>3
<1>. QED BY <1>1, <1>2, <1>3, StepKinds

(* A step of the coordinator keeps ListIsWalked.                           *)
LEMMA ListIsWalkedStep ==
  ASSUME ListIsWalked, [Next]_vars
  PROVE  ListIsWalked'
<1>. USE DEF ListIsWalked
<1>1. CASE UNCHANGED healthVars
  BY <1>1 DEF healthVars
<1>2. CASE Health
  BY <1>2 DEF Health, HealthStep, HealthStop, HealthScan, HealthCollect, HealthTimeouts,
     HealthBury, HealthSweep, HealthExpire, NextDeadWorker
<1>3. CASE Crash
  BY <1>3 DEF Crash, SchedulerReset
<1>4. [Next]_vars => UNCHANGED healthVars \/ Health \/ Crash
  BY DEF Next, vars, coordinatorVars, schedulerVars, Dispatch, WaitTimeout, DispatchStep,
     DispatchWait, DispatchWaitTimeout, DispatchWake, DispatchGivesUp, DispatchSelect,
     DispatchPop, DispatchNothingPending, AssignSucceeded, DispatchIncrement, DispatchRequeue,
     DispatchCollect, DispatchSweep, WorkerAccepts, WorkerRejects, AssignRejected,
     WorkerUnreachable, AssignUnreachable, Handler, HandlerStep, RegisterCollect, RegisterStore,
     RegisterRequeue, ReportRecord, ReportDecrement, handlerUnchanged, Submit, SubmitTask,
     Register, RegisterWorker, Beat, Heartbeat, Report, ReportResult, WorkerFallsSilent,
     TaskOverruns, Stop, stop
<1>. QED BY <1>1, <1>2, <1>3, <1>4

(* Both hold in every state.                                               *)
THEOREM ThreadsHoldTheirTasks == Spec => [](HeldNotInFlight /\ ListIsWalked)
<1>1. Init => HeldNotInFlight /\ ListIsWalked
  BY DEF Init, SchedulerInit, HeldNotInFlight, ListIsWalked
<1>2. IInv /\ HeldNotInFlight /\ ListIsWalked /\ [Next]_vars => (HeldNotInFlight /\ ListIsWalked)'
  BY HeldNotInFlightStep, ListIsWalkedStep
<1>. QED BY <1>1, <1>2, InductiveInvariant, PTL DEF Spec

=============================================================================
