--------------------------- MODULE LifecycleProofs ---------------------------
(***************************************************************************)
(* The coordinator implements the life of a task that TaskLifecycle.tla    *)
(* promises: its initial states map to the abstract one, and every step to *)
(* an abstract step or to none.                                            *)
(***************************************************************************)
EXTENDS CoordinatorProofs

(* The step a concrete step maps to.                                       *)
AbstractStep ==
  Lifecycle!Next \/ UNCHANGED <<LifecycleState, d_task, Taken>>

(* While the reply of the worker that accepts is on its way, the task is   *)
(* among those taken.                                                      *)
AcceptedIsTaken == d_pc = "accepted" => d_task \in Taken

LInv == IInv /\ AcceptedIsTaken

LEMMA StateIsMapped ==
  ASSUME NEW t \in Task, t \in DOMAIN tasks
  PROVE  LifecycleState[t] = tasks[t].state
BY DEF LifecycleState, StateOf, Known

(* What follows for the abstract states when one record changes.           *)
LEMMA OneStateChanges ==
  ASSUME NEW t \in Task, t \in DOMAIN tasks, DOMAIN tasks' = DOMAIN tasks,
         UNCHANGED forgotten,
         \A u \in DOMAIN tasks : u # t => tasks'[u].state = tasks[u].state
  PROVE  LifecycleState' = [LifecycleState EXCEPT ![t] = tasks'[t].state]
BY DEF LifecycleState, StateOf, Known

LEMMA NoStateChanges ==
  ASSUME UNCHANGED forgotten, DOMAIN tasks' = DOMAIN tasks,
         \A u \in DOMAIN tasks : tasks'[u].state = tasks[u].state
  PROVE  UNCHANGED LifecycleState
BY DEF LifecycleState, StateOf, Known

(* requeue_task maps to the task waiting again, if it is in flight.        *)
LEMMA RequeueState ==
  ASSUME TypeOK, NEW t \in Task, requeue_task(t), UNCHANGED forgotten
  PROVE  \/ UNCHANGED LifecycleState
         \/ /\ LifecycleState[t] \in InFlight
            /\ LifecycleState' = [LifecycleState EXCEPT ![t] = "PENDING"]
<1>. USE DEF TypeOK
<1>1. CASE t \in DOMAIN tasks /\ tasks[t].state \in InFlight
  <2>1. LifecycleState[t] \in InFlight
    BY <1>1, StateIsMapped
  <2>2. tasks'[t].state = "PENDING"
    BY <1>1, RequeueEffect DEF InFlight, Terminal
  <2>3. LifecycleState' = [LifecycleState EXCEPT ![t] = "PENDING"]
    BY <1>1, <2>2, RequeueEffect, OneStateChanges
  <2>. QED BY <2>1, <2>3
<1>2. CASE ~(t \in DOMAIN tasks /\ tasks[t].state \in InFlight)
  <2>1. \A u \in DOMAIN tasks : tasks'[u].state = tasks[u].state
    BY <1>2, RequeueEffect DEF StoreTypeOK, TaskRecord, TaskState
  <2>. QED BY <2>1, RequeueEffect, NoStateChanges
<1>. QED BY <1>1, <1>2

-----------------------------------------------------------------------------
(* The steps of others change the state of at most one task.               *)
LEMMA OthersMap ==
  ASSUME TypeOK, OthersStep, UNCHANGED <<forgotten, accepted>>
  PROVE  AbstractStep
<1>1. UNCHANGED <<d_task, Taken>>
  BY DEF OthersStep, DispatchUndisturbed, Taken
<1>. USE <1>1 DEF AbstractStep, TypeOK
<1>2. CASE UNCHANGED storeVars
  BY <1>2, NoStateChanges DEF storeVars
<1>3. ASSUME NEW t \in Task, requeue_task(t) PROVE AbstractStep
  BY <1>3, RequeueState DEF Lifecycle!Next, Lifecycle!Requeue, Lifecycle!InFlight, InFlight
<1>4. ASSUME NEW t \in Task \ forgotten, NEW p \in Priority, NEW now \in Clock,
             add_task(t, p, now)
      PROVE  AbstractStep
  <2>1. t \notin DOMAIN tasks /\ LifecycleState[t] = "none"
    BY <1>4 DEF add_task, LifecycleState, StateOf, Known
  <2>2. LifecycleState' = [LifecycleState EXCEPT ![t] = "PENDING"]
    BY <1>4 DEF add_task, LifecycleState, StateOf, Known
  <2>. QED BY <2>1, <2>2 DEF Lifecycle!Next, Lifecycle!Submit
<1>5. ASSUME NEW t \in Taken, finish_task(t, VerdictOf(t)) PROVE AbstractStep
  <2>1. t \in Task
    BY DEF Taken
  <2>2. CASE t \in DOMAIN tasks
    <3>1. LifecycleState[t] \in TaskState
      BY <2>1, <2>2, StateIsMapped DEF StoreTypeOK, TaskRecord
    <3>2. /\ DOMAIN tasks' = DOMAIN tasks
          /\ tasks'[t].state = VerdictOf(t)
          /\ \A u \in DOMAIN tasks : u # t => tasks'[u].state = tasks[u].state
      BY <1>5, <2>1, <2>2 DEF finish_task, StoreTypeOK, TaskRecord
    <3>3. LifecycleState' = [LifecycleState EXCEPT ![t] = VerdictOf(t)]
      BY <2>1, <2>2, <3>2, OneStateChanges
    <3>. QED BY <2>1, <3>1, <3>3
             DEF Lifecycle!Next, Lifecycle!Resolve, Lifecycle!Known,
                 Lifecycle!VerdictOf, VerdictOf, Lifecycle!TaskState, TaskState,
                 Lifecycle!InFlight, InFlight, Lifecycle!Terminal, Terminal
  <2>3. CASE t \notin DOMAIN tasks
    BY <1>5, <2>3, NoStateChanges DEF finish_task
  <2>. QED BY <2>2, <2>3
<1>6. ASSUME NEW t \in Task, ExecutionTimeElapses(t) PROVE AbstractStep
  <2>1. /\ DOMAIN tasks' = DOMAIN tasks
        /\ \A u \in DOMAIN tasks : tasks'[u].state = tasks[u].state
    BY <1>6 DEF ExecutionTimeElapses, StoreTypeOK, TaskRecord
  <2>. QED BY <2>1, NoStateChanges
<1>. QED BY <1>2, <1>3, <1>4, <1>5, <1>6 DEF OthersStep, StoreByOthers

-----------------------------------------------------------------------------
(* accepted grows only while the worker has the call.                      *)
LEMMA AcceptedGrows ==
  ASSUME [Next]_vars
  PROVE  \/ UNCHANGED accepted
         \/ /\ d_pc = "rpc"
            /\ UNCHANGED <<tasks, forgotten, d_task>>
            /\ d_pc' \in {"accepted", "requeue"}
            /\ \E w \in Worker : accepted' = accepted \cup {<<w, d_task>>}
BY DEF Next, vars, environmentVars, Dispatch, WaitTimeout, Health, Handler, Submit,
       Register, Beat, Report, WorkerAccepts, WorkerRejects, WorkerUnreachable,
       AssignUnreachable, WorkerFallsSilent, TaskOverruns, Stop, Crash, storeVars

LEMMA AcceptMaps ==
  ASSUME IInv, d_pc = "rpc", UNCHANGED <<tasks, forgotten, d_task>>,
         NEW w \in Worker, accepted' = accepted \cup {<<w, d_task>>}
  PROVE  AbstractStep /\ d_task' \in Taken'
<1>1. d_task \in Task /\ d_task # NoTask
  BY ProtocolAssumption DEF IInv, TypeOK, StoreTypeOK, DispatchControl
<1>2. Taken' = Taken \cup {d_task}
  BY <1>1 DEF Taken
<1>3. UNCHANGED LifecycleState
  BY NoStateChanges
<1>. QED BY <1>1, <1>2, <1>3 DEF AbstractStep, Lifecycle!Next, Lifecycle!Take

LEMMA TakenGrows ==
  ASSUME LInv, [Next]_vars
  PROVE  AcceptedIsTaken'
<1>. USE DEF LInv, AcceptedIsTaken
<1>1. CASE UNCHANGED accepted
  <2>1. UNCHANGED Taken
    BY <1>1 DEF Taken
  <2>2. CASE Crash
    BY <2>2 DEF Crash, SchedulerReset
  <2>3. CASE OthersStep
    BY <2>1, <2>3 DEF OthersStep, DispatchUndisturbed
  <2>4. CASE DispatcherStep
    <3>1. CASE WorkerAccepts
      <4>1. d_pc = "rpc" /\ UNCHANGED d_task
        BY <3>1 DEF WorkerAccepts
      <4>2. PICK w \in Worker : <<w, d_task>> \in accepted'
        BY <3>1 DEF WorkerAccepts
      <4>3. d_task \in Task
        BY <4>1 DEF IInv, TypeOK, StoreTypeOK, DispatchControl
      <4>. QED BY <4>1, <4>2, <4>3 DEF Taken
    <3>2. CASE ~WorkerAccepts
      <4>1. d_pc' # "accepted"
        BY <2>4, <3>2
           DEF DispatcherStep, DispatchStep, DispatchWait, DispatchWaitTimeout,
               DispatchWake, DispatchGivesUp, DispatchSelect, DispatchPop,
               DispatchNothingPending, AssignSucceeded, DispatchIncrement,
               DispatchRequeue, DispatchCollect, DispatchSweep, AssignRejected,
               AssignUnreachable, EnterDispatch, LeaveDispatch
      <4>. QED BY <4>1
    <3>. QED BY <3>1, <3>2
  <2>. QED BY <2>2, <2>3, <2>4, StepKinds DEF IInv
<1>2. CASE ~UNCHANGED accepted
  BY <1>2, AcceptedGrows, AcceptMaps
<1>. QED BY <1>1, <1>2

-----------------------------------------------------------------------------
(* The steps of the dispatch thread.                                       *)

(* Giving the task back, after a refusal or a failure.                     *)
LEMMA WithdrawMaps ==
  ASSUME IInv, requeue_task(d_task), d_task \in DOMAIN tasks, d_task' = NoTask,
         UNCHANGED <<forgotten, accepted>>
  PROVE  AbstractStep
<1>1. d_task \in Task /\ d_task # NoTask
  BY ProtocolAssumption DEF IInv, TypeOK, StoreTypeOK
<1>2. UNCHANGED Taken
  BY DEF Taken
<1>. USE StateIsMapped, RequeueEffect, <1>1 DEF IInv, TypeOK
<1>3. CASE tasks[d_task].state \in Terminal
  <2>1. UNCHANGED LifecycleState
    BY <1>3, NoStateChanges
  <2>. QED BY <1>2, <1>3, <2>1
           DEF AbstractStep, Lifecycle!Next, Lifecycle!Withdraw, Lifecycle!Terminal, Terminal
<1>4. CASE tasks[d_task].state \notin Terminal
  <2>1. LifecycleState' = [LifecycleState EXCEPT ![d_task] = "PENDING"]
    BY <1>4, OneStateChanges
  <2>. QED BY <1>2, <1>4, <2>1
           DEF AbstractStep, Lifecycle!Next, Lifecycle!Withdraw, Lifecycle!Terminal, Terminal
<1>. QED BY <1>3, <1>4

LEMMA AssignMaps ==
  ASSUME LInv, AssignSucceeded, UNCHANGED <<forgotten, accepted>>
  PROVE  AbstractStep
<1>. USE DEF LInv, IInv
<1>1. /\ d_pc = "accepted" /\ d_task \in Taken /\ d_task \in DOMAIN tasks
      /\ d_task' = NoTask
  BY DEF AssignSucceeded, AcceptedIsTaken, DispatchControl
<1>2. d_task \in Task
  BY <1>1 DEF TypeOK, StoreTypeOK
<1>3. /\ DOMAIN tasks' = DOMAIN tasks
      /\ tasks'[d_task].state = "ASSIGNED"
      /\ \A u \in DOMAIN tasks : u # d_task => tasks'[u].state = tasks[u].state
  BY <1>1 DEF AssignSucceeded, assign_task, TypeOK, StoreTypeOK, TaskRecord
<1>4. LifecycleState' = [LifecycleState EXCEPT ![d_task] = "ASSIGNED"]
  BY <1>1, <1>2, <1>3, OneStateChanges
<1>. QED BY <1>1, <1>4 DEF AbstractStep, Lifecycle!Next, Lifecycle!Assign, Taken

LEMMA PopMaps ==
  ASSUME IInv, NEW t \in Task, DispatchPop(t), UNCHANGED <<forgotten, accepted>>
  PROVE  AbstractStep
<1>1. d_task = NoTask /\ d_task' = t
  BY DEF DispatchPop, IInv, DispatchControl
<1>2. t \in DOMAIN tasks /\ tasks[t].state = "PENDING" /\ UNCHANGED tasks
  BY DEF DispatchPop, pop_pending, Ready, Queued
<1>3. LifecycleState[t] = "PENDING"
  BY <1>2, StateIsMapped
<1>4. UNCHANGED <<LifecycleState, Taken>>
  BY <1>2, NoStateChanges DEF Taken
<1>. QED BY <1>1, <1>3, <1>4 DEF AbstractStep, Lifecycle!Next, Lifecycle!Offer

LEMMA DispatcherMaps ==
  ASSUME LInv, DispatcherStep, UNCHANGED <<forgotten, accepted>>
  PROVE  AbstractStep
<1>. USE DEF LInv
<1>1. ASSUME UNCHANGED <<tasks, d_task>> PROVE AbstractStep
  BY <1>1, NoStateChanges DEF AbstractStep, Taken
<1>2. CASE DispatchWait \/ DispatchWaitTimeout \/ DispatchWake \/ DispatchGivesUp
           \/ AssignUnreachable \/ WorkerAccepts \/ \E w \in Worker : DispatchSelect(w)
  BY <1>1, <1>2
     DEF DispatchWait, DispatchWaitTimeout, DispatchWake, DispatchGivesUp, storeVars,
         AssignUnreachable, WorkerAccepts, DispatchSelect
<1>3. CASE DispatchNothingPending \/ DispatchIncrement \/ DispatchCollect
  BY <1>1, <1>3
     DEF DispatchNothingPending, pop_pending_nullopt, DispatchIncrement,
         DispatchCollect, EndIteration, IInv, DispatchControl, storeVars
<1>4. ASSUME NEW t \in Task, DispatchPop(t) PROVE AbstractStep
  BY <1>4, PopMaps
<1>5. CASE AssignSucceeded
  BY <1>5, AssignMaps
<1>6. CASE AssignRejected \/ DispatchRequeue
  BY <1>6, WithdrawMaps
     DEF AssignRejected, DispatchRequeue, EndIteration, IInv, DispatchControl
<1>7. ASSUME NEW t \in Task, DispatchSweep(t) PROVE AbstractStep
  <2>1. UNCHANGED <<d_task, Taken>>
    BY <1>7 DEF DispatchSweep, EndIteration, IInv, DispatchControl, Taken
  <2>. QED BY <1>7, <2>1, RequeueState
           DEF DispatchSweep, IInv, AbstractStep, Lifecycle!Next, Lifecycle!Requeue,
               Lifecycle!InFlight, InFlight
<1>. QED BY <1>2, <1>3, <1>4, <1>5, <1>6, <1>7 DEF DispatcherStep, DispatchStep

LEMMA CrashMaps ==
  ASSUME IInv, Crash
  PROVE  AbstractStep
<1>1. d_task' = NoTask /\ UNCHANGED Taken
  BY DEF Crash, SchedulerReset, Taken
<1>2. \A t \in Task : LifecycleState[t] \in TaskState <=> Known(t)
  BY DEF IInv, TypeOK, StoreTypeOK, TaskRecord, LifecycleState, StateOf, Known,
         TaskState, InFlight, Terminal
<1>3. LifecycleState' = [t \in Task |->
                           IF Known(t) THEN "forgotten" ELSE LifecycleState[t]]
  BY DEF Crash, StoreReset, NoTasks, LifecycleState, StateOf, Known
<1>. QED BY <1>1, <1>2, <1>3
         DEF AbstractStep, Lifecycle!Next, Lifecycle!Forget, Lifecycle!Known,
             Lifecycle!TaskState, TaskState, Lifecycle!InFlight, InFlight,
             Lifecycle!Terminal, Terminal

-----------------------------------------------------------------------------
LEMMA InitMaps == Init => Lifecycle!Init /\ AcceptedIsTaken
BY DEF Init, StoreInit, SchedulerInit, NoTasks, Lifecycle!Init, LifecycleState,
       StateOf, Known, Taken, AcceptedIsTaken

LEMMA StepMaps ==
  ASSUME LInv, [Next]_vars
  PROVE  AbstractStep
<1>. USE DEF LInv, IInv
<1>1. CASE ~UNCHANGED accepted
  BY <1>1, AcceptedGrows, AcceptMaps
<1>2. CASE Crash
  BY <1>2, CrashMaps
<1>3. CASE UNCHANGED accepted /\ ~Crash
  BY <1>3, StepKinds, DispatcherMaps, OthersMap
<1>. QED BY <1>1, <1>2, <1>3

(* A verdict comes from a worker, an assignment from a worker's agreement, *)
(* and no step moves a task but along its documented life.                 *)
THEOREM CoordinatorImplementsLifecycle == Spec => ImplementsLifecycle
<1>1. Init => LInv
  BY InitIInv, InitMaps DEF LInv
<1>2. LInv /\ [Next]_vars => LInv'
  BY NextIInv, TakenGrows DEF LInv
<1>3. LInv /\ [Next]_vars => [Lifecycle!Next]_Lifecycle!lifecycleVars
  BY StepMaps DEF AbstractStep, Lifecycle!lifecycleVars
<1>4. Spec => []LInv
  BY <1>1, <1>2, PTL DEF Spec
<1>. QED BY <1>3, <1>4, InitMaps, PTL DEF Spec, ImplementsLifecycle, Lifecycle!Spec

=============================================================================
