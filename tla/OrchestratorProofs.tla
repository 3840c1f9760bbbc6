------------------------- MODULE OrchestratorProofs -------------------------
(***************************************************************************)
(* The coordinator and the worker together run the coordinator of          *)
(* Coordinator.tla, for every number of tasks, threads, ids and troubles:  *)
(* what is proved of it alone holds of the composition.  A step of the     *)
(* composition is a step of the worker, or ends or starts its process, so  *)
(* the worker's invariants hold here too; they bound what its heartbeats   *)
(* carry.                                                                  *)
(***************************************************************************)
EXTENDS Orchestrator, WorkerProofs

(* A call in progress and the accepted tasks are what they should be.      *)
CallsTyped ==
  /\ d_pc = "rpc" => d_task \in Task
  /\ accepted \subseteq Worker \X Task

(* What makes a step of the composition one of the coordinator.            *)
LinkInv == IInv /\ id \in Worker /\ CallsTyped

-----------------------------------------------------------------------------
(* The worker.                                                             *)

(* A process that has just ended or started satisfies its invariants.      *)
LEMMA BlankIInv ==
  ASSUME Blank, main_pc' \in {"register", "exited"}
  PROVE  IInv'
<1>1. /\ Running' = {} /\ Admitted' = {}
      /\ HandlersAt("spawn")' = {} /\ HandlersAt("increment")' = {}
  BY DEF Blank, Idle, Running, Admitted, HandlersAt
<1>2. TypeOK'
  <2>1. Idle \in [pc : {"idle", "run", "report", "ended"}, attempt : 0..kMaxAttempts]
    BY AttemptsAssumption DEF Idle
  <2>. QED BY <2>1 DEF Blank, TypeOK
<1>3. Cardinality({}) = 0
  BY FS_EmptySet
<1>4. MostActive >= 0 /\ Cardinality(AssignThread) \in Nat
  BY Counts, CapacityAssumption DEF MostActive
<1>5. MostActive' = MostActive
  BY DEF MostActive
<1>. QED BY <1>1, <1>2, <1>3, <1>4, <1>5
         DEF Blank, IInv, ActiveCounted, OvershootBounded, LeftBehindBounded, ControlOrder

(* What a step of the composition does to the worker.                      *)
LEMMA WorkerStep ==
  ASSUME SystemNext
  PROVE  [Next]_vars \/ (Blank /\ main_pc' \in {"register", "exited"})
<1>. USE DEF workerVars
<1>1. CASE UNCHANGED vars
  BY <1>1
<1>2. ASSUME NEW a \in AssignThread, AssignHandler(a) \/ RpcArrives(a)
      PROVE  Next
  BY <1>2 DEF AssignHandler, HandlerTests, HandlerIncrements, HandlerSpawns, RpcArrives, Alive,
              Next, Handler
<1>3. ASSUME NEW th \in Thread, Answer(th)
      PROVE  [Next]_vars
  BY <1>3 DEF Answer, Alive, Next, Execution, Main, Registers, MainGoes
<1>4. ASSUME NEW e \in ExecThread, Executes(e) \/ ReportLost(e)
      PROVE  Next
  BY <1>4 DEF Executes, ReportLost, Alive, Next, Execution
<1>5. CASE HeartbeatThread \/ HeartbeatArrives \/ HeartbeatLost
  BY <1>5 DEF HeartbeatThread, HeartbeatArrives, HeartbeatLost, Alive, Next, HeartbeatLoop
<1>6. CASE MainGoesOn \/ RegisterError \/ ListenError
  BY <1>6 DEF MainGoesOn, RegisterError, ListenError, Next, Main, Registers, Listens, ListenFails,
              LeaveServing, LeaveDraining, ShutdownCalled, ShutdownReturns, MainGoes
<1>7. CASE Signal \/ SignalCompletes
  BY <1>7 DEF Signal, SignalCompletes, Alive, Next
<1>8. CASE Exits \/ Dies \/ Restarts
  BY <1>8 DEF Exits, Dies, Restarts
<1>9. CASE Deadline \/ RefusedDraining \/ ConnectionRefused \/ Delay
  BY <1>9 DEF Deadline, RefusedDraining, ConnectionRefused, Delay
<1>10. ASSUME NEW th \in Thread, Serve(th) \/ \E e \in ExecThread : CallReport(th, e)
       PROVE  UNCHANGED vars
  BY <1>10 DEF Serve, CallReport
<1>11. ASSUME NEW th \in Thread, NEW address \in Address, CallRegister(th, address)
       PROVE  UNCHANGED vars
  BY <1>11 DEF CallRegister
<1>12. ASSUME NEW w \in Worker, Silence(w)
       PROVE  UNCHANGED vars
  BY <1>12 DEF Silence
<1>13. ASSUME NEW t \in Task, Timeout(t)
       PROVE  UNCHANGED vars
  BY <1>13 DEF Timeout
<1>14. CASE \/ Scheduling(C!Dispatch) \/ Scheduling(C!WaitTimeout) \/ Scheduling(C!Health)
            \/ \E t \in Task, p \in Priority, now \in Clock : Scheduling(C!Submit(t, p, now))
  BY <1>14 DEF Scheduling
<1>. QED
  BY <1>1, <1>2, <1>3, <1>4, <1>5, <1>6, <1>7, <1>8, <1>9, <1>10, <1>11, <1>12, <1>13, <1>14
     DEF SystemNext, RpcProceeds, CoordinatorHandler, ExecutionThread, MainThread

-----------------------------------------------------------------------------
(* The coordinator.                                                        *)

(* What a step of the composition does to the coordinator.                 *)
LEMMA CoordinatorStep ==
  ASSUME LinkInv, SystemNext
  PROVE  C!Next \/ UNCHANGED coordinatorVars
<1>1. ASSUME NEW a \in AssignThread, AssignHandler(a) \/ RpcArrives(a)
      PROVE  C!Next \/ UNCHANGED coordinatorVars
  BY <1>1 DEF AssignHandler, HandlerTests, HandlerIncrements, HandlerSpawns, RpcArrives, C!Next
<1>2. ASSUME NEW th \in Thread, CoordinatorHandler(th)
      PROVE  C!Next
  BY <1>2 DEF CoordinatorHandler, Serve, Answer, C!Next
<1>3. ASSUME NEW e \in ExecThread, Executes(e) \/ ReportLost(e)
      PROVE  UNCHANGED coordinatorVars
  BY <1>3 DEF Executes, ReportLost
<1>4. ASSUME NEW th \in Thread, NEW e \in ExecThread, CallReport(th, e)
      PROVE  C!Next
  <2>1. <<id, job[e]>> \in accepted /\ C!Report(th, id, job[e])
    BY <1>4 DEF CallReport, C!Report
  <2>2. id \in Worker /\ job[e] \in Task
    BY <2>1 DEF LinkInv, CallsTyped
  <2>. QED BY <2>1, <2>2 DEF C!Next
<1>5. CASE HeartbeatArrives
  <2>1. hb_active \in 0..MostActive
    BY Counts, CapacityAssumption DEF LinkInv, IInv, TypeOK, OvershootBounded, MostActive
  <2>. QED BY <1>5, <2>1 DEF HeartbeatArrives, LinkInv, C!Next
<1>6. ASSUME NEW th \in Thread, NEW address \in Address, CallRegister(th, address)
      PROVE  C!Next
  BY <1>6 DEF CallRegister, LinkInv, C!Next
<1>7. CASE \/ HeartbeatThread \/ HeartbeatLost
           \/ MainGoesOn \/ SignalCompletes \/ Exits \/ Restarts
           \/ RegisterError \/ ListenError \/ Signal \/ Dies
  BY <1>7 DEF HeartbeatThread, HeartbeatLost, MainGoesOn, SignalCompletes, Exits, Restarts,
              RegisterError, ListenError, Signal, Dies, Blank
<1>8. CASE Deadline \/ RefusedDraining \/ ConnectionRefused \/ Delay
  BY <1>8 DEF Deadline, RefusedDraining, ConnectionRefused, Delay, C!Next
<1>9. ASSUME NEW w \in Worker, Silence(w)
      PROVE  C!Next
  BY <1>9 DEF Silence, C!Next
<1>10. ASSUME NEW t \in Task, Timeout(t)
       PROVE  C!Next
  BY <1>10 DEF Timeout, C!Next
<1>11. CASE \/ Scheduling(C!Dispatch) \/ Scheduling(C!WaitTimeout) \/ Scheduling(C!Health)
            \/ \E t \in Task, p \in Priority, now \in Clock : Scheduling(C!Submit(t, p, now))
  BY <1>11 DEF Scheduling, C!Next
<1>. QED
  BY <1>1, <1>2, <1>3, <1>4, <1>5, <1>6, <1>7, <1>8, <1>9, <1>10, <1>11
     DEF SystemNext, RpcProceeds, AssignHandler, ExecutionThread, MainThread

(* pop_pending returns a task, and what a worker accepts is what it was    *)
(* offered.                                                                *)
LEMMA CallsTypedStep ==
  ASSUME CallsTyped, C!Next
  PROVE  CallsTyped'
<1>. USE DEF CallsTyped
<1>1. ASSUME NEW t \in Task, C!DispatchPop(t), UNCHANGED accepted
      PROVE  CallsTyped'
  BY <1>1 DEF C!DispatchPop
<1>2. ASSUME UNCHANGED accepted,
             \/ C!DispatchWait \/ C!DispatchWake \/ C!DispatchGivesUp
             \/ \E w \in Worker : C!DispatchSelect(w)
             \/ C!DispatchNothingPending \/ C!AssignSucceeded \/ C!DispatchIncrement
             \/ C!DispatchRequeue \/ C!DispatchCollect
             \/ \E t \in Task : C!DispatchSweep(t)
             \/ C!DispatchWaitTimeout \/ C!AssignRejected
      PROVE  CallsTyped'
  BY <1>2 DEF C!DispatchWait, C!DispatchWake, C!DispatchGivesUp, C!DispatchSelect,
       C!DispatchNothingPending, C!AssignSucceeded, C!DispatchIncrement, C!DispatchRequeue,
       C!DispatchCollect, C!DispatchSweep, C!DispatchWaitTimeout, C!AssignRejected,
       C!EnterDispatch, C!LeaveDispatch, C!EndIteration
<1>3. ASSUME UNCHANGED <<d_task, accepted>>, C!notify \/ UNCHANGED d_pc
      PROVE  CallsTyped'
  BY <1>3 DEF C!notify
<1>4. CASE C!Dispatch
  BY <1>1, <1>2, <1>4 DEF C!Dispatch, C!DispatchStep, C!environmentVars
<1>5. CASE C!WaitTimeout \/ C!WorkerRejects
  BY <1>2, <1>5 DEF C!WaitTimeout, C!WorkerRejects, C!environmentVars
<1>6. CASE C!WorkerAccepts \/ C!WorkerUnreachable
  BY <1>6 DEF C!WorkerAccepts, C!WorkerUnreachable, C!AssignUnreachable
<1>7. CASE C!Health
  BY <1>3, <1>7 DEF C!Health, C!HealthStep, C!HealthStop, C!HealthScan, C!HealthCollect,
       C!HealthTimeouts, C!HealthBury, C!HealthSweep, C!HealthExpire, C!dispatchVars,
       C!environmentVars
<1>8. ASSUME NEW th \in Thread, C!Handler(th)
      PROVE  CallsTyped'
  BY <1>3, <1>8 DEF C!Handler, C!HandlerStep, C!RegisterCollect, C!RegisterStore,
       C!RegisterRequeue, C!ReportRecord, C!ReportDecrement, C!handlerUnchanged,
       C!schedulerVars, C!dispatchVars, C!environmentVars
<1>9. ASSUME NEW t \in Task, NEW p \in Priority, NEW now \in Clock, C!Submit(t, p, now)
      PROVE  CallsTyped'
  BY <1>3, <1>9 DEF C!Submit, C!SubmitTask, C!handlerUnchanged, C!environmentVars
<1>10. ASSUME NEW th \in Thread, NEW w \in Worker, NEW a \in Address,
              C!Register(th, w, a, capacity)
       PROVE  CallsTyped'
  BY <1>3, <1>10 DEF C!Register, C!RegisterWorker, C!schedulerVars, C!dispatchVars,
       C!environmentVars
<1>11. ASSUME NEW w \in Worker, NEW n \in 0..MostActive, C!Beat(w, n)
       PROVE  CallsTyped'
  BY <1>3, <1>11 DEF C!Beat, C!Heartbeat, C!schedulerVars, C!dispatchVars, C!environmentVars
<1>12. ASSUME NEW th \in Thread, NEW w \in Worker, NEW t \in Task, C!Report(th, w, t)
       PROVE  CallsTyped'
  BY <1>3, <1>12 DEF C!Report, C!ReportResult, C!schedulerVars, C!dispatchVars,
       C!environmentVars
<1>13. ASSUME \/ \E w \in Worker : C!WorkerFallsSilent(w)
              \/ \E t \in Task : C!TaskOverruns(t)
       PROVE  CallsTyped'
  BY <1>3, <1>13 DEF C!WorkerFallsSilent, C!TaskOverruns, C!schedulerVars, C!dispatchVars,
       C!environmentVars
<1>14. ~C!Stop /\ ~C!Crash
  BY DEF C!Stop, C!Crash
<1>. QED
  BY <1>4, <1>5, <1>6, <1>7, <1>8, <1>9, <1>10, <1>11, <1>12, <1>13, <1>14 DEF C!Next

-----------------------------------------------------------------------------
(* The worker's invariants and the types of the calls hold in every state. *)
LEMMA LinkInvariant == System => []LinkInv
<1>1. SystemInit => LinkInv
  <2>. SUFFICES ASSUME SystemInit PROVE LinkInv
    OBVIOUS
  <2>1. IInv
    BY InitIInv DEF SystemInit
  <2>2. id \in Worker
    BY OrchestratorAssumption DEF SystemInit
  <2>3. CallsTyped
    BY DEF SystemInit, C!Init, C!SchedulerInit, CallsTyped
  <2>. QED BY <2>1, <2>2, <2>3 DEF LinkInv
<1>2. LinkInv /\ [SystemNext]_systemVars => LinkInv'
  <2>. SUFFICES ASSUME LinkInv, [SystemNext]_systemVars PROVE LinkInv'
    OBVIOUS
  <2>1. CASE UNCHANGED systemVars
    <3>1. UNCHANGED vars /\ UNCHANGED <<id, d_pc, d_task, accepted>>
      BY <2>1 DEF systemVars, workerVars, linkVars, coordinatorVars
    <3>. QED BY <3>1, NextIInv DEF LinkInv, CallsTyped
  <2>2. CASE SystemNext
    <3>1. IInv'
      BY <2>2, WorkerStep, BlankIInv, NextIInv DEF LinkInv
    <3>2. id' \in Worker
      BY <2>2 DEF LinkInv, SystemNext, RpcProceeds, AssignHandler, CoordinatorHandler,
           ExecutionThread, MainThread, Scheduling, RpcArrives, RefusedDraining,
           ConnectionRefused, Deadline, HandlerTests, HandlerIncrements, HandlerSpawns,
           CallRegister, CallReport, Serve, Answer, RegisterError, ReportLost,
           HeartbeatArrives, HeartbeatLost, Executes, HeartbeatThread, MainGoesOn,
           ListenError, Signal, SignalCompletes, Exits, Dies, Restarts, Silence, Timeout,
           Delay, linkVars
    <3>3. CallsTyped'
      <4>1. CASE UNCHANGED coordinatorVars
        BY <4>1 DEF LinkInv, CallsTyped, coordinatorVars
      <4>. QED BY <2>2, <4>1, CoordinatorStep, CallsTypedStep DEF LinkInv
    <3>. QED BY <3>1, <3>2, <3>3 DEF LinkInv
  <2>. QED BY <2>1, <2>2
<1>. QED BY <1>1, <1>2, PTL DEF System

(* The worker, whatever goes wrong and however often it is started again,  *)
(* does nothing that Coordinator.tla does not provide for.                 *)
THEOREM CompositionRunsCoordinator == System => RunsCoordinator
<1>1. SystemInit => C!Init
  BY DEF SystemInit
<1>2. LinkInv /\ [SystemNext]_systemVars => [C!Next]_(C!vars)
  <2>1. UNCHANGED coordinatorVars => UNCHANGED C!vars
    BY DEF coordinatorVars, C!vars, C!coordinatorVars, C!environmentVars, C!storeVars,
           C!schedulerVars, C!dispatchVars, C!healthVars, C!serviceVars
  <2>2. UNCHANGED systemVars => UNCHANGED coordinatorVars
    BY DEF systemVars
  <2>. QED BY <2>1, <2>2, CoordinatorStep
<1>. QED BY <1>1, <1>2, LinkInvariant, PTL DEF System, RunsCoordinator, C!Spec

(* Heartbeats carry, and the worker counts, no more than the bound that    *)
(* the coordinator's LoadBounded relies on, in every process started.      *)
THEOREM LoadNeverOverstated == System => []OvershootBounded
<1>1. LinkInv => OvershootBounded
  BY DEF LinkInv, IInv
<1>. QED BY <1>1, LinkInvariant, PTL

-----------------------------------------------------------------------------
(* The theorems about the coordinator hold in the composition.             *)

(* The constants of the coordinator are as its theorems assume.            *)
LEMMA CoordinatorConstants ==
  /\ MostActive \in Nat /\ {capacity} \subseteq {c \in Int : c <= MostActive}
  /\ {"unreachable", "refusal", "silence", "restart", "overrun"} \subseteq C!AnyFault
<1>1. Cardinality(AssignThread) \in Nat /\ Cardinality(AssignThread) >= 1
  BY Counts
<1>. QED BY <1>1, CapacityAssumption DEF MostActive, C!AnyFault

(* Its inductive invariant.                                                *)
THEOREM CoordinatorIsSound == System => []C!IInv
<1>1. C!Spec => []C!IInv
  BY C!InductiveInvariant, CoordinatorConstants, OrchestratorAssumption
<1>. QED BY <1>1, CompositionRunsCoordinator, PTL DEF RunsCoordinator

(* Clients of the composition may rely on TaskLifecycle.                   *)
THEOREM CompositionImplementsLifecycle == System => C!ImplementsLifecycle
<1>1. C!Spec => C!ImplementsLifecycle
  BY C!CoordinatorImplementsLifecycle, CoordinatorConstants, OrchestratorAssumption
<1>. QED BY <1>1, CompositionRunsCoordinator, PTL DEF RunsCoordinator

(* Every verdict the worker reports is counted, or about to be.            *)
THEOREM CompositionCountsVerdicts == System => []C!VerdictsCounted
<1>1. C!Spec => []C!VerdictsCounted
  BY C!VerdictsAreCounted, CoordinatorConstants, OrchestratorAssumption
<1>. QED BY <1>1, CompositionRunsCoordinator, PTL DEF RunsCoordinator

-----------------------------------------------------------------------------
(* The two ends of the calls.                                              *)

(* The call the dispatch thread waits in ends by a step of the composition *)
(* that is meant to end it, and by no other.                               *)
LEMMA CallStays ==
  ASSUME d_pc = "rpc",
         \/ C!Dispatch \/ C!WaitTimeout \/ C!Health
         \/ \E th \in Thread : C!Handler(th)
         \/ \E t \in Task, p \in Priority, now \in Clock : C!Submit(t, p, now)
         \/ \E th \in Thread, w \in Worker, a \in Address : C!Register(th, w, a, capacity)
         \/ \E w \in Worker, n \in 0..MostActive : C!Beat(w, n)
         \/ \E th \in Thread, w \in Worker, t \in Task : C!Report(th, w, t)
         \/ \E w \in Worker : C!WorkerFallsSilent(w)
         \/ \E t \in Task : C!TaskOverruns(t)
  PROVE  UNCHANGED <<d_pc, d_task>>
<1>1. ~C!Dispatch
  BY DEF C!Dispatch, C!DispatchStep, C!DispatchWait, C!DispatchWake, C!DispatchGivesUp,
     C!DispatchSelect, C!DispatchPop, C!DispatchNothingPending, C!AssignSucceeded,
     C!DispatchIncrement, C!DispatchRequeue, C!DispatchCollect, C!DispatchSweep
<1>2. ~C!WaitTimeout
  BY DEF C!WaitTimeout, C!DispatchWaitTimeout
<1>3. C!notify => d_pc' = d_pc
  BY DEF C!notify
<1>4. C!Health => UNCHANGED <<d_pc, d_task>>
  BY <1>3 DEF C!Health, C!HealthStep, C!HealthStop, C!HealthScan, C!HealthCollect,
     C!HealthTimeouts, C!HealthBury, C!HealthSweep, C!HealthExpire, C!dispatchVars
<1>5. ASSUME NEW th \in Thread, C!Handler(th) PROVE UNCHANGED <<d_pc, d_task>>
  BY <1>3, <1>5 DEF C!Handler, C!HandlerStep, C!RegisterCollect, C!RegisterStore,
     C!RegisterRequeue, C!ReportRecord, C!ReportDecrement, C!handlerUnchanged,
     C!schedulerVars, C!dispatchVars
<1>6. ASSUME NEW t \in Task, NEW p \in Priority, NEW now \in Clock, C!Submit(t, p, now)
      PROVE  UNCHANGED <<d_pc, d_task>>
  BY <1>3, <1>6 DEF C!Submit, C!SubmitTask, C!handlerUnchanged
<1>7. ASSUME NEW th \in Thread, NEW w \in Worker,
             \/ \E a \in Address : C!Register(th, w, a, capacity)
             \/ \E n \in 0..MostActive : C!Beat(w, n)
             \/ \E t \in Task : C!Report(th, w, t)
      PROVE  UNCHANGED <<d_pc, d_task>>
  BY <1>7 DEF C!Register, C!RegisterWorker, C!Beat, C!Heartbeat, C!Report, C!ReportResult,
     C!schedulerVars, C!dispatchVars
<1>8. ASSUME \/ \E w \in Worker : C!WorkerFallsSilent(w) \/ \E n \in 0..MostActive : C!Beat(w, n)
             \/ \E t \in Task : C!TaskOverruns(t)
      PROVE  UNCHANGED <<d_pc, d_task>>
  BY <1>8 DEF C!WorkerFallsSilent, C!TaskOverruns, C!Beat, C!Heartbeat, C!schedulerVars,
     C!dispatchVars
<1>. QED BY <1>1, <1>2, <1>4, <1>5, <1>6, <1>7, <1>8

(* A step of the composition that has nothing to do with the outstanding   *)
(* AssignTask leaves it alone.                                             *)
LEMMA AssignmentMatchesStep ==
  ASSUME LinkInv, SystemTypeOK, AssignmentMatches, SystemNext
  PROVE  AssignmentMatches'
<1>. USE DEF AssignmentMatches
<1>1. ASSUME UNCHANGED <<handler, assign, carried>>,
             handler = "none" \/ UNCHANGED <<d_pc, d_task>>
      PROVE  AssignmentMatches'
  BY <1>1
<1>2. ASSUME handler' = "none" PROVE AssignmentMatches'
  BY <1>2
<1>3. ASSUME NEW a \in AssignThread, RpcArrives(a)
      PROVE  AssignmentMatches'
  BY <1>3 DEF RpcArrives, AssignTask, HandlerIsAt, coordinatorVars, SystemTypeOK, LinkInv, IInv, TypeOK
<1>4. CASE RefusedDraining \/ ConnectionRefused
  BY <1>1, <1>4 DEF RefusedDraining, ConnectionRefused, workerVars, vars, linkVars
<1>5. CASE Deadline \/ Exits \/ Dies \/ Restarts
  BY <1>2, <1>5 DEF Deadline, Exits, Dies, Restarts, Blank
<1>6. ASSUME NEW a \in AssignThread, AssignHandler(a)
      PROVE  AssignmentMatches'
  <2>1. assign \in [AssignThread -> {"idle", "capacity", "increment", "spawn"}]
    BY DEF LinkInv, IInv, TypeOK
  <2>2. handler \in AssignThread \cup {"none"} /\ carried \in [AssignThread -> Task \cup {NoTask}]
    BY DEF SystemTypeOK
  <2>3. CASE HandlerTests(a)
    BY <1>2, <2>1, <2>2, <2>3 DEF HandlerTests, TestCapacity, HandlerIsAt, coordinatorVars
  <2>4. CASE HandlerIncrements(a)
    BY <2>1, <2>2, <2>4 DEF HandlerIncrements, IncrementActive, HandlerIsAt, coordinatorVars, linkVars
  <2>5. CASE HandlerSpawns(a)
    BY <1>2, <2>1, <2>2, <2>5 DEF HandlerSpawns, SpawnAndAccept, HandlerIsAt, coordinatorVars
  <2>. QED BY <1>6, <2>3, <2>4, <2>5 DEF AssignHandler
<1>7. ASSUME NEW th \in Thread, CoordinatorHandler(th)
      PROVE  AssignmentMatches'
  <2>1. C!Handler(th) /\ UNCHANGED <<handler, carried>>
    BY <1>7 DEF CoordinatorHandler, Serve, Answer, linkVars
  <2>2. UNCHANGED assign
    BY <1>7 DEF CoordinatorHandler, Serve, Answer, workerVars, vars, Registers, MainGoes,
       ReportAcknowledged, ThreadIs
  <2>. QED BY <1>1, <2>1, <2>2, CallStays
<1>8. ASSUME NEW e \in ExecThread, Executes(e) \/ ReportLost(e)
      PROVE  AssignmentMatches'
  BY <1>1, <1>8 DEF Executes, ReportLost, RunPrimeTask, ExecutionEnds, ReportFails, ThreadIs,
     coordinatorVars
<1>9. ASSUME NEW th \in Thread, NEW e \in ExecThread, CallReport(th, e)
      PROVE  AssignmentMatches'
  <2>1. C!Report(th, id, job[e]) /\ <<id, job[e]>> \in accepted
    BY <1>9 DEF CallReport, C!Report
  <2>2. id \in Worker /\ job[e] \in Task
    BY <2>1 DEF LinkInv, CallsTyped
  <2>. QED BY <1>1, <1>9, <2>1, <2>2, CallStays DEF CallReport, workerVars, vars
<1>10. ASSUME NEW th \in Thread, NEW address \in Address, CallRegister(th, address)
       PROVE  AssignmentMatches'
  BY <1>1, <1>10, CallStays DEF CallRegister, LinkInv, workerVars, vars
<1>11. CASE HeartbeatArrives
  <2>1. hb_active \in 0..MostActive
    BY Counts, CapacityAssumption DEF LinkInv, IInv, TypeOK, OvershootBounded, MostActive
  <2>. QED BY <1>1, <1>11, <2>1, CallStays
           DEF HeartbeatArrives, HeartbeatReturns, HeartbeatIs, LinkInv, linkVars
<1>12. CASE HeartbeatThread \/ HeartbeatLost
  BY <1>1, <1>12 DEF HeartbeatThread, HeartbeatLost, TestShutdown, HeartbeatWakes,
     HeartbeatReturns, HeartbeatIs, coordinatorVars, linkVars
<1>13. CASE MainGoesOn \/ RegisterError \/ ListenError
  BY <1>1, <1>13 DEF MainGoesOn, RegisterError, ListenError, Registers, Listens, ListenFails,
     LeaveServing, LeaveDraining, ShutdownCalled, ShutdownReturns, MainGoes, coordinatorVars,
     linkVars
<1>14. CASE Signal \/ SignalCompletes
  BY <1>1, <1>14 DEF Signal, SignalCompletes, SignalArrives, SignalEnds, coordinatorVars, linkVars
<1>15. CASE Delay
  BY <1>1, <1>15, CallStays DEF Delay, workerVars, vars, linkVars
<1>16. ASSUME NEW w \in Worker, Silence(w)
       PROVE  AssignmentMatches'
  BY <1>1, <1>16, CallStays DEF Silence, workerVars, vars, linkVars
<1>17. ASSUME NEW t \in Task, Timeout(t)
       PROVE  AssignmentMatches'
  BY <1>1, <1>17, CallStays DEF Timeout, workerVars, vars, linkVars
<1>18. CASE \/ Scheduling(C!Dispatch) \/ Scheduling(C!WaitTimeout) \/ Scheduling(C!Health)
            \/ \E t \in Task, p \in Priority, now \in Clock : Scheduling(C!Submit(t, p, now))
  BY <1>1, <1>18, CallStays DEF Scheduling, workerVars, vars, linkVars
<1>. QED
  BY <1>3, <1>4, <1>5, <1>6, <1>7, <1>8, <1>9, <1>10, <1>11, <1>12, <1>13, <1>14, <1>15, <1>16,
     <1>17, <1>18
     DEF SystemNext, RpcProceeds, ExecutionThread, MainThread

(* The work that the worker still has, if the step adds none.              *)
LEMMA WorkIsStillExpected ==
  ASSUME WorkIsExpected, UNCHANGED id, Alive' => Alive, accepted \subseteq accepted',
         \A a \in AssignThread :
           a # handler' /\ assign'[a] # "idle"
             => a # handler /\ assign[a] # "idle" /\ carried'[a] = carried[a],
         \A e \in ExecThread :
           exec'[e].pc # "idle" => exec[e].pc # "idle" /\ job'[e] = job[e]
  PROVE  WorkIsExpected'
BY DEF WorkIsExpected

(* A task gets to the worker by the call of the dispatch thread, whose end *)
(* puts it among the accepted if a handler goes on with it, and from the   *)
(* handler to an execution.                                                *)
LEMMA WorkIsExpectedStep ==
  ASSUME LinkInv, SystemTypeOK, AssignmentMatches, WorkIsExpected, SystemNext
  PROVE  WorkIsExpected'
<1>. DEFINE SameWork == UNCHANGED <<id, handler, assign, carried, job>>
<1>1. /\ assign \in [AssignThread -> {"idle", "capacity", "increment", "spawn"}]
      /\ exec \in [ExecThread -> [pc : {"idle", "run", "report", "ended"}, attempt : 0..kMaxAttempts]]
  BY DEF LinkInv, IInv, TypeOK
<1>2. /\ handler \in AssignThread \cup {"none"} /\ carried \in [AssignThread -> Task \cup {NoTask}]
      /\ job \in [ExecThread -> Task \cup {NoTask}]
  BY DEF SystemTypeOK
<1>3. accepted \subseteq accepted'
  BY CoordinatorStep, C!AcceptedGrows, CoordinatorConstants, OrchestratorAssumption
     DEF coordinatorVars
<1>4. ASSUME SameWork, UNCHANGED <<exec, main_pc>> PROVE WorkIsExpected'
  BY <1>3, <1>4, WorkIsStillExpected DEF Alive
<1>5. ASSUME NEW a \in AssignThread, RpcArrives(a)
      PROVE  WorkIsExpected'
  <2>1. /\ handler = "none" /\ handler' = a /\ carried' = [carried EXCEPT ![a] = d_task]
        /\ assign' = [assign EXCEPT ![a] = "capacity"] /\ UNCHANGED <<id, exec, job, main_pc>>
    BY <1>5 DEF RpcArrives, AssignTask, HandlerIsAt
  <2>2. \A b \in AssignThread \ {a} : assign'[b] = assign[b] /\ carried'[b] = carried[b]
    BY <1>1, <1>2, <2>1
  <2>3. a # "none" /\ \A b \in AssignThread : b # "none"
    BY OrchestratorAssumption
  <2>. QED BY <1>3, <2>1, <2>2, <2>3, WorkIsStillExpected DEF Alive
<1>6. CASE Deadline
  <2>1. /\ handler' = "none" /\ UNCHANGED <<id, assign, carried, exec, job, main_pc>>
        /\ handler # "none" => <<id, carried[handler]>> \in accepted'
    BY <1>6 DEF Deadline, workerVars, vars
  <2>. QED BY <1>3, <2>1 DEF WorkIsExpected, Alive
<1>7. ASSUME NEW a \in AssignThread, HandlerTests(a) \/ HandlerIncrements(a)
      PROVE  WorkIsExpected'
  <2>1. /\ assign[a] # "idle" /\ UNCHANGED <<id, carried, exec, job, main_pc>>
        /\ \A b \in AssignThread \ {a} : assign'[b] = assign[b]
        /\ handler' = handler \/ (handler = a /\ handler' = "none" /\ assign'[a] = "idle")
    BY <1>1, <1>7 DEF HandlerTests, HandlerIncrements, TestCapacity, IncrementActive, HandlerIsAt,
       linkVars
  <2>. QED BY <1>3, <2>1, WorkIsStillExpected DEF Alive
<1>8. ASSUME NEW a \in AssignThread, HandlerSpawns(a)
      PROVE  WorkIsExpected'
  <2>1. /\ assign[a] # "idle" /\ assign' = [assign EXCEPT ![a] = "idle"]
        /\ carried' = [carried EXCEPT ![a] = NoTask]
        /\ job' = [e \in ExecThread |-> IF exec'[e] # exec[e] THEN carried[a] ELSE job[e]]
        /\ Alive /\ UNCHANGED <<id, main_pc>>
    BY <1>8 DEF HandlerSpawns, SpawnAndAccept, HandlerIsAt
  <2>2. <<id, carried[a]>> \in accepted' /\ (handler' = handler \/ handler = a)
    <3>1. CASE handler = a
      <4>1. accepted' = accepted \cup {<<id, d_task>>}
        BY <1>8, <3>1 DEF HandlerSpawns
      <4>2. carried[a] = d_task
        BY <3>1, OrchestratorAssumption DEF AssignmentMatches
      <4>. QED BY <3>1, <4>1, <4>2
    <3>2. CASE handler # a
      <4>1. <<id, carried[a]>> \in accepted /\ handler' = handler
        BY <1>8, <2>1, <3>2 DEF WorkIsExpected, HandlerSpawns
      <4>. QED BY <1>3, <4>1
    <3>. QED BY <3>1, <3>2
  <2>3. \A b \in AssignThread \ {a} : assign'[b] = assign[b] /\ carried'[b] = carried[b]
    BY <1>1, <1>2, <2>1
  <2>4. assign'[a] = "idle"
    BY <1>1, <2>1
  <2>5. ASSUME NEW e \in ExecThread, exec'[e].pc # "idle"
        PROVE  <<id', job'[e]>> \in accepted'
    <3>1. CASE exec'[e] # exec[e]
      BY <2>1, <2>2, <3>1
    <3>2. CASE exec'[e] = exec[e]
      BY <1>3, <2>1, <2>5, <3>2 DEF WorkIsExpected
    <3>. QED BY <3>1, <3>2
  <2>6. ASSUME NEW b \in AssignThread \ {handler'}, assign'[b] # "idle"
        PROVE  <<id', carried'[b]>> \in accepted'
    <3>1. b # a /\ b # handler
      BY <2>2, <2>4, <2>6
    <3>. QED BY <1>3, <2>1, <2>3, <2>6, <3>1 DEF WorkIsExpected
  <2>. QED BY <2>5, <2>6 DEF WorkIsExpected
<1>9. ASSUME NEW e \in ExecThread, Executes(e)
      PROVE  WorkIsExpected'
  <2>1. /\ exec[e].pc # "idle" /\ job' = [job EXCEPT ![e] = IF exec'[e] = Idle THEN NoTask ELSE @]
        /\ UNCHANGED <<id, handler, assign, carried, main_pc>>
        /\ \A f \in ExecThread \ {e} : exec'[f] = exec[f]
    BY <1>1, <1>9 DEF Executes, RunPrimeTask, ExecutionEnds, ThreadIs
  <2>2. \A f \in ExecThread \ {e} : job'[f] = job[f]
    BY <1>2, <2>1
  <2>3. exec'[e].pc # "idle" => job'[e] = job[e]
    BY <1>2, <2>1 DEF Idle
  <2>. QED BY <1>3, <2>1, <2>2, <2>3, WorkIsStillExpected DEF Alive
<1>10. ASSUME NEW e \in ExecThread, ReportFails(e) \/ ReportAcknowledged(e), SameWork
       PROVE  WorkIsExpected'
  <2>1. /\ exec[e].pc # "idle" /\ UNCHANGED main_pc
        /\ \A f \in ExecThread \ {e} : exec'[f] = exec[f]
    BY <1>1, <1>10 DEF ReportFails, ReportAcknowledged, ThreadIs
  <2>. QED BY <1>3, <1>10, <2>1, WorkIsStillExpected DEF Alive
<1>11. ASSUME SameWork, UNCHANGED exec, main_pc # "exited" PROVE WorkIsExpected'
  BY <1>3, <1>11, WorkIsStillExpected DEF Alive
<1>12. CASE Exits \/ Dies \/ Restarts
  <2>1. assign' = [a \in AssignThread |-> "idle"] /\ exec' = [e \in ExecThread |-> Idle]
    BY <1>12 DEF Exits, Dies, Restarts, Blank
  <2>. QED BY <2>1 DEF WorkIsExpected, Idle
<1>13. ASSUME NEW th \in Thread, CoordinatorHandler(th)
       PROVE  WorkIsExpected'
  <2>1. CASE Serve(th)
    BY <1>4, <2>1 DEF Serve, workerVars, vars, linkVars
  <2>2. CASE Answer(th)
    <3>1. UNCHANGED <<id, handler, carried, job>>
      BY <2>2 DEF Answer
    <3>2. CASE Registers
      BY <1>11, <3>1, <3>2 DEF Registers, MainGoes
    <3>3. CASE \E e \in ExecThread : ReportAcknowledged(e)
      BY <1>10, <3>1, <3>3 DEF ReportAcknowledged, ThreadIs
    <3>4. CASE UNCHANGED workerVars
      BY <1>4, <3>1, <3>4 DEF workerVars, vars
    <3>. QED BY <2>2, <3>2, <3>3, <3>4 DEF Answer
  <2>. QED BY <1>13, <2>1, <2>2 DEF CoordinatorHandler
<1>14. ASSUME NEW e \in ExecThread, ReportLost(e)
       PROVE  WorkIsExpected'
  BY <1>10, <1>14 DEF ReportLost, ReportFails, ThreadIs
<1>15. CASE \/ RefusedDraining \/ ConnectionRefused \/ Delay
            \/ \E w \in Worker : Silence(w)
            \/ \E t \in Task : Timeout(t)
            \/ Scheduling(C!Dispatch) \/ Scheduling(C!WaitTimeout) \/ Scheduling(C!Health)
            \/ \E t \in Task, p \in Priority, now \in Clock : Scheduling(C!Submit(t, p, now))
  BY <1>4, <1>15 DEF RefusedDraining, ConnectionRefused, Delay, Silence, Timeout, Scheduling,
     workerVars, vars, linkVars
<1>16. ASSUME NEW th \in Thread,
              \/ \E e \in ExecThread : CallReport(th, e)
              \/ \E address \in Address : CallRegister(th, address)
       PROVE  WorkIsExpected'
  BY <1>4, <1>16 DEF CallReport, CallRegister, workerVars, vars
<1>17. CASE HeartbeatThread \/ HeartbeatArrives \/ HeartbeatLost
  BY <1>4, <1>17 DEF HeartbeatThread, HeartbeatArrives, HeartbeatLost, TestShutdown,
     HeartbeatWakes, HeartbeatReturns, HeartbeatIs, linkVars
<1>18. CASE MainGoesOn \/ RegisterError \/ ListenError
  BY <1>11, <1>18 DEF MainGoesOn, RegisterError, ListenError, Registers, Listens, ListenFails,
     LeaveServing, LeaveDraining, ShutdownCalled, ShutdownReturns, MainGoes, linkVars
<1>19. CASE Signal \/ SignalCompletes
  BY <1>4, <1>19 DEF Signal, SignalCompletes, SignalArrives, SignalEnds, linkVars
<1>. QED
  BY <1>5, <1>6, <1>7, <1>8, <1>9, <1>12, <1>13, <1>14, <1>15, <1>16, <1>17, <1>18, <1>19
     DEF SystemNext, RpcProceeds, AssignHandler, ExecutionThread, MainThread

(* What a handler of the coordinator does to the calls it serves: its own  *)
(* goes on as the kind of call it is.                                      *)
LEMMA HandlerServes ==
  ASSUME C!TypeOK, NEW th \in Thread, C!Handler(th)
  PROVE  /\ \A u \in Thread \ {th} : rpc'[u] = rpc[u]
         /\ rpc[th].pc \in {"collect", "requeue", "register"} /\ rpc'[th] # C!Idle
              => rpc'[th].pc \in {"collect", "requeue", "register"}
         /\ rpc[th].pc \in {"record", "decrement"} /\ rpc'[th] # C!Idle
              => rpc'[th].pc \in {"record", "decrement"}
<1>1. DOMAIN rpc = Thread /\ C!ServicesTypeOK
  BY DEF C!TypeOK, C!ServicesTypeOK
<1>2. CASE C!RegisterCollect(th)
  <2>1. rpc[th] \in C!RegisterCall
    BY <1>1, <1>2, C!RpcCalls, CoordinatorConstants, OrchestratorAssumption DEF C!RegisterCollect
  <2>. QED BY <1>1, <1>2, <2>1 DEF C!RegisterCall, C!RegisterCollect
<1>3. ASSUME NEW t \in Task, C!RegisterRequeue(th, t)
      PROVE  /\ \A u \in Thread \ {th} : rpc'[u] = rpc[u]
             /\ rpc[th].pc = "requeue" /\ rpc'[th].pc \in {"requeue", "register"}
  <2>1. rpc[th] \in C!RegisterCall
    BY <1>1, <1>3, C!RpcCalls, CoordinatorConstants, OrchestratorAssumption DEF C!RegisterRequeue
  <2>. QED BY <1>1, <1>3, <2>1 DEF C!RegisterCall, C!RegisterRequeue
<1>4. CASE C!RegisterStore(th) \/ C!ReportDecrement(th)
  BY <1>1, <1>4 DEF C!RegisterStore, C!ReportDecrement
<1>5. CASE C!ReportRecord(th)
  BY <1>1, <1>5 DEF C!ReportRecord
<1>. QED BY <1>2, <1>3, <1>4, <1>5 DEF C!Handler, C!HandlerStep

(* The calls that are still there, if the step makes none.                 *)
LEMMA CallersAreStillServed ==
  ASSUME CallersAreServed,
         \A th \in Thread : caller'[th] = caller[th] \/ caller'[th] = "none",
         \A th \in Thread :
           caller'[th] # "none" =>
             /\ rpc'[th] = rpc[th]
             /\ caller[th] = "main" => main_pc' = main_pc
             /\ caller[th] \in ExecThread => exec'[caller[th]].pc = exec[caller[th]].pc
  PROVE  CallersAreServed'
BY OrchestratorAssumption DEF CallersAreServed

(* A call is made where nobody waits for an answer yet, its handler keeps  *)
(* to it, and it ends with the answer or with the caller.                  *)
LEMMA CallersAreServedStep ==
  ASSUME LinkInv, C!TypeOK, SystemTypeOK, CallersAreServed, SystemNext
  PROVE  CallersAreServed'
<1>1. /\ exec \in [ExecThread -> [pc : {"idle", "run", "report", "ended"}, attempt : 0..kMaxAttempts]]
      /\ caller \in [Thread -> ExecThread \cup {"main", "none"}]
      /\ DOMAIN rpc = Thread
  BY DEF LinkInv, IInv, TypeOK, SystemTypeOK, C!TypeOK, C!ServicesTypeOK
<1>2. "none" # "main" /\ "none" \notin ExecThread /\ "main" \notin ExecThread
  BY OrchestratorAssumption
<1>3. ASSUME UNCHANGED <<caller, rpc>>, main_pc' = main_pc \/ main_pc # "register",
             \A e \in ExecThread : exec[e].pc = "report" => exec'[e].pc = "report"
      PROVE  CallersAreServed'
  BY <1>3, <1>2 DEF CallersAreServed
<1>4. ASSUME NEW th \in Thread, NEW address \in Address, CallRegister(th, address)
      PROVE  CallersAreServed'
  <2>1. /\ rpc[th] = C!Idle /\ main_pc = "register" /\ UNCHANGED vars
        /\ caller' = [caller EXCEPT ![th] = "main"] /\ \A u \in Thread : caller[u] # "main"
        /\ rpc'[th].pc \in {"collect", "requeue", "register"}
        /\ \A u \in Thread \ {th} : rpc'[u] = rpc[u]
    BY <1>1, <1>4 DEF CallRegister, C!Register, C!RegisterWorker, workerVars
  <2>2. /\ caller'[th] = "main" /\ \A u \in Thread \ {th} : caller'[u] = caller[u]
        /\ UNCHANGED <<main_pc, exec>>
    BY <1>1, <2>1 DEF vars
  <2>3. \A u \in Thread : caller'[u] = caller'[th] => u = th
    BY <2>1, <2>2
  <2>. QED BY <1>2, <2>1, <2>2, <2>3 DEF CallersAreServed
<1>5. ASSUME NEW th \in Thread, NEW e \in ExecThread, CallReport(th, e)
      PROVE  CallersAreServed'
  <2>1. /\ rpc[th] = C!Idle /\ exec[e].pc = "report" /\ UNCHANGED vars
        /\ caller' = [caller EXCEPT ![th] = e] /\ \A u \in Thread : caller[u] # e
        /\ rpc'[th].pc \in {"record", "decrement"}
        /\ \A u \in Thread \ {th} : rpc'[u] = rpc[u]
    BY <1>1, <1>5 DEF CallReport, C!Report, C!ReportResult, workerVars
  <2>2. /\ caller'[th] = e /\ \A u \in Thread \ {th} : caller'[u] = caller[u]
        /\ UNCHANGED <<main_pc, exec>>
    BY <1>1, <2>1 DEF vars
  <2>3. \A u \in Thread : caller'[u] = caller'[th] => u = th
    BY <2>1, <2>2
  <2>. QED BY <1>2, <2>1, <2>2, <2>3 DEF CallersAreServed
<1>6. ASSUME NEW th \in Thread, Serve(th)
      PROVE  CallersAreServed'
  <2>1. C!Handler(th) /\ rpc'[th] # C!Idle /\ UNCHANGED <<caller, exec, main_pc>>
    BY <1>6 DEF Serve, workerVars, vars, linkVars
  <2>. QED BY <1>2, <2>1, HandlerServes DEF CallersAreServed
<1>7. ASSUME NEW th \in Thread, Answer(th)
      PROVE  CallersAreServed'
  <2>1. /\ C!Handler(th) /\ caller' = [caller EXCEPT ![th] = "none"]
        /\ \A u \in Thread \ {th} : rpc'[u] = rpc[u]
    BY <1>7, HandlerServes DEF Answer
  <2>2. CASE caller[th] = "main" /\ Registers
    <3>1. UNCHANGED exec
      BY <2>2 DEF Registers, MainGoes
    <3>2. \A u \in Thread \ {th} : caller[u] # "main"
      BY <1>2, <2>2 DEF CallersAreServed
    <3>. QED BY <1>1, <1>2, <2>1, <3>1, <3>2, CallersAreStillServed
  <2>3. CASE caller[th] \in ExecThread /\ ReportAcknowledged(caller[th])
    <3>1. /\ UNCHANGED main_pc
          /\ \A e \in ExecThread \ {caller[th]} : exec'[e] = exec[e]
      BY <1>1, <2>3 DEF ReportAcknowledged, ThreadIs
    <3>2. \A u \in Thread \ {th} : caller[u] # caller[th]
      BY <1>2, <2>3 DEF CallersAreServed
    <3>. QED BY <1>1, <1>2, <2>1, <3>1, <3>2, CallersAreStillServed
  <2>4. CASE UNCHANGED workerVars
    BY <1>1, <1>2, <2>1, <2>4, CallersAreStillServed DEF workerVars, vars
  <2>. QED BY <1>7, <2>2, <2>3, <2>4 DEF Answer
<1>8. CASE RegisterError
  <2>1. /\ caller' = [th \in Thread |-> IF caller[th] = "main" THEN "none" ELSE caller[th]]
        /\ UNCHANGED <<rpc, exec>>
    BY <1>8 DEF RegisterError, HangUp, Registers, MainGoes, coordinatorVars
  <2>. QED BY <1>1, <1>2, <2>1, CallersAreStillServed
<1>9. ASSUME NEW e \in ExecThread, ReportLost(e)
      PROVE  CallersAreServed'
  <2>1. /\ caller' = [th \in Thread |-> IF caller[th] = e THEN "none" ELSE caller[th]]
        /\ UNCHANGED <<rpc, main_pc>>
        /\ \A f \in ExecThread \ {e} : exec'[f] = exec[f]
    BY <1>1, <1>9 DEF ReportLost, HangUp, ReportFails, ThreadIs, coordinatorVars
  <2>. QED BY <1>1, <1>2, <2>1, CallersAreStillServed
<1>10. CASE Exits \/ Dies \/ Restarts
  <2>1. caller' = [th \in Thread |-> "none"]
    BY <1>10 DEF Exits, Dies, Restarts, Blank
  <2>. QED BY <1>2, <2>1 DEF CallersAreServed
<1>11. ASSUME NEW e \in ExecThread, Executes(e)
       PROVE  CallersAreServed'
  <2>1. /\ exec[e].pc # "report" /\ UNCHANGED <<caller, rpc, main_pc>>
        /\ \A f \in ExecThread \ {e} : exec'[f] = exec[f]
    BY <1>1, <1>11 DEF Executes, RunPrimeTask, ExecutionEnds, ThreadIs, coordinatorVars
  <2>. QED BY <1>3, <2>1
<1>12. ASSUME NEW a \in AssignThread, RpcArrives(a) \/ HandlerIncrements(a)
       PROVE  CallersAreServed'
  BY <1>3, <1>12 DEF RpcArrives, AssignTask, HandlerIncrements, IncrementActive, HandlerIsAt,
     coordinatorVars, linkVars
<1>13. ASSUME NEW a \in AssignThread, HandlerTests(a)
       PROVE  CallersAreServed'
  BY <1>3, <1>13 DEF HandlerTests, TestCapacity, HandlerIsAt, C!WorkerRejects, C!serviceVars,
     coordinatorVars
<1>14. ASSUME NEW a \in AssignThread, HandlerSpawns(a)
       PROVE  CallersAreServed'
  <2>1. UNCHANGED <<caller, rpc, main_pc>>
    BY <1>14 DEF HandlerSpawns, SpawnAndAccept, HandlerIsAt, C!WorkerAccepts, C!serviceVars,
       coordinatorVars
  <2>2. PICK e \in ExecThread : exec[e].pc = "idle" /\ exec' = [exec EXCEPT ![e].pc = "run"]
    BY <1>14 DEF HandlerSpawns, SpawnAndAccept
  <2>. QED BY <1>1, <1>3, <2>1, <2>2
<1>15. CASE RefusedDraining \/ ConnectionRefused \/ Deadline
  BY <1>3, <1>15 DEF RefusedDraining, ConnectionRefused, Deadline, C!WorkerRejects,
     C!WorkerUnreachable, C!serviceVars, workerVars, vars, linkVars
<1>16. CASE \/ Delay \/ \E w \in Worker : Silence(w)
            \/ \E t \in Task : Timeout(t)
  BY <1>3, <1>16 DEF Delay, Silence, Timeout, C!WorkerFallsSilent, C!TaskOverruns,
     C!serviceVars, workerVars, vars, linkVars
<1>17. CASE \/ Scheduling(C!Dispatch) \/ Scheduling(C!WaitTimeout) \/ Scheduling(C!Health)
            \/ \E t \in Task, p \in Priority, now \in Clock : Scheduling(C!Submit(t, p, now))
  BY <1>3, <1>17 DEF Scheduling, C!Dispatch, C!WaitTimeout, C!Health, C!Submit, C!SubmitTask,
     C!serviceVars, workerVars, vars, linkVars
<1>18. CASE HeartbeatThread \/ HeartbeatArrives \/ HeartbeatLost
  BY <1>3, <1>18 DEF HeartbeatThread, HeartbeatArrives, HeartbeatLost, TestShutdown,
     HeartbeatWakes, HeartbeatReturns, HeartbeatIs, C!Beat, C!Heartbeat, C!serviceVars,
     coordinatorVars, linkVars
<1>19. CASE MainGoesOn \/ ListenError
  BY <1>3, <1>19 DEF MainGoesOn, ListenError, Listens, ListenFails, LeaveServing, LeaveDraining,
     ShutdownCalled, ShutdownReturns, MainGoes, coordinatorVars, linkVars
<1>20. CASE Signal \/ SignalCompletes
  BY <1>3, <1>20 DEF Signal, SignalCompletes, SignalArrives, SignalEnds, coordinatorVars,
     linkVars
<1>. QED
  BY <1>4, <1>5, <1>6, <1>7, <1>8, <1>9, <1>10, <1>11, <1>12, <1>13, <1>14, <1>15, <1>16, <1>17,
     <1>18, <1>19, <1>20
     DEF SystemNext, RpcProceeds, AssignHandler, CoordinatorHandler, ExecutionThread, MainThread
-----------------------------------------------------------------------------
(* SystemInv.                                                              *)

(* The types of what the composition adds.                                 *)
LinkTypeOK ==
  /\ handler \in AssignThread \cup {"none"}
  /\ carried \in [AssignThread -> Task \cup {NoTask}]
  /\ job \in [ExecThread -> Task \cup {NoTask}]
  /\ caller \in [Thread -> ExecThread \cup {"main", "none"}]
  /\ troubles \in 0..MaxTroubles
  /\ executions \in [Task -> Nat] /\ begun \in Nat

(* A worker takes tasks from the dispatch thread, an execution from a      *)
(* handler of the worker.                                                  *)
LEMMA LinkTypeStep ==
  ASSUME LinkInv, LinkTypeOK, SystemNext
  PROVE  LinkTypeOK'
<1>. USE DEF LinkTypeOK
<1>1. Trouble \/ NoTrouble => troubles' \in 0..MaxTroubles
  BY OrchestratorAssumption DEF Trouble, NoTrouble
<1>2. ASSUME UNCHANGED linkVars, Trouble \/ NoTrouble PROVE LinkTypeOK'
  BY <1>1, <1>2 DEF linkVars
<1>3. ASSUME NEW a \in AssignThread, RpcArrives(a)
      PROVE  LinkTypeOK'
  BY <1>1, <1>3 DEF RpcArrives, LinkInv, CallsTyped
<1>4. CASE Deadline
  BY <1>1, <1>4 DEF Deadline
<1>5. ASSUME NEW a \in AssignThread, HandlerTests(a)
      PROVE  LinkTypeOK'
  BY <1>1, <1>5 DEF HandlerTests
<1>6. ASSUME NEW a \in AssignThread, HandlerSpawns(a)
      PROVE  LinkTypeOK'
  <2>1. \A e \in ExecThread : job'[e] \in Task \cup {NoTask}
    BY <1>6 DEF HandlerSpawns
  <2>2. job' \in [ExecThread -> Task \cup {NoTask}]
    BY <1>6, <2>1 DEF HandlerSpawns
  <2>3. carried' \in [AssignThread -> Task \cup {NoTask}]
    BY <1>6 DEF HandlerSpawns
  <2>4. handler' \in AssignThread \cup {"none"} /\ caller' = caller
    BY <1>6 DEF HandlerSpawns
  <2>5. executions' \in [Task -> Nat]
    <3>1. executions' = [t \in Task |-> IF t = carried[a] THEN executions[t] + 1 ELSE executions[t]]
      BY <1>6 DEF HandlerSpawns
    <3>2. \A t \in Task : executions[t] \in Nat /\ executions[t] + 1 \in Nat
      OBVIOUS
    <3>. QED BY <3>1, <3>2
  <2>6. begun' \in Nat
    BY <1>6 DEF HandlerSpawns
  <2>. QED BY <1>1, <1>6, <2>2, <2>3, <2>4, <2>5, <2>6 DEF HandlerSpawns
<1>7. ASSUME NEW th \in Thread,
             \/ Answer(th)
             \/ \E e \in ExecThread : CallReport(th, e)
             \/ \E address \in Address : CallRegister(th, address)
      PROVE  LinkTypeOK'
  <2>1. caller' \in [Thread -> ExecThread \cup {"main", "none"}]
    BY <1>7 DEF Answer, CallReport, CallRegister
  <2>2. UNCHANGED <<handler, carried, job, executions, begun>> /\ (Trouble \/ NoTrouble)
    BY <1>7 DEF Answer, CallReport, CallRegister
  <2>. QED BY <1>1, <2>1, <2>2
<1>8. CASE RegisterError \/ \E e \in ExecThread : ReportLost(e)
  <2>1. PICK c : HangUp(c) /\ UNCHANGED <<handler, carried, job, executions, begun>> /\ Trouble
    BY <1>8 DEF RegisterError, ReportLost
  <2>2. caller' \in [Thread -> ExecThread \cup {"main", "none"}]
    BY <2>1 DEF HangUp
  <2>. QED BY <1>1, <2>1, <2>2
<1>9. ASSUME NEW e \in ExecThread, Executes(e)
      PROVE  LinkTypeOK'
  BY <1>1, <1>9 DEF Executes
<1>10. CASE Exits \/ Dies \/ Restarts
  BY <1>1, <1>10 DEF Exits, Dies, Restarts, Blank
<1>11. ASSUME NEW a \in AssignThread, HandlerIncrements(a)
       PROVE  LinkTypeOK'
  BY <1>2, <1>11 DEF HandlerIncrements
<1>12. ASSUME NEW th \in Thread, Serve(th)
       PROVE  LinkTypeOK'
  BY <1>2, <1>12 DEF Serve
<1>13. CASE \/ RefusedDraining \/ ConnectionRefused \/ Delay
            \/ \E w \in Worker : Silence(w)
            \/ \E t \in Task : Timeout(t)
            \/ Scheduling(C!Dispatch) \/ Scheduling(C!WaitTimeout) \/ Scheduling(C!Health)
            \/ \E t \in Task, p \in Priority, now \in Clock : Scheduling(C!Submit(t, p, now))
  BY <1>2, <1>13 DEF RefusedDraining, ConnectionRefused, Delay, Silence, Timeout, Scheduling
<1>14. CASE \/ HeartbeatThread \/ HeartbeatArrives \/ HeartbeatLost
            \/ MainGoesOn \/ ListenError \/ Signal \/ SignalCompletes
  BY <1>2, <1>14 DEF HeartbeatThread, HeartbeatArrives, HeartbeatLost, MainGoesOn, ListenError,
     Signal, SignalCompletes
<1>. QED
  BY <1>3, <1>4, <1>5, <1>6, <1>7, <1>8, <1>9, <1>10, <1>11, <1>12, <1>13, <1>14
     DEF SystemNext, RpcProceeds, AssignHandler, CoordinatorHandler, ExecutionThread, MainThread

(* Whatever goes wrong and however often the process is started again, the *)
(* worker's invariants hold, the coordinator's state keeps its types, and  *)
(* the two ends of every call agree: what is executed or reported the      *)
(* coordinator expects, and no answer goes to a thread that did not call.  *)
THEOREM SystemInvariant == System => []SystemInv
<1>. DEFINE Inv == LinkTypeOK /\ CallsMatch
<1>1. C!IInv => C!TypeOK
  BY DEF C!IInv
<1>2. LinkInv /\ C!TypeOK /\ Inv => SystemInv
  BY DEF LinkInv, LinkTypeOK, SystemTypeOK, SystemInv
<1>3. SystemInit => Inv
  <2>. SUFFICES ASSUME SystemInit PROVE Inv
    OBVIOUS
  <2>1. LinkTypeOK
    BY OrchestratorAssumption DEF SystemInit, LinkTypeOK
  <2>2. AssignmentMatches
    BY DEF SystemInit, AssignmentMatches
  <2>3. WorkIsExpected
    BY DEF SystemInit, Init, WorkIsExpected, Idle
  <2>4. CallersAreServed
    BY OrchestratorAssumption DEF SystemInit, CallersAreServed
  <2>. QED BY <2>1, <2>2, <2>3, <2>4 DEF CallsMatch
<1>4. LinkInv /\ C!TypeOK /\ Inv /\ [SystemNext]_systemVars => Inv'
  <2>. SUFFICES ASSUME LinkInv, C!TypeOK, Inv, [SystemNext]_systemVars PROVE Inv'
    OBVIOUS
  <2>1. CASE UNCHANGED systemVars
    BY <2>1 DEF systemVars, coordinatorVars, workerVars, vars, linkVars, LinkTypeOK, CallsMatch,
       AssignmentMatches, WorkIsExpected, CallersAreServed, Alive
  <2>2. CASE SystemNext
    <3>1. SystemTypeOK
      BY <1>2 DEF SystemInv
    <3>. QED BY <2>2, <3>1, LinkTypeStep, AssignmentMatchesStep, WorkIsExpectedStep,
             CallersAreServedStep DEF CallsMatch
  <2>. QED BY <2>1, <2>2
<1>. QED BY <1>1, <1>2, <1>3, <1>4, LinkInvariant, CoordinatorIsSound, PTL DEF System

=============================================================================
