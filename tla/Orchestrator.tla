---------------------------- MODULE Orchestrator ----------------------------
(***************************************************************************)
(* The coordinator (Coordinator.tla) and a worker process (Worker.tla)     *)
(* that call each other.  What the environment of Coordinator.tla may do   *)
(* is done here by the worker: every accepted task, refusal, report,       *)
(* heartbeat and registration comes from a step of its threads, and it is  *)
(* started again when it has ended, under the same id or another, at the   *)
(* same address.                                                           *)
(*                                                                         *)
(* What goes wrong besides is a trouble, and an instance has at most       *)
(* MaxTroubles of them: a call or its answer is lost or comes too late, a  *)
(* report overtakes the answer to its assignment, a task takes longer than *)
(* the execution timeout, the process gets a signal or dies.  The          *)
(* coordinator neither stops nor crashes here.                             *)
(***************************************************************************)
EXTENDS Worker

CONSTANTS
  Task, Worker, Address, Priority, BadPayload, NoTask, NoWorker, NoAddress,
  Clock, Thread, MaxReports, MaxEntries,  \* of Coordinator.tla
  FirstId,     \* the worker id under which the process is started first
  MaxTroubles  \* bound: the troubles of an instance

VARIABLES
  tasks, pending_queue, workers, running_, d_pc, d_worker, d_address, d_task,
  d_todo, dispatched_any, h_pc, h_dead, h_worker, h_todo, rpc, total_ok,
  total_err, accepted, forgotten,  \* of Coordinator.tla
  id,       \* worker_id of the process
  handler,  \* the thread of the worker that has the outstanding AssignTask, or "none"
  carried,  \* AssignThread -> the task of its call
  job,      \* ExecThread -> the task it executes
  caller,   \* Thread -> which thread of the worker waits for it: "main", an
            \* ExecThread, or "none"
  troubles,   \* how many there have been
  executions, \* how many executions of each task have begun
  begun       \* and how many of all tasks together

\* The coordinator, with the theorems about it.
C == INSTANCE LifecycleProofs WITH
  Capacity <- {capacity}, MaxLoad <- MostActive,
  Faults <- {"unreachable", "refusal", "silence", "restart", "overrun"}

\* The placeholders are no ids and no threads; priorities and times are integers.
ASSUME OrchestratorAssumption ==
  /\ NoTask \notin Task /\ NoWorker \notin Worker /\ NoAddress \notin Address
  /\ "none" \notin AssignThread /\ {"main", "none"} \cap ExecThread = {}
  /\ Priority \subseteq Int /\ Clock \subseteq Int
  /\ MaxReports \in Nat /\ MaxEntries \in Nat
  /\ FirstId \in Worker
  /\ MaxTroubles \in Nat

workerVars == vars
coordinatorVars ==
  <<tasks, pending_queue, workers, running_, d_pc, d_worker, d_address, d_task,
    d_todo, dispatched_any, h_pc, h_dead, h_worker, h_todo, rpc, total_ok,
    total_err, accepted, forgotten>>
linkVars == <<id, handler, carried, job, caller, executions, begun>>
systemVars == <<coordinatorVars, workerVars, linkVars, troubles>>

SystemInit ==
  /\ C!Init
  /\ Init
  /\ id = FirstId
  /\ handler = "none"
  /\ carried = [a \in AssignThread |-> NoTask]
  /\ job = [e \in ExecThread |-> NoTask]
  /\ caller = [th \in Thread |-> "none"]
  /\ troubles = 0 /\ executions = [t \in Task |-> 0] /\ begun = 0

Trouble == troubles < MaxTroubles /\ troubles' = troubles + 1
NoTrouble == troubles' = troubles
Alive == main_pc # "exited"

(* The thread c of the worker waits no more.                               *)
HangUp(c) == caller' = [th \in Thread |-> IF caller[th] = c THEN "none" ELSE caller[th]]

-----------------------------------------------------------------------------
(* AssignTask, from the dispatch thread to the worker.                     *)

RpcArrives(a) ==
  /\ d_pc = "rpc" /\ handler = "none"
  /\ Alive /\ AssignTask(a)
  /\ handler' = a
  /\ carried' = [carried EXCEPT ![a] = d_task]
  /\ NoTrouble /\ UNCHANGED <<coordinatorVars, id, job, caller, executions, begun>>

RefusedDraining ==
  /\ d_pc = "rpc" /\ handler = "none"
  /\ Serving /\ g_draining
  /\ C!WorkerRejects
  /\ NoTrouble /\ UNCHANGED <<workerVars, linkVars>>

(* Nobody listens at the address.                                          *)
ConnectionRefused ==
  /\ d_pc = "rpc" /\ handler = "none"
  /\ ~Serving
  /\ C!WorkerUnreachable
  /\ NoTrouble /\ UNCHANGED <<workerVars, linkVars, accepted>>

(* The call, or its answer, is lost or late.  A handler that has the call  *)
(* goes on with it.                                                        *)
Deadline ==
  /\ C!WorkerUnreachable
  /\ accepted' = accepted \cup
       (IF handler = "none" THEN {} ELSE {<<id, carried[handler]>>})
  /\ handler' = "none"
  /\ Trouble /\ UNCHANGED <<workerVars, id, carried, job, caller, executions, begun>>

HandlerTests(a) ==
  /\ Alive /\ TestCapacity(a)
  /\ IF handler = a /\ assign'[a] = "idle"
     THEN C!WorkerRejects /\ handler' = "none"
     ELSE UNCHANGED <<coordinatorVars, handler>>
  /\ NoTrouble /\ UNCHANGED <<id, carried, job, caller, executions, begun>>

HandlerIncrements(a) ==
  /\ Alive /\ IncrementActive(a)
  /\ NoTrouble /\ UNCHANGED <<coordinatorVars, linkVars>>

(* Variant: the thread reads its task from the request of a call that has  *)
(* returned.                                                               *)
HandlerSpawns_ReadsTooLate(a) ==
  /\ Alive /\ SpawnAndAccept(a)
  /\ carried' = [carried EXCEPT ![a] = NoTask]
  /\ job' = [e \in ExecThread |-> IF exec'[e] # exec[e] THEN carried'[a] ELSE job[e]]
  /\ IF handler = a
     THEN C!WorkerAccepts /\ accepted' = accepted \cup {<<id, d_task>>} /\ handler' = "none"
     ELSE UNCHANGED <<coordinatorVars, handler>>
  /\ executions' = [executions EXCEPT ![carried[a]] = @ + 1] /\ begun' = begun + 1
  /\ NoTrouble /\ UNCHANGED <<id, caller>>

HandlerSpawns(a) ==
  /\ Alive /\ SpawnAndAccept(a)
  /\ job' = [e \in ExecThread |-> IF exec'[e] # exec[e] THEN carried[a] ELSE job[e]]
  /\ IF handler = a
     THEN C!WorkerAccepts /\ accepted' = accepted \cup {<<id, d_task>>} /\ handler' = "none"
     ELSE UNCHANGED <<coordinatorVars, handler>>
  /\ carried' = [carried EXCEPT ![a] = NoTask]
  /\ executions' = [executions EXCEPT ![carried[a]] = @ + 1] /\ begun' = begun + 1
  /\ NoTrouble /\ UNCHANGED <<id, caller>>

-----------------------------------------------------------------------------
(* The calls of the worker.  A call is served by a thread of the           *)
(* coordinator's server; its last step there is its answer.                *)

CallRegister(th, address) ==
  /\ main_pc = "register" /\ \A u \in Thread : caller[u] # "main"
  /\ C!Register(th, id, address, capacity)
  /\ caller' = [caller EXCEPT ![th] = "main"]
  /\ NoTrouble /\ UNCHANGED <<workerVars, id, handler, carried, job, executions, begun>>

CallReport(th, e) ==
  /\ Alive /\ exec[e].pc = "report" /\ \A u \in Thread : caller[u] # e
  /\ C!Report(th, id, job[e])
  /\ caller' = [caller EXCEPT ![th] = e]
  /\ IF d_pc = "accepted" /\ d_task = job[e] THEN Trouble ELSE NoTrouble
  /\ UNCHANGED <<workerVars, id, handler, carried, job, executions, begun>>

Serve(th) ==
  /\ C!Handler(th)
  /\ rpc'[th] # C!Idle
  /\ NoTrouble /\ UNCHANGED <<workerVars, linkVars>>

Answer(th) ==
  /\ C!Handler(th)
  /\ rpc'[th] = C!Idle
  /\ \/ caller[th] = "main" /\ Registers /\ main_pc' = "listen"
     \/ caller[th] \in ExecThread /\ Alive /\ ReportAcknowledged(caller[th])
     \/ caller[th] = "none" /\ UNCHANGED workerVars
  /\ caller' = [caller EXCEPT ![th] = "none"]
  /\ NoTrouble /\ UNCHANGED <<id, handler, carried, job, executions, begun>>

RegisterError ==
  /\ Registers /\ main_pc' = "exited"
  /\ HangUp("main")
  /\ Trouble /\ UNCHANGED <<coordinatorVars, id, handler, carried, job, executions, begun>>

ReportLost(e) ==
  /\ Alive /\ ReportFails(e)
  /\ HangUp(e)
  /\ Trouble /\ UNCHANGED <<coordinatorVars, id, handler, carried, job, executions, begun>>

HeartbeatArrives ==
  /\ Alive /\ HeartbeatReturns
  /\ C!Beat(id, hb_active)
  /\ NoTrouble /\ UNCHANGED linkVars

HeartbeatLost ==
  /\ Alive /\ HeartbeatReturns
  /\ Trouble /\ UNCHANGED <<coordinatorVars, linkVars>>

-----------------------------------------------------------------------------
(* The worker by itself.                                                   *)

Executes(e) ==
  /\ Alive /\ (RunPrimeTask(e) \/ ExecutionEnds(e))
  /\ job' = [job EXCEPT ![e] = IF exec'[e] = Idle THEN NoTask ELSE @]
  /\ NoTrouble /\ UNCHANGED <<coordinatorVars, id, handler, carried, caller, executions, begun>>

HeartbeatThread ==
  /\ Alive /\ (TestShutdown \/ HeartbeatWakes)
  /\ NoTrouble /\ UNCHANGED <<coordinatorVars, linkVars>>

MainGoesOn ==
  /\ \/ Listens
     \/ LeaveServing \/ LeaveDraining
     \/ ShutdownCalled \/ ShutdownReturns
  /\ NoTrouble /\ UNCHANGED <<coordinatorVars, linkVars>>

ListenError == ListenFails /\ Trouble /\ UNCHANGED <<coordinatorVars, linkVars>>

Signal == Alive /\ SignalArrives /\ Trouble /\ UNCHANGED <<coordinatorVars, linkVars>>
SignalCompletes == Alive /\ SignalEnds /\ NoTrouble /\ UNCHANGED <<coordinatorVars, linkVars>>

(* A process that ends takes its threads and its calls with it.            *)
Blank ==
  /\ g_draining' = FALSE /\ g_shutdown' = FALSE /\ g_active_tasks' = 0
  /\ assign' = [a \in AssignThread |-> "idle"]
  /\ exec' = [e \in ExecThread |-> Idle]
  /\ hb_pc' = "off" /\ hb_active' = 0
  /\ handler' = "none"
  /\ carried' = [a \in AssignThread |-> NoTask]
  /\ job' = [e \in ExecThread |-> NoTask]
  /\ caller' = [th \in Thread |-> "none"]
  /\ UNCHANGED <<coordinatorVars, executions, begun>>

Exits ==
  /\ main_pc = "join" /\ hb_pc = "ended"
  /\ main_pc' = "exited"
  /\ Blank /\ UNCHANGED id /\ NoTrouble

Dies ==
  /\ Alive
  /\ main_pc' = "exited"
  /\ Blank /\ UNCHANGED id /\ Trouble

Restarts ==
  /\ ~Alive
  /\ main_pc' = "register"
  /\ id' \in Worker
  /\ Blank /\ NoTrouble

-----------------------------------------------------------------------------
(* Time.  A heartbeat thread that runs and whose calls arrive keeps its    *)
(* worker from being silent, and a task that is executed gets its verdict  *)
(* before the execution timeout: else something is wrong.                  *)

Beats(w) == w = id /\ Alive /\ main_pc # "register" /\ hb_pc # "ended"

HasTask(t) ==
  /\ Alive
  /\ \/ \E a \in AssignThread : assign[a] # "idle" /\ carried[a] = t
     \/ \E e \in ExecThread : job[e] = t

Silence(w) ==
  /\ ~Beats(w) /\ NoTrouble
  /\ C!WorkerFallsSilent(w) /\ UNCHANGED <<workerVars, linkVars>>

Timeout(t) ==
  /\ ~HasTask(t) /\ NoTrouble
  /\ C!TaskOverruns(t) /\ UNCHANGED <<workerVars, linkVars>>

Delay ==
  /\ \/ \E w \in Worker : Beats(w) /\ C!WorkerFallsSilent(w)
     \/ \E t \in Task : HasTask(t) /\ C!TaskOverruns(t)
  /\ Trouble /\ UNCHANGED <<workerVars, linkVars>>

-----------------------------------------------------------------------------
Scheduling(A) == A /\ NoTrouble /\ UNCHANGED <<workerVars, linkVars>>

RpcProceeds == RefusedDraining \/ ConnectionRefused \/ \E a \in AssignThread : RpcArrives(a)
AssignHandler(a) == HandlerTests(a) \/ HandlerIncrements(a) \/ HandlerSpawns(a)
ExecutionThread(e) == Executes(e) \/ \E th \in Thread : CallReport(th, e)
CoordinatorHandler(th) == Serve(th) \/ Answer(th)
MainThread ==
  \/ MainGoesOn \/ SignalCompletes \/ Exits \/ Restarts
  \/ \E th \in Thread, address \in Address : CallRegister(th, address)

SystemNext ==
  \/ Scheduling(C!Dispatch) \/ Scheduling(C!WaitTimeout) \/ Scheduling(C!Health)
  \/ \E t \in Task, p \in Priority, now \in Clock : Scheduling(C!Submit(t, p, now))
  \/ RpcProceeds \/ Deadline
  \/ \E a \in AssignThread : AssignHandler(a)
  \/ \E th \in Thread : CoordinatorHandler(th)
  \/ \E e \in ExecThread : ExecutionThread(e) \/ ReportLost(e)
  \/ HeartbeatThread \/ HeartbeatArrives \/ HeartbeatLost
  \/ MainThread \/ RegisterError \/ ListenError \/ Signal \/ Dies
  \/ \E w \in Worker : Silence(w)
  \/ \E t \in Task : Timeout(t)
  \/ Delay

(* Every thread runs, calls arrive short of trouble, time passes, and a    *)
(* worker process that has ended is started again.                         *)
SystemFairness ==
  /\ WF_systemVars(Scheduling(C!Dispatch \/ C!WaitTimeout))
  /\ WF_systemVars(Scheduling(C!Health))
  /\ WF_systemVars(RpcProceeds)
  /\ \A a \in AssignThread : WF_systemVars(AssignHandler(a))
  /\ \A th \in Thread : WF_systemVars(CoordinatorHandler(th))
  /\ \A e \in ExecThread : WF_systemVars(ExecutionThread(e))
  /\ WF_systemVars(HeartbeatThread \/ HeartbeatArrives)
  /\ WF_systemVars(MainThread)
  /\ \A w \in Worker : WF_systemVars(Silence(w))
  /\ \A t \in Task : WF_systemVars(Timeout(t))

System == SystemInit /\ [][SystemNext]_systemVars
FairSystem == System /\ SystemFairness

-----------------------------------------------------------------------------
SystemTypeOK ==
  /\ C!TypeOK
  /\ id \in Worker
  /\ handler \in AssignThread \cup {"none"}
  /\ carried \in [AssignThread -> Task \cup {NoTask}]
  /\ job \in [ExecThread -> Task \cup {NoTask}]
  /\ caller \in [Thread -> ExecThread \cup {"main", "none"}]
  /\ troubles \in 0..MaxTroubles
  /\ executions \in [Task -> Nat] /\ begun \in Nat

(* The handler that has the outstanding AssignTask has its task, and the   *)
(* dispatch thread waits for it.                                           *)
AssignmentMatches ==
  handler # "none" => /\ d_pc = "rpc"
                      /\ assign[handler] # "idle" /\ carried[handler] = d_task

(* What the worker still does with a task whose call is over the           *)
(* coordinator has to expect.                                              *)
WorkIsExpected ==
  /\ \A a \in AssignThread \ {handler} :
       Alive /\ assign[a] # "idle" => <<id, carried[a]>> \in accepted
  /\ \A e \in ExecThread :
       Alive /\ exec[e].pc # "idle" => <<id, job[e]>> \in accepted

(* Whatever waits for an answer of the coordinator is where it called, a   *)
(* handler of the coordinator works on that call, and no other does.       *)
CallersAreServed ==
  /\ \A th \in Thread :
       /\ caller[th] = "main" => /\ main_pc = "register"
                               /\ rpc[th].pc \in {"collect", "requeue", "register"}
       /\ caller[th] \in ExecThread => /\ exec[caller[th]].pc = "report"
                                       /\ rpc[th].pc \in {"record", "decrement"}
  /\ \A th, u \in Thread : caller[th] # "none" /\ caller[th] = caller[u] => th = u

CallsMatch == AssignmentMatches /\ WorkIsExpected /\ CallersAreServed

(* The worker's own invariants hold of each process that is started, the   *)
(* coordinator's state keeps its types, and the ends of each call agree.   *)
SystemInv == SystemTypeOK /\ IInv /\ CallsMatch

(* The worker does nothing that Coordinator.tla does not expect: its       *)
(* heartbeats carry no more than MaxLoad tasks, it reports only what it    *)
(* has accepted.  What is shown of the coordinator alone holds here.       *)
RunsCoordinator == C!Spec

(* A task is executed once, and again only because of a trouble: at most  *)
(* three times more for each.  (A signal alone can cost three: the process *)
(* ends, its heartbeats end, and a call it refuses has tasks requeued that *)
(* it still executes.)                                                     *)
ExecutionsJustified == \A t \in Task : executions[t] <= 1 + 3 * troubles

(* Every execution is counted once in the totals, and once more only for a *)
(* report whose answer was lost, so that it was sent again: handlers that  *)
(* still work on a report nobody waits for, requeued tasks and processes   *)
(* that end in between count nothing twice.                                *)
ReportsCounted == total_ok + total_err <= begun + troubles

(* Every submitted task gets a verdict and, although a verdict may be      *)
(* undone on the way, keeps one in the end.  (No task is forgotten here:   *)
(* this says that C!Known(t) leads to []C!IsTerminal(t).)                  *)
SubmittedIsResolved == \A t \in Task : <>[](C!Known(t) => C!IsTerminal(t))

(* A worker that is given up - it registers before it listens, an RPC is   *)
(* late, a stale list buries it - does not stay so: again and again it is  *)
(* one the scheduler may select, or it really is at its capacity.          *)
WorkerIsUsable ==
  []<>(~Alive \/ g_draining \/ id \in C!Available \/ g_active_tasks >= capacity)

(* The coordinator's count of the load drifts from the worker's: reports   *)
(* are acknowledged before the worker counts the task off, heartbeats      *)
(* overwrite increments.  Again and again the two agree.                   *)
LoadCorrected ==
  []<>(\/ ~Alive \/ g_draining
       \/ id \in DOMAIN workers /\ workers[id].active_tasks = g_active_tasks)

=============================================================================
