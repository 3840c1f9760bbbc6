----------------------------- MODULE Coordinator -----------------------------
(***************************************************************************)
(* The coordinator process: the task store, the worker pool, the scheduler *)
(* threads and the RPC handlers together (coordinator/main.cpp), in an     *)
(* environment of clients and workers that may do anything the protocol    *)
(* lets them do: submit, register again at any time (a worker restarted    *)
(* under its old id), heartbeat with any load, fall silent, refuse a task, *)
(* leave an RPC without an answer before or after accepting it, and report *)
(* the verdict of a task they once accepted, late and more than once.      *)
(***************************************************************************)
EXTENDS Services, FiniteSets

CONSTANTS
  Faults,      \* the kinds of trouble an instance has, of those in AnyFault
  MaxReports,  \* bound: verdicts counted in the metrics
  MaxEntries   \* bound: the environment causes no further requeuing of tasks
               \* while some task has this many queue entries

AnyFault ==
  {"unreachable",  \* an AssignTask RPC fails
   "refusal",      \* a worker refuses a task
   "silence",      \* heartbeats are missed
   "restart",      \* a worker registers again
   "overrun",      \* a task exceeds the execution timeout
   "stop",         \* the coordinator is shut down
   "crash"}        \* the coordinator dies and is started again

ASSUME CoordinatorAssumption ==
  /\ Faults \subseteq AnyFault
  /\ MaxReports \in Nat
  /\ MaxEntries \in Nat

VARIABLES
  accepted,  \* the pairs of a worker and a task that it accepted, or will accept
             \* although the call has failed
  forgotten  \* the tasks that a crashed coordinator had in its memory

environmentVars == <<accepted, forgotten>>
coordinatorVars == <<storeVars, workers, schedulerVars, serviceVars>>
vars == <<coordinatorVars, environmentVars>>

TypeOK ==
  /\ StoreTypeOK
  /\ PoolTypeOK
  /\ SchedulerTypeOK
  /\ ServicesTypeOK
  /\ accepted \subseteq Worker \X Task
  /\ forgotten \subseteq Task

Init ==
  /\ StoreInit
  /\ PoolInit
  /\ SchedulerInit
  /\ ServicesInit
  /\ accepted = {}
  /\ forgotten = {}

-----------------------------------------------------------------------------
(* The environment.                                                        *)

Uncrowded == \A t \in Task : pending_queue[t] < MaxEntries

Submit(t, priority, now) ==
  /\ t \notin forgotten
  /\ SubmitTask(t, priority, now)
  /\ UNCHANGED environmentVars

Register(th, w, address, capacity) ==
  /\ w \in DOMAIN workers => "restart" \in Faults /\ Uncrowded
  /\ RegisterWorker(th, w, address, capacity)
  /\ UNCHANGED environmentVars

Beat(w, active_tasks) ==
  /\ Heartbeat(w, active_tasks)
  /\ UNCHANGED environmentVars

Report(th, w, t) ==
  /\ <<w, t>> \in accepted
  /\ total_ok + total_err < MaxReports
  /\ ReportResult(th, w, t)
  /\ UNCHANGED environmentVars

(* The AssignTask handler of the process that listens at d_address accepts *)
(* the task.  The process may have been started since the selection, under *)
(* another id, and reports under its own.                                  *)
WorkerAccepts ==
  /\ d_pc = "rpc"
  /\ \E w \in Worker : accepted' = accepted \cup {<<w, d_task>>}
  /\ d_pc' = "accepted"
  /\ UNCHANGED <<running_, d_worker, d_address, d_task, d_todo, dispatched_any,
                 healthVars, storeVars, workers, serviceVars, forgotten>>

WorkerRejects ==
  /\ "refusal" \in Faults
  /\ AssignRejected
  /\ UNCHANGED <<serviceVars, environmentVars>>

(* If the deadline passes while a handler has the call, the handler may    *)
(* still accept the task.                                                  *)
WorkerUnreachable ==
  /\ "unreachable" \in Faults /\ Uncrowded
  /\ AssignUnreachable
  /\ \/ UNCHANGED accepted
     \/ d_pc = "rpc" /\ \E w \in Worker : accepted' = accepted \cup {<<w, d_task>>}
  /\ UNCHANGED <<serviceVars, forgotten>>

WorkerFallsSilent(w) ==
  /\ "silence" \in Faults /\ Uncrowded
  /\ HeartbeatsMissed(w)
  /\ UNCHANGED <<schedulerVars, storeVars, serviceVars, environmentVars>>

TaskOverruns(t) ==
  /\ "overrun" \in Faults
  /\ ExecutionTimeElapses(t)
  /\ UNCHANGED <<schedulerVars, workers, serviceVars, environmentVars>>

(* SIGINT or SIGTERM: main stops the scheduler first.                      *)
Stop ==
  /\ "stop" \in Faults
  /\ stop
  /\ UNCHANGED <<serviceVars, environmentVars>>

(* The process dies and is started again: all of its state was in memory.  *)
(* The workers notice nothing and do not register again.                   *)
Crash ==
  /\ "crash" \in Faults
  /\ StoreReset /\ PoolReset /\ SchedulerReset /\ ServicesReset
  /\ forgotten' = forgotten \cup DOMAIN tasks
  /\ UNCHANGED accepted

-----------------------------------------------------------------------------
(* The coordinator's own threads.                                          *)
Dispatch == DispatchStep /\ UNCHANGED <<serviceVars, environmentVars>>
WaitTimeout == DispatchWaitTimeout /\ UNCHANGED <<serviceVars, environmentVars>>
Health == HealthStep /\ UNCHANGED <<serviceVars, environmentVars>>
Handler(th) == HandlerStep(th) /\ UNCHANGED environmentVars

Next ==
  \/ Dispatch \/ WaitTimeout \/ Health
  \/ \E th \in Thread : Handler(th)
  \/ \E t \in Task, p \in Priority, now \in Clock : Submit(t, p, now)
  \/ \E th \in Thread, w \in Worker, a \in Address, c \in Capacity : Register(th, w, a, c)
  \/ \E w \in Worker, n \in 0..MaxLoad : Beat(w, n)
  \/ \E th \in Thread, w \in Worker, t \in Task : Report(th, w, t)
  \/ WorkerAccepts \/ WorkerRejects \/ WorkerUnreachable
  \/ \E w \in Worker : WorkerFallsSilent(w)
  \/ \E t \in Task : TaskOverruns(t)
  \/ Stop \/ Crash

Spec == Init /\ [][Next]_vars

(* The threads run, wait_for returns after its timeout, an RPC ends by its *)
(* deadline, and time passes.  Nothing is assumed of clients and workers.  *)
RpcEnds == WorkerAccepts \/ WorkerRejects \/ WorkerUnreachable

Fairness ==
  /\ WF_vars(Dispatch)
  /\ WF_vars(WaitTimeout)
  /\ WF_vars(Health)
  /\ WF_vars(RpcEnds)
  /\ \A th \in Thread : WF_vars(Handler(th))
  /\ \A t \in Task : WF_vars(TaskOverruns(t))

FairSpec == Spec /\ Fairness

-----------------------------------------------------------------------------
Known(t) == t \in DOMAIN tasks
IsTerminal(t) == Known(t) /\ tasks[t].state \in Terminal
Held(t) == d_task = t /\ d_pc \in {"rpc", "accepted", "requeue"}

(* No task is lost: a task that waits for a worker has an entry in the     *)
(* queue, or is in the hands of the dispatch thread, which will assign or  *)
(* requeue it.  (pop_pending removes the entry and leaves the task         *)
(* PENDING, and three other threads requeue at any moment.)                *)
NoTaskLost ==
  \A t \in DOMAIN tasks :
    tasks[t].state = "PENDING" => pending_queue[t] > 0 \/ Held(t)

(* The coordinator's count of a worker's load, which heartbeats overwrite, *)
(* the dispatch thread increments late and reports decrement early, is at  *)
(* most one above MaxLoad, the largest load any worker reports.  (It may   *)
(* be further from the load the worker really has at the moment: only that *)
(* the two agree again and again is promised, LoadCorrected of             *)
(* Orchestrator.tla.)                                                      *)
LoadBounded ==
  \A w \in DOMAIN workers : workers[w].active_tasks <= MaxLoad + 1

(* A task in flight names a worker the pool knows, so that the sweeps by   *)
(* worker id find it.                                                      *)
InFlightOwned ==
  \A t \in DOMAIN tasks :
    tasks[t].state \in InFlight => tasks[t].assigned_worker \in DOMAIN workers

(* Every verdict ever stored is counted in the metrics, or about to be.    *)
VerdictsCounted ==
  Cardinality({t \in DOMAIN tasks : tasks[t].resolved})
    <= total_ok + total_err + Cardinality({th \in Thread : rpc[th].pc = "record"})

(* A task that a crash has wiped out does not come back, whatever late     *)
(* reports, heartbeats and registrations follow.                           *)
ForgottenStayForgotten == forgotten \cap DOMAIN tasks = {}

(* requeue_task's guard: a task leaves a terminal state only while the     *)
(* dispatch thread has still to record its assignment, so that no recovery *)
(* path undoes a verdict at any other time, however stale its list of      *)
(* tasks.  (That it is the recording which undoes it, and that it leads to *)
(* ASSIGNED, is part of ImplementsLifecycle.)                              *)
RecoveryKeepsVerdicts ==
  [][\A t \in Task :
       IsTerminal(t) /\ t \in DOMAIN tasks' /\ tasks'[t].state \notin Terminal
         => d_pc = "accepted" /\ d_task = t]_vars

(* The dispatch thread takes the most urgent, then the oldest, of all the  *)
(* tasks that are PENDING, not merely of those an entry happens to remain  *)
(* of; entries that requeuing has duplicated or made stale do not hide one.*)
MostUrgentFirst ==
  [][\A t \in Task :
       d_task' = t /\ d_task # t
         => \A u \in DOMAIN tasks :
              tasks[u].state = "PENDING" =>
                /\ tasks[u].priority <= tasks[t].priority
                /\ tasks[u].priority = tasks[t].priority
                     => tasks[t].created_at_ms <= tasks[u].created_at_ms]_vars

(* When the dispatch thread has dealt with an unreachable worker, no task  *)
(* is left in flight on it.                                                *)
UnreachableSwept ==
  [][d_pc' = "select" /\ d_pc \in {"collect", "sweep"}
       => \A t \in DOMAIN tasks' :
            tasks'[t].state \in InFlight => tasks'[t].assigned_worker # d_worker]_vars

-----------------------------------------------------------------------------
(* What the clients may rely on (TaskLifecycle.tla), with the queue, the   *)
(* pool, the threads and the RPCs hidden.                                  *)

StateOf(t) ==
  IF Known(t) THEN tasks[t].state ELSE IF t \in forgotten THEN "forgotten" ELSE "none"

LifecycleState == [t \in Task |-> StateOf(t)]

Taken == {t \in Task : \E w \in Worker : <<w, t>> \in accepted}

Lifecycle == INSTANCE TaskLifecycle WITH
  state <- LifecycleState, offered <- d_task, taken <- Taken

(* Every step of the threads, the handlers and the environment is a move   *)
(* of the abstract life of one task or no move at all: no interleaving     *)
(* gives a task a verdict that no worker has computed or assigns it to a   *)
(* worker that has not agreed, and only an assignment that its own verdict *)
(* has overtaken undoes a verdict.  (States are skipped: a report that     *)
(* overtakes the assignment, or comes after a requeue, resolves a PENDING  *)
(* task.)                                                                  *)
ImplementsLifecycle == Lifecycle!Spec

-----------------------------------------------------------------------------
(* The inductive invariant behind the safety properties.                   *)

(* While it serves a worker the dispatch thread knows it, and it holds a   *)
(* task of the store between pop_pending and assign_task or requeue_task,  *)
(* and at no other time.                                                   *)
DispatchControl ==
  /\ d_pc \in {"pop", "rpc", "accepted", "increment", "requeue", "collect", "sweep"}
       => d_worker \in DOMAIN workers
  /\ IF d_pc \in {"rpc", "accepted", "requeue"}
     THEN d_task \in DOMAIN tasks
     ELSE d_task = NoTask

(* From its selection to increment_load the selected worker's load stays   *)
(* within what a worker can report.                                        *)
SelectedHasRoom ==
  d_pc \in {"pop", "rpc", "accepted", "increment"}
    => workers[d_worker].active_tasks <= MaxLoad

(* The dispatch thread's list of orphans stays complete while it sweeps:   *)
(* only that thread puts tasks in flight.                                  *)
SweepListComplete ==
  d_pc = "sweep"
    => \A t \in DOMAIN tasks :
         tasks[t].state \in InFlight /\ tasks[t].assigned_worker = d_worker
           => t \in d_todo

(* What every step preserves: the invariants above, with what holds in the *)
(* middle of an iteration of dispatch_pending.                             *)
IInv ==
  /\ TypeOK
  /\ DispatchControl
  /\ NoTaskLost
  /\ InFlightOwned
  /\ LoadBounded
  /\ SelectedHasRoom
  /\ SweepListComplete
  /\ ForgottenStayForgotten

-----------------------------------------------------------------------------
(* Liveness.                                                               *)

(* The execution timeout: no task stays in flight for ever, even if the    *)
(* worker it was assigned to never says anything again.  Short of a        *)
(* shutdown, it gets a verdict or waits for a worker again.                *)
InFlightIsTransient ==
  \A t \in Task :
    (Known(t) /\ tasks[t].state \in InFlight)
      ~> (~Known(t) \/ tasks[t].state \notin InFlight \/ ~running_)

(* No wakeup is lost for good: although a notification that comes while    *)
(* the dispatch thread is busy has no effect, while tasks wait and some    *)
(* worker has room one of them is offered to a worker.  (Which one is up   *)
(* to their order: refused again and again, the most urgent task keeps the *)
(* others waiting.)                                                        *)
Waiting == {t \in DOMAIN tasks : tasks[t].state = "PENDING"}

PendingIsOffered ==
  Waiting # {} ~> (Waiting = {} \/ (\E t \in Waiting : Held(t))
                     \/ Available = {} \/ ~running_)

(* Shutdown: once running_ is cleared both scheduler threads end, whatever *)
(* they were doing, so that Scheduler::stop can join them.                 *)
StopCompletes == ~running_ ~> (d_pc = "stopped" /\ h_pc = "stopped")

-----------------------------------------------------------------------------
(* What the documents say and the code does not do.                        *)

(* COMPLETED and FAILED end the life of a task (README.md, Architecture:   *)
(* PENDING -> ASSIGNED -> RUNNING -> COMPLETED/FAILED; the comment on      *)
(* TaskStore::requeue_task calls them terminal states).                    *)
TerminalIsFinal ==
  [][\A t \in Task :
       IsTerminal(t) /\ t \in DOMAIN tasks' => tasks'[t].state \in Terminal]_vars

(* Re-registration requeues any task of the previous process (README.md,   *)
(* Fault Tolerance): when the new registration is stored, no task is in    *)
(* flight on the worker.                                                   *)
RegistrationSweeps ==
  [][\A th \in Thread :
       rpc[th].pc = "register" /\ rpc'[th] = Idle
         => \A t \in DOMAIN tasks' :
              tasks'[t].state \in InFlight
                => tasks'[t].assigned_worker # rpc[th].worker]_vars

=============================================================================
