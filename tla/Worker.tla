-------------------------------- MODULE Worker --------------------------------
(***************************************************************************)
(* One worker process, worker/main.cpp: the threads of its gRPC server,    *)
(* which run the AssignTask handler, the detached threads that execute     *)
(* tasks, the heartbeat loop, main and the signal handler. They share      *)
(* three atomics and no lock, so each access to one is a step.             *)
(*                                                                         *)
(* The coordinator is the environment. It has one call outstanding, but a  *)
(* call whose deadline has passed still runs here, so calls may overlap.   *)
(* Which task a call carries and what it computes make no difference to    *)
(* the worker and are left out, as is g_completed_tasks, which heartbeats  *)
(* carry and the coordinator ignores.                                      *)
(***************************************************************************)
EXTENDS Integers, FiniteSets

CONSTANTS
    AssignThread,  \* threads of the gRPC server
    ExecThread,    \* names for the detached threads, enough that one is free
    capacity,      \* --capacity
    kMaxAttempts   \* of reporting a result

ASSUME ThreadsAssumption ==
    /\ IsFiniteSet(AssignThread)
    /\ AssignThread # {}
    /\ IsFiniteSet(ExecThread)
    /\ Cardinality(ExecThread) >= capacity + Cardinality(AssignThread) - 1

ASSUME CapacityAssumption == capacity \in Nat \ {0}

ASSUME AttemptsAssumption == kMaxAttempts \in Nat \ {0}

VARIABLES
    g_draining,
    g_shutdown,
    g_active_tasks,
    assign,     \* AssignThread -> what its handler does next
    exec,       \* ExecThread -> [pc, attempt]
    hb_pc,      \* the heartbeat thread
    hb_active,  \* active_tasks of the last heartbeat it prepared
    main_pc

vars == <<g_draining, g_shutdown, g_active_tasks, assign, exec, hb_pc, hb_active, main_pc>>

Idle == [pc |-> "idle", attempt |-> 0]

TypeOK ==
    /\ g_draining \in BOOLEAN
    /\ g_shutdown \in BOOLEAN
    /\ g_active_tasks \in Nat
    /\ assign \in [AssignThread -> {"idle", "capacity", "increment", "spawn"}]
    /\ exec \in [ExecThread -> [pc : {"idle", "run", "report", "ended"}, attempt : 0..kMaxAttempts]]
    /\ hb_pc \in {"off", "test", "call", "sleep", "ended"}
    /\ hb_active \in Nat
    /\ main_pc \in {"register", "listen", "serve", "drain", "cleanup", "stop", "join", "exited"}

Init ==
    /\ g_draining = FALSE
    /\ g_shutdown = FALSE
    /\ g_active_tasks = 0
    /\ assign = [a \in AssignThread |-> "idle"]
    /\ exec = [e \in ExecThread |-> Idle]
    /\ hb_pc = "off"
    /\ hb_active = 0
    /\ main_pc = "register"

-----------------------------------------------------------------------------
(* The signal handler, which interrupts one thread while the others run.   *)

SignalArrives_NotDraining ==
    /\ ~g_shutdown
    /\ g_shutdown' = TRUE
    /\ UNCHANGED <<g_draining, g_active_tasks, assign, exec, hb_pc, hb_active, main_pc>>

SignalArrives ==
    /\ ~g_draining
    /\ g_draining' = TRUE
    /\ UNCHANGED <<g_shutdown, g_active_tasks, assign, exec, hb_pc, hb_active, main_pc>>

SignalEnds ==
    /\ g_draining
    /\ ~g_shutdown
    /\ g_shutdown' = TRUE
    /\ UNCHANGED <<g_draining, g_active_tasks, assign, exec, hb_pc, hb_active, main_pc>>

-----------------------------------------------------------------------------
(* The AssignTask handler. A refusal changes nothing: the handler returns. *)

\* The server takes calls until main calls Shutdown.
Serving == main_pc \in {"serve", "drain", "cleanup"}

HandlerIsAt(a, pc) ==
    /\ assign' = [assign EXCEPT ![a] = pc]
    /\ UNCHANGED <<g_draining, g_shutdown, hb_pc, hb_active, main_pc>>

AssignTask_WhileDraining(a) ==
    /\ Serving
    /\ assign[a] = "idle"
    /\ HandlerIsAt(a, "capacity")
    /\ UNCHANGED <<g_active_tasks, exec>>

AssignTask(a) ==
    /\ Serving
    /\ assign[a] = "idle"
    /\ ~g_draining
    /\ HandlerIsAt(a, "capacity")
    /\ UNCHANGED <<g_active_tasks, exec>>

TestCapacity_OneMore(a) ==
    /\ assign[a] = "capacity"
    /\ HandlerIsAt(a, IF g_active_tasks > capacity THEN "idle" ELSE "increment")
    /\ UNCHANGED <<g_active_tasks, exec>>

TestCapacity(a) ==
    /\ assign[a] = "capacity"
    /\ HandlerIsAt(a, IF g_active_tasks >= capacity THEN "idle" ELSE "increment")
    /\ UNCHANGED <<g_active_tasks, exec>>

IncrementActive(a) ==
    /\ assign[a] = "increment"
    /\ g_active_tasks' = g_active_tasks + 1
    /\ HandlerIsAt(a, "spawn")
    /\ UNCHANGED exec

SpawnAndAccept(a) ==
    /\ assign[a] = "spawn"
    /\ \E e \in ExecThread :
          /\ exec[e].pc = "idle"
          /\ exec' = [exec EXCEPT ![e].pc = "run"]
    /\ HandlerIsAt(a, "idle")
    /\ UNCHANGED g_active_tasks

-----------------------------------------------------------------------------
(* execute_task: compute, then report until acknowledged or given up.      *)

ThreadIs(e, state) ==
    /\ exec[e].pc # "idle"
    /\ exec' = [exec EXCEPT ![e] = state]
    /\ UNCHANGED <<g_draining, g_shutdown, assign, hb_pc, hb_active, main_pc>>

RunPrimeTask_Uncounts(e) ==
    /\ exec[e].pc = "run"
    /\ g_active_tasks' = g_active_tasks - 1
    /\ ThreadIs(e, [pc |-> "report", attempt |-> 1])

\* With or without an exception there is a result to report.
RunPrimeTask(e) ==
    /\ exec[e].pc = "run"
    /\ ThreadIs(e, [pc |-> "report", attempt |-> 1])
    /\ UNCHANGED g_active_tasks

ReportAcknowledged_TriesOn(e) ==
    /\ exec[e].pc = "report"
    /\ ThreadIs(e, IF exec[e].attempt < kMaxAttempts
                     THEN [exec[e] EXCEPT !.attempt = @ + 1]
                     ELSE [exec[e] EXCEPT !.pc = "ended"])
    /\ UNCHANGED g_active_tasks

ReportAcknowledged(e) ==
    /\ exec[e].pc = "report"
    /\ ThreadIs(e, [exec[e] EXCEPT !.pc = "ended"])
    /\ UNCHANGED g_active_tasks

ReportFails_ReturnsEarly(e) ==
    /\ exec[e].pc = "report"
    /\ ThreadIs(e, IF exec[e].attempt < kMaxAttempts
                     THEN [exec[e] EXCEPT !.attempt = @ + 1]
                     ELSE Idle)
    /\ UNCHANGED g_active_tasks

ReportFails_Forever(e) ==
    /\ exec[e].pc = "report"
    /\ ThreadIs(e, [exec[e] EXCEPT !.attempt = IF @ < kMaxAttempts THEN @ + 1 ELSE 1])
    /\ UNCHANGED g_active_tasks

\* An error or the deadline, with or without the coordinator having the report.
ReportFails(e) ==
    /\ exec[e].pc = "report"
    /\ ThreadIs(e, IF exec[e].attempt < kMaxAttempts
                     THEN [exec[e] EXCEPT !.attempt = @ + 1]
                     ELSE [exec[e] EXCEPT !.pc = "ended"])
    /\ UNCHANGED g_active_tasks

ExecutionEnds(e) ==
    /\ exec[e].pc = "ended"
    /\ g_active_tasks' = g_active_tasks - 1
    /\ ThreadIs(e, Idle)

-----------------------------------------------------------------------------
(* heartbeat_loop. Its sleep is cut short by g_shutdown; the answer to a   *)
(* heartbeat is not looked at.                                             *)

HeartbeatIs(pc) ==
    /\ hb_pc' = pc
    /\ UNCHANGED <<g_draining, g_shutdown, g_active_tasks, assign, exec, main_pc>>

TestShutdown ==
    /\ hb_pc = "test"
    /\ IF g_shutdown
         THEN HeartbeatIs("ended") /\ UNCHANGED hb_active
         ELSE HeartbeatIs("call") /\ hb_active' = g_active_tasks

HeartbeatReturns == hb_pc = "call" /\ HeartbeatIs("sleep") /\ UNCHANGED hb_active

HeartbeatWakes == hb_pc = "sleep" /\ HeartbeatIs("test") /\ UNCHANGED hb_active

-----------------------------------------------------------------------------
(* main                                                                    *)

MainGoes(from, to) ==
    /\ main_pc = from
    /\ main_pc' = to
    /\ UNCHANGED <<g_draining, g_shutdown, g_active_tasks, assign, exec, hb_active>>

\* RegisterWorker has no deadline; if it fails the process exits.
Registers == \E pc \in {"listen", "exited"} : MainGoes("register", pc) /\ UNCHANGED hb_pc

\* The server starts after the registration, then the heartbeat thread.
Listens == MainGoes("listen", "serve") /\ hb_pc' = "test"

ListenFails == MainGoes("listen", "exited") /\ UNCHANGED hb_pc

LeaveServing == g_shutdown /\ MainGoes("serve", "drain") /\ UNCHANGED hb_pc

LeaveDraining == g_active_tasks <= 0 /\ MainGoes("drain", "cleanup") /\ UNCHANGED hb_pc

ShutdownCalled == MainGoes("cleanup", "stop") /\ UNCHANGED hb_pc

\* server->Shutdown() waits for the handlers.
ShutdownReturns ==
    /\ \A a \in AssignThread : assign[a] = "idle"
    /\ MainGoes("stop", "join")
    /\ UNCHANGED hb_pc

\* The process ends, with the detached threads that still run.
MainReturns == hb_pc = "ended" /\ MainGoes("join", "exited") /\ UNCHANGED hb_pc

-----------------------------------------------------------------------------
Handler(a) == TestCapacity(a) \/ IncrementActive(a) \/ SpawnAndAccept(a)

Execution(e) == RunPrimeTask(e) \/ ReportAcknowledged(e) \/ ReportFails(e) \/ ExecutionEnds(e)

HeartbeatLoop == TestShutdown \/ HeartbeatReturns \/ HeartbeatWakes

Main ==
    \/ Registers \/ Listens \/ ListenFails
    \/ LeaveServing \/ LeaveDraining
    \/ ShutdownCalled \/ ShutdownReturns \/ MainReturns

Next ==
    /\ main_pc # "exited"
    /\ \/ SignalArrives
       \/ SignalEnds
       \/ \E a \in AssignThread : AssignTask(a) \/ Handler(a)
       \/ \E e \in ExecThread : Execution(e)
       \/ HeartbeatLoop
       \/ Main

Spec == Init /\ [][Next]_vars

(***************************************************************************)
(* Threads keep running while the process does, RPCs with a deadline       *)
(* return and executions end. Nothing is assumed of the registration,      *)
(* which has no deadline, of calls or of signals.                          *)
(***************************************************************************)
Lives(A) == main_pc # "exited" /\ A

Fairness ==
    /\ WF_vars(Lives(SignalEnds))
    /\ \A a \in AssignThread : WF_vars(Lives(Handler(a)))
    /\ \A e \in ExecThread : WF_vars(Lives(Execution(e)))
    /\ WF_vars(Lives(HeartbeatLoop))
    /\ WF_vars(Lives(main_pc # "register" /\ Main))

FairSpec == Spec /\ Fairness

-----------------------------------------------------------------------------
Running == {e \in ExecThread : exec[e].pc # "idle"}

HandlersAt(pc) == {a \in AssignThread : assign[a] = pc}

Admitted == AssignThread \ HandlersAt("idle")

(***************************************************************************)
(* g_active_tasks counts the tasks in execution and those about to be, on  *)
(* every path of execute_task: what the capacity test, the heartbeats and  *)
(* the drain rely on.                                                      *)
(***************************************************************************)
ActiveCounted ==
    g_active_tasks = Cardinality(Running) + Cardinality(HandlersAt("spawn"))

\* How far the separate test and increment of AssignTask can overshoot.
MostActive == capacity + Cardinality(AssignThread) - 1

(***************************************************************************)
(* The capacity can be exceeded, but by less than one task per handler     *)
(* thread, and a heartbeat carries no more: the bound that the model of    *)
(* the coordinator calls MaxLoad.                                          *)
(***************************************************************************)
OvershootBounded ==
    /\ g_active_tasks + Cardinality(HandlersAt("increment")) <= MostActive
    /\ hb_active <= MostActive

(***************************************************************************)
(* Once main has seen no active task, what can still be running, now or    *)
(* when the process ends, is what handlers had let in before the signal:   *)
(* one task for each at most.                                              *)
(***************************************************************************)
LeftBehindBounded ==
    main_pc \in {"cleanup", "stop", "join", "exited"} =>
        Cardinality(Running) + Cardinality(Admitted) <= Cardinality(AssignThread)

\* What the three bounds rest on: the order of the signal handler's writes, and
\* that nothing runs before the server is started.
ControlOrder ==
    /\ g_shutdown => g_draining
    /\ main_pc \in {"drain", "cleanup", "stop", "join"} => g_shutdown
    /\ main_pc \in {"register", "listen"} => Running = {} /\ Admitted = {}

(***************************************************************************)
(* The inductive invariant of WorkerProofs; Orchestrator.tla requires it   *)
(* of every process that is started.                                       *)
(***************************************************************************)
IInv == TypeOK /\ ActiveCounted /\ OvershootBounded /\ LeftBehindBounded /\ ControlOrder

(***************************************************************************)
(* main does not leave the drain loop while a task that has started is     *)
(* computed or reported, retries included.                                 *)
(***************************************************************************)
DrainWaits == [][main_pc = "drain" /\ main_pc' = "cleanup" => Running = {}]_vars

(***************************************************************************)
(* After a signal a registered worker exits, even if the coordinator is    *)
(* gone or goes on sending tasks.                                          *)
(***************************************************************************)
ShutdownCompletes ==
    g_shutdown /\ main_pc # "register" ~> main_pc = "exited"

(***************************************************************************)
(* A full worker has room again, even if no report ever gets through.      *)
(***************************************************************************)
RoomAgain == g_active_tasks >= capacity ~> (g_active_tasks < capacity \/ main_pc = "exited")

(***************************************************************************)
(* README.md:123 and the protocol say a capacity is the maximum number of  *)
(* concurrent tasks. Two handlers may pass the test for one free slot.     *)
(***************************************************************************)
CapacityRespected == Cardinality(Running) <= capacity

(***************************************************************************)
(* README.md:104: a worker waits for its tasks to complete and report      *)
(* before it exits. A handler past the draining test is not counted yet.   *)
(***************************************************************************)
DrainLeavesNothing == main_pc = "exited" => Running = {}
===============================================================================
