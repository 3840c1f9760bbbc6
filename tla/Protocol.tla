------------------------------ MODULE Protocol ------------------------------
(***************************************************************************)
(* What the clients, the coordinator and the workers exchange: the ids and *)
(* the enumerations of proto/orchestrator.proto.                           *)
(***************************************************************************)
EXTENDS Integers

CONSTANTS
  Task,      \* the task ids
  Worker,    \* the worker ids
  Address,   \* the addresses workers listen on
  Priority,  \* TaskPriority, larger is more urgent
  BadPayload,  \* the tasks whose payload is not a number a worker can check
  NoTask, NoWorker, NoAddress  \* an empty string, or a local out of scope

ASSUME ProtocolAssumption ==
  /\ NoTask \notin Task
  /\ NoWorker \notin Worker
  /\ NoAddress \notin Address
  /\ Priority \subseteq Int

Terminal == {"COMPLETED", "FAILED"}
InFlight == {"ASSIGNED", "RUNNING"}
TaskState == {"PENDING"} \cup InFlight \cup Terminal

(* The verdict execute_task reports: it depends on the payload only.       *)
VerdictOf(t) == IF t \in BadPayload THEN "FAILED" ELSE "COMPLETED"

=============================================================================
