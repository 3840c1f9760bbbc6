------------------------------ MODULE TaskStore ------------------------------
(***************************************************************************)
(* The coordinator's task store (coordinator/task_store.h): the map tasks_ *)
(* of task records and the priority queue pending_queue_ of the tasks that *)
(* wait for a worker.  Every method holds mutex_ for its whole body, so    *)
(* every method is one atomic step, defined here as an action on the two   *)
(* variables.  The modules that extend this one say who calls what, when.  *)
(*                                                                         *)
(* What is abstracted:                                                     *)
(*  - payload, result and error texts.  A record only remembers whether a  *)
(*    result or an error was ever stored (completed_at_ms > 0 in the code, *)
(*    the field "resolved" here);                                          *)
(*  - assigned_at_ms, of which the code only asks whether it is older than *)
(*    the execution timeout: the field "overdue" is that test, and         *)
(*    ExecutionTimeElapses is the passage of time that makes it true;      *)
(*  - a queue entry, a copy of the record in the code, is only its task:   *)
(*    the comparator reads the priority and the creation time, which never *)
(*    change.  One task may have several entries, so the queue is a bag.   *)
(***************************************************************************)
EXTENDS Protocol

CONSTANT Clock  \* the creation times an instance distinguishes

ASSUME ClockAssumption == Clock \subseteq Int

VARIABLES
  tasks,         \* tasks_: a function from the ids in the store to records
  pending_queue  \* pending_queue_: the number of entries of each task

storeVars == <<tasks, pending_queue>>

TaskRecord ==
  [priority: Priority, created_at_ms: Clock, state: TaskState,
   assigned_worker: Worker \cup {NoWorker}, overdue: BOOLEAN, resolved: BOOLEAN]

StoreTypeOK ==
  /\ DOMAIN tasks \subseteq Task
  /\ \A t \in DOMAIN tasks : tasks[t] \in TaskRecord
  /\ pending_queue \in [Task -> Nat]

NoTasks == [t \in {} |-> {}]
NoEntries == [t \in Task |-> 0]

StoreInit == tasks = NoTasks /\ pending_queue = NoEntries

(* A new process: the store was in memory only.                            *)
StoreReset == tasks' = NoTasks /\ pending_queue' = NoEntries

-----------------------------------------------------------------------------
(* Variant: among equal priorities the youngest first.                     *)
Before_YoungestFirst(a, b) ==
  \/ tasks[a].priority > tasks[b].priority
  \/ /\ tasks[a].priority = tasks[b].priority
     /\ tasks[a].created_at_ms > tasks[b].created_at_ms

(* The queue's order: TaskPriorityCompare puts a above b.                  *)
Before(a, b) ==
  \/ tasks[a].priority > tasks[b].priority
  \/ /\ tasks[a].priority = tasks[b].priority
     /\ tasks[a].created_at_ms < tasks[b].created_at_ms

Queued == {t \in DOMAIN tasks : pending_queue[t] > 0}

(* The queued tasks whose entries pop_pending does not skip as stale.      *)
Ready == {t \in Queued : tasks[t].state = "PENDING"}

-----------------------------------------------------------------------------
(* add_task: a fresh id t, created at now; the clock is steady.            *)
add_task(t, priority, now) ==
  /\ t \notin DOMAIN tasks
  /\ \A u \in DOMAIN tasks : tasks[u].created_at_ms <= now
  /\ tasks' = [u \in DOMAIN tasks \cup {t} |->
                 IF u = t
                 THEN [priority |-> priority, created_at_ms |-> now,
                       state |-> "PENDING", assigned_worker |-> NoWorker,
                       overdue |-> FALSE, resolved |-> FALSE]
                 ELSE tasks[u]]
  /\ pending_queue' = [pending_queue EXCEPT ![t] = @ + 1]

(* What a call of pop_pending that returns t may leave in the queue: one   *)
(* entry of t is gone, and so is every stale entry above it.  Among equals *)
(* the heap's order is unspecified, so a stale entry that ties with t may  *)
(* have been on either side of it.                                         *)
LeftAfterPop(t) ==
  {q \in [Task -> UNION {0..pending_queue[u] : u \in Task}] :
     /\ q[t] = pending_queue[t] - 1
     /\ \A u \in Task \ {t} :
          IF u \notin Queued \ Ready \/ Before(t, u) THEN q[u] = pending_queue[u]
          ELSE IF Before(u, t) THEN q[u] = 0
          ELSE q[u] <= pending_queue[u]}

(* pop_pending returns the record of t.  It leaves the record alone: the   *)
(* task stays PENDING until assign_task.                                   *)
pop_pending(t) ==
  /\ t \in Ready
  /\ \A u \in Ready : ~Before(u, t)
  /\ pending_queue' \in LeftAfterPop(t)
  /\ UNCHANGED tasks

(* pop_pending returns nullopt, having dropped every (stale) entry.        *)
pop_pending_nullopt ==
  /\ Ready = {}
  /\ pending_queue' = NoEntries
  /\ UNCHANGED tasks

(* assign_task asks only whether the id is known, not what state it is in. *)
assign_task(t, w) ==
  /\ tasks' = IF t \in DOMAIN tasks
              THEN [tasks EXCEPT ![t].state = "ASSIGNED",
                                 ![t].assigned_worker = w,
                                 ![t].overdue = FALSE]
              ELSE tasks
  /\ UNCHANGED pending_queue

(* set_running: nothing calls it, so no task is ever RUNNING.              *)
set_running(t) ==
  /\ tasks' = IF t \in DOMAIN tasks THEN [tasks EXCEPT ![t].state = "RUNNING"] ELSE tasks
  /\ UNCHANGED pending_queue

(* Variant: tasks_[id] in place of tasks_.find(id), which makes a record.  *)
finish_task_MakesRecord(t, verdict) ==
  /\ tasks' = [u \in DOMAIN tasks \cup {t} |->
                 IF u # t THEN tasks[u]
                 ELSE [priority |-> CHOOSE p \in Priority : TRUE,
                       created_at_ms |-> CHOOSE c \in Clock : TRUE,
                       state |-> verdict, assigned_worker |-> NoWorker,
                       overdue |-> FALSE, resolved |-> TRUE]]
  /\ UNCHANGED pending_queue

(* Variant: a verdict is stored only of a task that is said to be running. *)
finish_task_RunningOnly(t, verdict) ==
  /\ tasks' = IF t \in DOMAIN tasks /\ tasks[t].state = "RUNNING"
              THEN [tasks EXCEPT ![t].state = verdict, ![t].resolved = TRUE]
              ELSE tasks
  /\ UNCHANGED pending_queue

(* complete_task and fail_task, the two calls that store a verdict.        *)
finish_task(t, verdict) ==
  /\ tasks' = IF t \in DOMAIN tasks
              THEN [tasks EXCEPT ![t].state = verdict, ![t].resolved = TRUE]
              ELSE tasks
  /\ UNCHANGED pending_queue

(* Variant: no test of the terminal states.                                *)
Requeueable_AnyState(t) == t \in DOMAIN tasks

(* Variant: a task that is PENDING is taken to be queued already.          *)
Requeueable_NotPending(t) ==
  t \in DOMAIN tasks /\ tasks[t].state \notin Terminal \cup {"PENDING"}

(* What requeue_task returns.                                              *)
Requeueable(t) == t \in DOMAIN tasks /\ tasks[t].state \notin Terminal

requeue_task(t) ==
  IF Requeueable(t)
  THEN /\ tasks' = [tasks EXCEPT ![t].state = "PENDING",
                                 ![t].assigned_worker = NoWorker]
       /\ pending_queue' = [pending_queue EXCEPT ![t] = @ + 1]
  ELSE UNCHANGED storeVars

(* Variant: only tasks reported to be running can time out.                *)
get_timed_out_tasks_RunningOnly ==
  {t \in DOMAIN tasks : tasks[t].state = "RUNNING" /\ tasks[t].overdue}

get_timed_out_tasks ==
  {t \in DOMAIN tasks : tasks[t].state \in InFlight /\ tasks[t].overdue}

(* Variant: only tasks reported to be running are in flight.               *)
get_tasks_for_worker_RunningOnly(w) ==
  {t \in DOMAIN tasks : tasks[t].assigned_worker = w /\ tasks[t].state = "RUNNING"}

get_tasks_for_worker(w) ==
  {t \in DOMAIN tasks : tasks[t].assigned_worker = w /\ tasks[t].state \in InFlight}

(* Time: more than the execution timeout has passed since assign_task.     *)
ExecutionTimeElapses(t) ==
  /\ t \in DOMAIN tasks
  /\ tasks[t].state \in InFlight
  /\ ~tasks[t].overdue
  /\ tasks' = [tasks EXCEPT ![t].overdue = TRUE]
  /\ UNCHANGED pending_queue

=============================================================================
