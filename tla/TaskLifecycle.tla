---------------------------- MODULE TaskLifecycle ----------------------------
(***************************************************************************)
(* What the coordinator promises its clients about a task: its states as   *)
(* GetTaskStatus shows them, the moves between them, and what must have    *)
(* happened for a move.  The queue, the pool, the scheduler's threads, the *)
(* handlers and the RPCs are hidden; of the dispatch thread one sees only  *)
(* that it offers one task at a time to a worker.  Coordinator.tla is      *)
(* shown to implement this, Client.tla relies on it.                       *)
(***************************************************************************)
EXTENDS Protocol

VARIABLES
  state,   \* Task -> what the coordinator knows of the task
  offered, \* the task the dispatch thread is offering to a worker, or NoTask
  taken    \* the tasks that some worker has ever agreed to execute

lifecycleVars == <<state, offered, taken>>

(* "none": not submitted yet; "forgotten": it was in the memory of a       *)
(* coordinator that died.  The status of both is NOT_FOUND.                *)
Known(t) == state[t] \in TaskState

TypeOK ==
  /\ state \in [Task -> TaskState \cup {"none", "forgotten"}]
  /\ offered \in Task \cup {NoTask}
  /\ taken \subseteq Task

Init ==
  /\ state = [t \in Task |-> "none"]
  /\ offered = NoTask
  /\ taken = {}

-----------------------------------------------------------------------------
Submit(t) ==
  /\ state[t] = "none"
  /\ state' = [state EXCEPT ![t] = "PENDING"]
  /\ UNCHANGED <<offered, taken>>

(* The dispatch thread takes a waiting task, one at a time.                *)
Offer(t) ==
  /\ offered = NoTask
  /\ state[t] = "PENDING"
  /\ offered' = t
  /\ UNCHANGED <<state, taken>>

(* A worker agrees to execute the task.                                    *)
Take ==
  /\ offered # NoTask
  /\ taken' = taken \cup {offered}
  /\ UNCHANGED <<state, offered>>

(* The assignment is recorded.  Meanwhile the task may have got any state: *)
(* the only step that can undo a verdict.                                  *)
Assign ==
  /\ offered \in taken
  /\ state' = [state EXCEPT ![offered] = "ASSIGNED"]
  /\ offered' = NoTask
  /\ UNCHANGED taken

(* The offer has failed: the task waits again, unless it has a verdict.    *)
Withdraw ==
  /\ offered # NoTask
  /\ state' = IF state[offered] \in Terminal THEN state
              ELSE [state EXCEPT ![offered] = "PENDING"]
  /\ offered' = NoTask
  /\ UNCHANGED taken

(* A recovery path takes the task back from its worker.                    *)
Requeue(t) ==
  /\ state[t] \in InFlight
  /\ state' = [state EXCEPT ![t] = "PENDING"]
  /\ UNCHANGED <<offered, taken>>

(* A report, perhaps late, repeated, or of a task that has been requeued.  *)
Resolve(t) ==
  /\ t \in taken
  /\ Known(t)
  /\ state' = [state EXCEPT ![t] = VerdictOf(t)]
  /\ UNCHANGED <<offered, taken>>

(* The coordinator dies and is started again.                              *)
Forget ==
  /\ state' = [t \in Task |-> IF Known(t) THEN "forgotten" ELSE state[t]]
  /\ offered' = NoTask
  /\ UNCHANGED taken

Next ==
  \/ \E t \in Task : Submit(t) \/ Offer(t) \/ Requeue(t) \/ Resolve(t)
  \/ Take \/ Assign \/ Withdraw
  \/ Forget

Spec == Init /\ [][Next]_lifecycleVars

=============================================================================
