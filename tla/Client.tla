------------------------------- MODULE Client -------------------------------
(***************************************************************************)
(* The client (src/client/main.cpp): submit, with and without --batch.     *)
(* The coordinator it talks to is what TaskLifecycle.tla promises of it,   *)
(* its crashes included.  A call is three steps: the request is sent,      *)
(* served and answered.  It may fail in between, and a submission that was *)
(* served and not answered has left a task whose id nobody knows.  The     *)
(* status command only shows what GetTaskStatus answers and keeps nothing. *)
(***************************************************************************)
EXTENDS TaskLifecycle, Sequences, FiniteSets

CONSTANTS
  BatchCount,  \* config.batch_count
  Batch        \* what config.batch may be

ASSUME ClientAssumption ==
  /\ BatchCount \in Nat
  /\ Batch \subseteq BOOLEAN

VARIABLES
  batch,     \* config.batch
  pc,        \* "submit", "poll", "sleep", "ended"
  i,         \* the index of the loop, from 1
  rpc,       \* the call in progress: "none", "sent", "answered"
  reply,     \* its response: a task id, or the state of a task
  task_ids,  \* the ids of the answered submissions
  submit_failures,
  done,      \* the indices k with done[k]
  completed, exec_failed,
  still_running,  \* of the current pass
  exit_code

loop == <<batch, pc, i>>
call == <<rpc, reply>>
submitted == <<task_ids, submit_failures, exit_code>>
polled == <<done, completed, exec_failed>>
clientVars == <<loop, call, submitted, polled, still_running>>
vars == <<lifecycleVars, clientVars>>

ClientTypeOK ==
  /\ TypeOK
  /\ batch \in Batch
  /\ pc \in {"submit", "poll", "sleep", "ended"}
  /\ i \in Nat
  /\ rpc \in {"none", "sent", "answered"}
  /\ reply \in Task \cup TaskState \cup {NoTask}
  /\ task_ids \in Seq(Task)
  /\ done \subseteq DOMAIN task_ids
  /\ {submit_failures, completed, exec_failed, still_running} \subseteq Nat
  /\ exit_code \in {0, 1}

ClientInit ==
  /\ Init
  /\ batch \in Batch
  /\ pc = "submit" /\ i = 1
  /\ rpc = "none" /\ reply = NoTask
  /\ task_ids = <<>> /\ submit_failures = 0 /\ exit_code = 0
  /\ done = {} /\ completed = 0 /\ exec_failed = 0
  /\ still_running = 0

Submissions == IF batch THEN BatchCount ELSE 1

-----------------------------------------------------------------------------
(* The calls.                                                              *)

Send ==
  /\ rpc = "none"
  /\ \/ pc = "submit" /\ i <= Submissions
     \/ pc = "poll" /\ i \in DOMAIN task_ids \ done
  /\ rpc' = "sent"
  /\ UNCHANGED <<lifecycleVars, loop, reply, submitted, polled, still_running>>

ServeSubmit(t) ==
  /\ rpc = "sent" /\ pc = "submit"
  /\ Submit(t)
  /\ rpc' = "answered"
  /\ reply' = t
  /\ UNCHANGED <<loop, submitted, polled, still_running>>

(* An unknown id is answered with the error NOT_FOUND: the call fails.     *)
ServeStatus ==
  /\ rpc = "sent" /\ pc = "poll"
  /\ Known(task_ids[i])
  /\ rpc' = "answered"
  /\ reply' = state[task_ids[i]]
  /\ UNCHANGED <<lifecycleVars, loop, submitted, polled, still_running>>

(* The call is over, with or without an answer, and the loop goes on.      *)
Continue ==
  /\ rpc' = "none" /\ reply' = NoTask
  /\ i' = i + 1
  /\ UNCHANGED <<lifecycleVars, batch, pc>>

-----------------------------------------------------------------------------
(* The loop that submits.                                                  *)

SubmitSucceeds ==
  /\ pc = "submit" /\ rpc = "answered"
  /\ task_ids' = Append(task_ids, reply)
  /\ Continue
  /\ UNCHANGED <<submit_failures, exit_code, polled, still_running>>

(* A response that is lost is a submission that was not made.              *)
SubmitFails_NotCounted ==
  /\ pc = "submit" /\ rpc # "none"
  /\ exit_code' = IF batch THEN exit_code ELSE 1
  /\ Continue
  /\ UNCHANGED <<submit_failures, task_ids, polled, still_running>>

(* The id of the response is kept without a look at the call's status.     *)
SubmitFails_KeepsId ==
  /\ pc = "submit" /\ rpc # "none"
  /\ submit_failures' = submit_failures + 1
  /\ task_ids' = Append(task_ids, NoTask)
  /\ exit_code' = IF batch THEN exit_code ELSE 1
  /\ Continue
  /\ UNCHANGED <<polled, still_running>>

(* Nothing is retried.  A single submission exits with 1.                  *)
SubmitFails ==
  /\ pc = "submit" /\ rpc # "none"
  /\ submit_failures' = submit_failures + 1
  /\ exit_code' = IF batch THEN exit_code ELSE 1
  /\ Continue
  /\ UNCHANGED <<task_ids, polled, still_running>>

SubmitLoopEnds ==
  /\ pc = "submit" /\ i > Submissions
  /\ pc' = IF batch THEN "poll" ELSE "ended"
  /\ i' = 1
  /\ UNCHANGED <<lifecycleVars, batch, call, submitted, polled, still_running>>

-----------------------------------------------------------------------------
(* The passes over the tasks that are not done.                            *)

SkipDone ==
  /\ pc = "poll" /\ i \in done
  /\ i' = i + 1
  /\ UNCHANGED <<lifecycleVars, batch, pc, call, submitted, polled, still_running>>

SeeVerdict ==
  /\ pc = "poll" /\ rpc = "answered" /\ reply \in Terminal
  /\ done' = done \cup {i}
  /\ IF reply = "COMPLETED"
     THEN completed' = completed + 1 /\ UNCHANGED exec_failed
     ELSE exec_failed' = exec_failed + 1 /\ UNCHANGED completed
  /\ Continue
  /\ UNCHANGED <<submitted, still_running>>

SeeNoVerdict ==
  /\ pc = "poll" /\ rpc = "answered" /\ reply \notin Terminal
  /\ still_running' = still_running + 1
  /\ Continue
  /\ UNCHANGED <<submitted, polled>>

(* A status that cannot be had is passed over.                             *)
StatusFails_PassedOver ==
  /\ pc = "poll" /\ rpc # "none"
  /\ Continue
  /\ UNCHANGED <<submitted, polled, still_running>>

StatusFails ==
  /\ pc = "poll" /\ rpc # "none"
  /\ still_running' = still_running + 1
  /\ Continue
  /\ UNCHANGED <<submitted, polled>>

(* The passes go on until the whole batch is done, failures included.      *)
PassEnds_CountsBatch ==
  /\ pc = "poll" /\ i > Len(task_ids)
  /\ pc' = IF Cardinality(done) = BatchCount THEN "ended" ELSE "sleep"
  /\ UNCHANGED <<lifecycleVars, batch, i, call, submitted, polled, still_running>>

PassEnds ==
  /\ pc = "poll" /\ i > Len(task_ids)
  /\ pc' = IF still_running = 0 THEN "ended" ELSE "sleep"
  /\ UNCHANGED <<lifecycleVars, batch, i, call, submitted, polled, still_running>>

NextPass ==
  /\ pc = "sleep"
  /\ pc' = "poll"
  /\ i' = 1
  /\ still_running' = 0
  /\ UNCHANGED <<lifecycleVars, batch, call, submitted, polled>>

-----------------------------------------------------------------------------
ClientStep ==
  \/ Send \/ ServeStatus \/ \E t \in Task : ServeSubmit(t)
  \/ SubmitSucceeds \/ SubmitLoopEnds
  \/ SkipDone \/ SeeVerdict \/ SeeNoVerdict \/ PassEnds \/ NextPass

CallFails == SubmitFails \/ StatusFails

Coordinator ==
  /\ \/ \E t \in Task : Offer(t) \/ Requeue(t) \/ Resolve(t)
     \/ Take \/ Assign \/ Withdraw
     \/ Forget
  /\ UNCHANGED clientVars

ClientNext == ClientStep \/ CallFails \/ Coordinator

(* The client's thread runs and sleeps end.  Calls may fail for ever, but  *)
(* not all of them: one that could be served is, now and then, and its     *)
(* answer arrives.  Nothing is assumed of the coordinator's other steps.   *)
ClientSpec ==
  /\ ClientInit /\ [][ClientNext]_vars
  /\ WF_vars(ClientStep \/ CallFails)
  /\ SF_vars(ServeStatus)
  /\ SF_vars(SeeVerdict)

-----------------------------------------------------------------------------
Exists == {t \in Task : state[t] # "none"}
Tally(verdict) == Cardinality({k \in DOMAIN task_ids : VerdictOf(task_ids[k]) = verdict})

(* A call that fails may have been served: at any time the tasks that the  *)
(* coordinator got from this client are at least those the client knows    *)
(* and at most those plus the failures, the call in progress included.  A  *)
(* single submission that exits with 0 has left a task there.              *)
SubmissionsAccounted ==
  LET inDoubt == IF pc = "submit" /\ rpc = "answered" THEN 1 ELSE 0
  IN /\ Len(task_ids) + inDoubt <= Cardinality(Exists)
     /\ Cardinality(Exists) <= Len(task_ids) + submit_failures + inDoubt
     /\ pc = "ended" /\ ~batch /\ exit_code = 0 => Exists # {}

(* The client ends a batch only when it has seen a verdict of every task   *)
(* it knows, whatever calls failed and whatever the coordinator forgot or  *)
(* undid since: the totals it prints add up to the batch, tell completed   *)
(* from failed tasks, and count none that no worker took.                  *)
TotalsRight ==
  pc = "ended" /\ batch =>
    /\ completed + exec_failed + submit_failures = BatchCount
    /\ completed = Tally("COMPLETED")
    /\ exec_failed = Tally("FAILED")
    /\ \A k \in DOMAIN task_ids : task_ids[k] \in taken

(* The client ends, although calls fail and verdicts are undone on the     *)
(* way, once the tasks it knows have their verdicts for good.  If a        *)
(* coordinator forgets one of them first, it need not: it asks for ever.   *)
BatchEnds ==
  <>[](\A k \in DOMAIN task_ids : state[task_ids[k]] \in Terminal) => <>(pc = "ended")

=============================================================================
