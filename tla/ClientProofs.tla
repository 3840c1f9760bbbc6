----------------------------- MODULE ClientProofs -----------------------------
(***************************************************************************)
(* What the client counts and prints is right, for every number of tasks,  *)
(* whichever calls fail and however often the coordinator crashes.  The    *)
(* client is proved against TaskLifecycle.tla, which the coordinator is    *)
(* proved to implement (LifecycleProofs.tla).                              *)
(***************************************************************************)
EXTENDS Client, FiniteSetTheorems, TLAPS

(* A verdict is what some worker that took the task has computed; a task   *)
(* that is offered is in the coordinator's memory.                         *)
VerdictsEarned ==
  /\ \A t \in Task : state[t] \in Terminal => t \in taken /\ state[t] = VerdictOf(t)
  /\ offered # NoTask => Known(offered)

(* Each attempt to submit has an id or is counted as a failure.            *)
AttemptsCounted ==
  /\ i >= 1
  /\ pc = "submit" => /\ i - 1 = Len(task_ids) + submit_failures
                      /\ i <= Submissions + 1
                      /\ done = {} /\ completed = 0 /\ exec_failed = 0
  /\ pc # "submit" => Len(task_ids) + submit_failures = Submissions
  /\ pc \in {"poll", "sleep"} => batch
  /\ ~batch /\ exit_code = 0 => submit_failures = 0

(* A call belongs to the index of the loop; its answer was true when it    *)
(* was given, and a verdict stays true.                                    *)
CallOfLoop ==
  /\ rpc # "none" => \/ pc = "submit" /\ i <= Submissions
                     \/ pc = "poll" /\ i \in DOMAIN task_ids \ done
  /\ rpc = "answered" /\ pc = "submit" => reply \in Task
  /\ rpc = "answered" /\ pc = "poll" /\ reply \in Terminal =>
       task_ids[i] \in taken /\ reply = VerdictOf(task_ids[i])

Seen(verdict) == {k \in done : VerdictOf(task_ids[k]) = verdict}

(* The totals are those of the tasks that are done; a pass that has found  *)
(* nothing still running has found the tasks behind it done.               *)
DoneCounted ==
  /\ completed = Cardinality(Seen("COMPLETED"))
  /\ exec_failed = Cardinality(Seen("FAILED"))
  /\ completed + exec_failed = Cardinality(done)
  /\ \A k \in done : task_ids[k] \in taken
  /\ pc = "poll" /\ still_running = 0 => \A k \in DOMAIN task_ids : k < i => k \in done
  /\ pc = "ended" /\ batch => done = DOMAIN task_ids

CInv ==
  /\ ClientTypeOK
  /\ VerdictsEarned
  /\ IsFiniteSet(Exists)
  /\ AttemptsCounted
  /\ CallOfLoop
  /\ SubmissionsAccounted
  /\ DoneCounted

-----------------------------------------------------------------------------
(* The coordinator.                                                        *)

(* Its steps keep what was promised, and what was taken stays taken.       *)
LEMMA LifecycleKeeps ==
  ASSUME TypeOK, VerdictsEarned, [Next]_lifecycleVars
  PROVE  TypeOK' /\ VerdictsEarned' /\ taken \subseteq taken'
<1>. USE ProtocolAssumption DEF TypeOK, VerdictsEarned, Known, TaskState, InFlight, Terminal
<1>1. ASSUME NEW t \in Task, Submit(t) \/ Offer(t) \/ Requeue(t)
      PROVE  TypeOK' /\ VerdictsEarned' /\ taken \subseteq taken'
  BY <1>1 DEF Submit, Offer, Requeue
<1>2. ASSUME NEW t \in Task, Resolve(t)
      PROVE  TypeOK' /\ VerdictsEarned' /\ taken \subseteq taken'
  BY <1>2 DEF Resolve, VerdictOf
<1>3. CASE Take
  BY <1>3 DEF Take
<1>4. CASE Assign
  BY <1>4 DEF Assign
<1>5. CASE Withdraw
  BY <1>5 DEF Withdraw
<1>6. CASE Forget
  BY <1>6 DEF Forget
<1>7. CASE UNCHANGED lifecycleVars
  BY <1>7 DEF lifecycleVars
<1>. QED BY <1>1, <1>2, <1>3, <1>4, <1>5, <1>6, <1>7 DEF Next

(* Only a submission adds a task, and none is ever removed.                *)
LEMMA ExistsKept ==
  ASSUME TypeOK, VerdictsEarned, Coordinator \/ UNCHANGED lifecycleVars
  PROVE  Exists' = Exists
<1>. USE DEF TypeOK, VerdictsEarned, Known, Exists, TaskState, InFlight, Terminal
<1>1. ASSUME NEW t \in Task, Offer(t) \/ Requeue(t) \/ Resolve(t) PROVE Exists' = Exists
  BY <1>1 DEF Offer, Requeue, Resolve, VerdictOf
<1>2. CASE Take
  BY <1>2 DEF Take
<1>3. CASE Assign \/ Withdraw
  BY <1>3, ProtocolAssumption DEF Assign, Withdraw
<1>4. CASE Forget
  BY <1>4 DEF Forget
<1>5. CASE UNCHANGED lifecycleVars
  BY <1>5 DEF lifecycleVars
<1>. QED BY <1>1, <1>2, <1>3, <1>4, <1>5 DEF Coordinator

-----------------------------------------------------------------------------
(* The counts.                                                             *)

(* What is counted is finite.                                              *)
LEMMA Counts ==
  ASSUME CInv
  PROVE  /\ Cardinality(Exists) \in Nat
         /\ IsFiniteSet(done)
         /\ \A verdict : IsFiniteSet(Seen(verdict))
         /\ Len(task_ids) \in Nat /\ DOMAIN task_ids = 1..Len(task_ids)
         /\ Submissions \in Nat
<1>1. Len(task_ids) \in Nat /\ DOMAIN task_ids = 1..Len(task_ids)
  BY DEF CInv, ClientTypeOK
<1>2. IsFiniteSet(1..Len(task_ids))
  BY <1>1, FS_Interval
<1>3. IsFiniteSet(done)
  BY <1>1, <1>2, FS_Subset DEF CInv, ClientTypeOK
<1>4. ASSUME NEW verdict PROVE IsFiniteSet(Seen(verdict))
  BY <1>3, FS_Subset DEF Seen
<1>5. Submissions \in Nat
  BY ClientAssumption DEF Submissions
<1>. QED BY <1>1, <1>3, <1>4, <1>5, FS_CardinalityType DEF CInv

(* The totals stay right as long as no task is newly found done.           *)
LEMMA DoneKept ==
  ASSUME DoneCounted, UNCHANGED polled, taken \subseteq taken',
         \A k \in done : task_ids'[k] = task_ids[k],
         pc' = "poll" /\ still_running' = 0
           => \A k \in DOMAIN task_ids' : k < i' => k \in done,
         pc' = "ended" /\ batch' => done = DOMAIN task_ids'
  PROVE  DoneCounted'
<1>1. done' = done /\ completed' = completed /\ exec_failed' = exec_failed
  BY DEF polled
<1>2. Seen("COMPLETED")' = Seen("COMPLETED") /\ Seen("FAILED")' = Seen("FAILED")
  BY <1>1 DEF Seen
<1>3. \A k \in done : task_ids'[k] \in taken'
  BY DEF DoneCounted
<1>. QED BY <1>1, <1>2, <1>3 DEF DoneCounted

(* A verdict that is seen is counted once, under its kind.                 *)
LEMMA DoneGrows ==
  ASSUME CInv, SeeVerdict
  PROVE  DoneCounted'
<1>. USE DEF SeeVerdict, Continue, lifecycleVars, submitted
<1>1. /\ i \in DOMAIN task_ids \ done /\ reply \in {"COMPLETED", "FAILED"}
      /\ task_ids[i] \in taken /\ reply = VerdictOf(task_ids[i])
  BY DEF CInv, CallOfLoop, Terminal
<1>2. /\ done' = done \cup {i} /\ task_ids' = task_ids /\ taken' = taken
      /\ i' = i + 1 /\ pc' = "poll" /\ pc = "poll" /\ still_running' = still_running
  OBVIOUS
<1>3. \A v \in {"COMPLETED", "FAILED"} :
        /\ i \notin Seen(v)
        /\ Seen(v)' = IF v = VerdictOf(task_ids[i]) THEN Seen(v) \cup {i} ELSE Seen(v)
  BY <1>1, <1>2 DEF Seen
<1>4. /\ \A v \in {"COMPLETED", "FAILED"} :
           Cardinality(Seen(v) \cup {i}) = Cardinality(Seen(v)) + 1
      /\ Cardinality(done \cup {i}) = Cardinality(done) + 1
  BY <1>1, <1>3, Counts, FS_AddElement
<1>5. \A k \in DOMAIN task_ids : k < i + 1 => k < i \/ k = i
  BY Counts, <1>1
<1>6. completed \in Nat /\ exec_failed \in Nat
  BY DEF CInv, ClientTypeOK
<1>7. /\ \A k \in done' : task_ids'[k] \in taken'
      /\ pc' = "poll" /\ still_running' = 0 => \A k \in DOMAIN task_ids' : k < i' => k \in done'
  BY <1>1, <1>2, <1>5 DEF CInv, DoneCounted
<1>8. CASE reply = "COMPLETED"
  <2>1. completed' = completed + 1 /\ exec_failed' = exec_failed
    BY <1>8
  <2>2. Seen("COMPLETED")' = Seen("COMPLETED") \cup {i} /\ Seen("FAILED")' = Seen("FAILED")
    BY <1>1, <1>3, <1>8
  <2>3. completed' = Cardinality(Seen("COMPLETED")') /\ exec_failed' = Cardinality(Seen("FAILED")')
    BY <1>4, <2>1, <2>2 DEF CInv, DoneCounted
  <2>4. completed' + exec_failed' = Cardinality(done')
    BY <1>2, <1>4, <1>6, <2>1 DEF CInv, DoneCounted
  <2>. QED BY <1>2, <1>7, <2>3, <2>4 DEF DoneCounted
<1>9. CASE reply = "FAILED"
  <2>1. exec_failed' = exec_failed + 1 /\ completed' = completed
    BY <1>9
  <2>2. Seen("FAILED")' = Seen("FAILED") \cup {i} /\ Seen("COMPLETED")' = Seen("COMPLETED")
    BY <1>1, <1>3, <1>9
  <2>3. exec_failed' = Cardinality(Seen("FAILED")') /\ completed' = Cardinality(Seen("COMPLETED")')
    BY <1>4, <2>1, <2>2 DEF CInv, DoneCounted
  <2>4. completed' + exec_failed' = Cardinality(done')
    BY <1>2, <1>4, <1>6, <2>1 DEF CInv, DoneCounted
  <2>. QED BY <1>2, <1>7, <2>3, <2>4 DEF DoneCounted
<1>. QED BY <1>1, <1>8, <1>9

-----------------------------------------------------------------------------
(* The steps of the client.                                                *)

(* What a step that leaves the coordinator alone keeps of it.              *)
LEMMA CoordinatorKept ==
  ASSUME CInv, UNCHANGED lifecycleVars
  PROVE  /\ TypeOK' /\ VerdictsEarned' /\ IsFiniteSet(Exists)'
         /\ Exists' = Exists /\ taken' = taken
BY LifecycleKeeps, ExistsKept DEF CInv, ClientTypeOK, lifecycleVars

(* A request belongs to the index of the loop.                             *)
LEMMA SendKeeps ==
  ASSUME CInv, Send
  PROVE  CInv'
<1>. USE Counts, CoordinatorKept DEF Send, loop, submitted, polled
<1>1. ClientTypeOK'
  BY DEF CInv, ClientTypeOK
<1>2. AttemptsCounted' /\ CallOfLoop'
  BY DEF CInv, AttemptsCounted, CallOfLoop, Submissions
<1>3. SubmissionsAccounted'
  BY DEF CInv, SubmissionsAccounted
<1>4. DoneCounted'
  BY DoneKept DEF CInv, DoneCounted
<1>. QED BY <1>1, <1>2, <1>3, <1>4 DEF CInv

(* A submission that is served is in doubt until it is answered or fails.  *)
LEMMA ServeSubmitKeeps ==
  ASSUME CInv, NEW t \in Task, ServeSubmit(t)
  PROVE  CInv'
<1>. USE Counts DEF ServeSubmit, loop, submitted, polled
<1>1. TypeOK' /\ VerdictsEarned' /\ taken \subseteq taken'
  BY LifecycleKeeps DEF CInv, ClientTypeOK, Next
<1>2. t \notin Exists /\ Exists' = Exists \cup {t}
  BY DEF CInv, ClientTypeOK, TypeOK, Submit, Exists
<1>3. /\ IsFiniteSet(Exists)'
      /\ Cardinality(Exists') = Cardinality(Exists) + 1
  BY <1>2, FS_AddElement DEF CInv
<1>4. ClientTypeOK'
  BY <1>1 DEF CInv, ClientTypeOK
<1>5. AttemptsCounted' /\ CallOfLoop'
  BY DEF CInv, AttemptsCounted, CallOfLoop, Submissions
<1>6. SubmissionsAccounted'
  BY <1>3 DEF CInv, SubmissionsAccounted, ClientTypeOK
<1>7. DoneCounted'
  BY <1>1, DoneKept DEF CInv, DoneCounted
<1>. QED BY <1>1, <1>3, <1>4, <1>5, <1>6, <1>7 DEF CInv

(* The answer to GetTaskStatus is the state of that moment; a verdict stays.*)
LEMMA ServeStatusKeeps ==
  ASSUME CInv, ServeStatus
  PROVE  CInv'
<1>. USE Counts, CoordinatorKept DEF ServeStatus, loop, submitted, polled
<1>1. i \in DOMAIN task_ids /\ task_ids[i] \in Task /\ i \notin done
  BY DEF CInv, CallOfLoop, ClientTypeOK
<1>2. ClientTypeOK'
  BY <1>1 DEF CInv, ClientTypeOK, Known
<1>3. AttemptsCounted'
  BY DEF CInv, AttemptsCounted, Submissions
<1>4. CallOfLoop'
  BY <1>1 DEF CInv, CallOfLoop, VerdictsEarned, Submissions
<1>5. SubmissionsAccounted'
  BY DEF CInv, SubmissionsAccounted
<1>6. DoneCounted'
  BY DoneKept DEF CInv, DoneCounted
<1>. QED BY <1>2, <1>3, <1>4, <1>5, <1>6 DEF CInv

(* A step of the loops that finds no task done leaves the totals right: it *)
(* starts a pass, passes a task that is done or counts one as running, or  *)
(* leaves a pass.                                                          *)
LEMMA LoopKept ==
  ASSUME CInv, UNCHANGED polled, task_ids' = task_ids, taken' = taken, batch' = batch,
         \/ pc' # "ended" /\ i' = 1
         \/ pc = "poll" /\ pc' = pc /\ i' = i + 1 /\ i \in done /\ still_running' = still_running
         \/ pc = "poll" /\ pc' = pc /\ i' = i + 1 /\ still_running' = still_running + 1
         \/ pc' = "sleep"
         \/ pc' = "ended" /\ ~batch
         \/ pc = "poll" /\ pc' = "ended" /\ i > Len(task_ids) /\ still_running = 0
  PROVE  DoneCounted'
<1>1. DoneCounted /\ i \in Nat /\ still_running \in Nat /\ done \subseteq DOMAIN task_ids
  BY DEF CInv, ClientTypeOK
<1>2. DOMAIN task_ids = 1..Len(task_ids) /\ Len(task_ids) \in Nat
  BY Counts
<1>3. ASSUME pc' = "poll", still_running' = 0, NEW k \in DOMAIN task_ids, k < i'
      PROVE  k \in done
  <2>1. CASE i' = 1
    BY <1>2, <1>3, <2>1
  <2>2. CASE i' = i + 1 /\ still_running' = still_running + 1
    BY <1>1, <1>3, <2>2
  <2>3. CASE pc = "poll" /\ i' = i + 1 /\ i \in done /\ still_running' = still_running
    <3>1. k < i \/ k = i
      BY <1>1, <1>2, <1>3, <2>3
    <3>. QED BY <1>1, <1>3, <2>3, <3>1 DEF DoneCounted
  <2>. QED BY <1>3, <2>1, <2>2, <2>3
<1>4. ASSUME pc' = "ended", batch' PROVE done = DOMAIN task_ids
  <2>1. pc = "poll" /\ i > Len(task_ids) /\ still_running = 0
    BY <1>4
  <2>2. \A k \in DOMAIN task_ids : k < i
    BY <1>1, <1>2, <2>1
  <2>. QED BY <1>1, <2>1, <2>2 DEF DoneCounted
<1>. QED BY <1>1, <1>3, <1>4, DoneKept

(* An answered submission is no longer in doubt.                           *)
LEMMA SubmitSucceedsKeeps ==
  ASSUME CInv, SubmitSucceeds
  PROVE  CInv'
<1>. USE Counts, CoordinatorKept, ClientAssumption
     DEF SubmitSucceeds, Continue, polled
<1>1. ClientTypeOK'
  BY DEF CInv, ClientTypeOK, CallOfLoop
<1>2. AttemptsCounted'
  BY DEF CInv, AttemptsCounted, CallOfLoop, ClientTypeOK, Submissions
<1>3. CallOfLoop'
  BY DEF CInv, CallOfLoop, ClientTypeOK, Submissions
<1>4. SubmissionsAccounted'
  BY DEF CInv, SubmissionsAccounted, AttemptsCounted, CallOfLoop, ClientTypeOK
<1>5. DoneCounted'
  BY DoneKept DEF CInv, DoneCounted, AttemptsCounted, CallOfLoop, ClientTypeOK
<1>. QED BY <1>1, <1>2, <1>3, <1>4, <1>5 DEF CInv

(* A failed one is counted, whether or not it was served.                  *)
LEMMA SubmitFailsKeeps ==
  ASSUME CInv, SubmitFails
  PROVE  CInv'
<1>. USE Counts, CoordinatorKept, ClientAssumption
     DEF SubmitFails, Continue, polled
<1>1. ClientTypeOK'
  BY DEF CInv, ClientTypeOK, CallOfLoop
<1>2. AttemptsCounted'
  BY DEF CInv, AttemptsCounted, CallOfLoop, ClientTypeOK, Submissions
<1>3. CallOfLoop'
  BY DEF CInv, CallOfLoop, ClientTypeOK, Submissions
<1>4. SubmissionsAccounted'
  BY DEF CInv, SubmissionsAccounted, AttemptsCounted, CallOfLoop, ClientTypeOK
<1>5. DoneCounted'
  BY DoneKept DEF CInv, DoneCounted, AttemptsCounted, CallOfLoop, ClientTypeOK
<1>. QED BY <1>1, <1>2, <1>3, <1>4, <1>5 DEF CInv

(* After the loop every attempt has an id or is a failure.                 *)
LEMMA SubmitLoopEndsKeeps ==
  ASSUME CInv, SubmitLoopEnds
  PROVE  CInv'
<1>. USE Counts, CoordinatorKept, ClientAssumption
     DEF SubmitLoopEnds, call, submitted, polled
<1>1. ClientTypeOK'
  BY DEF CInv, ClientTypeOK, CallOfLoop
<1>2. AttemptsCounted'
  BY DEF CInv, AttemptsCounted, CallOfLoop, ClientTypeOK, Submissions
<1>3. CallOfLoop'
  BY DEF CInv, CallOfLoop, ClientTypeOK, Submissions
<1>4. SubmissionsAccounted'
  <2>1. /\ Exists' = Exists /\ task_ids' = task_ids /\ submit_failures' = submit_failures
        /\ batch' = batch /\ exit_code' = exit_code /\ rpc = "none" /\ rpc' = "none"
    BY DEF CInv, CallOfLoop, ClientTypeOK
  <2>2. /\ Len(task_ids) <= Cardinality(Exists)
        /\ Cardinality(Exists) <= Len(task_ids) + submit_failures
    <3>1. Cardinality(Exists) \in Nat /\ Len(task_ids) \in Nat /\ submit_failures \in Nat
      BY DEF CInv, ClientTypeOK
    <3>. QED BY <2>1, <3>1 DEF CInv, SubmissionsAccounted
  <2>3. Len(task_ids) + submit_failures = Submissions /\ submit_failures \in Nat
    BY <1>2 DEF CInv, ClientTypeOK, AttemptsCounted
  <2>4. ASSUME ~batch, exit_code = 0 PROVE Exists # {}
    <3>1. Submissions = 1 /\ submit_failures = 0
      BY <2>4 DEF CInv, AttemptsCounted, Submissions
    <3>2. Cardinality(Exists) # 0
      BY <2>2, <2>3, <3>1
    <3>. QED BY <3>2, FS_EmptySet
  <2>5. /\ Len(task_ids)' <= Cardinality(Exists')
        /\ Cardinality(Exists') <= Len(task_ids)' + submit_failures'
        /\ ~batch' /\ exit_code' = 0 => Exists' # {}
    BY <2>1, <2>2, <2>4
  <2>6. Cardinality(Exists') \in Nat /\ Len(task_ids)' \in Nat /\ submit_failures' \in Nat
    BY <2>1, <2>3
  <2>. QED BY <2>1, <2>5, <2>6 DEF SubmissionsAccounted
<1>5. DoneCounted'
  BY LoopKept DEF submitted, lifecycleVars
<1>. QED BY <1>1, <1>2, <1>3, <1>4, <1>5 DEF CInv

(* The passes: a task that is done,                                        *)
LEMMA SkipDoneKeeps ==
  ASSUME CInv, SkipDone
  PROVE  CInv'
<1>. USE Counts, CoordinatorKept, ClientAssumption
     DEF SkipDone, call, submitted, polled
<1>1. ClientTypeOK'
  BY DEF CInv, ClientTypeOK, CallOfLoop
<1>2. AttemptsCounted'
  BY DEF CInv, AttemptsCounted, CallOfLoop, ClientTypeOK, Submissions
<1>3. CallOfLoop'
  BY DEF CInv, CallOfLoop, ClientTypeOK, Submissions
<1>4. SubmissionsAccounted'
  BY DEF CInv, SubmissionsAccounted, AttemptsCounted, CallOfLoop, ClientTypeOK
<1>5. DoneCounted'
  BY LoopKept DEF submitted, lifecycleVars
<1>. QED BY <1>1, <1>2, <1>3, <1>4, <1>5 DEF CInv

(* one that has no verdict yet,                                            *)
LEMMA SeeNoVerdictKeeps ==
  ASSUME CInv, SeeNoVerdict
  PROVE  CInv'
<1>. USE Counts, CoordinatorKept, ClientAssumption
     DEF SeeNoVerdict, Continue, submitted, polled
<1>1. ClientTypeOK'
  BY DEF CInv, ClientTypeOK, CallOfLoop
<1>2. AttemptsCounted'
  BY DEF CInv, AttemptsCounted, CallOfLoop, ClientTypeOK, Submissions
<1>3. CallOfLoop'
  BY DEF CInv, CallOfLoop, ClientTypeOK, Submissions
<1>4. SubmissionsAccounted'
  BY DEF CInv, SubmissionsAccounted, AttemptsCounted, CallOfLoop, ClientTypeOK
<1>5. DoneCounted'
  BY LoopKept DEF submitted, lifecycleVars
<1>. QED BY <1>1, <1>2, <1>3, <1>4, <1>5 DEF CInv

(* one whose status cannot be had,                                         *)
LEMMA StatusFailsKeeps ==
  ASSUME CInv, StatusFails
  PROVE  CInv'
<1>. USE Counts, CoordinatorKept, ClientAssumption
     DEF StatusFails, Continue, submitted, polled
<1>1. ClientTypeOK'
  BY DEF CInv, ClientTypeOK, CallOfLoop
<1>2. AttemptsCounted'
  BY DEF CInv, AttemptsCounted, CallOfLoop, ClientTypeOK, Submissions
<1>3. CallOfLoop'
  BY DEF CInv, CallOfLoop, ClientTypeOK, Submissions
<1>4. SubmissionsAccounted'
  BY DEF CInv, SubmissionsAccounted, AttemptsCounted, CallOfLoop, ClientTypeOK
<1>5. DoneCounted'
  BY LoopKept DEF submitted, lifecycleVars
<1>. QED BY <1>1, <1>2, <1>3, <1>4, <1>5 DEF CInv

(* the end of a pass,                                                      *)
LEMMA PassEndsKeeps ==
  ASSUME CInv, PassEnds
  PROVE  CInv'
<1>. USE Counts, CoordinatorKept, ClientAssumption
     DEF PassEnds, call, submitted, polled
<1>1. ClientTypeOK'
  BY DEF CInv, ClientTypeOK, CallOfLoop
<1>2. AttemptsCounted'
  BY DEF CInv, AttemptsCounted, CallOfLoop, ClientTypeOK, Submissions
<1>3. CallOfLoop'
  BY DEF CInv, CallOfLoop, ClientTypeOK, Submissions
<1>4. SubmissionsAccounted'
  BY DEF CInv, SubmissionsAccounted, AttemptsCounted, CallOfLoop, ClientTypeOK
<1>5. DoneCounted'
  BY LoopKept DEF submitted, lifecycleVars
<1>. QED BY <1>1, <1>2, <1>3, <1>4, <1>5 DEF CInv

(* the next one,                                                           *)
LEMMA NextPassKeeps ==
  ASSUME CInv, NextPass
  PROVE  CInv'
<1>. USE Counts, CoordinatorKept, ClientAssumption
     DEF NextPass, call, submitted, polled
<1>1. ClientTypeOK'
  BY DEF CInv, ClientTypeOK, CallOfLoop
<1>2. AttemptsCounted'
  BY DEF CInv, AttemptsCounted, CallOfLoop, ClientTypeOK, Submissions
<1>3. CallOfLoop'
  BY DEF CInv, CallOfLoop, ClientTypeOK, Submissions
<1>4. SubmissionsAccounted'
  BY DEF CInv, SubmissionsAccounted, AttemptsCounted, CallOfLoop, ClientTypeOK
<1>5. DoneCounted'
  BY LoopKept DEF submitted, lifecycleVars
<1>. QED BY <1>1, <1>2, <1>3, <1>4, <1>5 DEF CInv

(* and a verdict.                                                          *)
LEMMA SeeVerdictKeeps ==
  ASSUME CInv, SeeVerdict
  PROVE  CInv'
<1>. USE Counts, CoordinatorKept, ClientAssumption
     DEF SeeVerdict, Continue, submitted
<1>1. ClientTypeOK'
  BY DEF CInv, ClientTypeOK, CallOfLoop
<1>2. AttemptsCounted'
  BY DEF CInv, AttemptsCounted, CallOfLoop, ClientTypeOK, Submissions
<1>3. CallOfLoop'
  BY DEF CInv, CallOfLoop, ClientTypeOK, Submissions
<1>4. SubmissionsAccounted'
  BY DEF CInv, SubmissionsAccounted, AttemptsCounted, CallOfLoop, ClientTypeOK
<1>5. DoneCounted'
  BY DoneGrows
<1>. QED BY <1>1, <1>2, <1>3, <1>4, <1>5 DEF CInv

-----------------------------------------------------------------------------
(* The theorems.                                                           *)

(* A step of the coordinator, a crash included.                            *)
LEMMA CoordinatorStepKeeps ==
  ASSUME CInv, Coordinator
  PROVE  CInv'
<1>. USE Counts DEF clientVars, loop, call, submitted, polled
<1>1. UNCHANGED clientVars
  BY DEF Coordinator
<1>2. TypeOK' /\ VerdictsEarned' /\ taken \subseteq taken'
  BY LifecycleKeeps DEF CInv, ClientTypeOK, Coordinator, Next
<1>3. Exists' = Exists
  BY ExistsKept DEF CInv, ClientTypeOK
<1>4. ClientTypeOK'
  BY <1>1, <1>2 DEF CInv, ClientTypeOK
<1>5. AttemptsCounted' /\ SubmissionsAccounted'
  BY <1>1, <1>3 DEF CInv, AttemptsCounted, Submissions, SubmissionsAccounted
<1>6. CallOfLoop'
  BY <1>1, <1>2 DEF CInv, CallOfLoop, Submissions
<1>7. DoneCounted'
  BY <1>1, <1>2, DoneKept DEF CInv, DoneCounted
<1>. QED BY <1>2, <1>3, <1>4, <1>5, <1>6, <1>7 DEF CInv

(* A step that changes nothing.                                            *)
LEMMA StutterKeeps ==
  ASSUME CInv, UNCHANGED vars
  PROVE  CInv'
<1>. USE Counts DEF vars, clientVars, loop, call, submitted, polled
<1>1. TypeOK' /\ VerdictsEarned' /\ taken' = taken /\ Exists' = Exists
  BY CoordinatorKept
<1>2. ClientTypeOK'
  BY <1>1 DEF CInv, ClientTypeOK
<1>3. AttemptsCounted' /\ SubmissionsAccounted'
  BY <1>1 DEF CInv, AttemptsCounted, Submissions, SubmissionsAccounted
<1>4. CallOfLoop'
  BY <1>1 DEF CInv, CallOfLoop, Submissions
<1>5. DoneCounted'
  BY <1>1, DoneKept DEF CInv, DoneCounted
<1>. QED BY <1>1, <1>2, <1>3, <1>4, <1>5 DEF CInv

(* Before the first call nothing is counted and no task exists.            *)
LEMMA ClientInitEstablishes == ClientInit => CInv
<1>. SUFFICES ASSUME ClientInit PROVE CInv
  OBVIOUS
<1>. USE ClientAssumption, ProtocolAssumption DEF ClientInit, Init
<1>1. Exists = {} /\ IsFiniteSet(Exists) /\ Cardinality(Exists) = 0
  BY FS_EmptySet DEF Exists
<1>2. ClientTypeOK
  BY DEF ClientTypeOK, TypeOK, TaskState
<1>3. VerdictsEarned
  BY DEF VerdictsEarned, Terminal
<1>4. Submissions \in Nat
  BY DEF Submissions
<1>5. AttemptsCounted /\ CallOfLoop
  BY <1>4 DEF AttemptsCounted, CallOfLoop
<1>6. SubmissionsAccounted
  BY <1>1 DEF SubmissionsAccounted
<1>7. Seen("COMPLETED") = {} /\ Seen("FAILED") = {} /\ Cardinality({}) = 0
  BY FS_EmptySet DEF Seen
<1>8. DoneCounted
  <2>1. done = {} /\ completed = 0 /\ exec_failed = 0 /\ pc = "submit"
    OBVIOUS
  <2>. QED BY ONLY <1>7, <2>1 DEF DoneCounted
<1>. QED BY <1>1, <1>2, <1>3, <1>5, <1>6, <1>8 DEF CInv

(* Everything the client counts is right in every state, with and without  *)
(* the fairness of ClientSpec.                                             *)
THEOREM ClientInvariant == ClientSpec => []CInv
<1>1. CInv /\ [ClientNext]_vars => CInv'
  <2>. SUFFICES ASSUME CInv, [ClientNext]_vars PROVE CInv'
    OBVIOUS
  <2>1. CASE ClientStep
    BY <2>1, SendKeeps, ServeStatusKeeps, ServeSubmitKeeps, SubmitSucceedsKeeps,
       SubmitLoopEndsKeeps, SkipDoneKeeps, SeeVerdictKeeps, SeeNoVerdictKeeps,
       PassEndsKeeps, NextPassKeeps DEF ClientStep
  <2>2. CASE CallFails
    BY <2>2, SubmitFailsKeeps, StatusFailsKeeps DEF CallFails
  <2>3. CASE Coordinator
    BY <2>3, CoordinatorStepKeeps
  <2>4. CASE UNCHANGED vars
    BY <2>4, StutterKeeps
  <2>. QED BY <2>1, <2>2, <2>3, <2>4 DEF ClientNext
<1>. QED BY <1>1, ClientInitEstablishes, PTL DEF ClientSpec

(* The client's state has its types, for any batch and any coordinator.    *)
THEOREM ClientTypes == ClientSpec => []ClientTypeOK
<1>1. CInv => ClientTypeOK
  BY DEF CInv
<1>. QED BY <1>1, ClientInvariant, PTL

(* At any time the coordinator has every task whose id the client knows,   *)
(* and no more than those and the submissions that failed: nothing a user  *)
(* was told is submitted is missing, and no task appears by itself.        *)
THEOREM SubmissionsAreAccounted == ClientSpec => []SubmissionsAccounted
<1>1. CInv => SubmissionsAccounted
  BY DEF CInv
<1>. QED BY <1>1, ClientInvariant, PTL

(* The totals printed for a batch add up to it and are the true verdicts   *)
(* of its tasks, each of which some worker took.                           *)
THEOREM TotalsAreRight == ClientSpec => []TotalsRight
<1>1. CInv => TotalsRight
  <2>. SUFFICES ASSUME CInv, pc = "ended", batch
                PROVE  /\ completed + exec_failed + submit_failures = BatchCount
                       /\ completed = Tally("COMPLETED")
                       /\ exec_failed = Tally("FAILED")
                       /\ \A k \in DOMAIN task_ids : task_ids[k] \in taken
    BY DEF TotalsRight
  <2>1. done = DOMAIN task_ids
    BY DEF CInv, DoneCounted
  <2>2. Cardinality(done) = Len(task_ids)
    <3>1. Len(task_ids) \in Nat /\ done = 1..Len(task_ids)
      BY <2>1, Counts
    <3>2. Cardinality(1..Len(task_ids)) = IF 1 > Len(task_ids) THEN 0 ELSE Len(task_ids) - 1 + 1
      BY <3>1, FS_Interval
    <3>. QED BY <3>1, <3>2
  <2>3. completed = Tally("COMPLETED") /\ exec_failed = Tally("FAILED")
    BY <2>1 DEF CInv, DoneCounted, Tally, Seen
  <2>4. Len(task_ids) + submit_failures = BatchCount
    BY DEF CInv, AttemptsCounted, Submissions
  <2>5. completed + exec_failed = Len(task_ids)
    BY <2>2 DEF CInv, DoneCounted
  <2>. QED BY <2>1, <2>3, <2>4, <2>5 DEF CInv, DoneCounted, ClientTypeOK
<1>. QED BY <1>1, ClientInvariant, PTL

=============================================================================
