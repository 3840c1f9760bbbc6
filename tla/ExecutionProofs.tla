--------------------------- MODULE ExecutionProofs ---------------------------
(***************************************************************************)
(* A task is executed once and at most three times more for every trouble  *)
(* (ExecutionsJustified), whatever the numbers of tasks, threads, worker   *)
(* ids and troubles; and the totals of the metrics count every execution   *)
(* once, and once more at most for every trouble (ReportsCounted).         *)
(*                                                                         *)
(* The argument is one of accounting.  Whatever may yet lead to an         *)
(* execution of a task is a claim; an execution uses a claim up, a step    *)
(* without trouble makes no claim but in exchange for another, and a       *)
(* trouble makes three at most.  The claims are kept as a set, so that     *)
(* what a step does to them is a matter of inclusions.  So are the reports *)
(* that the totals may still have to count (Owed).                         *)
(***************************************************************************)
EXTENDS OrchestratorProofs

InFlightNow(t) == t \in DOMAIN tasks /\ tasks[t].state \in C!InFlight
Offered(t) == d_pc = "rpc" /\ d_task = t
Agreed(t) == d_pc = "accepted" /\ d_task = t

(* Some thread of the worker executes t, and its report will be the first. *)
Executing(t) ==
  /\ Alive
  /\ \E e \in ExecThread :
       /\ job[e] = t
       /\ \/ exec[e].pc = "run"
          \/ exec[e].pc = "report" /\ \A th \in Thread : caller[th] # e

(* t is not submitted, or waits for a worker.                              *)
Unassigned(t) ==
  \/ t \notin DOMAIN tasks
  \/ Offered(t)
  \/ t \in DOMAIN tasks /\ tasks[t].state = "PENDING" /\ ~Agreed(t)

(* t is assigned, and nobody executes it or it has taken too long.         *)
Abandoned(t) ==
  \/ (InFlightNow(t) \/ Agreed(t)) /\ ~Executing(t)
  \/ InFlightNow(t) /\ tasks[t].overdue

(* The dispatch thread is about to requeue t, as it does all the tasks of  *)
(* a worker it could not reach.                                            *)
AboutToSweep(t) ==
  /\ InFlightNow(t)
  /\ \/ d_pc \in {"requeue", "collect"} /\ tasks[t].assigned_worker = d_worker
     \/ d_pc = "sweep" /\ t \in d_todo

OnCall(t) == InFlightNow(t) \/ Agreed(t) \/ (handler # "none" /\ d_task = t)

-----------------------------------------------------------------------------
(* What may lead to an execution of t.                                     *)

(* t has to be executed, or to be again as soon as somebody notices.       *)
Redispatchable(t) == Unassigned(t) \/ (Abandoned(t) /\ t \notin h_todo)

(* The worker's server is closed, or was found so: t is requeued, although *)
(* it is executed, if another call to the worker fails.                    *)
Exposed(t) == OnCall(t) /\ (~Serving \/ AboutToSweep(t))

(* The process will end, its heartbeats will, its server will.             *)
WillEnd == g_draining /\ Alive
WillFallSilent == WillEnd /\ hb_pc # "ended"
WillClose == g_draining /\ main_pc \in {"register", "listen", "serve", "drain", "cleanup"}

(* A handler of the worker has t although the call is over.                *)
Late(t, a) == a # handler /\ assign[a] # "idle" /\ carried[a] = t

(* A registration is served whose caller has ended; it may requeue t.      *)
Orphaned(th) == rpc[th].pc \in {"collect", "requeue", "register"} /\ caller[th] # "main"
MayRequeue(t, th) ==
  Orphaned(th) /\ (rpc[th].pc = "collect" \/ (rpc[th].pc = "requeue" /\ t \in rpc[th].todo))

(* The health check may find w dead.                                       *)
Suspect(w) ==
  w \in h_dead \/ (w \in DOMAIN workers /\ workers[w].alive /\ (workers[w].silent \/ ~Beats(w)))

Flag(name, condition) == {c \in {<<name, "">>} : condition}

Claims(t) ==
  Flag("task", Redispatchable(t))
  \cup Flag("listed", t \in h_todo)
  \cup Flag("dead", h_pc = "collect")
  \cup Flag("exposed", Exposed(t))
  \cup Flag("loss", WillEnd)
  \cup Flag("silence", WillFallSilent)
  \cup Flag("closing", WillClose)
  \cup {<<"late", a>> : a \in {b \in AssignThread : Late(t, b)}}
  \cup {<<"orphan", th>> : th \in {u \in Thread : Orphaned(u)}}
  \cup {<<"requeue", th>> : th \in {u \in Thread : MayRequeue(t, u)}}
  \cup {<<"silent", w>> : w \in {v \in Worker : Suspect(v)}}

-----------------------------------------------------------------------------
(* The account.                                                            *)

Kept(t) == Claims(t)' \subseteq Claims(t)
Swapped(t) == \E y \in Claims(t) : \E x : Claims(t)' \subseteq (Claims(t) \ {y}) \cup {x}
Spent(t) == \E y \in Claims(t) : Claims(t)' \subseteq Claims(t) \ {y}
Incurred(t) == \E x, y, z : Claims(t)' \subseteq Claims(t) \cup {x, y, z}

(* What a step may do for the account of t to stay balanced.               *)
Balanced(t) ==
  \/ Kept(t) /\ executions'[t] = executions[t] /\ (Trouble \/ NoTrouble)
  \/ Swapped(t) /\ executions'[t] = executions[t] /\ NoTrouble
  \/ Spent(t) /\ executions'[t] = executions[t] + 1 /\ NoTrouble
  \/ Incurred(t) /\ executions'[t] = executions[t] /\ Trouble

(* Every execution of t, and every claim to one, is accounted for.         *)
Accounted(t) ==
  IsFiniteSet(Claims(t)) /\ executions[t] + Cardinality(Claims(t)) <= 1 + 3 * troubles

(* An element more makes a finite set larger by one at most.               *)
LEMMA OneMore ==
  ASSUME NEW S, IsFiniteSet(S), NEW x
  PROVE  IsFiniteSet(S \cup {x}) /\ Cardinality(S \cup {x}) <= Cardinality(S) + 1
<1>1. IsFiniteSet(S \cup {x})
  BY FS_AddElement
<1>2. Cardinality(S) \in Nat
  BY FS_CardinalityType
<1>3. Cardinality(S \cup {x}) \in {Cardinality(S), Cardinality(S) + 1}
  BY FS_AddElement
<1>. QED BY <1>1, <1>2, <1>3

(* An element less makes a finite set smaller by one.                      *)
LEMMA OneLess ==
  ASSUME NEW S, IsFiniteSet(S), NEW x \in S
  PROVE  IsFiniteSet(S \ {x}) /\ Cardinality(S \ {x}) = Cardinality(S) - 1
BY FS_RemoveElement

(* A step that is balanced for t keeps the account of t in order.          *)
LEMMA StillAccounted ==
  ASSUME NEW t \in Task, executions[t] \in Nat, executions'[t] \in Nat, troubles \in Nat,
         Accounted(t), Balanced(t)
  PROVE  Accounted(t)'
<1>. USE DEF Accounted
<1>1. Cardinality(Claims(t)) \in Nat
  BY FS_CardinalityType
<1>. DEFINE n == Cardinality(Claims(t))
            m == Cardinality(Claims(t)')
<1>2. ASSUME NEW S, IsFiniteSet(S), Claims(t)' \subseteq S
      PROVE  IsFiniteSet(Claims(t)') /\ m \in Nat /\ Cardinality(S) \in Nat /\ m <= Cardinality(S)
  BY <1>2, FS_Subset, FS_CardinalityType
<1>3. CASE Kept(t) /\ executions'[t] = executions[t] /\ (Trouble \/ NoTrouble)
  <2>1. IsFiniteSet(Claims(t)') /\ m \in Nat /\ m <= n
    BY <1>2, <1>3 DEF Kept
  <2>2. troubles' = troubles \/ troubles' = troubles + 1
    BY <1>3 DEF Trouble, NoTrouble
  <2>. QED BY <1>1, <1>3, <2>1, <2>2
<1>4. CASE Swapped(t) /\ executions'[t] = executions[t] /\ NoTrouble
  <2>0. PICK y \in Claims(t) : \E x : Claims(t)' \subseteq (Claims(t) \ {y}) \cup {x}
    BY <1>4 DEF Swapped
  <2>1. PICK x : Claims(t)' \subseteq (Claims(t) \ {y}) \cup {x}
    BY <2>0
  <2>2. IsFiniteSet(Claims(t) \ {y}) /\ Cardinality(Claims(t) \ {y}) = n - 1
    BY OneLess
  <2>3. /\ IsFiniteSet((Claims(t) \ {y}) \cup {x})
        /\ Cardinality((Claims(t) \ {y}) \cup {x}) <= Cardinality(Claims(t) \ {y}) + 1
    BY <2>2, OneMore
  <2>4. IsFiniteSet(Claims(t)') /\ m \in Nat /\ m <= n
    <3>1. /\ IsFiniteSet(Claims(t)') /\ m \in Nat
          /\ Cardinality((Claims(t) \ {y}) \cup {x}) \in Nat
          /\ m <= Cardinality((Claims(t) \ {y}) \cup {x})
      BY <1>2, <2>1, <2>3
    <3>. QED BY <1>1, <2>2, <2>3, <3>1
  <2>. QED BY <1>1, <1>4, <2>4 DEF NoTrouble
<1>5. CASE Spent(t) /\ executions'[t] = executions[t] + 1 /\ NoTrouble
  <2>1. PICK y \in Claims(t) : Claims(t)' \subseteq Claims(t) \ {y}
    BY <1>5 DEF Spent
  <2>2. IsFiniteSet(Claims(t) \ {y}) /\ Cardinality(Claims(t) \ {y}) = n - 1
    BY OneLess
  <2>3. IsFiniteSet(Claims(t)') /\ m \in Nat /\ m <= n - 1
    BY <1>2, <2>1, <2>2
  <2>. QED BY <1>1, <1>5, <2>3 DEF NoTrouble
<1>6. CASE Incurred(t) /\ executions'[t] = executions[t] /\ Trouble
  <2>1. PICK x, y, z : Claims(t)' \subseteq Claims(t) \cup {x, y, z}
    BY <1>6 DEF Incurred
  <2>. DEFINE S1 == Claims(t) \cup {x}
              S2 == S1 \cup {y}
              S3 == S2 \cup {z}
  <2>2. IsFiniteSet(S1) /\ Cardinality(S1) <= n + 1
    BY OneMore
  <2>3. IsFiniteSet(S2) /\ Cardinality(S2) <= Cardinality(S1) + 1
    <3>. HIDE DEF S1
    <3>. QED BY <2>2, OneMore
  <2>4. IsFiniteSet(S3) /\ Cardinality(S3) <= Cardinality(S2) + 1
    <3>. HIDE DEF S2
    <3>. QED BY <2>3, OneMore
  <2>5. Claims(t)' \subseteq S3
    BY <2>1
  <2>6. Cardinality(S1) \in Nat /\ Cardinality(S2) \in Nat
    BY <2>2, <2>3, FS_CardinalityType
  <2>. HIDE DEF S1, S2, S3
  <2>7. IsFiniteSet(Claims(t)') /\ m \in Nat /\ Cardinality(S3) \in Nat /\ m <= Cardinality(S3)
    BY <1>2, <2>4, <2>5
  <2>8. m <= n + 3
    BY <1>1, <2>2, <2>3, <2>4, <2>6, <2>7
  <2>9. troubles' = troubles + 1
    BY <1>6 DEF Trouble
  <2>. QED BY <1>1, <1>6, <2>7, <2>8, <2>9
<1>. QED BY <1>3, <1>4, <1>5, <1>6 DEF Balanced

-----------------------------------------------------------------------------
(* Reasons and claims.                                                     *)

(* A step that goes by the reasons: which of them it may give, and which   *)
(* claims there are for those there were.                                  *)
LEMMA ClaimsWithin ==
  ASSUME NEW t, NEW S,
         Redispatchable(t)' => <<"task", "">> \in S,
         t \in h_todo' => <<"listed", "">> \in S,
         h_pc' = "collect" => <<"dead", "">> \in S,
         Exposed(t)' => <<"exposed", "">> \in S,
         WillEnd' => <<"loss", "">> \in S,
         WillFallSilent' => <<"silence", "">> \in S,
         WillClose' => <<"closing", "">> \in S,
         \A a \in AssignThread : Late(t, a)' => <<"late", a>> \in S,
         \A th \in Thread : Orphaned(th)' => <<"orphan", th>> \in S,
         \A th \in Thread : MayRequeue(t, th)' => <<"requeue", th>> \in S,
         \A w \in Worker : Suspect(w)' => <<"silent", w>> \in S
  PROVE  Claims(t)' \subseteq S
BY DEF Claims, Flag

(* Each reason that there is has its claim.                                *)
LEMMA ClaimsAre ==
  ASSUME NEW t
  PROVE  /\ Redispatchable(t) => <<"task", "">> \in Claims(t)
         /\ t \in h_todo => <<"listed", "">> \in Claims(t)
         /\ h_pc = "collect" => <<"dead", "">> \in Claims(t)
         /\ Exposed(t) => <<"exposed", "">> \in Claims(t)
         /\ WillEnd => <<"loss", "">> \in Claims(t)
         /\ WillFallSilent => <<"silence", "">> \in Claims(t)
         /\ WillClose => <<"closing", "">> \in Claims(t)
         /\ \A a \in AssignThread : Late(t, a) => <<"late", a>> \in Claims(t)
         /\ \A th \in Thread : Orphaned(th) => <<"orphan", th>> \in Claims(t)
         /\ \A th \in Thread : MayRequeue(t, th) => <<"requeue", th>> \in Claims(t)
         /\ \A w \in Worker : Suspect(w) => <<"silent", w>> \in Claims(t)
BY DEF Claims, Flag

(* What a step keeps if it gives no reason of the kind that was not there. *)
KeepsLists(t) == (t \in h_todo' => t \in h_todo) /\ (h_pc' = "collect" => h_pc = "collect")
KeepsProcess(t) ==
  /\ WillEnd' => WillEnd
  /\ WillFallSilent' => WillFallSilent
  /\ WillClose' => WillClose
  /\ \A a \in AssignThread : Late(t, a)' => Late(t, a)
KeepsCalls(t) ==
  \A th \in Thread : (Orphaned(th)' => Orphaned(th)) /\ (MayRequeue(t, th)' => MayRequeue(t, th))
KeepsPool == \A w \in Worker : Suspect(w)' => Suspect(w)

(* A step that gives no reason that was not there keeps the claims.        *)
LEMMA AllKept ==
  ASSUME NEW t, Redispatchable(t)' => Redispatchable(t), Exposed(t)' => Exposed(t),
         KeepsLists(t), KeepsProcess(t), KeepsCalls(t), KeepsPool
  PROVE  Kept(t)
BY ClaimsWithin, ClaimsAre DEF Kept, KeepsLists, KeepsProcess, KeepsCalls, KeepsPool

-----------------------------------------------------------------------------
(* What the steps rely on.                                                 *)

(* The heartbeat thread starts with the server.                            *)
HeartbeatStarts == main_pc \in {"register", "listen"} => hb_pc = "off"

(* main registers under the id of its process.                             *)
RegistersItself == \A th \in Thread : caller[th] = "main" => rpc[th].worker = id

Context ==
  /\ LinkInv /\ SystemInv /\ C!IInv
  /\ C!HeldNotInFlight /\ C!ListIsWalked
  /\ HeartbeatStarts /\ RegistersItself

(* A step of the system keeps HeartbeatStarts.                             *)
LEMMA HeartbeatStartsStep ==
  ASSUME HeartbeatStarts, SystemNext
  PROVE  HeartbeatStarts'
<1>. USE DEF HeartbeatStarts
<1>1. CASE Blank
  BY <1>1 DEF Blank
<1>2. CASE UNCHANGED vars
  BY <1>2 DEF vars
<1>3. CASE Next
  <2>1. ASSUME UNCHANGED <<main_pc, hb_pc>> PROVE HeartbeatStarts'
    BY <2>1
  <2>2. ASSUME NEW a \in AssignThread, AssignTask(a) \/ Handler(a) PROVE HeartbeatStarts'
    BY <2>1, <2>2 DEF AssignTask, Handler, TestCapacity, IncrementActive, SpawnAndAccept, HandlerIsAt
  <2>3. ASSUME NEW e \in ExecThread, Execution(e) PROVE HeartbeatStarts'
    <3>1. UNCHANGED <<main_pc, hb_pc>>
      BY <2>3 DEF Execution, RunPrimeTask, ReportAcknowledged, ReportFails, ExecutionEnds, ThreadIs
    <3>. QED BY <3>1
  <2>4. CASE SignalArrives \/ SignalEnds
    BY <2>4 DEF SignalArrives, SignalEnds
  <2>5. CASE HeartbeatLoop
    BY <2>5 DEF HeartbeatLoop, TestShutdown, HeartbeatReturns, HeartbeatWakes, HeartbeatIs
  <2>6. CASE Main
    BY <2>6 DEF Main, Registers, Listens, ListenFails, LeaveServing, LeaveDraining, ShutdownCalled,
       ShutdownReturns, MainReturns, MainGoes
  <2>. QED BY <1>3, <2>2, <2>3, <2>4, <2>5, <2>6 DEF Next
<1>. QED BY <1>1, <1>2, <1>3, WorkerStep

(* A step of the system keeps RegistersItself: the id changes only with a  *)
(* new process, of which no call is served yet.                            *)
LEMMA RegistersItselfStep ==
  ASSUME C!TypeOK, SystemTypeOK, CallersAreServed, RegistersItself, SystemNext
  PROVE  RegistersItself'
<1>. USE DEF RegistersItself
<1>1. /\ DOMAIN rpc = Thread /\ caller \in [Thread -> ExecThread \cup {"main", "none"}]
      /\ "main" \notin ExecThread
  BY OrchestratorAssumption DEF C!TypeOK, C!ServicesTypeOK, SystemTypeOK
<1>2. ASSUME UNCHANGED <<rpc, id>>, \A th \in Thread : caller'[th] \in {caller[th], "none"}
      PROVE  RegistersItself'
  BY <1>2
<1>3. ASSUME NEW th \in Thread, NEW address \in Address, CallRegister(th, address)
      PROVE  RegistersItself'
  BY <1>1, <1>3 DEF CallRegister, C!Register, C!RegisterWorker
<1>4. ASSUME NEW th \in Thread, NEW e \in ExecThread, CallReport(th, e)
      PROVE  RegistersItself'
  <2>1. /\ \A u \in Thread \ {th} : rpc'[u] = rpc[u] /\ caller'[u] = caller[u]
        /\ caller'[th] = e /\ UNCHANGED id
    BY <1>1, <1>4 DEF CallReport, C!Report, C!ReportResult
  <2>. QED BY <1>1, <2>1
<1>5. ASSUME NEW th \in Thread, Serve(th)
      PROVE  RegistersItself'
  <2>1. /\ C!Handler(th) /\ rpc'[th] # C!Idle /\ UNCHANGED <<caller, id>>
        /\ \A u \in Thread \ {th} : rpc'[u] = rpc[u]
    BY <1>5, HandlerServes DEF Serve, linkVars
  <2>2. CASE caller[th] = "main"
    <3>1. rpc[th] \in C!RegisterCall
      BY <2>2, C!RpcCalls, CoordinatorConstants, OrchestratorAssumption DEF CallersAreServed, C!TypeOK
    <3>2. C!RegisterCollect(th) \/ C!RegisterStore(th) \/ \E t \in Task : C!RegisterRequeue(th, t)
      BY <2>1, <2>2 DEF CallersAreServed, C!Handler, C!HandlerStep, C!ReportRecord, C!ReportDecrement
    <3>3. ~C!RegisterStore(th)
      BY <1>1, <2>1 DEF C!RegisterStore
    <3>4. C!RegisterCollect(th) => rpc'[th].worker = rpc[th].worker
      BY <1>1, <3>1 DEF C!RegisterCollect, C!RegisterCall
    <3>5. ASSUME NEW t \in Task, C!RegisterRequeue(th, t) PROVE rpc'[th].worker = rpc[th].worker
      BY <1>1, <3>1, <3>5 DEF C!RegisterRequeue, C!RegisterCall
    <3>. QED BY <2>1, <3>2, <3>3, <3>4, <3>5
  <2>. QED BY <2>1, <2>2
<1>6. ASSUME NEW th \in Thread, Answer(th)
      PROVE  RegistersItself'
  <2>1. /\ \A u \in Thread \ {th} : rpc'[u] = rpc[u] /\ caller'[u] = caller[u]
        /\ caller'[th] = "none" /\ UNCHANGED id
    BY <1>1, <1>6, HandlerServes DEF Answer
  <2>. QED BY <2>1
<1>7. CASE Exits \/ Dies \/ Restarts
  <2>1. caller' = [th \in Thread |-> "none"]
    BY <1>7 DEF Exits, Dies, Restarts, Blank
  <2>. QED BY <2>1
<1>8. CASE RegisterError \/ \E e \in ExecThread : ReportLost(e)
  <2>1. PICK c : HangUp(c) /\ UNCHANGED <<rpc, id>>
    BY <1>8 DEF RegisterError, ReportLost, coordinatorVars
  <2>. QED BY <1>2, <2>1 DEF HangUp
<1>9. CASE \/ \E a \in AssignThread : AssignHandler(a) \/ RpcArrives(a)
           \/ RefusedDraining \/ ConnectionRefused \/ Deadline
  BY <1>2, <1>9 DEF AssignHandler, HandlerTests, HandlerIncrements, HandlerSpawns, RpcArrives,
     RefusedDraining, ConnectionRefused, Deadline, C!WorkerRejects, C!WorkerAccepts,
     C!WorkerUnreachable, C!serviceVars, coordinatorVars, linkVars
<1>10. CASE \/ Delay \/ (\E w \in Worker : Silence(w)) \/ (\E t \in Task : Timeout(t))
            \/ HeartbeatThread \/ HeartbeatArrives \/ HeartbeatLost
  BY <1>2, <1>10 DEF Delay, Silence, Timeout, HeartbeatThread, HeartbeatArrives, HeartbeatLost,
     C!WorkerFallsSilent, C!TaskOverruns, C!Beat, C!Heartbeat, C!serviceVars, coordinatorVars, linkVars
<1>11. CASE \/ Scheduling(C!Dispatch) \/ Scheduling(C!WaitTimeout) \/ Scheduling(C!Health)
            \/ \E t \in Task, p \in Priority, now \in Clock : Scheduling(C!Submit(t, p, now))
  BY <1>2, <1>11 DEF Scheduling, C!Dispatch, C!WaitTimeout, C!Health, C!Submit, C!SubmitTask,
     C!serviceVars, linkVars
<1>12. CASE \/ MainGoesOn \/ ListenError \/ Signal \/ SignalCompletes
            \/ \E e \in ExecThread : Executes(e)
  BY <1>2, <1>12 DEF MainGoesOn, ListenError, Signal, SignalCompletes, Executes, coordinatorVars,
     linkVars
<1>. QED
  BY <1>3, <1>4, <1>5, <1>6, <1>7, <1>8, <1>9, <1>10, <1>11, <1>12
     DEF SystemNext, RpcProceeds, CoordinatorHandler, ExecutionThread, MainThread

-----------------------------------------------------------------------------
(* What keeps the reasons.                                                 *)

RecordSame(t) ==
  /\ t \in DOMAIN tasks' <=> t \in DOMAIN tasks
  /\ t \in DOMAIN tasks => tasks'[t].state = tasks[t].state
  /\ InFlightNow(t) => tasks'[t] = tasks[t]

(* A task whose record and whose executions stay is not dispatched again   *)
(* for a new reason.                                                       *)
LEMMA SameTask ==
  ASSUME NEW t, RecordSame(t), Offered(t)' <=> Offered(t), Agreed(t)' <=> Agreed(t),
         Executing(t) => Executing(t)', t \in h_todo => t \in h_todo'
  PROVE  Redispatchable(t)' => Redispatchable(t)
BY DEF RecordSame, Redispatchable, Unassigned, Abandoned, InFlightNow

(* A task whose record stays is exposed to no more than it was.            *)
LEMMA SameExposure ==
  ASSUME NEW t, RecordSame(t), Agreed(t)' => Agreed(t),
         handler' # "none" /\ d_task' = t => handler # "none" /\ d_task = t,
         Serving => Serving', AboutToSweep(t)' => AboutToSweep(t)
  PROVE  Exposed(t)' => Exposed(t)
BY DEF RecordSame, Exposed, OnCall, InFlightNow

(* What a step of the worker keeps: the reasons that lie with the          *)
(* coordinator, as far as the worker's state allows.                       *)
LEMMA CoordinatorUnchanged ==
  ASSUME NEW t, UNCHANGED coordinatorVars
  PROVE  /\ KeepsLists(t)
         /\ (Executing(t) => Executing(t)') => (Redispatchable(t)' => Redispatchable(t))
         /\ (handler' \in {handler, "none"}) /\ (Serving => Serving') => (Exposed(t)' => Exposed(t))
         /\ (\A th \in Thread : caller[th] = "main" => caller'[th] = "main") => KeepsCalls(t)
         /\ (\A w \in Worker : Beats(w) => Beats(w)') => KeepsPool
<1>. USE DEF coordinatorVars
<1>1. KeepsLists(t)
  BY DEF KeepsLists
<1>2. RecordSame(t) /\ (Offered(t)' <=> Offered(t)) /\ (Agreed(t)' <=> Agreed(t))
  BY DEF RecordSame, Offered, Agreed
<1>3. AboutToSweep(t)' => AboutToSweep(t)
  BY DEF AboutToSweep, InFlightNow
<1>4. (Executing(t) => Executing(t)') => (Redispatchable(t)' => Redispatchable(t))
  BY <1>2, SameTask
<1>5. (handler' \in {handler, "none"}) /\ (Serving => Serving') => (Exposed(t)' => Exposed(t))
  BY <1>2, <1>3, SameExposure
<1>6. (\A th \in Thread : caller[th] = "main" => caller'[th] = "main") => KeepsCalls(t)
  BY DEF KeepsCalls, Orphaned, MayRequeue
<1>7. (\A w \in Worker : Beats(w) => Beats(w)') => KeepsPool
  BY DEF KeepsPool, Suspect
<1>. QED BY <1>1, <1>4, <1>5, <1>6, <1>7

(* What a step of the coordinator keeps: the reasons that lie with the     *)
(* worker.                                                                 *)
LEMMA WorkerUnchanged ==
  ASSUME NEW t, UNCHANGED <<workerVars, linkVars>>
  PROVE  /\ KeepsProcess(t)
         /\ Serving' = Serving
         /\ Executing(t) => Executing(t)'
         /\ \A w : Beats(w)' = Beats(w)
         /\ UNCHANGED <<handler, caller, executions, id, main_pc>>
<1>. USE DEF workerVars, vars, linkVars
<1>1. KeepsProcess(t)
  BY DEF KeepsProcess, WillEnd, WillFallSilent, WillClose, Late, Alive
<1>2. Executing(t) => Executing(t)'
  BY DEF Executing, Alive
<1>. QED BY <1>1, <1>2 DEF Serving, Beats, Alive

-----------------------------------------------------------------------------
(* The worker's own steps.                                                 *)

(* main, the signal handler and the heartbeat thread leave the executions  *)
(* and the handlers alone.                                                 *)
LEMMA QuietStep ==
  ASSUME NEW t, UNCHANGED <<coordinatorVars, linkVars, assign, exec>>
  PROVE  /\ KeepsLists(t)
         /\ (Alive => Alive') => (Redispatchable(t)' => Redispatchable(t))
         /\ (Serving => Serving') => (Exposed(t)' => Exposed(t))
         /\ KeepsCalls(t)
         /\ (\A w \in Worker : Beats(w) => Beats(w)') => KeepsPool
         /\ \A a \in AssignThread : Late(t, a)' => Late(t, a)
         /\ UNCHANGED executions
<1>. USE CoordinatorUnchanged DEF linkVars
<1>1. (Alive => Alive') => (Executing(t) => Executing(t)')
  BY DEF Executing
<1>2. \A a \in AssignThread : Late(t, a)' => Late(t, a)
  BY DEF Late
<1>. QED BY <1>1, <1>2

(* The heartbeat thread gives up its claim to fall silent when it ends.    *)
LEMMA HeartbeatBalanced ==
  ASSUME Context, NEW t \in Task, HeartbeatThread \/ HeartbeatLost
  PROVE  Balanced(t)
<1>. USE QuietStep, AllKept DEF Balanced, KeepsProcess
<1>1. UNCHANGED <<coordinatorVars, linkVars, assign, exec, main_pc, g_draining>> /\ UNCHANGED id
  BY DEF HeartbeatThread, HeartbeatLost, TestShutdown, HeartbeatWakes, HeartbeatReturns,
     HeartbeatIs, linkVars
<1>2. (Alive' <=> Alive) /\ (Serving' <=> Serving) /\ (WillEnd' <=> WillEnd) /\ (WillClose' <=> WillClose)
  BY <1>1 DEF Alive, Serving, WillEnd, WillClose
<1>3. CASE hb_pc' # "ended" /\ hb_pc # "ended"
  <2>1. \A w \in Worker : Beats(w) => Beats(w)'
    BY <1>1, <1>3 DEF Beats, Alive
  <2>2. WillFallSilent' => WillFallSilent
    BY <1>2, <1>3 DEF WillFallSilent
  <2>. QED BY <1>1, <1>2, <2>1, <2>2 DEF HeartbeatThread, HeartbeatLost
<1>4. CASE hb_pc' = "ended" \/ hb_pc = "ended"
  <2>1. hb_pc = "test" /\ hb_pc' = "ended" /\ g_shutdown /\ Alive /\ NoTrouble
    BY <1>4 DEF HeartbeatThread, HeartbeatLost, TestShutdown, HeartbeatWakes, HeartbeatReturns,
       HeartbeatIs
  <2>2. WillFallSilent /\ ~WillFallSilent'
    BY <2>1 DEF WillFallSilent, WillEnd, Context, LinkInv, IInv, ControlOrder
  <2>3. \A w \in Worker : Suspect(w)' => Suspect(w) \/ w = id
    BY <1>1 DEF Suspect, coordinatorVars, Beats, linkVars
  <2>. DEFINE S == (Claims(t) \ {<<"silence", "">>}) \cup {<<"silent", id>>}
  <2>4. <<"silent", id>> \in S /\ \A c \in Claims(t) : c # <<"silence", "">> => c \in S
    OBVIOUS
  <2>. HIDE DEF S
  <2>5. Claims(t)' \subseteq S
    BY <1>1, <1>2, <2>2, <2>3, <2>4, ClaimsWithin, ClaimsAre DEF KeepsLists, KeepsCalls
  <2>6. Swapped(t)
    BY <2>2, <2>5, ClaimsAre DEF Swapped, S
  <2>. QED BY <1>1, <2>1, <2>6
<1>. QED BY <1>3, <1>4

(* The signal, which is a trouble, has the process end, its heartbeats and *)
(* its server: three claims.                                               *)
LEMMA SignalBalanced ==
  ASSUME NEW t \in Task, Signal \/ SignalCompletes
  PROVE  Balanced(t)
<1>. USE QuietStep
<1>1. /\ UNCHANGED <<coordinatorVars, linkVars, assign, exec>>
      /\ UNCHANGED <<main_pc, hb_pc, id, executions>>
  BY DEF Signal, SignalCompletes, SignalArrives, SignalEnds, linkVars
<1>2. (Alive' <=> Alive) /\ (Serving' <=> Serving) /\ \A w : Beats(w)' <=> Beats(w)
  BY <1>1 DEF Alive, Serving, Beats
<1>3. CASE SignalCompletes
  <2>1. UNCHANGED g_draining /\ NoTrouble
    BY <1>3 DEF SignalCompletes, SignalEnds
  <2>2. KeepsProcess(t)
    BY <1>1, <1>2, <2>1 DEF KeepsProcess, WillEnd, WillFallSilent, WillClose
  <2>. QED BY <1>1, <1>2, <2>1, <2>2, AllKept DEF Balanced
<1>4. CASE Signal
  <2>. DEFINE S == Claims(t) \cup {<<"loss", "">>, <<"silence", "">>, <<"closing", "">>}
  <2>1. /\ Claims(t) \subseteq S
        /\ <<"loss", "">> \in S /\ <<"silence", "">> \in S /\ <<"closing", "">> \in S
    OBVIOUS
  <2>. HIDE DEF S
  <2>2. Claims(t)' \subseteq S
    BY <1>1, <1>2, <2>1, ClaimsWithin, ClaimsAre DEF KeepsLists, KeepsCalls, KeepsPool
  <2>3. Incurred(t)
    BY <2>2 DEF Incurred, S
  <2>. QED BY <1>1, <1>4, <2>3 DEF Signal, Balanced
<1>. QED BY <1>3, <1>4

(* main goes on: it starts the server, waits for the drain, and closes the *)
(* server, which exposes what is still on call.                            *)
LEMMA MainBalanced ==
  ASSUME Context, NEW t \in Task, MainGoesOn
  PROVE  Balanced(t)
<1>. USE QuietStep DEF Balanced
<1>1. UNCHANGED <<coordinatorVars, linkVars, assign, exec, g_draining, id, executions>> /\ NoTrouble
  BY DEF MainGoesOn, Listens, LeaveServing, LeaveDraining, ShutdownCalled, ShutdownReturns,
     MainGoes, linkVars
<1>2. Alive /\ Alive' /\ \A w : Beats(w) => Beats(w)'
  BY DEF MainGoesOn, Listens, LeaveServing, LeaveDraining, ShutdownCalled, ShutdownReturns,
     MainGoes, Alive, Beats, linkVars
<1>3. WillEnd' => WillEnd
  BY <1>1, <1>2 DEF WillEnd
<1>4. WillFallSilent' => WillFallSilent
  <2>1. hb_pc' # "ended" => hb_pc # "ended"
    BY DEF Context, HeartbeatStarts, MainGoesOn, Listens, LeaveServing, LeaveDraining,
       ShutdownCalled, ShutdownReturns, MainGoes
  <2>. QED BY <1>3, <2>1 DEF WillFallSilent
<1>5. WillClose' => WillClose
  BY <1>1 DEF WillClose, MainGoesOn, Listens, LeaveServing, LeaveDraining, ShutdownCalled,
     ShutdownReturns, MainGoes
<1>6. CASE Serving => Serving'
  BY <1>1, <1>2, <1>3, <1>4, <1>5, <1>6, AllKept DEF KeepsProcess
<1>7. CASE Serving /\ ~Serving'
  <2>1. main_pc = "cleanup" /\ main_pc' = "stop"
    BY <1>7 DEF Serving, MainGoesOn, Listens, LeaveServing, LeaveDraining, ShutdownCalled,
       ShutdownReturns, MainGoes
  <2>2. WillClose /\ ~WillClose'
    BY <2>1 DEF WillClose, Context, LinkInv, IInv, ControlOrder
  <2>. DEFINE S == (Claims(t) \ {<<"closing", "">>}) \cup {<<"exposed", "">>}
  <2>3. <<"exposed", "">> \in S /\ \A c \in Claims(t) : c # <<"closing", "">> => c \in S
    OBVIOUS
  <2>. HIDE DEF S
  <2>4. Claims(t)' \subseteq S
    BY <1>1, <1>2, <1>3, <1>4, <2>2, <2>3, ClaimsWithin, ClaimsAre
       DEF KeepsLists, KeepsCalls, KeepsPool
  <2>5. Swapped(t)
    BY <2>2, <2>4, ClaimsAre DEF Swapped, S
  <2>. QED BY <1>1, <2>5
<1>. QED BY <1>6, <1>7

(* A port that cannot be opened ends the process before it executes        *)
(* anything: its worker falls silent.                                      *)
LEMMA ListenErrorBalanced ==
  ASSUME Context, NEW t \in Task, ListenError
  PROVE  Balanced(t)
<1>. USE QuietStep DEF Balanced
<1>1. /\ UNCHANGED <<coordinatorVars, linkVars, assign, exec, g_draining, hb_pc, id, executions>>
      /\ main_pc = "listen" /\ main_pc' = "exited" /\ Trouble
  BY DEF ListenError, ListenFails, MainGoes, linkVars
<1>2. ~Serving /\ ~Alive'
  BY <1>1 DEF Serving, Alive
<1>3. ~Executing(t)
  <2>1. Running = {}
    BY <1>1 DEF Context, LinkInv, IInv, ControlOrder
  <2>. QED BY <2>1 DEF Running, Executing
<1>4. Redispatchable(t)' => Redispatchable(t)
  BY <1>1, <1>3, CoordinatorUnchanged
<1>5. KeepsProcess(t)
  BY <1>1, <1>2 DEF KeepsProcess, WillEnd, WillFallSilent, WillClose
<1>6. \A w \in Worker : Suspect(w)' => Suspect(w) \/ w = id
  BY <1>1 DEF Suspect, coordinatorVars, Beats
<1>. DEFINE S == Claims(t) \cup {<<"silent", id>>, <<"silent", id>>, <<"silent", id>>}
<1>7. Claims(t) \subseteq S /\ <<"silent", id>> \in S
  OBVIOUS
<1>. HIDE DEF S
<1>8. Claims(t)' \subseteq S
  BY <1>1, <1>2, <1>4, <1>5, <1>6, <1>7, ClaimsWithin, ClaimsAre
     DEF KeepsLists, KeepsProcess, KeepsCalls
<1>9. Incurred(t)
  BY <1>8 DEF Incurred, S
<1>. QED BY <1>1, <1>9

(* A process that is gone has no executions, no handlers and no calls.     *)
LEMMA BlankStep ==
  ASSUME Context, NEW t, Blank, main_pc' \in {"register", "exited"}
  PROVE  /\ KeepsLists(t) /\ KeepsProcess(t) /\ ~WillEnd' /\ UNCHANGED executions
         /\ (~Executing(t)) => (Redispatchable(t)' => Redispatchable(t))
         /\ ~Serving => (Exposed(t)' => Exposed(t))
         /\ (main_pc # "register") => KeepsCalls(t)
         /\ UNCHANGED <<rpc, workers, h_dead>> /\ \A w : ~Beats(w)'
<1>. USE CoordinatorUnchanged
<1>1. /\ UNCHANGED <<coordinatorVars, executions>> /\ g_draining' = FALSE /\ handler' = "none"
      /\ caller' = [th \in Thread |-> "none"] /\ assign' = [a \in AssignThread |-> "idle"]
  BY DEF Blank
<1>2. ~WillEnd' /\ KeepsProcess(t)
  BY <1>1 DEF KeepsProcess, WillEnd, WillFallSilent, WillClose, Late
<1>3. KeepsCalls(t) \/ main_pc = "register"
  BY <1>1 DEF Context, SystemInv, CallsMatch, CallersAreServed
<1>4. UNCHANGED <<rpc, workers, h_dead>> /\ \A w : ~Beats(w)'
  BY <1>1 DEF coordinatorVars, Beats, Alive
<1>. QED BY <1>1, <1>2, <1>3, <1>4

(* The process ends as the signal had announced: its claim becomes that of *)
(* what it loses.                                                          *)
LEMMA ExitsBalanced ==
  ASSUME Context, NEW t \in Task, Exits
  PROVE  Balanced(t)
<1>1. /\ Blank /\ main_pc = "join" /\ hb_pc = "ended" /\ main_pc' = "exited" /\ NoTrouble
      /\ g_draining /\ ~Serving
  BY DEF Exits, Serving, Context, LinkInv, IInv, ControlOrder
<1>2. WillEnd /\ \A w : ~Beats(w)
  BY <1>1 DEF WillEnd, Alive, Beats
<1>3. KeepsPool
  BY <1>1, <1>2, BlankStep DEF KeepsPool, Suspect
<1>. DEFINE S == (Claims(t) \ {<<"loss", "">>}) \cup {<<"task", "">>}
<1>4. <<"task", "">> \in S /\ \A c \in Claims(t) : c # <<"loss", "">> => c \in S
  OBVIOUS
<1>. HIDE DEF S
<1>5. Claims(t)' \subseteq S
  BY <1>1, <1>3, <1>4, BlankStep, ClaimsWithin, ClaimsAre
     DEF KeepsLists, KeepsProcess, KeepsCalls, KeepsPool
<1>6. Swapped(t)
  BY <1>2, <1>5, ClaimsAre DEF Swapped, S
<1>. QED BY <1>1, <1>6, BlankStep DEF Balanced

(* A new process makes no claim.                                           *)
LEMMA RestartsBalanced ==
  ASSUME Context, NEW t \in Task, Restarts
  PROVE  Balanced(t)
<1>1. Blank /\ main_pc = "exited" /\ main_pc' = "register" /\ NoTrouble
  BY DEF Restarts, Alive
<1>2. ~Executing(t) /\ ~Serving /\ \A w : ~Beats(w)
  BY <1>1 DEF Executing, Serving, Beats, Alive
<1>3. KeepsPool
  BY <1>1, <1>2, BlankStep DEF KeepsPool, Suspect
<1>. QED BY <1>1, <1>2, <1>3, BlankStep, AllKept DEF Balanced

(* main waits for the answer to one registration.                          *)
LEMMA OneOrphan ==
  ASSUME Context, NEW t, UNCHANGED rpc
  PROVE  \E u : \A th \in Thread :
           th # u => (Orphaned(th)' => Orphaned(th)) /\ (MayRequeue(t, th)' => MayRequeue(t, th))
<1>1. PICK u : \A th \in Thread : caller[th] = "main" => th = u
  BY OrchestratorAssumption DEF Context, SystemInv, CallsMatch, CallersAreServed
<1>. QED BY <1>1 DEF Orphaned, MayRequeue

(* The process ends while it registers.                                    *)
LEMMA OrphanIncurred ==
  ASSUME Context, NEW t, UNCHANGED rpc, Redispatchable(t)' => Redispatchable(t),
         Exposed(t)' => Exposed(t), KeepsLists(t), KeepsProcess(t), KeepsPool
  PROVE  Incurred(t)
<1>1. PICK u : \A th \in Thread :
        th # u => (Orphaned(th)' => Orphaned(th)) /\ (MayRequeue(t, th)' => MayRequeue(t, th))
  BY OneOrphan
<1>. DEFINE S == Claims(t) \cup {<<"orphan", u>>, <<"requeue", u>>, <<"requeue", u>>}
<1>2. Claims(t) \subseteq S /\ <<"orphan", u>> \in S /\ <<"requeue", u>> \in S
  OBVIOUS
<1>. HIDE DEF S
<1>3. Claims(t)' \subseteq S
  BY <1>1, <1>2, ClaimsWithin, ClaimsAre DEF KeepsLists, KeepsProcess, KeepsPool
<1>. QED BY <1>3 DEF Incurred, S

(* A registration that fails ends the process; the call may still be       *)
(* served, without a caller.                                               *)
LEMMA RegisterErrorBalanced ==
  ASSUME Context, NEW t \in Task, RegisterError
  PROVE  Balanced(t)
<1>. USE CoordinatorUnchanged
<1>1. /\ UNCHANGED <<coordinatorVars, g_draining, assign, exec, hb_pc, id, handler, carried, job, executions>>
      /\ main_pc = "register" /\ main_pc' = "exited" /\ Trouble
  BY DEF RegisterError, Registers, MainGoes
<1>2. ~Serving /\ ~Alive' /\ Running = {}
  BY <1>1 DEF Serving, Alive, Context, LinkInv, IInv, ControlOrder
<1>3. ~Executing(t)
  BY <1>2 DEF Running, Executing
<1>4. KeepsProcess(t)
  BY <1>1, <1>2 DEF KeepsProcess, WillEnd, WillFallSilent, WillClose, Late
<1>5. KeepsPool
  BY <1>1 DEF KeepsPool, Suspect, Beats, coordinatorVars
<1>6. UNCHANGED rpc
  BY <1>1 DEF coordinatorVars
<1>. QED BY <1>1, <1>2, <1>3, <1>4, <1>5, <1>6, OrphanIncurred DEF Balanced

(* A crash of the process loses at most its heartbeats, its executions and *)
(* its server.                                                             *)
LEMMA DiesBalanced ==
  ASSUME Context, NEW t \in Task, Dies
  PROVE  Balanced(t)
<1>1. Blank /\ main_pc' = "exited" /\ Trouble /\ UNCHANGED id
  BY DEF Dies
<1>. USE <1>1, BlankStep
<1>2. CASE main_pc = "register"
  <2>1. ~Serving /\ Running = {}
    BY <1>2 DEF Serving, Context, LinkInv, IInv, ControlOrder
  <2>2. ~Executing(t)
    BY <2>1 DEF Running, Executing
  <2>3. KeepsPool
    BY <1>2 DEF KeepsPool, Suspect, Beats
  <2>. QED BY <2>1, <2>2, <2>3, OrphanIncurred DEF Balanced
<1>3. CASE main_pc # "register"
  <2>1. \A w \in Worker : Suspect(w)' => Suspect(w) \/ w = id
    BY DEF Suspect, Beats
  <2>. DEFINE S == Claims(t) \cup {<<"task", "">>, <<"exposed", "">>, <<"silent", id>>}
  <2>2. /\ Claims(t) \subseteq S
        /\ <<"task", "">> \in S /\ <<"exposed", "">> \in S /\ <<"silent", id>> \in S
    OBVIOUS
  <2>. HIDE DEF S
  <2>3. Claims(t)' \subseteq S
    BY <1>3, <2>1, <2>2, ClaimsWithin, ClaimsAre DEF KeepsLists, KeepsProcess, KeepsCalls
  <2>4. Incurred(t)
    BY <2>3 DEF Incurred, S
  <2>. QED BY <2>4 DEF Balanced
<1>. QED BY <1>2, <1>3

(* An execution goes on until its report is taken over by a handler of the *)
(* coordinator.                                                            *)
LEMMA ExecutesBalanced ==
  ASSUME Context, NEW t \in Task, NEW e \in ExecThread, Executes(e)
  PROVE  Balanced(t)
<1>. USE CoordinatorUnchanged
<1>1. /\ exec \in [ExecThread -> [pc : {"idle", "run", "report", "ended"}, attempt : 0..kMaxAttempts]]
      /\ job \in [ExecThread -> Task \cup {NoTask}]
  BY DEF Context, LinkInv, IInv, TypeOK, SystemInv, SystemTypeOK
<1>2. /\ UNCHANGED <<coordinatorVars, g_draining, assign, hb_pc, main_pc, id, handler, carried, caller, executions>>
      /\ NoTrouble
      /\ \A f \in ExecThread \ {e} : exec'[f] = exec[f] /\ job'[f] = job[f]
  BY <1>1 DEF Executes, RunPrimeTask, ExecutionEnds, ThreadIs
<1>3. Executing(t) => Executing(t)'
  <2>1. SUFFICES ASSUME Alive, NEW f \in ExecThread, job[f] = t,
                        \/ exec[f].pc = "run"
                        \/ exec[f].pc = "report" /\ \A th \in Thread : caller[th] # f
                 PROVE  Executing(t)'
    BY DEF Executing
  <2>2. Alive'
    BY <1>2, <2>1 DEF Alive
  <2>3. CASE f # e
    BY <1>2, <2>1, <2>2, <2>3 DEF Executing
  <2>4. CASE f = e
    <3>1. RunPrimeTask(e)
      BY <2>1, <2>4 DEF Executes, ExecutionEnds
    <3>2. exec[e].pc = "run" /\ exec'[e].pc = "report" /\ job'[e] = t
      BY <1>1, <2>1, <2>4, <3>1 DEF Executes, RunPrimeTask, ThreadIs, Idle
    <3>3. \A th \in Thread : caller'[th] # e
      BY <1>2, <3>2 DEF Context, SystemInv, CallsMatch, CallersAreServed
    <3>. QED BY <2>2, <3>2, <3>3 DEF Executing
  <2>. QED BY <2>3, <2>4
<1>4. KeepsProcess(t) /\ Serving' = Serving /\ \A w : Beats(w)' = Beats(w)
  BY <1>2 DEF KeepsProcess, WillEnd, WillFallSilent, WillClose, Late, Alive, Serving, Beats
<1>. QED BY <1>2, <1>3, <1>4, AllKept DEF Balanced

(* A lost answer of ReportResult may have its task executed again.         *)
LEMMA ReportLostBalanced ==
  ASSUME Context, NEW t \in Task, NEW e \in ExecThread, ReportLost(e)
  PROVE  Balanced(t)
<1>. USE CoordinatorUnchanged
<1>1. /\ UNCHANGED <<coordinatorVars, g_draining, assign, hb_pc, main_pc, id, handler, carried, executions>>
      /\ Trouble /\ HangUp(e)
  BY DEF ReportLost, ReportFails, ThreadIs
<1>2. \A th \in Thread : caller[th] = "main" => caller'[th] = "main"
  BY <1>1, OrchestratorAssumption DEF HangUp
<1>3. KeepsProcess(t) /\ Serving' = Serving /\ \A w : Beats(w)' = Beats(w)
  BY <1>1 DEF KeepsProcess, WillEnd, WillFallSilent, WillClose, Late, Alive, Serving, Beats
<1>. DEFINE S == Claims(t) \cup {<<"task", "">>, <<"task", "">>, <<"task", "">>}
<1>4. Claims(t) \subseteq S /\ <<"task", "">> \in S
  OBVIOUS
<1>. HIDE DEF S
<1>5. Claims(t)' \subseteq S
  BY <1>1, <1>2, <1>3, <1>4, ClaimsWithin, ClaimsAre
     DEF KeepsLists, KeepsProcess, KeepsCalls, KeepsPool
<1>6. Incurred(t)
  BY <1>5 DEF Incurred, S
<1>. QED BY <1>1, <1>6 DEF Balanced

-----------------------------------------------------------------------------
(* The coordinator's threads.                                              *)

(* Where the dispatch thread may be, if it is not between the selection of *)
(* a task and its assignment.                                              *)
LEMMA NoHandlerLeft ==
  ASSUME Context, d_pc # "rpc"
  PROVE  handler = "none"
BY DEF Context, SystemInv, CallsMatch, AssignmentMatches

(* requeue_task(u), as seen from t.                                        *)
LEMMA RequeueStep ==
  ASSUME Context, NEW t \in Task, NEW u, C!requeue_task(u)
  PROVE  /\ t # u \/ ~InFlightNow(t) => RecordSame(t)
         /\ t = u => ~InFlightNow(t)'
         /\ InFlightNow(t)' => RecordSame(t)
<1>1. C!StoreTypeOK
  BY DEF Context, C!IInv, C!TypeOK
<1>2. /\ DOMAIN tasks' = DOMAIN tasks
      /\ \A v \in DOMAIN tasks : v # u => tasks'[v] = tasks[v]
      /\ u \in DOMAIN tasks =>
           \/ tasks[u].state \in C!Terminal /\ tasks'[u] = tasks[u]
           \/ tasks[u].state \notin C!Terminal /\ tasks'[u].state = "PENDING"
  BY <1>1, C!RequeueEffect, CoordinatorConstants, OrchestratorAssumption
<1>3. t \in DOMAIN tasks => tasks[t].state \in C!TaskState
  BY <1>1 DEF C!StoreTypeOK, C!TaskRecord
<1>4. t = u => ~InFlightNow(t)'
  BY <1>2 DEF InFlightNow, C!InFlight, C!Terminal
<1>5. t = u /\ ~InFlightNow(t) => RecordSame(t)
  BY <1>2, <1>3 DEF InFlightNow, RecordSame, C!InFlight, C!Terminal, C!TaskState
<1>6. t # u => RecordSame(t)
  BY <1>2 DEF RecordSame, InFlightNow
<1>. QED BY <1>4, <1>5, <1>6

(* A step of the coordinator by itself.                                    *)
LEMMA ThreadKept ==
  ASSUME NEW t, UNCHANGED <<workerVars, linkVars>>, NoTrouble, UNCHANGED rpc,
         Redispatchable(t)' => Redispatchable(t), Exposed(t)' => Exposed(t),
         KeepsLists(t), KeepsPool
  PROVE  Balanced(t)
<1>1. KeepsProcess(t) /\ KeepsCalls(t) /\ UNCHANGED executions
  BY WorkerUnchanged DEF KeepsCalls, Orphaned, MayRequeue
<1>. QED BY <1>1, AllKept DEF Balanced

(* It exchanges one claim for another.                                     *)
LEMMA ThreadSwapped ==
  ASSUME NEW t, UNCHANGED <<workerVars, linkVars>>, NoTrouble, UNCHANGED rpc,
         NEW tag \in {"task", "listed", "dead", "exposed", "silent"}, NEW v,
         <<tag, v>> \in Claims(t), NEW x, NEW S, S = (Claims(t) \ {<<tag, v>>}) \cup {x},
         Redispatchable(t)' => <<"task", "">> \in S,
         t \in h_todo' => <<"listed", "">> \in S,
         h_pc' = "collect" => <<"dead", "">> \in S,
         Exposed(t)' => <<"exposed", "">> \in S,
         \A w \in Worker : Suspect(w)' => <<"silent", w>> \in S
  PROVE  Balanced(t)
<1>1. KeepsProcess(t) /\ KeepsCalls(t) /\ UNCHANGED executions
  BY WorkerUnchanged DEF KeepsCalls, Orphaned, MayRequeue
<1>2. \A c \in Claims(t) : c # <<tag, v>> => c \in S
  OBVIOUS
<1>3. \A c : /\ <<"loss", c>> # <<tag, v>> /\ <<"silence", c>> # <<tag, v>>
             /\ <<"closing", c>> # <<tag, v>> /\ <<"late", c>> # <<tag, v>>
             /\ <<"orphan", c>> # <<tag, v>> /\ <<"requeue", c>> # <<tag, v>>
  OBVIOUS
<1>4. Claims(t)' \subseteq S
  BY <1>1, <1>2, <1>3, ClaimsWithin, ClaimsAre DEF KeepsProcess, KeepsCalls
<1>5. Swapped(t)
  BY <1>4 DEF Swapped
<1>. QED BY <1>1, <1>5 DEF Balanced

(* What a step of the dispatch thread leaves alone.                        *)
LEMMA DispatchLeaves ==
  ASSUME Context, NEW t, Scheduling(C!Dispatch)
  PROVE  /\ UNCHANGED <<workerVars, linkVars>> /\ NoTrouble /\ UNCHANGED rpc
         /\ C!DispatchStep /\ d_pc # "rpc" /\ handler' = "none"
         /\ Serving' = Serving /\ (Executing(t) => Executing(t)')
         /\ KeepsLists(t) /\ h_todo' = h_todo /\ h_pc' = h_pc /\ KeepsPool
<1>. USE DEF C!healthVars, C!DispatchStep, C!DispatchWait, C!DispatchWake, C!DispatchGivesUp,
             C!DispatchSelect, C!DispatchPop, C!DispatchNothingPending, C!AssignSucceeded,
             C!DispatchIncrement, C!DispatchRequeue, C!DispatchCollect, C!DispatchSweep
<1>1. UNCHANGED <<workerVars, linkVars>> /\ NoTrouble /\ UNCHANGED rpc /\ C!DispatchStep
  BY DEF Scheduling, C!Dispatch, C!serviceVars
<1>2. /\ Serving' = Serving /\ (Executing(t) => Executing(t)') /\ handler' = handler
      /\ \A w : Beats(w)' = Beats(w)
  BY <1>1, WorkerUnchanged
<1>3. d_pc # "rpc"
  BY <1>1
<1>4. handler' = "none"
  BY <1>2, <1>3, NoHandlerLeft
<1>5. h_todo' = h_todo /\ h_pc' = h_pc /\ h_dead' = h_dead
  BY <1>1
<1>6. ASSUME NEW w \in Worker
      PROVE  w \in DOMAIN workers' => /\ w \in DOMAIN workers
               /\ workers'[w].alive = workers[w].alive /\ workers'[w].silent = workers[w].silent
  <2>1. UNCHANGED workers \/ C!increment_load(d_worker)
    BY <1>1
  <2>. QED BY <2>1
           DEF Context, C!IInv, C!TypeOK, C!PoolTypeOK, C!WorkerInfo, C!increment_load
<1>7. KeepsPool
  BY <1>2, <1>5, <1>6 DEF KeepsPool, Suspect
<1>. QED BY <1>1, <1>2, <1>3, <1>4, <1>5, <1>7 DEF KeepsLists

(* The dispatch thread.  What it sweeps had no other claim than that it    *)
(* was about to be swept.                                                  *)
LEMMA DispatchBalanced ==
  ASSUME Context, NEW t \in Task, Scheduling(C!Dispatch)
  PROVE  Balanced(t)
<1>1. /\ UNCHANGED <<workerVars, linkVars>> /\ NoTrouble /\ UNCHANGED rpc
      /\ KeepsLists(t) /\ KeepsPool
  BY DispatchLeaves
<1>2. /\ C!DispatchStep /\ d_pc # "rpc" /\ handler' = "none"
      /\ Serving' = Serving /\ (Executing(t) => Executing(t)') /\ h_todo' = h_todo /\ h_pc' = h_pc
  BY DispatchLeaves
<1>3. ASSUME Redispatchable(t)' => Redispatchable(t), Exposed(t)' => Exposed(t)
      PROVE  Balanced(t)
  BY <1>1, <1>3, ThreadKept
<1>4. ASSUME RecordSame(t), Offered(t)' <=> Offered(t), Agreed(t)' <=> Agreed(t),
             AboutToSweep(t)' => AboutToSweep(t)
      PROVE  Balanced(t)
  <2>1. Redispatchable(t)' => Redispatchable(t)
    BY <1>2, <1>4, SameTask
  <2>2. Exposed(t)' => Exposed(t)
    BY <1>2, <1>4, SameExposure
  <2>. QED BY <1>3, <2>1, <2>2
<1>5. C!StoreTypeOK /\ C!DispatchControl /\ d_todo \subseteq Task
  BY DEF Context, C!IInv, C!TypeOK, C!SchedulerTypeOK
<1>6. CASE \/ C!DispatchWait \/ C!DispatchWake \/ C!DispatchGivesUp
           \/ \E w \in Worker : C!DispatchSelect(w)
           \/ C!DispatchNothingPending \/ C!DispatchIncrement
  <2>1. UNCHANGED tasks /\ d_pc \notin {"rpc", "accepted"}
        /\ d_pc' \notin {"rpc", "accepted", "requeue", "collect", "sweep"}
    BY <1>6 DEF C!DispatchWait, C!DispatchWake, C!DispatchGivesUp, C!DispatchSelect,
       C!DispatchNothingPending, C!DispatchIncrement, C!pop_pending_nullopt, C!storeVars,
       C!EnterDispatch, C!LeaveDispatch
  <2>2. RecordSame(t)
    BY <2>1 DEF RecordSame
  <2>3. ~Offered(t) /\ ~Offered(t)' /\ ~Agreed(t) /\ ~Agreed(t)' /\ ~AboutToSweep(t)'
    BY <2>1 DEF Offered, Agreed, AboutToSweep
  <2>. QED BY <1>4, <2>2, <2>3
<1>7. ASSUME NEW u \in Task, C!DispatchPop(u)
      PROVE  Balanced(t)
  <2>1. /\ UNCHANGED tasks /\ u \in DOMAIN tasks /\ tasks[u].state = "PENDING"
        /\ d_pc = "pop" /\ d_pc' = "rpc" /\ d_task' = u
    BY <1>7 DEF C!DispatchPop, C!pop_pending, C!Ready, C!Queued
  <2>2. RecordSame(t) /\ ~Agreed(t) /\ ~Agreed(t)' /\ ~AboutToSweep(t)'
    BY <2>1 DEF RecordSame, Agreed, AboutToSweep
  <2>3. CASE t # u
    <3>1. ~Offered(t) /\ ~Offered(t)'
      BY <2>1, <2>3 DEF Offered
    <3>. QED BY <1>4, <2>2, <3>1
  <2>4. CASE t = u
    <3>1. Redispatchable(t)
      BY <2>1, <2>2, <2>4 DEF Redispatchable, Unassigned
    <3>2. ~Exposed(t)'
      BY <1>2, <2>1, <2>2, <2>4 DEF Exposed, OnCall, InFlightNow, C!InFlight
    <3>. QED BY <1>3, <3>1, <3>2
  <2>. QED BY <2>3, <2>4
<1>8. CASE C!AssignSucceeded
  <2>1. /\ d_pc = "accepted" /\ d_pc' = "increment" /\ d_task' = NoTask /\ d_task \in DOMAIN tasks
        /\ tasks' = [tasks EXCEPT ![d_task].state = "ASSIGNED",
                                  ![d_task].assigned_worker = d_worker,
                                  ![d_task].overdue = FALSE]
    BY <1>5, <1>8 DEF C!AssignSucceeded, C!assign_task, C!DispatchControl
  <2>2. ~Offered(t) /\ ~Offered(t)' /\ ~Agreed(t)' /\ ~AboutToSweep(t)'
    BY <2>1 DEF Offered, Agreed, AboutToSweep
  <2>3. CASE t # d_task
    <3>1. RecordSame(t) /\ ~Agreed(t)
      BY <2>1, <2>3 DEF RecordSame, Agreed, InFlightNow
    <3>. QED BY <1>4, <2>2, <3>1
  <2>4. CASE t = d_task
    <3>1. t \in DOMAIN tasks' /\ tasks'[t].state = "ASSIGNED" /\ tasks'[t].overdue = FALSE
      BY <1>5, <2>1, <2>4 DEF C!StoreTypeOK, C!TaskRecord
    <3>2. Agreed(t)
      BY <2>1, <2>4 DEF Agreed
    <3>3. Redispatchable(t)' => Redispatchable(t)
      BY <1>2, <2>2, <3>1, <3>2 DEF Redispatchable, Unassigned, Abandoned
    <3>4. Exposed(t)' => Exposed(t)
      BY <1>2, <2>2, <3>2 DEF Exposed, OnCall
    <3>. QED BY <1>3, <3>3, <3>4
  <2>. QED BY <2>3, <2>4
<1>9. CASE C!DispatchRequeue
  <2>1. /\ d_pc = "requeue" /\ d_pc' = "collect" /\ C!requeue_task(d_task) /\ d_worker' = d_worker
        /\ tasks[d_task].state \notin C!InFlight
    BY <1>9 DEF C!DispatchRequeue, Context, C!HeldNotInFlight
  <2>2. RecordSame(t)
    BY <2>1, RequeueStep DEF InFlightNow
  <2>3. ~Offered(t) /\ ~Offered(t)' /\ ~Agreed(t) /\ ~Agreed(t)'
    BY <2>1 DEF Offered, Agreed
  <2>4. AboutToSweep(t)' => AboutToSweep(t)
    BY <2>1, <2>2 DEF AboutToSweep, RecordSame, InFlightNow
  <2>. QED BY <1>4, <2>2, <2>3, <2>4
<1>10. CASE C!DispatchCollect
  <2>1. /\ d_pc = "collect" /\ d_pc' \in {"sweep", "select"} /\ UNCHANGED tasks
        /\ d_todo' = C!get_tasks_for_worker(d_worker)
    BY <1>10 DEF C!DispatchCollect, C!storeVars
  <2>2. RecordSame(t) /\ ~Offered(t) /\ ~Offered(t)' /\ ~Agreed(t) /\ ~Agreed(t)'
    BY <2>1 DEF RecordSame, Offered, Agreed
  <2>3. AboutToSweep(t)' => AboutToSweep(t)
    BY <2>1 DEF AboutToSweep, InFlightNow, C!get_tasks_for_worker
  <2>. QED BY <1>4, <2>2, <2>3
<1>11. ASSUME NEW u \in Task, C!DispatchSweep(u)
       PROVE  Balanced(t)
  <2>1. /\ d_pc = "sweep" /\ u \in d_todo /\ C!requeue_task(u) /\ d_todo' = d_todo \ {u}
        /\ d_pc' \in {"sweep", "select"}
    BY <1>11 DEF C!DispatchSweep, C!EndIteration
  <2>2. ~Offered(t) /\ ~Offered(t)' /\ ~Agreed(t) /\ ~Agreed(t)'
    BY <2>1 DEF Offered, Agreed
  <2>3. CASE t # u \/ ~InFlightNow(t)
    <3>1. RecordSame(t)
      BY <2>1, <2>3, RequeueStep
    <3>2. AboutToSweep(t)' => AboutToSweep(t)
      BY <2>1, <3>1 DEF AboutToSweep, RecordSame, InFlightNow
    <3>. QED BY <1>4, <2>2, <3>1, <3>2
  <2>4. CASE t = u /\ InFlightNow(t)
    <3>1. ~InFlightNow(t)'
      BY <2>1, <2>4, RequeueStep
    <3>2. Exposed(t) /\ ~Exposed(t)'
      BY <1>2, <2>1, <2>2, <2>4, <3>1 DEF Exposed, OnCall, AboutToSweep
    <3>3. <<"exposed", "">> \in Claims(t)
      BY <3>2, ClaimsAre
    <3>. DEFINE S == (Claims(t) \ {<<"exposed", "">>}) \cup {<<"task", "">>}
    <3>4. <<"task", "">> \in S /\ \A c \in Claims(t) : c # <<"exposed", "">> => c \in S
      OBVIOUS
    <3>5. S = (Claims(t) \ {<<"exposed", "">>}) \cup {<<"task", "">>}
      OBVIOUS
    <3>. HIDE DEF S
    <3>6. /\ t \in h_todo' => <<"listed", "">> \in S
          /\ h_pc' = "collect" => <<"dead", "">> \in S
          /\ \A w \in Worker : Suspect(w)' => <<"silent", w>> \in S
      BY <1>1, <3>4, ClaimsAre DEF KeepsLists, KeepsPool
    <3>. QED BY <1>1, <3>2, <3>3, <3>4, <3>5, <3>6, ThreadSwapped
  <2>. QED BY <2>3, <2>4
<1>. QED BY <1>2, <1>6, <1>7, <1>8, <1>9, <1>10, <1>11 DEF C!DispatchStep

(* The health check.  It buries a worker it may find dead, lists the tasks *)
(* of a worker it has buried or those it has found overdue, and requeues   *)
(* what it has listed.                                                     *)
LEMMA HealthBalanced ==
  ASSUME Context, NEW t \in Task, Scheduling(C!Health)
  PROVE  Balanced(t)
<1>. USE DEF C!dispatchVars, C!storeVars
<1>1. UNCHANGED <<workerVars, linkVars>> /\ NoTrouble /\ UNCHANGED rpc /\ C!HealthStep
  BY DEF Scheduling, C!Health, C!serviceVars
<1>2. /\ Serving' = Serving /\ (Executing(t) => Executing(t)') /\ handler' = handler
      /\ \A w : Beats(w)' = Beats(w)
  BY <1>1, WorkerUnchanged
<1>3. UNCHANGED <<d_worker, d_task, d_todo>> /\ d_pc' \in {d_pc, IF d_pc = "wait" THEN "woken" ELSE d_pc}
  BY <1>1 DEF C!HealthStep, C!HealthStop, C!HealthScan, C!HealthBury, C!HealthCollect,
     C!HealthSweep, C!HealthTimeouts, C!HealthExpire, C!notify
<1>4. (Offered(t)' <=> Offered(t)) /\ (Agreed(t)' <=> Agreed(t))
  BY <1>3 DEF Offered, Agreed
<1>5. RecordSame(t) \/ ~InFlightNow(t)' => (AboutToSweep(t)' => AboutToSweep(t))
  BY <1>3 DEF AboutToSweep, RecordSame, InFlightNow
<1>6. ASSUME RecordSame(t) \/ ~InFlightNow(t)'
      PROVE  Exposed(t)' => Exposed(t)
  <2>1. InFlightNow(t)' => InFlightNow(t)
    BY <1>6 DEF RecordSame, InFlightNow
  <2>. QED BY <1>2, <1>3, <1>4, <1>5, <1>6, <2>1 DEF Exposed, OnCall
<1>7. C!StoreTypeOK /\ C!PoolTypeOK /\ C!ListIsWalked
  BY DEF Context, C!IInv, C!TypeOK
<1>8. CASE C!HealthStop \/ C!HealthScan
  <2>1. /\ UNCHANGED <<tasks, workers, h_todo>> /\ h_pc' # "collect"
        /\ h_dead' \subseteq h_dead \cup C!find_dead_workers
    BY <1>8 DEF C!HealthStop, C!HealthScan
  <2>2. RecordSame(t) /\ KeepsLists(t)
    BY <2>1 DEF RecordSame, KeepsLists
  <2>3. KeepsPool
    BY <1>2, <2>1 DEF KeepsPool, Suspect, C!find_dead_workers
  <2>4. Redispatchable(t)' => Redispatchable(t)
    BY <1>2, <1>4, <2>1, <2>2, SameTask
  <2>. QED BY <1>1, <1>6, <2>2, <2>3, <2>4, ThreadKept
<1>9. ASSUME NEW w \in Worker, C!HealthBury(w)
      PROVE  Balanced(t)
  <2>1. /\ UNCHANGED <<tasks, h_todo>> /\ w \in h_dead /\ h_dead' = h_dead \ {w}
        /\ C!mark_dead(w)
    BY <1>9 DEF C!HealthBury
  <2>2. RecordSame(t)
    BY <2>1 DEF RecordSame
  <2>3. Redispatchable(t)' => Redispatchable(t)
    BY <1>2, <1>4, <2>1, <2>2, SameTask
  <2>4. ~Suspect(w)'
    BY <1>7, <2>1 DEF Suspect, C!mark_dead, C!PoolTypeOK, C!WorkerInfo
  <2>5. \A v \in Worker \ {w} : Suspect(v)' => Suspect(v)
    BY <1>2, <2>1 DEF Suspect, C!mark_dead
  <2>6. <<"silent", w>> \in Claims(t)
    BY <2>1, ClaimsAre DEF Suspect
  <2>. DEFINE S == (Claims(t) \ {<<"silent", w>>}) \cup {<<"dead", "">>}
  <2>7. <<"dead", "">> \in S /\ \A c \in Claims(t) : c # <<"silent", w>> => c \in S
    OBVIOUS
  <2>8. S = (Claims(t) \ {<<"silent", w>>}) \cup {<<"dead", "">>}
    OBVIOUS
  <2>. HIDE DEF S
  <2>9. \A v \in Worker : Suspect(v)' => <<"silent", v>> \in S
    BY <2>4, <2>5, <2>7, ClaimsAre
  <2>10. /\ Redispatchable(t)' => <<"task", "">> \in S
         /\ t \in h_todo' => <<"listed", "">> \in S
         /\ Exposed(t)' => <<"exposed", "">> \in S
    BY <1>6, <2>1, <2>2, <2>3, <2>7, ClaimsAre
  <2>. QED BY <1>1, <2>6, <2>7, <2>8, <2>9, <2>10, ThreadSwapped
<1>10. ASSUME UNCHANGED <<tasks, workers>>, h_dead' = h_dead, h_todo = {}, h_pc' # "collect",
              NEW tag \in {"task", "dead"}, <<tag, "">> \in Claims(t),
              t \in h_todo' /\ tag = "task" => ~Redispatchable(t)',
              t \in h_todo'
       PROVE  Balanced(t)
  <2>1. RecordSame(t)
    BY <1>10 DEF RecordSame
  <2>2. Redispatchable(t)' => Redispatchable(t)
    BY <1>2, <1>4, <1>10, <2>1, SameTask
  <2>3. \A v \in Worker : Suspect(v)' => Suspect(v)
    BY <1>2, <1>10 DEF Suspect
  <2>. DEFINE S == (Claims(t) \ {<<tag, "">>}) \cup {<<"listed", "">>}
  <2>4. <<"listed", "">> \in S /\ \A c \in Claims(t) : c # <<tag, "">> => c \in S
    OBVIOUS
  <2>5. S = (Claims(t) \ {<<tag, "">>}) \cup {<<"listed", "">>}
    OBVIOUS
  <2>. HIDE DEF S
  <2>6. \A v \in Worker : Suspect(v)' => <<"silent", v>> \in S
    BY <2>3, <2>4, ClaimsAre
  <2>7. Redispatchable(t)' => <<"task", "">> \in S
    BY <1>10, <2>2, <2>4, ClaimsAre
  <2>8. Exposed(t)' => <<"exposed", "">> \in S
    BY <1>6, <2>1, <2>4, ClaimsAre
  <2>. QED BY <1>1, <1>10, <2>4, <2>5, <2>6, <2>7, <2>8, ThreadSwapped
<1>11. ASSUME UNCHANGED <<tasks, workers>>, h_dead' = h_dead, h_todo = {}, h_pc' # "collect",
              t \notin h_todo'
       PROVE  Balanced(t)
  <2>1. RecordSame(t) /\ KeepsLists(t) /\ KeepsPool
    BY <1>2, <1>11 DEF RecordSame, KeepsLists, KeepsPool, Suspect
  <2>2. Redispatchable(t)' => Redispatchable(t)
    BY <1>2, <1>4, <1>11, <2>1, SameTask
  <2>. QED BY <1>1, <1>6, <2>1, <2>2, ThreadKept
<1>12. CASE C!HealthCollect
  <2>1. /\ UNCHANGED <<tasks, workers>> /\ h_dead' = h_dead /\ h_todo = {}
        /\ h_pc = "collect" /\ h_pc' # "collect"
    BY <1>7, <1>12 DEF C!HealthCollect, C!NextDeadWorker, C!ListIsWalked
  <2>2. <<"dead", "">> \in Claims(t)
    BY <2>1, ClaimsAre
  <2>. QED BY <1>10, <1>11, <2>1, <2>2
<1>13. CASE C!HealthTimeouts
  <2>1. /\ UNCHANGED <<tasks, workers>> /\ h_dead' = h_dead /\ h_todo = {} /\ h_pc' # "collect"
        /\ h_todo' = C!get_timed_out_tasks
    BY <1>7, <1>13 DEF C!HealthTimeouts, C!ListIsWalked
  <2>2. CASE t \in h_todo'
    <3>1. t \in DOMAIN tasks /\ InFlightNow(t) /\ tasks[t].overdue
      BY <2>1, <2>2 DEF C!get_timed_out_tasks, InFlightNow
    <3>2. ~Offered(t)
      BY <3>1 DEF Offered, InFlightNow, Context, C!HeldNotInFlight
    <3>3. Redispatchable(t)
      BY <2>1, <3>1 DEF Redispatchable, Abandoned
    <3>4. ~Redispatchable(t)'
      BY <1>4, <2>1, <2>2, <3>1, <3>2 DEF Redispatchable, Unassigned, InFlightNow, C!InFlight
    <3>5. <<"task", "">> \in Claims(t)
      BY <3>3, ClaimsAre
    <3>. QED BY <1>10, <2>1, <2>2, <3>4, <3>5
  <2>. QED BY <1>11, <2>1, <2>2
<1>14. ASSUME NEW u \in Task, C!HealthSweep(u) \/ C!HealthExpire(u)
       PROVE  Balanced(t)
  <2>1. /\ u \in h_todo /\ C!requeue_task(u) /\ h_todo' = h_todo \ {u}
        /\ h_pc' # "collect" /\ UNCHANGED <<workers, h_dead>>
    BY <1>14 DEF C!HealthSweep, C!HealthExpire, C!NextDeadWorker
  <2>2. KeepsPool
    BY <1>2, <2>1 DEF KeepsPool, Suspect
  <2>3. CASE t # u
    <3>1. RecordSame(t) /\ KeepsLists(t)
      BY <2>1, <2>3, RequeueStep DEF KeepsLists
    <3>2. Redispatchable(t)' => Redispatchable(t)
      BY <1>2, <1>4, <2>1, <2>3, <3>1, SameTask
    <3>. QED BY <1>1, <1>6, <2>2, <3>1, <3>2, ThreadKept
  <2>4. CASE t = u
    <3>1. ~InFlightNow(t)'
      BY <2>1, <2>4, RequeueStep
    <3>2. <<"listed", "">> \in Claims(t)
      BY <2>1, <2>4, ClaimsAre
    <3>. DEFINE S == (Claims(t) \ {<<"listed", "">>}) \cup {<<"task", "">>}
    <3>3. <<"task", "">> \in S /\ \A c \in Claims(t) : c # <<"listed", "">> => c \in S
      OBVIOUS
    <3>4. S = (Claims(t) \ {<<"listed", "">>}) \cup {<<"task", "">>}
      OBVIOUS
    <3>. HIDE DEF S
    <3>5. /\ Exposed(t)' => <<"exposed", "">> \in S
          /\ \A w \in Worker : Suspect(w)' => <<"silent", w>> \in S
      BY <1>6, <2>2, <3>1, <3>3, ClaimsAre DEF KeepsPool
    <3>. QED BY <1>1, <2>1, <2>4, <3>2, <3>3, <3>4, <3>5, ThreadSwapped
  <2>. QED BY <2>3, <2>4
<1>. QED BY <1>1, <1>8, <1>9, <1>12, <1>13, <1>14 DEF C!HealthStep

(* wait_for returns.                                                       *)
LEMMA WaitTimeoutBalanced ==
  ASSUME NEW t \in Task, Scheduling(C!WaitTimeout)
  PROVE  Balanced(t)
<1>1. /\ UNCHANGED <<workerVars, linkVars>> /\ NoTrouble /\ d_pc = "wait" /\ d_pc' = "woken"
      /\ UNCHANGED <<rpc, tasks, workers, d_worker, d_task, d_todo, h_pc, h_dead, h_todo>>
  BY DEF Scheduling, C!WaitTimeout, C!DispatchWaitTimeout, C!serviceVars, C!healthVars, C!storeVars
<1>2. /\ Serving' = Serving /\ (Executing(t) => Executing(t)') /\ handler' = handler
      /\ \A w : Beats(w)' = Beats(w)
  BY <1>1, WorkerUnchanged
<1>3. /\ RecordSame(t) /\ KeepsLists(t) /\ KeepsPool /\ ~Offered(t) /\ ~Offered(t)'
      /\ ~Agreed(t) /\ ~Agreed(t)' /\ ~AboutToSweep(t)'
  BY <1>1, <1>2 DEF RecordSame, KeepsLists, KeepsPool, Suspect, Offered, Agreed, AboutToSweep
<1>4. Redispatchable(t)' => Redispatchable(t)
  BY <1>1, <1>2, <1>3, SameTask
<1>5. Exposed(t)' => Exposed(t)
  BY <1>1, <1>2, <1>3, SameExposure
<1>. QED BY <1>1, <1>3, <1>4, <1>5, ThreadKept

(* A task that is submitted could be submitted before.                     *)
LEMMA SubmitBalanced ==
  ASSUME Context, NEW t \in Task,
         NEW u \in Task, NEW p \in Priority, NEW now \in Clock, Scheduling(C!Submit(u, p, now))
  PROVE  Balanced(t)
<1>1. /\ UNCHANGED <<workerVars, linkVars>> /\ NoTrouble
      /\ UNCHANGED <<rpc, workers, d_worker, d_task, d_todo, h_pc, h_dead, h_todo>>
      /\ C!add_task(u, p, now) /\ C!notify
  BY DEF Scheduling, C!Submit, C!SubmitTask, C!serviceVars, C!healthVars, C!handlerUnchanged
<1>2. /\ Serving' = Serving /\ (Executing(t) => Executing(t)') /\ handler' = handler
      /\ \A w : Beats(w)' = Beats(w)
  BY <1>1, WorkerUnchanged
<1>3. KeepsLists(t) /\ KeepsPool
  BY <1>1, <1>2 DEF KeepsLists, KeepsPool, Suspect
<1>4. (Offered(t)' <=> Offered(t)) /\ (Agreed(t)' <=> Agreed(t))
  BY <1>1 DEF Offered, Agreed, C!notify
<1>5. CASE t # u
  <2>1. RecordSame(t)
    BY <1>1, <1>5 DEF RecordSame, InFlightNow, C!add_task
  <2>2. AboutToSweep(t)' => AboutToSweep(t)
    BY <1>1, <2>1 DEF AboutToSweep, RecordSame, InFlightNow, C!notify
  <2>3. Redispatchable(t)' => Redispatchable(t)
    BY <1>1, <1>2, <1>4, <2>1, SameTask
  <2>4. Exposed(t)' => Exposed(t)
    BY <1>1, <1>2, <1>4, <2>1, <2>2, SameExposure
  <2>. QED BY <1>1, <1>3, <2>3, <2>4, ThreadKept
<1>6. CASE t = u
  <2>1. t \notin DOMAIN tasks /\ tasks'[t].state = "PENDING"
    BY <1>1, <1>6 DEF C!add_task
  <2>2. Redispatchable(t)
    BY <2>1 DEF Redispatchable, Unassigned
  <2>3. handler # "none" => d_pc = "rpc"
    BY DEF Context, SystemInv, CallsMatch, AssignmentMatches
  <2>4. ~Agreed(t) /\ ~(handler # "none" /\ d_task = t)
    BY <2>1, <2>3 DEF Agreed, Context, C!IInv, C!DispatchControl
  <2>5. ~Exposed(t)'
    BY <1>1, <1>2, <1>4, <2>1, <2>4 DEF Exposed, OnCall, InFlightNow, C!InFlight
  <2>. QED BY <1>1, <1>3, <2>2, <2>5, ThreadKept
<1>. QED BY <1>5, <1>6

-----------------------------------------------------------------------------
(* Time.                                                                   *)

(* A heartbeat that is missed, or an execution time that elapses, changes  *)
(* one field of one record.                                                *)
LEMMA SilenceStep ==
  ASSUME Context, NEW t, NEW w \in Worker, C!WorkerFallsSilent(w), UNCHANGED <<workerVars, linkVars>>
  PROVE  /\ UNCHANGED rpc /\ KeepsLists(t)
         /\ (Redispatchable(t)' => Redispatchable(t)) /\ (Exposed(t)' => Exposed(t))
         /\ \A v \in Worker : Suspect(v)' => Suspect(v) \/ v = w
         /\ ~Beats(w) => KeepsPool
<1>1. /\ UNCHANGED <<rpc, tasks, d_pc, d_worker, d_task, d_todo, h_pc, h_dead, h_todo>>
      /\ w \in DOMAIN workers /\ workers' = [workers EXCEPT ![w].silent = TRUE]
  BY DEF C!WorkerFallsSilent, C!HeartbeatsMissed, C!schedulerVars, C!serviceVars, C!storeVars,
     C!dispatchVars, C!healthVars
<1>2. /\ Serving' = Serving /\ (Executing(t) => Executing(t)') /\ handler' = handler
      /\ \A v : Beats(v)' = Beats(v)
  BY WorkerUnchanged
<1>3. RecordSame(t) /\ KeepsLists(t)
  BY <1>1 DEF RecordSame, KeepsLists
<1>4. /\ (Offered(t)' <=> Offered(t)) /\ (Agreed(t)' <=> Agreed(t))
      /\ (AboutToSweep(t)' => AboutToSweep(t))
  BY <1>1 DEF Offered, Agreed, AboutToSweep, InFlightNow
<1>5. Redispatchable(t)' => Redispatchable(t)
  BY <1>1, <1>2, <1>3, <1>4, SameTask
<1>6. Exposed(t)' => Exposed(t)
  BY <1>1, <1>2, <1>3, <1>4, SameExposure
<1>7. \A v \in Worker : Suspect(v)' => Suspect(v) \/ v = w
  BY <1>1, <1>2 DEF Suspect
<1>8. ~Beats(w) => (Suspect(w)' => Suspect(w))
  BY <1>1, <1>2 DEF Suspect, Context, C!IInv, C!TypeOK, C!PoolTypeOK, C!WorkerInfo
<1>. QED BY <1>1, <1>3, <1>5, <1>6, <1>7, <1>8 DEF KeepsPool

(* A task that takes too long may be abandoned for it, no other task is.   *)
LEMMA OverrunStep ==
  ASSUME Context, NEW t \in Task, NEW u \in Task, C!TaskOverruns(u), UNCHANGED <<workerVars, linkVars>>
  PROVE  /\ UNCHANGED rpc /\ KeepsLists(t) /\ KeepsPool
         /\ (Exposed(t)' => Exposed(t))
         /\ t # u \/ ~HasTask(u) => (Redispatchable(t)' => Redispatchable(t))
<1>1. /\ UNCHANGED <<rpc, workers, d_pc, d_worker, d_task, d_todo, h_pc, h_dead, h_todo>>
      /\ u \in DOMAIN tasks /\ tasks' = [tasks EXCEPT ![u].overdue = TRUE]
  BY DEF C!TaskOverruns, C!ExecutionTimeElapses, C!schedulerVars, C!serviceVars,
     C!dispatchVars, C!healthVars
<1>2. /\ Serving' = Serving /\ (Executing(t) => Executing(t)') /\ handler' = handler
      /\ \A v : Beats(v)' = Beats(v)
  BY WorkerUnchanged
<1>3. KeepsLists(t) /\ KeepsPool
  BY <1>1, <1>2 DEF KeepsLists, KeepsPool, Suspect
<1>4. /\ (t \in DOMAIN tasks' <=> t \in DOMAIN tasks)
      /\ t \in DOMAIN tasks => /\ tasks'[t].state = tasks[t].state
                               /\ tasks'[t].assigned_worker = tasks[t].assigned_worker
  BY <1>1 DEF Context, C!IInv, C!TypeOK, C!StoreTypeOK, C!TaskRecord
<1>5. /\ (Offered(t)' <=> Offered(t)) /\ (Agreed(t)' <=> Agreed(t))
      /\ (InFlightNow(t)' <=> InFlightNow(t)) /\ (AboutToSweep(t)' => AboutToSweep(t))
  BY <1>1, <1>4 DEF Offered, Agreed, AboutToSweep, InFlightNow
<1>6. Exposed(t)' => Exposed(t)
  BY <1>1, <1>2, <1>5 DEF Exposed, OnCall
<1>7. CASE t # u
  <2>1. RecordSame(t)
    BY <1>1, <1>7 DEF RecordSame, InFlightNow
  <2>. QED BY <1>1, <1>2, <1>3, <1>5, <1>6, <2>1, SameTask
<1>8. CASE t = u /\ ~HasTask(u)
  <2>1. ~Executing(t)
    BY <1>8 DEF Executing, HasTask
  <2>2. Redispatchable(t)' => Redispatchable(t)
    BY <1>1, <1>4, <1>5, <2>1 DEF Redispatchable, Unassigned, Abandoned
  <2>. QED BY <1>1, <1>3, <1>6, <2>2
<1>. QED BY <1>1, <1>3, <1>6, <1>7, <1>8

(* Where nobody beats and nobody executes, time adds nothing.              *)
LEMMA TimeBalanced ==
  ASSUME Context, NEW t \in Task,
         (\E w \in Worker : Silence(w)) \/ (\E u \in Task : Timeout(u))
  PROVE  Balanced(t)
<1>1. ASSUME NEW w \in Worker, Silence(w) PROVE Balanced(t)
  <2>1. ~Beats(w) /\ NoTrouble /\ C!WorkerFallsSilent(w) /\ UNCHANGED <<workerVars, linkVars>>
    BY <1>1 DEF Silence
  <2>. QED BY <2>1, SilenceStep, ThreadKept
<1>2. ASSUME NEW u \in Task, Timeout(u) PROVE Balanced(t)
  <2>1. ~HasTask(u) /\ NoTrouble /\ C!TaskOverruns(u) /\ UNCHANGED <<workerVars, linkVars>>
    BY <1>2 DEF Timeout
  <2>. QED BY <2>1, OverrunStep, ThreadKept
<1>. QED BY <1>1, <1>2

(* A delay, of a heartbeat or of an execution, makes one claim at most.    *)
LEMMA DelayBalanced ==
  ASSUME Context, NEW t \in Task, Delay
  PROVE  Balanced(t)
<1>1. Trouble /\ UNCHANGED <<workerVars, linkVars>>
  BY DEF Delay
<1>2. ASSUME NEW x, NEW S, S = Claims(t) \cup {x, x, x}, UNCHANGED rpc, KeepsLists(t),
             Redispatchable(t)' => <<"task", "">> \in S, Exposed(t)' => Exposed(t),
             \A v \in Worker : Suspect(v)' => <<"silent", v>> \in S
      PROVE  Balanced(t)
  <2>1. KeepsProcess(t) /\ KeepsCalls(t) /\ UNCHANGED executions
    BY <1>1, <1>2, WorkerUnchanged DEF KeepsCalls, Orphaned, MayRequeue
  <2>2. \A c \in Claims(t) : c \in S
    BY <1>2
  <2>3. Claims(t)' \subseteq S
    BY <1>2, <2>1, <2>2, ClaimsWithin, ClaimsAre DEF KeepsLists, KeepsProcess, KeepsCalls
  <2>4. Incurred(t)
    BY <1>2, <2>3 DEF Incurred
  <2>. QED BY <1>1, <2>1, <2>4 DEF Balanced
<1>3. ASSUME NEW w \in Worker, C!WorkerFallsSilent(w) PROVE Balanced(t)
  <2>. DEFINE S == Claims(t) \cup {<<"silent", w>>, <<"silent", w>>, <<"silent", w>>}
  <2>1. <<"silent", w>> \in S /\ Claims(t) \subseteq S
    OBVIOUS
  <2>2. S = Claims(t) \cup {<<"silent", w>>, <<"silent", w>>, <<"silent", w>>}
    OBVIOUS
  <2>. HIDE DEF S
  <2>3. /\ Redispatchable(t)' => <<"task", "">> \in S
        /\ \A v \in Worker : Suspect(v)' => <<"silent", v>> \in S
    BY <1>1, <1>3, <2>1, SilenceStep, ClaimsAre
  <2>. QED BY <1>1, <1>2, <1>3, <2>2, <2>3, SilenceStep
<1>4. ASSUME NEW u \in Task, C!TaskOverruns(u) PROVE Balanced(t)
  <2>. DEFINE S == Claims(t) \cup {<<"task", "">>, <<"task", "">>, <<"task", "">>}
  <2>1. <<"task", "">> \in S /\ Claims(t) \subseteq S
    OBVIOUS
  <2>2. S = Claims(t) \cup {<<"task", "">>, <<"task", "">>, <<"task", "">>}
    OBVIOUS
  <2>. HIDE DEF S
  <2>3. \A v \in Worker : Suspect(v)' => <<"silent", v>> \in S
    BY <1>1, <1>4, <2>1, OverrunStep, ClaimsAre DEF KeepsPool
  <2>. QED BY <1>1, <1>2, <1>4, <2>1, <2>2, <2>3, OverrunStep
<1>. QED BY <1>3, <1>4 DEF Delay

(* A heartbeat clears its worker, whose heartbeat thread runs.             *)
LEMMA HeartbeatArrivesBalanced ==
  ASSUME Context, NEW t \in Task, HeartbeatArrives
  PROVE  Balanced(t)
<1>1. /\ UNCHANGED <<linkVars, assign, exec, main_pc, g_draining>> /\ Alive /\ NoTrouble
      /\ hb_pc = "call" /\ hb_pc' = "sleep" /\ C!heartbeat(id, hb_active)
      /\ UNCHANGED <<rpc, tasks, d_pc, d_worker, d_task, d_todo, h_pc, h_dead, h_todo>>
  BY DEF HeartbeatArrives, HeartbeatReturns, HeartbeatIs, C!Beat, C!Heartbeat, C!schedulerVars,
     C!serviceVars, C!storeVars, C!dispatchVars, C!healthVars
<1>2. UNCHANGED <<id, handler, carried, job, caller, executions>>
  BY <1>1 DEF linkVars
<1>3. Beats(id)' /\ \A w : Beats(w)' = Beats(w)
  BY <1>1, <1>2 DEF Beats, Alive, Context, HeartbeatStarts
<1>4. KeepsPool
  BY <1>1, <1>2, <1>3 DEF KeepsPool, Suspect, C!heartbeat, Context, C!IInv, C!TypeOK,
     C!PoolTypeOK, C!WorkerInfo
<1>5. KeepsProcess(t) /\ KeepsLists(t) /\ KeepsCalls(t)
  BY <1>1, <1>2 DEF KeepsProcess, KeepsLists, KeepsCalls, WillEnd, WillFallSilent, WillClose, Late,
     Alive, Orphaned, MayRequeue
<1>6. /\ RecordSame(t) /\ (Offered(t)' <=> Offered(t)) /\ (Agreed(t)' <=> Agreed(t))
      /\ (Executing(t) => Executing(t)')
  BY <1>1, <1>2 DEF RecordSame, Offered, Agreed, Executing, Alive
<1>7. (AboutToSweep(t)' => AboutToSweep(t)) /\ (Serving => Serving')
  BY <1>1 DEF AboutToSweep, InFlightNow, Serving
<1>8. Redispatchable(t)' => Redispatchable(t)
  BY <1>1, <1>6, SameTask
<1>9. Exposed(t)' => Exposed(t)
  BY <1>1, <1>2, <1>6, <1>7, SameExposure
<1>. QED BY <1>1, <1>2, <1>4, <1>5, <1>8, <1>9, AllKept DEF Balanced

-----------------------------------------------------------------------------
(* AssignTask.                                                             *)

(* A worker that refuses a task leaves it as it was: to be dispatched.     *)
LEMMA RejectStep ==
  ASSUME Context, NEW t \in Task, C!WorkerRejects
  PROVE  /\ UNCHANGED rpc /\ KeepsLists(t)
         /\ (Executing(t) => Executing(t)') => (Redispatchable(t)' => Redispatchable(t))
         /\ (handler' = "none" /\ (Serving => Serving')) => (Exposed(t)' => Exposed(t))
         /\ (\A w : Beats(w) => Beats(w)') => KeepsPool
<1>1. /\ UNCHANGED <<rpc, workers, h_pc, h_dead, h_todo>>
      /\ d_pc = "rpc" /\ C!requeue_task(d_task) /\ d_task' = NoTask
      /\ d_pc' \in {"select", "stopped", "idle"}
  BY DEF C!WorkerRejects, C!AssignRejected, C!EndIteration, C!LeaveDispatch, C!EnterDispatch,
     C!serviceVars, C!healthVars
<1>2. tasks[d_task].state \notin C!InFlight
  BY <1>1 DEF Context, C!HeldNotInFlight
<1>3. RecordSame(t)
  BY <1>1, <1>2, RequeueStep DEF InFlightNow
<1>4. KeepsLists(t) /\ ((\A w : Beats(w) => Beats(w)') => KeepsPool)
  BY <1>1 DEF KeepsLists, KeepsPool, Suspect
<1>5. ~Offered(t)' /\ ~Agreed(t)' /\ ~Agreed(t) /\ ~AboutToSweep(t)'
  BY <1>1 DEF Offered, Agreed, AboutToSweep
<1>6. (Executing(t) => Executing(t)') => (Redispatchable(t)' => Redispatchable(t))
  <2>1. CASE t = d_task
    BY <1>1, <2>1 DEF Redispatchable, Unassigned, Offered
  <2>2. CASE t # d_task
    <3>1. ~Offered(t)
      BY <2>2 DEF Offered
    <3>. QED BY <1>1, <1>3, <1>5, <3>1, SameTask
  <2>. QED BY <2>1, <2>2
<1>7. (handler' = "none" /\ (Serving => Serving')) => (Exposed(t)' => Exposed(t))
  BY <1>3, <1>5, SameExposure
<1>. QED BY <1>1, <1>4, <1>6, <1>7

(* The dispatch thread that cannot reach a worker marks it dead first.     *)
LEMMA UnreachableStep ==
  ASSUME Context, NEW t \in Task, C!WorkerUnreachable, UNCHANGED <<workerVars, id, job, caller>>
  PROVE  /\ UNCHANGED rpc /\ KeepsLists(t) /\ KeepsPool
         /\ d_pc = "rpc" => (Redispatchable(t)' => Redispatchable(t))
         /\ handler' = "none" /\ ~Serving => (Exposed(t)' => Exposed(t))
<1>1. /\ UNCHANGED <<rpc, tasks, d_task, h_pc, h_dead, h_todo>>
      /\ d_pc \in {"rpc", "accepted"} /\ d_pc' = "requeue" /\ C!mark_dead(d_worker)
  BY DEF C!WorkerUnreachable, C!AssignUnreachable, C!serviceVars, C!healthVars, C!storeVars
<1>2. /\ Serving' = Serving /\ (Executing(t) => Executing(t)')
      /\ \A w : Beats(w)' = Beats(w)
  BY DEF workerVars, vars, Serving, Executing, Alive, Beats
<1>3. KeepsLists(t) /\ KeepsPool
  BY <1>1, <1>2 DEF KeepsLists, KeepsPool, Suspect, C!mark_dead, Context, C!IInv, C!TypeOK,
     C!PoolTypeOK, C!WorkerInfo
<1>4. RecordSame(t) /\ ~Agreed(t)' /\ ~Offered(t)'
  BY <1>1 DEF RecordSame, Agreed, Offered
<1>5. ASSUME d_pc = "rpc" PROVE Redispatchable(t)' => Redispatchable(t)
  <2>1. CASE t = d_task
    BY <1>5, <2>1 DEF Redispatchable, Unassigned, Offered
  <2>2. CASE t # d_task
    <3>1. ~Offered(t) /\ ~Agreed(t)
      BY <1>5, <2>2 DEF Offered, Agreed
    <3>. QED BY <1>1, <1>2, <1>4, <3>1, SameTask
  <2>. QED BY <2>1, <2>2
<1>6. handler' = "none" /\ ~Serving => (Exposed(t)' => Exposed(t))
  BY <1>1, <1>4 DEF Exposed, OnCall, InFlightNow
<1>. QED BY <1>1, <1>3, <1>5, <1>6

(* Nobody has the call, and it is refused by the worker or by its host.    *)
LEMMA RefusedBalanced ==
  ASSUME Context, NEW t \in Task, RefusedDraining \/ ConnectionRefused
  PROVE  Balanced(t)
<1>1. /\ UNCHANGED <<workerVars, linkVars>> /\ NoTrouble /\ handler = "none" /\ d_pc = "rpc"
  BY DEF RefusedDraining, ConnectionRefused
<1>2. /\ Serving' = Serving /\ (Executing(t) => Executing(t)') /\ handler' = handler
      /\ (\A w : Beats(w)' = Beats(w)) /\ UNCHANGED <<id, job, caller>>
  BY <1>1, WorkerUnchanged DEF linkVars
<1>3. CASE RefusedDraining
  <2>1. C!WorkerRejects
    BY <1>3 DEF RefusedDraining
  <2>. QED BY <1>1, <1>2, <2>1, RejectStep, ThreadKept
<1>4. CASE ConnectionRefused
  <2>1. C!WorkerUnreachable /\ ~Serving
    BY <1>4 DEF ConnectionRefused
  <2>. QED BY <1>1, <1>2, <2>1, UnreachableStep, ThreadKept
<1>. QED BY <1>3, <1>4

(* An answer that is late: the handler may still go on to execute the      *)
(* task, which is requeued, and with it what the worker executes.          *)
LEMMA DeadlineBalanced ==
  ASSUME Context, NEW t \in Task, Deadline
  PROVE  Balanced(t)
<1>1. /\ C!WorkerUnreachable /\ UNCHANGED <<workerVars, id, carried, job, caller, executions>>
      /\ handler' = "none" /\ Trouble
  BY DEF Deadline
<1>2. (WillEnd' => WillEnd) /\ (WillFallSilent' => WillFallSilent) /\ (WillClose' => WillClose)
  BY <1>1 DEF WillEnd, WillFallSilent, WillClose, Alive, workerVars, vars
<1>3. \A a \in AssignThread : Late(t, a)' => Late(t, a) \/ a = handler
  BY <1>1 DEF Late, workerVars, vars
<1>4. KeepsLists(t) /\ KeepsPool /\ KeepsCalls(t)
  BY <1>1, UnreachableStep DEF KeepsCalls, Orphaned, MayRequeue
<1>. DEFINE S == Claims(t) \cup {<<"late", handler>>, <<"task", "">>, <<"exposed", "">>}
<1>5. /\ Claims(t) \subseteq S /\ <<"late", handler>> \in S
      /\ <<"task", "">> \in S /\ <<"exposed", "">> \in S
  OBVIOUS
<1>. HIDE DEF S
<1>6. \A a \in AssignThread : Late(t, a)' => <<"late", a>> \in S
  BY <1>3, <1>5, ClaimsAre
<1>7. Claims(t)' \subseteq S
  BY <1>2, <1>4, <1>5, <1>6, ClaimsWithin, ClaimsAre
     DEF KeepsLists, KeepsCalls, KeepsPool
<1>8. Incurred(t)
  BY <1>7 DEF Incurred, S
<1>. QED BY <1>1, <1>8 DEF Balanced

(* A handler that gets a call has its task, and serves: nothing is exposed *)
(* while the dispatch thread waits for it.                                 *)
LEMMA RpcArrivesBalanced ==
  ASSUME Context, NEW t \in Task, NEW a \in AssignThread, RpcArrives(a)
  PROVE  Balanced(t)
<1>. USE CoordinatorUnchanged
<1>1. /\ UNCHANGED <<coordinatorVars, id, job, caller, executions, exec, main_pc, g_draining, hb_pc>>
      /\ NoTrouble /\ Serving /\ d_pc = "rpc" /\ handler = "none" /\ handler' = a
      /\ carried' = [carried EXCEPT ![a] = d_task] /\ assign' = [assign EXCEPT ![a] = "capacity"]
  BY DEF RpcArrives, AssignTask, HandlerIsAt
<1>2. (Alive' <=> Alive) /\ (Serving' <=> Serving) /\ \A w : Beats(w)' <=> Beats(w)
  BY <1>1 DEF Alive, Serving, Beats
<1>3. Redispatchable(t)' => Redispatchable(t)
  BY <1>1, <1>2 DEF Executing
<1>4. ~Exposed(t)'
  BY <1>1, <1>2 DEF Exposed, AboutToSweep, coordinatorVars
<1>5. KeepsProcess(t)
  BY <1>1, <1>2, OrchestratorAssumption DEF KeepsProcess, WillEnd, WillFallSilent, WillClose, Late
<1>. QED BY <1>1, <1>2, <1>3, <1>4, <1>5, AllKept DEF Balanced

(* It goes on, or it refuses the task.                                     *)
LEMMA HandlerTestsBalanced ==
  ASSUME Context, NEW t \in Task, NEW a \in AssignThread, HandlerTests(a) \/ HandlerIncrements(a)
  PROVE  Balanced(t)
<1>1. /\ UNCHANGED <<id, carried, job, caller, executions, exec, main_pc, g_draining, hb_pc>>
      /\ NoTrouble /\ assign[a] # "idle" /\ \A b \in AssignThread \ {a} : assign'[b] = assign[b]
  BY DEF HandlerTests, HandlerIncrements, TestCapacity, IncrementActive, HandlerIsAt, linkVars,
     Context, LinkInv, IInv, TypeOK
<1>2. \/ UNCHANGED <<coordinatorVars, handler>>
      \/ C!WorkerRejects /\ handler = a /\ handler' = "none" /\ assign'[a] = "idle"
  BY DEF HandlerTests, HandlerIncrements, linkVars
<1>3. (Alive' <=> Alive) /\ (Serving' <=> Serving) /\ \A w : Beats(w)' <=> Beats(w)
  BY <1>1 DEF Alive, Serving, Beats
<1>4. Executing(t) => Executing(t)'
  BY <1>1, <1>3 DEF Executing
<1>5. KeepsProcess(t)
  BY <1>1, <1>2, <1>3 DEF KeepsProcess, WillEnd, WillFallSilent, WillClose, Late
<1>6. CASE UNCHANGED <<coordinatorVars, handler>>
  <2>1. /\ KeepsLists(t) /\ KeepsPool /\ KeepsCalls(t)
        /\ (Redispatchable(t)' => Redispatchable(t)) /\ (Exposed(t)' => Exposed(t))
    BY <1>1, <1>3, <1>4, <1>6, CoordinatorUnchanged
  <2>. QED BY <1>1, <1>5, <2>1, AllKept DEF Balanced
<1>7. CASE C!WorkerRejects /\ handler' = "none"
  <2>1. KeepsCalls(t)
    BY <1>1, <1>7, RejectStep DEF KeepsCalls, Orphaned, MayRequeue
  <2>2. /\ KeepsLists(t) /\ KeepsPool
        /\ (Redispatchable(t)' => Redispatchable(t)) /\ (Exposed(t)' => Exposed(t))
    BY <1>3, <1>4, <1>7, RejectStep
  <2>. QED BY <1>1, <1>5, <2>1, <2>2, AllKept DEF Balanced
<1>. QED BY <1>2, <1>6, <1>7

(* What SpawnAndAccept starts.                                             *)
LEMMA SpawnStep ==
  ASSUME Context, NEW a \in AssignThread, HandlerSpawns(a)
  PROVE  /\ UNCHANGED <<id, caller, main_pc, g_draining, hb_pc, h_pc, h_todo, h_dead, rpc, workers, tasks>>
         /\ Alive /\ Alive' /\ NoTrouble
         /\ assign[a] = "spawn" /\ assign' = [assign EXCEPT ![a] = "idle"]
         /\ \A b \in AssignThread \ {a} : carried'[b] = carried[b]
         /\ carried[a] \in Task
         /\ \A t \in Task : Executing(t) \/ t = carried[a] => Executing(t)'
         /\ \A t \in Task \ {carried[a]} : executions'[t] = executions[t]
         /\ executions'[carried[a]] = executions[carried[a]] + 1
<1>1. /\ exec \in [ExecThread -> [pc : {"idle", "run", "report", "ended"}, attempt : 0..kMaxAttempts]]
      /\ job \in [ExecThread -> Task \cup {NoTask}] /\ carried \in [AssignThread -> Task \cup {NoTask}]
      /\ executions \in [Task -> Nat]
  BY DEF Context, LinkInv, IInv, TypeOK, SystemInv, SystemTypeOK
<1>2. /\ UNCHANGED <<id, caller, main_pc, g_draining, hb_pc>> /\ NoTrouble /\ Alive
      /\ assign[a] = "spawn" /\ assign' = [assign EXCEPT ![a] = "idle"]
      /\ \E e \in ExecThread : exec[e].pc = "idle" /\ exec' = [exec EXCEPT ![e].pc = "run"]
      /\ job' = [e \in ExecThread |-> IF exec'[e] # exec[e] THEN carried[a] ELSE job[e]]
      /\ carried' = [carried EXCEPT ![a] = NoTask]
      /\ executions' = [executions EXCEPT ![carried[a]] = @ + 1]
      /\ UNCHANGED coordinatorVars \/ C!WorkerAccepts
  BY DEF HandlerSpawns, SpawnAndAccept, HandlerIsAt
<1>3. UNCHANGED <<h_pc, h_todo, h_dead, rpc, workers, tasks>>
  BY <1>2 DEF coordinatorVars, C!WorkerAccepts, C!healthVars, C!storeVars, C!serviceVars
<1>4. carried[a] \in Task
  <2>1. CASE handler = a
    <3>1. d_pc = "rpc" /\ carried[a] = d_task
      BY <2>1, OrchestratorAssumption DEF Context, SystemInv, CallsMatch, AssignmentMatches
    <3>. QED BY <3>1 DEF Context, LinkInv, CallsTyped
  <2>2. CASE handler # a
    <3>1. <<id, carried[a]>> \in accepted
      BY <1>2, <2>2 DEF Context, SystemInv, CallsMatch, WorkIsExpected
    <3>. QED BY <3>1 DEF Context, LinkInv, CallsTyped
  <2>. QED BY <2>1, <2>2
<1>5. PICK e \in ExecThread : exec[e].pc = "idle" /\ exec' = [exec EXCEPT ![e].pc = "run"]
  BY <1>2
<1>6. exec'[e].pc = "run" /\ exec'[e] # exec[e] /\ \A f \in ExecThread \ {e} : exec'[f] = exec[f]
  BY <1>1, <1>5
<1>7. job'[e] = carried[a] /\ \A f \in ExecThread \ {e} : job'[f] = job[f]
  BY <1>2, <1>6
<1>8. Alive'
  BY <1>2 DEF Alive
<1>9. \A t \in Task : t = carried[a] => Executing(t)'
  BY <1>6, <1>7, <1>8 DEF Executing
<1>10. \A t \in Task : Executing(t) => Executing(t)'
  BY <1>2, <1>5, <1>6, <1>7, <1>8 DEF Executing
<1>11. /\ \A t \in Task \ {carried[a]} : executions'[t] = executions[t]
       /\ executions'[carried[a]] = executions[carried[a]] + 1
  BY <1>1, <1>2, <1>4
<1>12. \A b \in AssignThread \ {a} : carried'[b] = carried[b]
  BY <1>1, <1>2
<1>. QED BY <1>2, <1>3, <1>4, <1>8, <1>9, <1>10, <1>11, <1>12

(* An execution begins.  If the call is over the handler was late, if not  *)
(* the task was still to be dispatched and now is not.                     *)
LEMMA HandlerSpawnsBalanced ==
  ASSUME Context, NEW t \in Task, NEW a \in AssignThread, HandlerSpawns(a)
  PROVE  Balanced(t)
<1>1. /\ UNCHANGED <<id, caller, main_pc, g_draining, hb_pc, h_pc, h_todo, h_dead, rpc, workers, tasks>>
      /\ Alive /\ Alive' /\ NoTrouble
      /\ assign[a] = "spawn" /\ assign' = [assign EXCEPT ![a] = "idle"]
      /\ \A b \in AssignThread \ {a} : carried'[b] = carried[b]
      /\ carried[a] \in Task
      /\ Executing(t) \/ t = carried[a] => Executing(t)'
      /\ t # carried[a] => executions'[t] = executions[t]
      /\ t = carried[a] => executions'[t] = executions[t] + 1
  BY SpawnStep
<1>2. assign \in [AssignThread -> {"idle", "capacity", "increment", "spawn"}]
  BY DEF Context, LinkInv, IInv, TypeOK
<1>3. assign'[a] = "idle" /\ \A b \in AssignThread \ {a} : assign'[b] = assign[b]
  BY <1>1, <1>2
<1>4. (Serving' <=> Serving) /\ \A w : Beats(w)' <=> Beats(w)
  BY <1>1 DEF Serving, Beats
<1>5. (WillEnd' => WillEnd) /\ (WillFallSilent' => WillFallSilent) /\ (WillClose' => WillClose)
  BY <1>1 DEF WillEnd, WillFallSilent, WillClose
<1>6. KeepsLists(t) /\ KeepsCalls(t) /\ KeepsPool
  BY <1>1, <1>4 DEF KeepsLists, KeepsCalls, KeepsPool, Orphaned, MayRequeue, Suspect
<1>7. RecordSame(t)
  BY <1>1 DEF RecordSame
<1>8. CASE handler # a
  <2>1. UNCHANGED <<coordinatorVars, handler>>
    BY <1>8 DEF HandlerSpawns
  <2>2. (Redispatchable(t)' => Redispatchable(t)) /\ (Exposed(t)' => Exposed(t))
    BY <1>1, <1>4, <2>1, CoordinatorUnchanged
  <2>3. \A b \in AssignThread : Late(t, b)' => Late(t, b) /\ b # a
    BY <1>1, <1>3, <2>1 DEF Late
  <2>4. CASE t # carried[a]
    BY <1>1, <1>5, <1>6, <2>2, <2>3, <2>4, AllKept DEF KeepsProcess, Balanced
  <2>5. CASE t = carried[a]
    <3>1. Late(t, a)
      BY <1>1, <1>8, <2>5 DEF Late
    <3>2. <<"late", a>> \in Claims(t)
      BY <3>1, ClaimsAre
    <3>. DEFINE S == Claims(t) \ {<<"late", a>>}
    <3>3. \A c \in Claims(t) : c # <<"late", a>> => c \in S
      OBVIOUS
    <3>. HIDE DEF S
    <3>4. \A b \in AssignThread : Late(t, b)' => <<"late", b>> \in S
      BY <2>3, <3>3, ClaimsAre
    <3>5. Claims(t)' \subseteq S
      BY <1>5, <1>6, <2>2, <3>3, <3>4, ClaimsWithin, ClaimsAre DEF KeepsLists, KeepsCalls, KeepsPool
    <3>6. Spent(t)
      BY <3>2, <3>5 DEF Spent, S
    <3>. QED BY <1>1, <2>5, <3>6 DEF Balanced
  <2>. QED BY <2>4, <2>5
<1>9. CASE handler = a
  <2>1. C!WorkerAccepts /\ handler' = "none"
    BY <1>9 DEF HandlerSpawns
  <2>2. d_pc = "rpc" /\ carried[a] = d_task /\ d_pc' = "accepted" /\ d_task' = d_task
    BY <1>9, <2>1, OrchestratorAssumption
       DEF C!WorkerAccepts, Context, SystemInv, CallsMatch, AssignmentMatches
  <2>3. \A b \in AssignThread : Late(t, b)' => Late(t, b)
    BY <1>1, <1>3, <1>9 DEF Late
  <2>4. ~AboutToSweep(t)' /\ ~Offered(t)' /\ ~Agreed(t)
    BY <2>2 DEF AboutToSweep, Offered, Agreed
  <2>5. CASE t # d_task
    <3>1. ~Offered(t) /\ ~Agreed(t)'
      BY <2>2, <2>5 DEF Offered, Agreed
    <3>2. Redispatchable(t)' => Redispatchable(t)
      BY <1>1, <1>7, <2>4, <3>1, SameTask
    <3>3. Exposed(t)' => Exposed(t)
      BY <1>4, <1>7, <2>1, <2>4, <3>1, SameExposure
    <3>. QED BY <1>1, <1>5, <1>6, <2>2, <2>3, <2>5, <3>2, <3>3, AllKept DEF KeepsProcess, Balanced
  <2>6. CASE t = d_task
    <3>1. Redispatchable(t)
      BY <2>2, <2>6 DEF Redispatchable, Unassigned, Offered
    <3>2. t \in DOMAIN tasks /\ ~InFlightNow(t)
      BY <2>2, <2>6 DEF InFlightNow, Context, C!IInv, C!DispatchControl, C!HeldNotInFlight
    <3>3. Agreed(t)' /\ t \in DOMAIN tasks' /\ ~InFlightNow(t)'
      BY <1>1, <2>2, <2>6, <3>2 DEF Agreed, InFlightNow
    <3>4. ~Redispatchable(t)'
      BY <1>1, <2>2, <2>4, <2>6, <3>3 DEF Redispatchable, Unassigned, Abandoned
    <3>5. Exposed(t)' => Exposed(t)
      BY <1>4, <1>9, <2>4, <2>6, OrchestratorAssumption DEF Exposed, OnCall
    <3>6. <<"task", "">> \in Claims(t)
      BY <3>1, ClaimsAre
    <3>. DEFINE S == Claims(t) \ {<<"task", "">>}
    <3>7. \A c \in Claims(t) : c # <<"task", "">> => c \in S
      OBVIOUS
    <3>. HIDE DEF S
    <3>8. Claims(t)' \subseteq S
      BY <1>5, <1>6, <2>3, <3>4, <3>5, <3>7, ClaimsWithin, ClaimsAre
         DEF KeepsLists, KeepsCalls, KeepsPool
    <3>9. Spent(t)
      BY <3>6, <3>8 DEF Spent, S
    <3>. QED BY <1>1, <2>2, <2>6, <3>9 DEF Balanced
  <2>. QED BY <2>5, <2>6
<1>. QED BY <1>8, <1>9

-----------------------------------------------------------------------------
(* The calls of the worker.                                                *)

(* A registration that begins has its caller.                              *)
LEMMA CallRegisterBalanced ==
  ASSUME Context, NEW t \in Task, NEW th \in Thread, NEW address \in Address, CallRegister(th, address)
  PROVE  Balanced(t)
<1>1. /\ UNCHANGED <<workerVars, id, handler, carried, job, executions>> /\ NoTrouble
      /\ UNCHANGED <<tasks, workers, d_pc, d_worker, d_task, d_todo, h_pc, h_dead, h_todo>>
      /\ caller' = [caller EXCEPT ![th] = "main"]
      /\ \A u \in Thread \ {th} : rpc'[u] = rpc[u]
  BY DEF CallRegister, C!Register, C!RegisterWorker, C!schedulerVars, C!dispatchVars,
     C!healthVars, C!storeVars, Context, C!IInv, C!TypeOK, C!ServicesTypeOK
<1>2. caller \in [Thread -> ExecThread \cup {"main", "none"}] /\ "main" \notin ExecThread
  BY OrchestratorAssumption DEF Context, SystemInv, SystemTypeOK
<1>3. /\ Serving' = Serving /\ (\A w : Beats(w)' = Beats(w)) /\ KeepsProcess(t)
      /\ (Executing(t) => Executing(t)')
  BY <1>1, <1>2 DEF workerVars, vars, Serving, Beats, KeepsProcess, WillEnd, WillFallSilent,
     WillClose, Late, Alive, Executing
<1>4. KeepsLists(t) /\ KeepsPool /\ KeepsCalls(t)
  BY <1>1, <1>2, <1>3 DEF KeepsLists, KeepsPool, Suspect, KeepsCalls, Orphaned, MayRequeue
<1>5. /\ RecordSame(t) /\ (Offered(t)' <=> Offered(t)) /\ (Agreed(t)' <=> Agreed(t))
      /\ (AboutToSweep(t)' => AboutToSweep(t))
  BY <1>1 DEF RecordSame, Offered, Agreed, AboutToSweep, InFlightNow
<1>6. Redispatchable(t)' => Redispatchable(t)
  BY <1>1, <1>3, <1>5, SameTask
<1>7. Exposed(t)' => Exposed(t)
  BY <1>1, <1>3, <1>5, SameExposure
<1>. QED BY <1>1, <1>3, <1>4, <1>6, <1>7, AllKept DEF Balanced

(* A report stores a verdict: its task needs no execution any more, unless *)
(* the report has overtaken the assignment that will undo it.              *)
LEMMA CallReportBalanced ==
  ASSUME Context, NEW t \in Task, NEW th \in Thread, NEW e \in ExecThread, CallReport(th, e)
  PROVE  Balanced(t)
<1>1. /\ UNCHANGED <<workerVars, id, handler, carried, job, executions>>
      /\ UNCHANGED <<workers, d_pc, d_worker, d_task, d_todo, h_pc, h_dead, h_todo>>
      /\ caller' = [caller EXCEPT ![th] = e]
      /\ (Agreed(job[e]) /\ Trouble) \/ (~Agreed(job[e]) /\ NoTrouble)
      /\ C!finish_task(job[e], C!VerdictOf(job[e]))
  BY DEF CallReport, Agreed, C!Report, C!ReportResult, C!schedulerVars, C!dispatchVars,
     C!healthVars
<1>2. /\ \A u \in Thread \ {th} : rpc'[u] = rpc[u]
      /\ rpc'[th].pc \in {"record", "decrement"}
  BY DEF CallReport, C!Report, C!ReportResult, Context, C!IInv, C!TypeOK, C!ServicesTypeOK
<1>3. caller \in [Thread -> ExecThread \cup {"main", "none"}] /\ "main" \notin ExecThread
  BY OrchestratorAssumption DEF Context, SystemInv, SystemTypeOK
<1>4. /\ Serving' = Serving /\ (\A w : Beats(w)' = Beats(w)) /\ KeepsProcess(t)
      /\ (t # job[e] => (Executing(t) => Executing(t)'))
  BY <1>1, <1>3 DEF workerVars, vars, Serving, Beats, KeepsProcess, WillEnd, WillFallSilent,
     WillClose, Late, Alive, Executing
<1>5. KeepsLists(t) /\ KeepsPool /\ KeepsCalls(t)
  BY <1>1, <1>2, <1>3, <1>4 DEF KeepsLists, KeepsPool, Suspect, KeepsCalls, Orphaned, MayRequeue
<1>6. (Offered(t)' <=> Offered(t)) /\ (Agreed(t)' <=> Agreed(t))
  BY <1>1 DEF Offered, Agreed
<1>7. CASE t # job[e]
  <2>1. RecordSame(t)
    BY <1>1, <1>7 DEF RecordSame, InFlightNow, C!finish_task
  <2>2. AboutToSweep(t)' => AboutToSweep(t)
    BY <1>1, <2>1 DEF AboutToSweep, RecordSame, InFlightNow
  <2>3. Redispatchable(t)' => Redispatchable(t)
    BY <1>1, <1>4, <1>6, <1>7, <2>1, SameTask
  <2>4. Exposed(t)' => Exposed(t)
    BY <1>1, <1>4, <1>6, <2>1, <2>2, SameExposure
  <2>. QED BY <1>1, <1>4, <1>5, <2>3, <2>4, AllKept DEF Balanced
<1>8. CASE t = job[e]
  <2>1. /\ DOMAIN tasks' = DOMAIN tasks
        /\ t \in DOMAIN tasks => tasks'[t].state \in C!Terminal
    BY <1>1, <1>8 DEF C!finish_task, C!VerdictOf, C!Terminal, Context, C!IInv, C!TypeOK,
       C!StoreTypeOK, C!TaskRecord
  <2>2. ~InFlightNow(t)'
    BY <2>1 DEF InFlightNow, C!Terminal, C!InFlight
  <2>3. Exposed(t)' => Exposed(t)
    BY <1>1, <1>4, <1>6, <2>2 DEF Exposed, OnCall, AboutToSweep
  <2>4. ~Agreed(t) => (Redispatchable(t)' => Redispatchable(t))
    BY <1>6, <2>1, <2>2 DEF Redispatchable, Unassigned, Abandoned, C!Terminal
  <2>5. CASE ~Agreed(t)
    BY <1>1, <1>4, <1>5, <1>8, <2>3, <2>4, <2>5, AllKept DEF Balanced
  <2>6. CASE Agreed(t)
    <3>. DEFINE S == Claims(t) \cup {<<"task", "">>, <<"task", "">>, <<"task", "">>}
    <3>1. Claims(t) \subseteq S /\ <<"task", "">> \in S
      OBVIOUS
    <3>. HIDE DEF S
    <3>2. Claims(t)' \subseteq S
      BY <1>4, <1>5, <2>3, <3>1, ClaimsWithin, ClaimsAre
         DEF KeepsLists, KeepsProcess, KeepsCalls, KeepsPool
    <3>3. Incurred(t)
      BY <3>2 DEF Incurred, S
    <3>. QED BY <1>1, <1>8, <2>6, <3>3 DEF Balanced
  <2>. QED BY <2>5, <2>6
<1>. QED BY <1>7, <1>8

(* A handler of the coordinator requeues what the previous process had: if *)
(* its caller has ended that is a claim of its own, if not the process is  *)
(* only about to listen, and the task exposed.                             *)
LEMMA ServeBalanced ==
  ASSUME Context, NEW t \in Task, NEW th \in Thread, Serve(th)
  PROVE  Balanced(t)
<1>1. UNCHANGED <<workerVars, linkVars>> /\ NoTrouble /\ C!HandlerStep(th) /\ rpc'[th] # C!Idle
  BY DEF Serve, C!Handler
<1>2. /\ Serving' = Serving /\ (Executing(t) => Executing(t)') /\ handler' = handler
      /\ (\A w : Beats(w)' = Beats(w)) /\ KeepsProcess(t) /\ UNCHANGED <<caller, executions>>
  BY <1>1, WorkerUnchanged
<1>3. DOMAIN rpc = Thread
  BY DEF Context, C!IInv, C!TypeOK, C!ServicesTypeOK
<1>4. \/ C!RegisterCollect(th) \/ C!ReportRecord(th) \/ \E u \in Task : C!RegisterRequeue(th, u)
  BY <1>1, <1>3 DEF C!HandlerStep, C!RegisterStore, C!ReportDecrement
<1>5. /\ UNCHANGED <<workers, d_pc, d_worker, d_task, d_todo, h_pc, h_dead, h_todo>>
      /\ \A v \in Thread \ {th} : rpc'[v] = rpc[v]
  BY <1>3, <1>4 DEF C!RegisterCollect, C!ReportRecord, C!RegisterRequeue, C!schedulerVars,
     C!dispatchVars, C!healthVars
<1>6. /\ KeepsLists(t) /\ KeepsPool /\ (Offered(t)' <=> Offered(t)) /\ (Agreed(t)' <=> Agreed(t))
      /\ RecordSame(t) \/ ~InFlightNow(t)' => (AboutToSweep(t)' => AboutToSweep(t))
  BY <1>2, <1>5 DEF KeepsLists, KeepsPool, Suspect, Offered, Agreed, AboutToSweep, RecordSame,
     InFlightNow
<1>7. RecordSame(t) => (Redispatchable(t)' => Redispatchable(t))
  BY <1>2, <1>5, <1>6, SameTask
<1>8. RecordSame(t) \/ ~InFlightNow(t)' => (Exposed(t)' => Exposed(t))
  BY <1>2, <1>5, <1>6 DEF RecordSame, InFlightNow, Exposed, OnCall
<1>9. ASSUME RecordSame(t), Orphaned(th)' => Orphaned(th), MayRequeue(t, th)' => MayRequeue(t, th)
      PROVE  Balanced(t)
  <2>1. KeepsCalls(t)
    BY <1>2, <1>5, <1>9 DEF KeepsCalls, Orphaned, MayRequeue
  <2>. QED BY <1>1, <1>2, <1>6, <1>7, <1>8, <1>9, <2>1, AllKept DEF Balanced
<1>10. CASE C!ReportRecord(th)
  <2>1. rpc'[th].pc = "decrement" /\ UNCHANGED tasks
    BY <1>3, <1>10 DEF C!ReportRecord, C!storeVars
  <2>. QED BY <1>9, <2>1 DEF RecordSame, Orphaned, MayRequeue
<1>11. CASE C!RegisterCollect(th)
  <2>1. rpc[th].pc = "collect" /\ UNCHANGED tasks
    BY <1>11 DEF C!RegisterCollect, C!storeVars
  <2>. QED BY <1>2, <1>9, <2>1 DEF RecordSame, Orphaned, MayRequeue
<1>12. ASSUME NEW u \in Task, C!RegisterRequeue(th, u)
       PROVE  Balanced(t)
  <2>1. rpc[th] \in C!RegisterCall
    BY <1>12, C!RpcCalls, CoordinatorConstants, OrchestratorAssumption
       DEF C!RegisterRequeue, Context, C!IInv, C!TypeOK
  <2>2. /\ rpc[th].pc = "requeue" /\ u \in rpc[th].todo /\ C!requeue_task(u)
        /\ rpc'[th].todo = rpc[th].todo \ {u} /\ rpc'[th].pc \in {"requeue", "register"}
    BY <1>3, <1>12, <2>1 DEF C!RegisterRequeue, C!RegisterCall
  <2>3. Orphaned(th)' => Orphaned(th)
    BY <1>2, <2>2 DEF Orphaned
  <2>4. MayRequeue(t, th)' => MayRequeue(t, th)
    BY <2>2, <2>3 DEF MayRequeue
  <2>5. CASE t # u \/ ~InFlightNow(t)
    BY <1>9, <2>2, <2>3, <2>4, <2>5, RequeueStep
  <2>6. CASE t = u /\ InFlightNow(t)
    <3>1. ~InFlightNow(t)'
      BY <2>2, <2>6, RequeueStep
    <3>2. ~Agreed(t) /\ ~(handler # "none" /\ d_task = t)
      BY <2>6 DEF Agreed, InFlightNow, Context, C!HeldNotInFlight, SystemInv, CallsMatch,
         AssignmentMatches
    <3>3. ~Exposed(t)'
      BY <1>2, <1>5, <1>6, <3>1, <3>2 DEF Exposed, OnCall
    <3>4. PICK y \in Claims(t) : y = <<"exposed", "">> \/ y = <<"requeue", th>>
      <4>1. CASE caller[th] = "main"
        <5>1. ~Serving
          BY <4>1 DEF Context, SystemInv, CallsMatch, CallersAreServed, Serving
        <5>. QED BY <2>6, <5>1, ClaimsAre DEF Exposed, OnCall
      <4>2. CASE caller[th] # "main"
        <5>1. MayRequeue(t, th)
          BY <2>2, <2>6, <4>2 DEF MayRequeue, Orphaned
        <5>. QED BY <5>1, ClaimsAre
      <4>. QED BY <4>1, <4>2
    <3>. DEFINE S == (Claims(t) \ {y}) \cup {<<"task", "">>}
    <3>5. <<"task", "">> \in S /\ \A c \in Claims(t) : c # y => c \in S
      OBVIOUS
    <3>. HIDE DEF S
    <3>6. /\ \A c : /\ <<"listed", c>> # y /\ <<"dead", c>> # y /\ <<"loss", c>> # y
                    /\ <<"silence", c>> # y /\ <<"closing", c>> # y /\ <<"late", c>> # y
                    /\ <<"orphan", c>> # y /\ <<"silent", c>> # y
          /\ \A v \in Thread : MayRequeue(t, v)' => <<"requeue", v>> # y
      <4>1. \A v \in Thread : <<"requeue", v>> = <<"requeue", th>> => v = th
        OBVIOUS
      <4>2. CASE y = <<"exposed", "">>
        BY <4>2
      <4>3. CASE y = <<"requeue", th>>
        <5>1. ASSUME NEW v \in Thread, <<"requeue", v>> = y PROVE ~MayRequeue(t, v)'
          <6>1. v = th
            BY <4>1, <4>3, <5>1
          <6>. QED BY <2>2, <2>6, <6>1 DEF MayRequeue
        <5>. QED BY <4>3, <5>1
      <4>. QED BY <3>4, <4>2, <4>3
    <3>7. /\ \A v \in Thread : /\ Orphaned(v)' => <<"orphan", v>> \in S
                               /\ MayRequeue(t, v)' => <<"requeue", v>> \in S
          /\ \A v \in Worker : Suspect(v)' => <<"silent", v>> \in S
      <4>1. \A v \in Thread : (Orphaned(v)' => Orphaned(v)) /\ (MayRequeue(t, v)' => MayRequeue(t, v))
        BY <1>2, <1>5, <2>3, <2>4 DEF Orphaned, MayRequeue
      <4>2. \A v \in Thread : Orphaned(v)' => <<"orphan", v>> \in S
        <5>1. \A v \in Thread : Orphaned(v) => <<"orphan", v>> \in Claims(t)
          BY ClaimsAre
        <5>. QED BY <3>5, <3>6, <4>1, <5>1
      <4>3. \A v \in Thread : MayRequeue(t, v)' => <<"requeue", v>> \in S
        <5>1. \A v \in Thread : MayRequeue(t, v) => <<"requeue", v>> \in Claims(t)
          BY ClaimsAre
        <5>. QED BY <3>5, <3>6, <4>1, <5>1
      <4>4. \A v \in Worker : Suspect(v)' => <<"silent", v>> \in S
        BY <1>6, <3>5, <3>6, ClaimsAre DEF KeepsPool
      <4>. QED BY <4>2, <4>3, <4>4
    <3>8. /\ t \in h_todo' => <<"listed", "">> \in S
          /\ h_pc' = "collect" => <<"dead", "">> \in S
          /\ WillEnd' => <<"loss", "">> \in S
          /\ WillFallSilent' => <<"silence", "">> \in S
          /\ WillClose' => <<"closing", "">> \in S
          /\ \A a \in AssignThread : Late(t, a)' => <<"late", a>> \in S
      BY <1>2, <1>6, <3>5, <3>6, ClaimsAre DEF KeepsLists, KeepsProcess
    <3>9. Claims(t)' \subseteq S
      BY <3>3, <3>5, <3>7, <3>8, ClaimsWithin
    <3>10. Swapped(t)
      BY <3>9 DEF Swapped, S
    <3>. QED BY <1>1, <1>2, <3>10 DEF Balanced
  <2>. QED BY <2>5, <2>6
<1>. QED BY <1>4, <1>10, <1>11, <1>12

(* What the caller does with the answer, if it is still there.             *)
LEMMA AnswerStep ==
  ASSUME Context, NEW t \in Task, NEW th \in Thread, Answer(th)
  PROVE  /\ NoTrouble /\ UNCHANGED <<id, handler, executions, d_worker, d_task, d_todo, h_pc, h_dead, h_todo, tasks>>
         /\ C!RegisterStore(th) \/ C!ReportDecrement(th)
         /\ rpc'[th] = C!Idle /\ (\A u \in Thread \ {th} : rpc'[u] = rpc[u] /\ caller'[u] = caller[u])
         /\ KeepsProcess(t) /\ (Serving <=> Serving') /\ (Executing(t) => Executing(t)')
         /\ \A w : Beats(w) => Beats(w)'
         /\ caller[th] = "main" => Beats(id)'
<1>1. /\ NoTrouble /\ UNCHANGED <<id, handler, carried, job, executions>>
      /\ C!HandlerStep(th) /\ rpc'[th] = C!Idle /\ caller' = [caller EXCEPT ![th] = "none"]
  BY DEF Answer, C!Handler
<1>2. C!RegisterStore(th) \/ C!ReportDecrement(th)
  <2>1. C!TypeOK /\ DOMAIN rpc = Thread
    BY DEF Context, C!IInv, C!TypeOK, C!ServicesTypeOK
  <2>2. ~C!ReportRecord(th)
    BY <1>1, <2>1 DEF C!ReportRecord, C!Idle
  <2>3. rpc[th].pc \in {"collect", "requeue"} => rpc[th] \in C!RegisterCall
    BY <2>1, C!RpcCalls, CoordinatorConstants, OrchestratorAssumption DEF C!TypeOK
  <2>4. ~C!RegisterCollect(th)
    BY <1>1, <2>1, <2>3 DEF C!RegisterCollect, C!RegisterCall, C!Idle
  <2>5. ASSUME NEW u \in Task PROVE ~C!RegisterRequeue(th, u)
    BY <1>1, <2>1, <2>3 DEF C!RegisterRequeue, C!RegisterCall, C!Idle
  <2>. QED BY <1>1, <2>2, <2>4, <2>5 DEF C!HandlerStep
<1>3. /\ UNCHANGED <<d_worker, d_task, d_todo, h_pc, h_dead, h_todo, tasks>>
      /\ \A u \in Thread \ {th} : rpc'[u] = rpc[u]
  BY <1>2 DEF C!RegisterStore, C!ReportDecrement, C!handlerUnchanged, C!healthVars, C!storeVars,
     Context, C!IInv, C!TypeOK, C!ServicesTypeOK
<1>4. /\ caller \in [Thread -> ExecThread \cup {"main", "none"}] /\ {"main", "none"} \cap ExecThread = {}
      /\ exec \in [ExecThread -> [pc : {"idle", "run", "report", "ended"}, attempt : 0..kMaxAttempts]]
  BY OrchestratorAssumption DEF Context, SystemInv, SystemTypeOK, LinkInv, IInv, TypeOK
<1>5. /\ UNCHANGED <<g_draining, assign, hb_pc>>
      /\ \/ main_pc' = main_pc /\ caller[th] # "main"
         \/ main_pc = "register" /\ main_pc' = "listen"
      /\ \/ UNCHANGED exec
         \/ /\ caller[th] \in ExecThread
            /\ \A e \in ExecThread \ {caller[th]} : exec'[e] = exec[e]
  <2>1. CASE caller[th] = "main" /\ Registers /\ main_pc' = "listen"
    BY <2>1 DEF Registers, MainGoes
  <2>2. CASE caller[th] \in ExecThread /\ ReportAcknowledged(caller[th])
    BY <1>4, <2>2 DEF ReportAcknowledged, ThreadIs
  <2>3. CASE caller[th] = "none" /\ UNCHANGED workerVars
    BY <2>3 DEF workerVars, vars
  <2>. QED BY <2>1, <2>2, <2>3 DEF Answer
<1>6. (Alive <=> Alive') /\ (Serving <=> Serving')
  BY <1>5 DEF Alive, Serving
<1>7. KeepsProcess(t)
  BY <1>1, <1>5, <1>6 DEF KeepsProcess, WillEnd, WillFallSilent, WillClose, Late
<1>8. Executing(t) => Executing(t)'
  <2>1. SUFFICES ASSUME Alive, NEW e \in ExecThread, job[e] = t,
                        \/ exec[e].pc = "run"
                        \/ exec[e].pc = "report" /\ \A u \in Thread : caller[u] # e
                 PROVE  Executing(t)'
    BY DEF Executing
  <2>2. caller[th] # e
    BY <2>1 DEF Context, SystemInv, CallsMatch, CallersAreServed
  <2>3. exec'[e] = exec[e] /\ job'[e] = t /\ Alive'
    BY <1>1, <1>5, <1>6, <2>1, <2>2
  <2>4. \A u \in Thread : caller[u] # e => caller'[u] # e
    BY <1>1, <1>4
  <2>. QED BY <2>1, <2>3, <2>4 DEF Executing
<1>9. (\A w : Beats(w) => Beats(w)') /\ (caller[th] = "main" => Beats(id)')
  BY <1>1, <1>5, <1>6 DEF Beats, Alive, Context, HeartbeatStarts
<1>. QED BY <1>1, <1>2, <1>3, <1>4, <1>6, <1>7, <1>8, <1>9

(* A registration that is stored makes its worker one that is alive: main  *)
(* goes on to start the heartbeats, unless the process has ended.          *)
LEMMA AnswerBalanced ==
  ASSUME Context, NEW t \in Task, NEW th \in Thread, Answer(th)
  PROVE  Balanced(t)
<1>1. /\ NoTrouble /\ UNCHANGED <<id, handler, executions, d_worker, d_task, d_todo, h_pc, h_dead, h_todo, tasks>>
      /\ C!RegisterStore(th) \/ C!ReportDecrement(th)
      /\ rpc'[th] = C!Idle /\ (\A u \in Thread \ {th} : rpc'[u] = rpc[u] /\ caller'[u] = caller[u])
      /\ KeepsProcess(t) /\ (Serving <=> Serving') /\ (Executing(t) => Executing(t)')
      /\ \A w : Beats(w) => Beats(w)'
      /\ caller[th] = "main" => Beats(id)'
  BY AnswerStep
<1>2. d_pc' \in {d_pc, IF d_pc = "wait" THEN "woken" ELSE d_pc}
  BY <1>1 DEF C!RegisterStore, C!ReportDecrement, C!notify
<1>3. /\ RecordSame(t) /\ KeepsLists(t) /\ (Offered(t)' <=> Offered(t)) /\ (Agreed(t)' <=> Agreed(t))
      /\ (AboutToSweep(t)' => AboutToSweep(t))
  BY <1>1, <1>2 DEF RecordSame, KeepsLists, Offered, Agreed, AboutToSweep, InFlightNow
<1>4. Redispatchable(t)' => Redispatchable(t)
  BY <1>1, <1>3, SameTask
<1>5. Exposed(t)' => Exposed(t)
  BY <1>1, <1>3, SameExposure
<1>6. \A u \in Thread : /\ Orphaned(u)' => Orphaned(u) /\ u # th
                        /\ MayRequeue(t, u)' => MayRequeue(t, u) /\ u # th
  BY <1>1 DEF Orphaned, MayRequeue, C!Idle
<1>7. KeepsCalls(t)
  BY <1>6 DEF KeepsCalls
<1>8. CASE KeepsPool
  BY <1>1, <1>3, <1>4, <1>5, <1>7, <1>8, AllKept DEF Balanced
<1>9. CASE C!ReportDecrement(th)
  <2>1. C!decrement_load(rpc[th].worker)
    BY <1>9 DEF C!ReportDecrement
  <2>2. KeepsPool
    BY <1>1, <2>1 DEF KeepsPool, Suspect, C!decrement_load, Context, C!IInv, C!TypeOK,
       C!PoolTypeOK, C!WorkerInfo
  <2>. QED BY <1>8, <2>2
<1>10. CASE C!RegisterStore(th)
  <2>. DEFINE w == rpc[th].worker
  <2>1. /\ rpc[th].pc = "register"
        /\ workers' = [v \in DOMAIN workers \cup {w} |->
                         IF v = w THEN [address |-> rpc[th].address, capacity |-> rpc[th].capacity,
                                        active_tasks |-> 0, silent |-> FALSE, alive |-> TRUE]
                         ELSE workers[v]]
    BY <1>10 DEF C!RegisterStore, C!register_worker
  <2>2. \A v \in Worker : Suspect(v)' => Suspect(v) \/ (v = w /\ ~Beats(v)')
    BY <1>1, <2>1 DEF Suspect
  <2>3. CASE caller[th] = "main"
    <3>1. w = id
      BY <2>3 DEF Context, RegistersItself
    <3>2. KeepsPool
      <4>1. ASSUME NEW v \in Worker, Suspect(v)' PROVE Suspect(v)
        BY <1>1, <2>1, <2>3, <3>1, <4>1 DEF Suspect, Beats
      <4>. QED BY <4>1 DEF KeepsPool
    <3>. QED BY <1>8, <3>2
  <2>4. CASE caller[th] # "main"
    <3>1. <<"orphan", th>> \in Claims(t)
      BY <2>1, <2>4, ClaimsAre DEF Orphaned
    <3>. DEFINE S == (Claims(t) \ {<<"orphan", th>>}) \cup {<<"silent", w>>}
    <3>2. <<"silent", w>> \in S /\ \A c \in Claims(t) : c # <<"orphan", th>> => c \in S
      OBVIOUS
    <3>. HIDE DEF S
    <3>3. \A u \in Thread : Orphaned(u)' => <<"orphan", u>> \in S
      <4>1. \A u \in Thread : Orphaned(u) => <<"orphan", u>> \in Claims(t)
        BY ClaimsAre
      <4>2. \A u \in Thread : <<"orphan", u>> = <<"orphan", th>> => u = th
        OBVIOUS
      <4>. QED BY <1>6, <3>2, <4>1, <4>2
    <3>4. \A u \in Worker : Suspect(u)' => <<"silent", u>> \in S
      BY <2>2, <3>2, ClaimsAre
    <3>5. Claims(t)' \subseteq S
      BY <1>1, <1>3, <1>4, <1>5, <1>7, <3>2, <3>3, <3>4, ClaimsWithin, ClaimsAre
         DEF KeepsLists, KeepsProcess, KeepsCalls
    <3>6. Swapped(t)
      BY <3>1, <3>5 DEF Swapped, S
    <3>. QED BY <1>1, <3>6 DEF Balanced
  <2>. QED BY <2>3, <2>4
<1>. QED BY <1>1, <1>9, <1>10

-----------------------------------------------------------------------------
(* The theorem.                                                            *)

(* Every step of the system keeps every account balanced.                  *)
LEMMA StepBalanced ==
  ASSUME Context, NEW t \in Task, SystemNext
  PROVE  Balanced(t)
BY DispatchBalanced, WaitTimeoutBalanced, HealthBalanced, SubmitBalanced, RefusedBalanced,
   RpcArrivesBalanced, DeadlineBalanced, HandlerTestsBalanced, HandlerSpawnsBalanced,
   ServeBalanced, AnswerBalanced, ExecutesBalanced, CallReportBalanced, ReportLostBalanced,
   HeartbeatBalanced, HeartbeatArrivesBalanced, MainBalanced, SignalBalanced, ExitsBalanced,
   RestartsBalanced, CallRegisterBalanced, RegisterErrorBalanced, ListenErrorBalanced,
   DiesBalanced, TimeBalanced, DelayBalanced
   DEF SystemNext, RpcProceeds, AssignHandler, CoordinatorHandler, ExecutionThread, MainThread

(* What every step preserves.                                              *)
AccountInv == HeartbeatStarts /\ RegistersItself /\ \A t \in Task : Accounted(t)

(* At first nothing is submitted and nobody has done anything.             *)
LEMMA InitAccounts ==
  ASSUME SystemInit
  PROVE  AccountInv
<1>1. HeartbeatStarts /\ RegistersItself
  BY DEF SystemInit, Init, HeartbeatStarts, RegistersItself
<1>2. ASSUME NEW t \in Task
      PROVE  Accounted(t)
  <2>1. Claims(t) \subseteq {<<"task", "">>}
    <3>1. /\ h_todo = {} /\ h_dead = {} /\ h_pc = "sleep" /\ DOMAIN tasks = {} /\ d_pc = "select"
          /\ DOMAIN workers = {} /\ handler = "none" /\ g_draining = FALSE
          /\ (\A a \in AssignThread : assign[a] = "idle") /\ \A th \in Thread : rpc[th].pc = "idle"
      BY DEF SystemInit, Init, C!Init, C!StoreInit, C!PoolInit, C!SchedulerInit, C!ServicesInit,
         C!NoTasks, C!NoWorkers, C!Idle
    <3>2. ~Exposed(t) /\ ~WillEnd /\ ~WillFallSilent /\ ~WillClose
      BY <3>1 DEF Exposed, OnCall, InFlightNow, Agreed, WillEnd, WillFallSilent, WillClose
    <3>3. /\ \A a \in AssignThread : ~Late(t, a)
          /\ \A th \in Thread : ~Orphaned(th) /\ ~MayRequeue(t, th)
          /\ \A w \in Worker : ~Suspect(w)
      BY <3>1 DEF Late, Orphaned, MayRequeue, Suspect
    <3>. QED BY <3>1, <3>2, <3>3 DEF Claims, Flag
  <2>2. IsFiniteSet({<<"task", "">>}) /\ Cardinality({<<"task", "">>}) = 1
    BY FS_Singleton
  <2>3. IsFiniteSet(Claims(t)) /\ Cardinality(Claims(t)) <= 1 /\ Cardinality(Claims(t)) \in Nat
    BY <2>1, <2>2, FS_Subset, FS_CardinalityType
  <2>4. executions[t] = 0 /\ troubles = 0
    BY DEF SystemInit
  <2>. QED BY <2>3, <2>4 DEF Accounted
<1>. QED BY <1>1, <1>2 DEF AccountInv

(* Every step of the system keeps the accounts.                            *)
LEMMA AccountsKept == System => [](Context /\ AccountInv)
<1>1. C!Spec => [](C!HeldNotInFlight /\ C!ListIsWalked)
  BY C!ThreadsHoldTheirTasks, CoordinatorConstants, OrchestratorAssumption
<1>2. System => [](C!HeldNotInFlight /\ C!ListIsWalked)
  BY <1>1, CompositionRunsCoordinator, PTL DEF RunsCoordinator
<1>3. SystemInit => AccountInv
  BY InitAccounts
<1>4. LinkInv /\ SystemInv /\ SystemInv' /\ C!IInv /\ C!HeldNotInFlight /\ C!ListIsWalked
        /\ AccountInv /\ [SystemNext]_systemVars => AccountInv'
  <2>. SUFFICES ASSUME LinkInv, SystemInv, SystemInv', C!IInv, C!HeldNotInFlight, C!ListIsWalked,
                       AccountInv, [SystemNext]_systemVars
                PROVE  AccountInv'
    OBVIOUS
  <2>1. CASE SystemNext
    <3>1. Context
      BY DEF Context, AccountInv
    <3>2. HeartbeatStarts' /\ RegistersItself'
      BY <2>1, HeartbeatStartsStep, RegistersItselfStep
         DEF AccountInv, SystemInv, SystemTypeOK, CallsMatch
    <3>3. ASSUME NEW t \in Task
          PROVE  Accounted(t)'
      <4>1. executions[t] \in Nat /\ executions'[t] \in Nat /\ troubles \in Nat
        BY OrchestratorAssumption DEF SystemInv, SystemTypeOK
      <4>. QED BY <2>1, <3>1, <4>1, StepBalanced, StillAccounted DEF AccountInv
    <3>. QED BY <3>2, <3>3 DEF AccountInv
  <2>2. CASE UNCHANGED systemVars
    <3>1. /\ UNCHANGED <<workerVars, linkVars, coordinatorVars, troubles>>
          /\ UNCHANGED <<tasks, d_pc, d_task, d_worker, d_todo, h_pc, h_dead, h_todo, rpc, workers>>
          /\ UNCHANGED <<id, handler, carried, job, caller, executions>>
          /\ UNCHANGED <<g_draining, assign, exec, hb_pc, main_pc>>
      BY <2>2 DEF systemVars, coordinatorVars, linkVars, workerVars, vars
    <3>2. HeartbeatStarts' /\ RegistersItself'
      BY <3>1 DEF AccountInv, HeartbeatStarts, RegistersItself
    <3>3. ASSUME NEW t \in Task
          PROVE  Accounted(t)'
      <4>1. Kept(t)
        BY <3>1, CoordinatorUnchanged, WorkerUnchanged, AllKept
      <4>2. Balanced(t)
        BY <3>1, <4>1 DEF Balanced, NoTrouble
      <4>3. executions[t] \in Nat /\ executions'[t] \in Nat /\ troubles \in Nat
        BY OrchestratorAssumption DEF SystemInv, SystemTypeOK
      <4>. QED BY <4>2, <4>3, StillAccounted DEF AccountInv
    <3>. QED BY <3>2, <3>3 DEF AccountInv
  <2>. QED BY <2>1, <2>2
<1>5. LinkInv /\ SystemInv /\ C!IInv /\ C!HeldNotInFlight /\ C!ListIsWalked /\ AccountInv
        => Context
  BY DEF Context, AccountInv
<1>. QED
  BY <1>2, <1>3, <1>4, <1>5, LinkInvariant, SystemInvariant, CoordinatorIsSound, PTL DEF System

(* A task is executed once, and at most three times more for each trouble, *)
(* whatever the interleaving, and however many tasks, threads, worker ids  *)
(* and troubles there are.                                                 *)
THEOREM ExecutionsAreJustified == System => []ExecutionsJustified
<1>1. SystemInv /\ AccountInv => ExecutionsJustified
  <2>. SUFFICES ASSUME SystemInv, AccountInv, NEW t \in Task
                PROVE  executions[t] <= 1 + 3 * troubles
    BY DEF ExecutionsJustified
  <2>1. executions[t] \in Nat /\ troubles \in Nat /\ Cardinality(Claims(t)) \in Nat
    BY OrchestratorAssumption, FS_CardinalityType
       DEF SystemInv, SystemTypeOK, AccountInv, Accounted
  <2>2. executions[t] + Cardinality(Claims(t)) <= 1 + 3 * troubles
    BY DEF AccountInv, Accounted
  <2>. QED BY <2>1, <2>2
<1>2. Context => SystemInv
  BY DEF Context
<1>. QED
  BY <1>1, <1>2, AccountsKept, PTL

-----------------------------------------------------------------------------
(* The totals.                                                             *)

(* An execution whose report has not arrived yet, or has to arrive again.  *)
Unreported(e) ==
  \/ exec[e].pc = "run"
  \/ exec[e].pc = "report" /\ \A th \in Thread : caller[th] # e

Recording(th) == rpc[th].pc = "record"

(* What the totals may still have to count.                                *)
Owed ==
  {<<"execution", e>> : e \in {f \in ExecThread : Unreported(f)}}
  \cup {<<"report", th>> : th \in {u \in Thread : Recording(u)}}

counted == total_ok + total_err

TotalsInv == IsFiniteSet(Owed) /\ counted + Cardinality(Owed) <= begun + troubles

(* What a step may do for that to stay so: nothing; begin an execution;    *)
(* hand a report over; count one; lose an answer.                          *)
Owing(new, gone) == Owed' \subseteq (Owed \ gone) \cup new

TotalsBalanced ==
  \/ /\ counted' = counted /\ begun' = begun /\ (Trouble \/ NoTrouble)
     /\ Owing({}, {}) \/ \E x \in Owed : \E y : Owing({y}, {x})
  \/ counted' = counted /\ begun' = begun + 1 /\ NoTrouble /\ \E y : Owing({y}, {})
  \/ counted' = counted + 1 /\ begun' = begun /\ NoTrouble /\ \E x \in Owed : Owing({}, {x})
  \/ counted' = counted /\ begun' = begun /\ Trouble /\ \E y : Owing({y}, {})

LEMMA StillBalanced ==
  ASSUME counted \in Nat, begun \in Nat, troubles \in Nat, TotalsInv, TotalsBalanced
  PROVE  TotalsInv'
<1>. DEFINE n == Cardinality(Owed)
            m == Cardinality(Owed')
<1>1. IsFiniteSet(Owed) /\ n \in Nat /\ counted + n <= begun + troubles
  BY FS_CardinalityType DEF TotalsInv
<1>2. ASSUME NEW S, IsFiniteSet(S), Owed' \subseteq S
      PROVE  IsFiniteSet(Owed') /\ m \in Nat /\ Cardinality(S) \in Nat /\ m <= Cardinality(S)
  BY <1>2, FS_Subset, FS_CardinalityType
<1>3. ASSUME Owing({}, {})
      PROVE  IsFiniteSet(Owed') /\ m \in Nat /\ m <= n
  BY <1>1, <1>2, <1>3 DEF Owing
<1>4. ASSUME NEW y, Owing({y}, {})
      PROVE  IsFiniteSet(Owed') /\ m \in Nat /\ m <= n + 1
  <2>1. IsFiniteSet(Owed \cup {y}) /\ Cardinality(Owed \cup {y}) <= n + 1
    BY <1>1, OneMore
  <2>2. Owed' \subseteq Owed \cup {y}
    BY <1>4 DEF Owing
  <2>. QED BY <1>1, <1>2, <2>1, <2>2
<1>5. ASSUME NEW x \in Owed, Owing({}, {x})
      PROVE  IsFiniteSet(Owed') /\ m \in Nat /\ m + 1 <= n
  <2>1. IsFiniteSet(Owed \ {x}) /\ Cardinality(Owed \ {x}) = n - 1
    BY <1>1, OneLess
  <2>2. Owed' \subseteq Owed \ {x}
    BY <1>5 DEF Owing
  <2>. QED BY <1>1, <1>2, <2>1, <2>2
<1>6. ASSUME NEW x \in Owed, NEW y, Owing({y}, {x})
      PROVE  IsFiniteSet(Owed') /\ m \in Nat /\ m <= n
  <2>. DEFINE R == Owed \ {x}
  <2>1. IsFiniteSet(R) /\ Cardinality(R) = n - 1
    BY <1>1, OneLess
  <2>2. Owed' \subseteq R \cup {y}
    BY <1>6 DEF Owing
  <2>. HIDE DEF R
  <2>3. IsFiniteSet(R \cup {y}) /\ Cardinality(R \cup {y}) <= Cardinality(R) + 1
    BY <2>1, OneMore
  <2>. QED BY <1>1, <1>2, <2>1, <2>2, <2>3
<1>. HIDE DEF n, m
<1>7. SUFFICES IsFiniteSet(Owed') /\ counted' + m <= begun' + troubles'
  BY DEF TotalsInv, m
<1>8. CASE /\ counted' = counted /\ begun' = begun /\ (Trouble \/ NoTrouble)
           /\ Owing({}, {}) \/ \E x \in Owed : \E y : Owing({y}, {x})
  <2>1. IsFiniteSet(Owed') /\ m \in Nat /\ m <= n
    BY <1>3, <1>6, <1>8
  <2>. QED BY <1>1, <1>8, <2>1 DEF Trouble, NoTrouble
<1>9. CASE counted' = counted /\ begun' = begun + 1 /\ NoTrouble /\ \E y : Owing({y}, {})
  <2>1. IsFiniteSet(Owed') /\ m \in Nat /\ m <= n + 1
    BY <1>4, <1>9
  <2>. QED BY <1>1, <1>9, <2>1 DEF NoTrouble
<1>10. CASE counted' = counted + 1 /\ begun' = begun /\ NoTrouble /\ \E x \in Owed : Owing({}, {x})
  <2>1. IsFiniteSet(Owed') /\ m \in Nat /\ m + 1 <= n
    BY <1>5, <1>10
  <2>. QED BY <1>1, <1>10, <2>1 DEF NoTrouble
<1>11. CASE counted' = counted /\ begun' = begun /\ Trouble /\ \E y : Owing({y}, {})
  <2>1. IsFiniteSet(Owed') /\ m \in Nat /\ m <= n + 1
    BY <1>4, <1>11
  <2>. QED BY <1>1, <1>11, <2>1 DEF Trouble
<1>. QED BY <1>8, <1>9, <1>10, <1>11 DEF TotalsBalanced

(* What is owed, item by item.                                             *)
LEMMA OwedIs ==
  /\ \A e \in ExecThread : Unreported(e) <=> <<"execution", e>> \in Owed
  /\ \A th \in Thread : Recording(th) <=> <<"report", th>> \in Owed
BY DEF Owed

LEMMA OwedWithin ==
  ASSUME NEW S,
         \A e \in ExecThread : Unreported(e)' => <<"execution", e>> \in S,
         \A th \in Thread : Recording(th)' => <<"report", th>> \in S
  PROVE  Owed' \subseteq S
BY DEF Owed

(* A step that leaves the calls, their handlers and the executions alone,  *)
(* or ends some of them.                                                   *)
LEMMA NothingOwed ==
  ASSUME \A e \in ExecThread : Unreported(e)' => Unreported(e),
         \A th \in Thread : Recording(th)' => Recording(th)
  PROVE  Owing({}, {})
BY OwedIs, OwedWithin DEF Owing

LEMMA LeavesTotals ==
  ASSUME UNCHANGED <<rpc, total_ok, total_err, caller, begun>>,
         \A e \in ExecThread : exec'[e].pc \in {"run", "report"} => exec'[e].pc = exec[e].pc,
         Trouble \/ NoTrouble
  PROVE  TotalsBalanced
<1>1. Owing({}, {})
  BY NothingOwed DEF Unreported, Recording
<1>. QED BY <1>1 DEF TotalsBalanced, counted

(* The steps of the scheduler's threads, of the environment's time and of  *)
(* the calls that concern neither reports nor registrations.               *)
LEMMA ServicesUnchanged ==
  ASSUME \/ C!Dispatch \/ C!WaitTimeout \/ C!Health
         \/ \E t \in Task, p \in Priority, now \in Clock : C!Submit(t, p, now)
         \/ C!WorkerAccepts \/ C!WorkerRejects \/ C!WorkerUnreachable
         \/ \E w \in Worker : C!WorkerFallsSilent(w)
         \/ \E w \in Worker, k \in Nat : C!Beat(w, k)
         \/ \E t \in Task : C!TaskOverruns(t)
  PROVE  UNCHANGED <<rpc, total_ok, total_err>>
BY DEF C!Dispatch, C!WaitTimeout, C!Health, C!Submit, C!SubmitTask, C!WorkerAccepts, C!WorkerRejects,
   C!WorkerUnreachable, C!WorkerFallsSilent, C!Beat, C!Heartbeat, C!TaskOverruns, C!serviceVars

(* The executions that the steps of the worker's other threads leave.      *)
LEMMA OtherThreads ==
  ASSUME \/ \E a \in AssignThread : AssignTask(a) \/ TestCapacity(a) \/ IncrementActive(a)
         \/ SignalArrives \/ SignalEnds \/ HeartbeatLoop \/ Main
  PROVE  UNCHANGED exec
BY DEF AssignTask, TestCapacity, IncrementActive, HandlerIsAt, SignalArrives, SignalEnds,
   HeartbeatLoop, TestShutdown, HeartbeatReturns, HeartbeatWakes, HeartbeatIs, Main, Registers,
   Listens, ListenFails, LeaveServing, LeaveDraining, ShutdownCalled, ShutdownReturns,
   MainReturns, MainGoes

(* The worker takes a task: the only step that begins an execution.        *)
LEMMA SpawnOwes ==
  ASSUME Context, NEW a \in AssignThread, HandlerSpawns(a)
  PROVE  TotalsBalanced
<1>1. PICK e \in ExecThread : exec[e].pc = "idle" /\ exec' = [exec EXCEPT ![e].pc = "run"]
  BY DEF HandlerSpawns, SpawnAndAccept
<1>2. \A f \in ExecThread \ {e} : exec'[f] = exec[f]
  BY <1>1 DEF Context, LinkInv, IInv, TypeOK
<1>3. UNCHANGED <<rpc, total_ok, total_err>>
  BY ServicesUnchanged DEF HandlerSpawns, coordinatorVars
<1>4. caller' = caller /\ begun' = begun + 1 /\ NoTrouble
  BY DEF HandlerSpawns
<1>. DEFINE y == <<"execution", e>>
<1>5. Owing({y}, {})
  <2>. DEFINE S == Owed \cup {y}
  <2>1. \A f \in ExecThread : Unreported(f)' => <<"execution", f>> \in S
    BY <1>2, <1>4, OwedIs DEF Unreported
  <2>2. \A th \in Thread : Recording(th)' => <<"report", th>> \in S
    BY <1>3, OwedIs DEF Recording
  <2>. HIDE DEF S
  <2>3. Owed' \subseteq S
    BY <2>1, <2>2, OwedWithin
  <2>. QED BY <2>3 DEF S, Owing
<1>. QED BY <1>3, <1>4, <1>5 DEF TotalsBalanced, counted

(* A report arrives: its handler has to count it now, if the task is known.*)
LEMMA ReportOwes ==
  ASSUME Context, NEW th \in Thread, NEW e \in ExecThread, CallReport(th, e)
  PROVE  TotalsBalanced
<1>1. /\ UNCHANGED <<workerVars, begun, total_ok, total_err>> /\ (Trouble \/ NoTrouble)
      /\ caller' = [caller EXCEPT ![th] = e] /\ rpc[th] = C!Idle
      /\ exec[e].pc = "report" /\ \A u \in Thread : caller[u] # e
  BY DEF CallReport, C!Report, C!ReportResult
<1>2. \A u \in Thread \ {th} : rpc'[u] = rpc[u]
  BY DEF CallReport, C!Report, C!ReportResult, Context, C!IInv, C!TypeOK, C!ServicesTypeOK
<1>3. caller \in [Thread -> ExecThread \cup {"main", "none"}]
  BY DEF Context, SystemInv, SystemTypeOK
<1>. DEFINE x == <<"execution", e>>
            y == <<"report", th>>
<1>4. caller[th] \in ExecThread => rpc[th].pc \in {"record", "decrement"}
  BY DEF Context, SystemInv, CallsMatch, CallersAreServed
<1>5. caller[th] \notin ExecThread
  BY <1>1, <1>4 DEF C!Idle
<1>6. x \in Owed /\ Owing({y}, {x})
  <2>1. x \in Owed
    BY <1>1, OwedIs DEF Unreported
  <2>. DEFINE S == (Owed \ {x}) \cup {y}
  <2>2. ~Unreported(e)'
    <3>1. exec' = exec /\ caller'[th] = e
      BY <1>1, <1>3 DEF workerVars, vars
    <3>. QED BY <1>1, <3>1 DEF Unreported
  <2>3. ASSUME NEW f \in ExecThread, Unreported(f)' PROVE <<"execution", f>> \in S
    <3>1. f # e
      BY <2>2, <2>3
    <3>2. \A u \in Thread : caller'[u] # f => caller[u] # f
      BY <1>1, <1>3, <1>5
    <3>3. Unreported(f)
      BY <1>1, <2>3, <3>2 DEF Unreported, workerVars, vars
    <3>4. <<"execution", f>> # x
      BY <3>1
    <3>. QED BY <3>3, <3>4, OwedIs
  <2>4. ASSUME NEW u \in Thread, Recording(u)' PROVE <<"report", u>> \in S
    <3>1. u = th \/ Recording(u)
      BY <1>2, <2>4 DEF Recording
    <3>2. <<"report", u>> # x
      OBVIOUS
    <3>. QED BY <3>1, <3>2, OwedIs
  <2>. HIDE DEF S
  <2>5. Owed' \subseteq S
    BY <2>3, <2>4, OwedWithin
  <2>. QED BY <2>1, <2>5 DEF S, Owing
<1>. QED BY <1>1, <1>6 DEF TotalsBalanced, counted

(* A handler of the coordinator goes on: record_completion counts the      *)
(* report, and the answer ends the attempts of its caller.                 *)
LEMMA HandlerOwes ==
  ASSUME Context, NEW th \in Thread, CoordinatorHandler(th)
  PROVE  TotalsBalanced
<1>1. C!HandlerStep(th) /\ begun' = begun /\ NoTrouble
  BY DEF CoordinatorHandler, Serve, Answer, C!Handler, linkVars
<1>2. /\ caller \in [Thread -> ExecThread \cup {"main", "none"}] /\ {"main", "none"} \cap ExecThread = {}
      /\ exec \in [ExecThread -> [pc : {"idle", "run", "report", "ended"}, attempt : 0..kMaxAttempts]]
  BY OrchestratorAssumption DEF Context, SystemInv, SystemTypeOK, LinkInv, IInv, TypeOK
<1>3. ASSUME NEW e \in ExecThread, Unreported(e)' PROVE Unreported(e)
  <2>1. CASE UNCHANGED <<exec, caller>>
    BY <1>3, <2>1 DEF Unreported
  <2>2. ASSUME caller' = [caller EXCEPT ![th] = "none"],
               \/ UNCHANGED exec /\ caller[th] \notin ExecThread
               \/ /\ caller[th] \in ExecThread /\ exec'[caller[th]].pc = "ended"
                  /\ \A f \in ExecThread \ {caller[th]} : exec'[f] = exec[f]
        PROVE  Unreported(e)
    <3>1. caller[th] # e
      BY <1>3, <2>2 DEF Unreported
    <3>2. exec'[e] = exec[e] /\ \A u \in Thread : caller'[u] # e => caller[u] # e
      BY <1>2, <2>2, <3>1
    <3>. QED BY <1>3, <3>2 DEF Unreported
  <2>3. CASE Serve(th)
    BY <2>1, <2>3 DEF Serve, workerVars, vars, linkVars
  <2>4. CASE Answer(th)
    <3>1. caller' = [caller EXCEPT ![th] = "none"]
      BY <2>4 DEF Answer
    <3>2. CASE caller[th] = "main" /\ Registers
      BY <1>2, <2>2, <3>1, <3>2 DEF Registers, MainGoes
    <3>3. CASE caller[th] \in ExecThread /\ ReportAcknowledged(caller[th])
      BY <1>2, <2>2, <3>1, <3>3 DEF ReportAcknowledged, ThreadIs
    <3>4. CASE caller[th] = "none" /\ UNCHANGED workerVars
      BY <1>2, <2>2, <3>1, <3>4 DEF workerVars, vars
    <3>. QED BY <2>4, <3>2, <3>3, <3>4 DEF Answer
  <2>. QED BY <2>3, <2>4 DEF CoordinatorHandler
<1>4. DOMAIN rpc = Thread /\ total_ok \in Nat /\ total_err \in Nat
  BY DEF Context, C!IInv, C!TypeOK, C!ServicesTypeOK
<1>5. CASE C!ReportRecord(th)
  <2>. DEFINE x == <<"report", th>>
  <2>1. /\ rpc[th].pc = "record" /\ rpc'[th].pc = "decrement"
        /\ \A u \in Thread \ {th} : rpc'[u] = rpc[u]
    BY <1>4, <1>5 DEF C!ReportRecord
  <2>2. counted' = counted + 1
    BY <1>4, <1>5 DEF C!ReportRecord, C!record_completion, counted
  <2>3. x \in Owed
    BY <2>1, OwedIs DEF Recording
  <2>4. Owing({}, {x})
    <3>. DEFINE S == Owed \ {x}
    <3>1. \A e \in ExecThread : Unreported(e)' => <<"execution", e>> \in S
      BY <1>3, OwedIs
    <3>2. ASSUME NEW u \in Thread, Recording(u)' PROVE <<"report", u>> \in S
      <4>1. u # th
        BY <2>1, <3>2 DEF Recording
      <4>2. Recording(u) /\ <<"report", u>> # x
        BY <2>1, <3>2, <4>1 DEF Recording
      <4>. QED BY <4>2, OwedIs
    <3>. HIDE DEF S
    <3>3. Owed' \subseteq S
      BY <3>1, <3>2, OwedWithin
    <3>. QED BY <3>3 DEF S, Owing
  <2>. QED BY <1>1, <2>2, <2>3, <2>4 DEF TotalsBalanced
<1>6. CASE ~C!ReportRecord(th)
  <2>1. UNCHANGED <<total_ok, total_err>>
    BY <1>1, <1>6 DEF C!HandlerStep, C!RegisterCollect, C!RegisterRequeue, C!RegisterStore,
       C!ReportDecrement
  <2>2. /\ \A u \in Thread \ {th} : rpc'[u] = rpc[u]
        /\ rpc'[th].pc # "record"
    <3>1. C!TypeOK
      BY DEF Context, C!IInv
    <3>2. rpc[th].pc \in {"collect", "requeue", "register", "decrement"}
      BY <1>1, <1>6 DEF C!HandlerStep, C!RegisterCollect, C!RegisterRequeue, C!RegisterStore,
         C!ReportDecrement
    <3>3. CASE rpc'[th] = C!Idle
      BY <1>1, <3>1, <3>3, HandlerServes DEF C!Idle, CoordinatorHandler, Serve, Answer
    <3>4. CASE rpc'[th] # C!Idle /\ rpc[th].pc \in {"collect", "requeue", "register"}
      BY <1>1, <3>1, <3>4, HandlerServes DEF CoordinatorHandler, Serve, Answer
    <3>5. CASE rpc'[th] # C!Idle /\ rpc[th].pc = "decrement"
      BY <1>1, <1>4, <1>6, <3>5 DEF C!HandlerStep, C!RegisterCollect, C!RegisterRequeue,
         C!RegisterStore, C!ReportDecrement
    <3>. QED BY <3>2, <3>3, <3>4, <3>5
  <2>3. Owing({}, {})
    BY <1>3, <2>2, NothingOwed DEF Recording
  <2>. QED BY <1>1, <2>1, <2>3 DEF TotalsBalanced, counted
<1>. QED BY <1>5, <1>6

(* An attempt fails: what it has reported may be reported again.           *)
LEMMA LostReportOwes ==
  ASSUME Context, NEW e \in ExecThread, ReportLost(e)
  PROVE  TotalsBalanced
<1>1. UNCHANGED <<coordinatorVars, begun>> /\ Trouble /\ HangUp(e)
  BY DEF ReportLost
<1>2. \A f \in ExecThread \ {e} : exec'[f] = exec[f]
  BY DEF ReportLost, ReportFails, ThreadIs, Context, LinkInv, IInv, TypeOK
<1>3. \A th \in Thread : caller'[th] = IF caller[th] = e THEN "none" ELSE caller[th]
  BY <1>1 DEF HangUp
<1>. DEFINE y == <<"execution", e>>
<1>4. Owing({y}, {})
  <2>. DEFINE S == Owed \cup {y}
  <2>1. ASSUME NEW f \in ExecThread, Unreported(f)' PROVE <<"execution", f>> \in S
    <3>1. f # e => Unreported(f)
      BY <1>2, <1>3, <2>1 DEF Unreported
    <3>. QED BY <3>1, OwedIs
  <2>2. \A th \in Thread : Recording(th)' => <<"report", th>> \in S
    BY <1>1, OwedIs DEF Recording, coordinatorVars
  <2>. HIDE DEF S
  <2>3. Owed' \subseteq S
    BY <2>1, <2>2, OwedWithin
  <2>. QED BY <2>3 DEF S, Owing
<1>. QED BY <1>1, <1>4 DEF TotalsBalanced, counted, coordinatorVars

(* A process that ends leaves nothing to report, but for the reports that  *)
(* have arrived.                                                           *)
LEMMA BlankOwes ==
  ASSUME Exits \/ Dies \/ Restarts
  PROVE  TotalsBalanced
<1>1. /\ UNCHANGED <<coordinatorVars, begun>> /\ (Trouble \/ NoTrouble)
      /\ exec' = [e \in ExecThread |-> Idle]
  BY DEF Exits, Dies, Restarts, Blank
<1>2. Owing({}, {})
  BY <1>1, NothingOwed DEF Unreported, Recording, Idle, coordinatorVars
<1>. QED BY <1>1, <1>2 DEF TotalsBalanced, counted, coordinatorVars

(* A registration has nothing to count.                                    *)
LEMMA RegistrationOwes ==
  ASSUME Context,
         \/ RegisterError
         \/ \E th \in Thread, address \in Address : CallRegister(th, address)
  PROVE  TotalsBalanced
<1>1. "main" \notin ExecThread /\ caller \in [Thread -> ExecThread \cup {"main", "none"}]
  BY OrchestratorAssumption DEF Context, SystemInv, SystemTypeOK
<1>2. CASE RegisterError
  <2>1. UNCHANGED <<coordinatorVars, exec, begun>> /\ Trouble /\ HangUp("main")
    BY <1>2 DEF RegisterError, Registers, MainGoes
  <2>2. \A th \in Thread, e \in ExecThread : caller'[th] # e => caller[th] # e
    BY <1>1, <2>1 DEF HangUp
  <2>3. Owing({}, {})
    BY <2>1, <2>2, NothingOwed DEF Unreported, Recording, coordinatorVars
  <2>. QED BY <2>1, <2>3 DEF TotalsBalanced, counted, coordinatorVars
<1>3. ASSUME NEW th \in Thread, NEW address \in Address, CallRegister(th, address)
      PROVE  TotalsBalanced
  <2>1. /\ UNCHANGED <<exec, begun, total_ok, total_err>> /\ NoTrouble
        /\ caller' = [caller EXCEPT ![th] = "main"] /\ rpc[th] = C!Idle
    BY <1>3 DEF CallRegister, C!Register, C!RegisterWorker, workerVars, vars
  <2>2. \A u \in Thread : Recording(u)' => Recording(u)
    BY <1>3 DEF CallRegister, C!Register, C!RegisterWorker, Recording, Context, C!IInv, C!TypeOK,
       C!ServicesTypeOK
  <2>3. caller[th] \notin ExecThread
    BY <2>1 DEF Context, SystemInv, CallsMatch, CallersAreServed, C!Idle
  <2>4. \A u \in Thread, e \in ExecThread : caller'[u] # e => caller[u] # e
    BY <1>1, <2>1, <2>3
  <2>5. Owing({}, {})
    BY <2>1, <2>2, <2>4, NothingOwed DEF Unreported
  <2>. QED BY <2>1, <2>5 DEF TotalsBalanced, counted
<1>. QED BY <1>2, <1>3

(* An execution that computes has not called yet.                          *)
LEMMA ExecutesOwes ==
  ASSUME Context, NEW e \in ExecThread, Executes(e)
  PROVE  TotalsBalanced
<1>1. UNCHANGED <<coordinatorVars, caller, begun>> /\ NoTrouble
  BY DEF Executes
<1>2. exec[e].pc = "run" \/ exec'[e].pc = "idle"
  BY DEF Executes, RunPrimeTask, ExecutionEnds, ThreadIs, Idle, Context, LinkInv, IInv, TypeOK
<1>3. \A f \in ExecThread \ {e} : exec'[f] = exec[f]
  BY DEF Executes, RunPrimeTask, ExecutionEnds, ThreadIs, Context, LinkInv, IInv, TypeOK
<1>4. \A f \in ExecThread : Unreported(f)' => Unreported(f)
  BY <1>1, <1>2, <1>3 DEF Unreported
<1>5. Owing({}, {})
  BY <1>1, <1>4, NothingOwed DEF Recording, coordinatorVars
<1>. QED BY <1>1, <1>5 DEF TotalsBalanced, counted, coordinatorVars

(* The other steps.                                                        *)
LEMMA OthersOwe ==
  ASSUME Context,
         \/ Scheduling(C!Dispatch) \/ Scheduling(C!WaitTimeout) \/ Scheduling(C!Health)
         \/ \E t \in Task, p \in Priority, now \in Clock : Scheduling(C!Submit(t, p, now))
         \/ RpcProceeds \/ Deadline
         \/ \E a \in AssignThread : HandlerTests(a) \/ HandlerIncrements(a)
         \/ HeartbeatThread \/ HeartbeatArrives \/ HeartbeatLost
         \/ MainGoesOn \/ ListenError \/ Signal \/ SignalCompletes
         \/ \E w \in Worker : Silence(w)
         \/ \E t \in Task : Timeout(t)
         \/ Delay
  PROVE  TotalsBalanced
<1>1. ASSUME UNCHANGED <<rpc, total_ok, total_err, caller, begun, exec>>, Trouble \/ NoTrouble
      PROVE  TotalsBalanced
  BY <1>1, LeavesTotals
<1>2. CASE \/ Scheduling(C!Dispatch) \/ Scheduling(C!WaitTimeout) \/ Scheduling(C!Health)
           \/ \E t \in Task, p \in Priority, now \in Clock : Scheduling(C!Submit(t, p, now))
  BY <1>1, <1>2, ServicesUnchanged DEF Scheduling, workerVars, vars, linkVars
<1>3. CASE RefusedDraining \/ ConnectionRefused \/ Deadline
  BY <1>1, <1>3, ServicesUnchanged
     DEF RefusedDraining, ConnectionRefused, Deadline, workerVars, vars, linkVars
<1>4. ASSUME NEW a \in AssignThread, RpcArrives(a) \/ HandlerTests(a) \/ HandlerIncrements(a)
      PROVE  TotalsBalanced
  <2>1. UNCHANGED exec
    BY <1>4, OtherThreads DEF RpcArrives, HandlerTests, HandlerIncrements
  <2>2. UNCHANGED <<rpc, total_ok, total_err>>
    BY <1>4, ServicesUnchanged DEF RpcArrives, HandlerTests, HandlerIncrements, coordinatorVars
  <2>3. UNCHANGED <<caller, begun>> /\ NoTrouble
    BY <1>4 DEF RpcArrives, HandlerTests, HandlerIncrements, linkVars
  <2>. QED BY <1>1, <2>1, <2>2, <2>3
<1>5. CASE HeartbeatArrives
  <2>1. hb_active \in Nat /\ id \in Worker
    BY DEF Context, LinkInv, IInv, TypeOK
  <2>2. UNCHANGED <<rpc, total_ok, total_err>>
    BY <1>5, <2>1, ServicesUnchanged DEF HeartbeatArrives
  <2>3. UNCHANGED exec
    BY <1>5, OtherThreads DEF HeartbeatArrives, HeartbeatLoop
  <2>. QED BY <1>1, <1>5, <2>2, <2>3 DEF HeartbeatArrives, linkVars
<1>6. CASE HeartbeatThread \/ HeartbeatLost \/ MainGoesOn \/ ListenError \/ Signal \/ SignalCompletes
  <2>1. UNCHANGED exec
    BY <1>6, OtherThreads DEF HeartbeatThread, HeartbeatLost, HeartbeatLoop, MainGoesOn, Main,
       ListenError, Signal, SignalCompletes
  <2>. QED BY <1>1, <1>6, <2>1 DEF HeartbeatThread, HeartbeatLost, MainGoesOn, ListenError, Signal,
           SignalCompletes, coordinatorVars, linkVars
<1>7. CASE \/ \E w \in Worker : Silence(w)
           \/ \E t \in Task : Timeout(t)
           \/ Delay
  BY <1>1, <1>7, ServicesUnchanged DEF Silence, Timeout, Delay, workerVars, vars, linkVars
<1>. QED BY <1>2, <1>3, <1>4, <1>5, <1>6, <1>7 DEF RpcProceeds

(* The totals of the metrics count every execution once at most, and again *)
(* only where an answer to a report was lost.                              *)
THEOREM ReportsAreCounted == System => []ReportsCounted
<1>1. SystemInit => TotalsInv
  <2>. SUFFICES ASSUME SystemInit PROVE TotalsInv
    OBVIOUS
  <2>1. /\ total_ok = 0 /\ total_err = 0 /\ begun = 0 /\ troubles = 0
        /\ (\A e \in ExecThread : exec[e].pc = "idle") /\ \A th \in Thread : rpc[th].pc = "idle"
    BY DEF SystemInit, Init, Idle, C!Init, C!ServicesInit, C!Idle
  <2>2. Owed = {}
    BY <2>1 DEF Owed, Unreported, Recording
  <2>. QED BY <2>1, <2>2, FS_EmptySet DEF TotalsInv, counted
<1>2. Context => counted \in Nat /\ begun \in Nat /\ troubles \in Nat
  BY OrchestratorAssumption
     DEF Context, C!IInv, C!TypeOK, C!ServicesTypeOK, SystemInv, SystemTypeOK, counted
<1>3. Context /\ TotalsInv /\ [SystemNext]_systemVars => TotalsInv'
  <2>. SUFFICES ASSUME Context, TotalsInv, [SystemNext]_systemVars
                PROVE  TotalsInv'
    OBVIOUS
  <2>1. CASE SystemNext
    BY <2>1, OthersOwe, SpawnOwes, ReportOwes, HandlerOwes, LostReportOwes, BlankOwes,
       RegistrationOwes, ExecutesOwes, StillBalanced, <1>2
       DEF SystemNext, AssignHandler, ExecutionThread, MainThread
  <2>2. CASE UNCHANGED systemVars
    <3>1. UNCHANGED <<rpc, total_ok, total_err, caller, begun, exec>> /\ NoTrouble
      BY <2>2 DEF systemVars, coordinatorVars, linkVars, workerVars, vars, NoTrouble
    <3>. QED BY <3>1, <1>2, LeavesTotals, StillBalanced
  <2>. QED BY <2>1, <2>2
<1>4. Context /\ TotalsInv => ReportsCounted
  <2>. SUFFICES ASSUME Context, TotalsInv PROVE ReportsCounted
    OBVIOUS
  <2>1. Cardinality(Owed) \in Nat /\ counted + Cardinality(Owed) <= begun + troubles
    BY FS_CardinalityType DEF TotalsInv
  <2>. QED BY <1>2, <2>1 DEF ReportsCounted, counted
<1>. QED BY <1>1, <1>3, <1>4, AccountsKept, PTL DEF System

=============================================================================
