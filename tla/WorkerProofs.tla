---------------------------- MODULE WorkerProofs ----------------------------
(***************************************************************************)
(* Proofs about the worker, for any capacity, number of handler threads    *)
(* and number of attempts. The invariants count threads, so the first      *)
(* lemmas say how the move of one thread changes the counts.               *)
(***************************************************************************)
EXTENDS Worker, FiniteSetTheorems, TLAPS

HandlerPC == {"idle", "capacity", "increment", "spawn"}

(* The sets that are counted are finite.                                   *)
LEMMA Counts ==
  /\ IsFiniteSet(Running) /\ Cardinality(Running) \in Nat
  /\ IsFiniteSet(Admitted) /\ Cardinality(Admitted) \in 0..Cardinality(AssignThread)
  /\ \A q : IsFiniteSet(HandlersAt(q)) /\ Cardinality(HandlersAt(q)) \in Nat
  /\ Cardinality(AssignThread) \in Nat \ {0}
<1>1. IsFiniteSet(Running) /\ Cardinality(Running) \in Nat
  <2>1. Running \in SUBSET ExecThread
    BY DEF Running
  <2>. QED BY <2>1, ThreadsAssumption, FS_Subset, FS_CardinalityType
<1>2. ASSUME NEW S \in SUBSET AssignThread
      PROVE  IsFiniteSet(S) /\ Cardinality(S) \in Nat
                            /\ Cardinality(S) <= Cardinality(AssignThread)
  BY ThreadsAssumption, FS_Subset, FS_CardinalityType
<1>3. Admitted \in SUBSET AssignThread /\ \A q : HandlersAt(q) \in SUBSET AssignThread
  BY DEF Admitted, HandlersAt
<1>4. Cardinality(AssignThread) \in Nat \ {0}
  BY ThreadsAssumption, FS_CardinalityType, FS_EmptySet
<1>. QED BY <1>1, <1>2, <1>3, <1>4

(* A handler that goes from one step to another.                           *)
LEMMA HandlerMoves ==
  ASSUME TypeOK, NEW a \in AssignThread, NEW old \in HandlerPC, NEW pc \in HandlerPC \ {old},
         assign[a] = old, assign' = [assign EXCEPT ![a] = pc]
  PROVE  /\ Cardinality(HandlersAt("spawn"))' =
              IF pc = "spawn" THEN Cardinality(HandlersAt("spawn")) + 1
                ELSE IF old = "spawn" THEN Cardinality(HandlersAt("spawn")) - 1
                ELSE Cardinality(HandlersAt("spawn"))
         /\ Cardinality(HandlersAt("increment"))' =
              IF pc = "increment" THEN Cardinality(HandlersAt("increment")) + 1
                ELSE IF old = "increment" THEN Cardinality(HandlersAt("increment")) - 1
                ELSE Cardinality(HandlersAt("increment"))
         /\ Cardinality(Admitted)' =
              IF pc = "idle" THEN Cardinality(Admitted) - 1
                ELSE IF old = "idle" THEN Cardinality(Admitted) + 1
                ELSE Cardinality(Admitted)
<1>1. \A b \in AssignThread : assign'[b] = IF b = a THEN pc ELSE assign[b]
  BY DEF TypeOK
<1>2. ASSUME NEW q \in HandlerPC, NEW S, S = {b \in AssignThread : assign'[b] = q}
      PROVE  Cardinality(S) = IF pc = q THEN Cardinality(HandlersAt(q)) + 1
                                ELSE IF old = q THEN Cardinality(HandlersAt(q)) - 1
                                ELSE Cardinality(HandlersAt(q))
  <2>1. CASE pc = q
    <3>1. S = HandlersAt(q) \cup {a} /\ a \notin HandlersAt(q)
      BY <1>1, <1>2, <2>1 DEF HandlersAt
    <3>. QED BY <2>1, <3>1, Counts, FS_AddElement
  <2>2. CASE old = q
    <3>1. S = HandlersAt(q) \ {a} /\ a \in HandlersAt(q)
      BY <1>1, <1>2, <2>2 DEF HandlersAt
    <3>2. Cardinality(S) = Cardinality(HandlersAt(q)) - 1
      BY <3>1, Counts, FS_RemoveElement
    <3>. QED BY <2>2, <3>2
  <2>3. CASE pc # q /\ old # q
    <3>1. S = HandlersAt(q)
      BY <1>1, <1>2, <2>3 DEF HandlersAt
    <3>. QED BY <2>3, <3>1
  <2>. QED BY <2>1, <2>2, <2>3
<1>3. Admitted' = IF pc = "idle" THEN Admitted \ {a} ELSE Admitted \cup {a}
  BY <1>1 DEF Admitted, HandlersAt
<1>4. a \in Admitted <=> old # "idle"
  BY DEF Admitted, HandlersAt
<1>5. Cardinality(Admitted \ {a}) = IF a \in Admitted THEN Cardinality(Admitted) - 1
                                                      ELSE Cardinality(Admitted)
  BY Counts, FS_RemoveElement
<1>6. Cardinality(Admitted \cup {a}) = IF a \in Admitted THEN Cardinality(Admitted)
                                                         ELSE Cardinality(Admitted) + 1
  BY Counts, FS_AddElement
<1>7. Cardinality(Admitted)' = IF pc = "idle" THEN Cardinality(Admitted) - 1
                                 ELSE IF old = "idle" THEN Cardinality(Admitted) + 1
                                 ELSE Cardinality(Admitted)
  BY <1>3, <1>4, <1>5, <1>6
<1>8. /\ HandlersAt("spawn")' = {b \in AssignThread : assign'[b] = "spawn"}
      /\ HandlersAt("increment")' = {b \in AssignThread : assign'[b] = "increment"}
  BY DEF HandlersAt
<1>. QED BY <1>2, <1>7, <1>8 DEF HandlerPC

(* An execution thread that starts, goes on or ends.                       *)
LEMMA ThreadMoves ==
  ASSUME TypeOK, NEW e \in ExecThread, NEW state,
         exec' = [exec EXCEPT ![e] = state]
  PROVE  /\ exec[e].pc = "idle" /\ state.pc # "idle"
              => Cardinality(Running)' = Cardinality(Running) + 1
         /\ exec[e].pc # "idle" /\ state.pc = "idle"
              => Cardinality(Running)' = Cardinality(Running) - 1
         /\ exec[e].pc # "idle" /\ state.pc # "idle"
              => Cardinality(Running)' = Cardinality(Running)
<1>1. \A x \in ExecThread : exec'[x] = IF x = e THEN state ELSE exec[x]
  BY DEF TypeOK
<1>2. Running' = IF state.pc = "idle" THEN Running \ {e} ELSE Running \cup {e}
  BY <1>1 DEF Running
<1>3. e \in Running <=> exec[e].pc # "idle"
  BY DEF Running
<1>4. Cardinality(Running \ {e}) = IF e \in Running THEN Cardinality(Running) - 1
                                                    ELSE Cardinality(Running)
  BY Counts, FS_RemoveElement
<1>5. Cardinality(Running \cup {e}) = IF e \in Running THEN Cardinality(Running)
                                                       ELSE Cardinality(Running) + 1
  BY Counts, FS_AddElement
<1>. QED BY <1>2, <1>3, <1>4, <1>5

-----------------------------------------------------------------------------
(* No step breaks the types, g_active_tasks >= 0 included.                 *)
LEMMA TypeStep == IInv /\ [Next]_vars => TypeOK'
<1>. SUFFICES ASSUME IInv, [Next]_vars PROVE TypeOK'
  OBVIOUS
<1>. USE AttemptsAssumption DEF IInv
<1>1. CASE SignalArrives \/ SignalEnds
  BY <1>1 DEF SignalArrives, SignalEnds, TypeOK
<1>2. ASSUME NEW a \in AssignThread, AssignTask(a) \/ Handler(a)
      PROVE  TypeOK'
  <2>1. CASE AssignTask(a) \/ TestCapacity(a) \/ IncrementActive(a)
    BY <2>1 DEF AssignTask, TestCapacity, IncrementActive, HandlerIsAt, TypeOK
  <2>2. CASE SpawnAndAccept(a)
    BY <2>2 DEF SpawnAndAccept, HandlerIsAt, TypeOK
  <2>. QED BY <1>2, <2>1, <2>2 DEF Handler
<1>3. ASSUME NEW e \in ExecThread, Execution(e)
      PROVE  TypeOK'
  <2>1. CASE RunPrimeTask(e)
    BY <2>1 DEF RunPrimeTask, ThreadIs, TypeOK
  <2>2. CASE ReportAcknowledged(e) \/ ReportFails(e)
    BY <2>2 DEF ReportAcknowledged, ReportFails, ThreadIs, TypeOK
  <2>3. CASE ExecutionEnds(e)
    <3>1. e \in Running
      BY <2>3 DEF ExecutionEnds, Running
    <3>2. Cardinality(Running) # 0
      BY <3>1, Counts, FS_EmptySet
    <3>3. g_active_tasks - 1 \in Nat
      BY <3>2, Counts DEF ActiveCounted
    <3>. QED BY <2>3, <3>3 DEF ExecutionEnds, ThreadIs, Idle, TypeOK
  <2>. QED BY <1>3, <2>1, <2>2, <2>3 DEF Execution
<1>4. CASE HeartbeatLoop
  BY <1>4 DEF HeartbeatLoop, TestShutdown, HeartbeatReturns, HeartbeatWakes, HeartbeatIs, TypeOK
<1>5. CASE Main
  BY <1>5 DEF Main, Registers, Listens, ListenFails, LeaveServing, LeaveDraining,
              ShutdownCalled, ShutdownReturns, MainReturns, MainGoes, TypeOK
<1>6. CASE UNCHANGED vars
  BY <1>6 DEF vars, TypeOK
<1>. QED BY <1>1, <1>2, <1>3, <1>4, <1>5, <1>6 DEF Next

(* The counts stay right, and the bounds hold, when a handler moves.       *)
LEMMA HandlerIInv ==
  ASSUME IInv, TypeOK', NEW a \in AssignThread, AssignTask(a) \/ Handler(a)
  PROVE  IInv'
<1>. USE CapacityAssumption DEF IInv, MostActive
<1>. DEFINE at(q) == Cardinality(HandlersAt(q))
            run == Cardinality(Running)
            adm == Cardinality(Admitted)
            n == Cardinality(AssignThread)
<1>1. /\ UNCHANGED <<g_draining, g_shutdown, hb_active, main_pc>>
      /\ main_pc \notin {"register", "listen"}
  <2>1. CASE AssignTask(a)
    BY <2>1 DEF AssignTask, HandlerIsAt, Serving
  <2>2. CASE Handler(a)
    <3>1. a \in Admitted
      BY <2>2 DEF Handler, TestCapacity, IncrementActive, SpawnAndAccept, Admitted, HandlersAt
    <3>. QED BY <2>2, <3>1 DEF Handler, TestCapacity, IncrementActive, SpawnAndAccept,
                               HandlerIsAt, ControlOrder
  <2>. QED BY <2>1, <2>2
<1>2. ControlOrder'
  BY <1>1 DEF ControlOrder
<1>3. SUFFICES /\ g_active_tasks' = run' + at("spawn")'
               /\ g_active_tasks' + at("increment")' <= MostActive
               /\ main_pc \in {"cleanup", "stop", "join", "exited"} => run' + adm' <= n
  BY <1>1, <1>2 DEF ActiveCounted, OvershootBounded, LeftBehindBounded
<1>. USE DEF HandlerPC
<1>4. /\ g_active_tasks = run + at("spawn")
      /\ g_active_tasks + at("increment") <= MostActive
      /\ main_pc \in {"cleanup", "stop", "join", "exited"} => run + adm <= n
      /\ g_active_tasks \in Nat /\ n \in Nat /\ run \in Nat /\ adm \in Nat
      /\ at("spawn") \in Nat /\ at("increment") \in Nat
  BY Counts DEF ActiveCounted, OvershootBounded, LeftBehindBounded, TypeOK
<1>5. CASE AssignTask(a)
  <2>1. assign[a] = "idle" /\ assign' = [assign EXCEPT ![a] = "capacity"]
    BY <1>5 DEF AssignTask, HandlerIsAt
  <2>2. at("spawn")' = at("spawn") /\ at("increment")' = at("increment")
    <3>1. /\ "idle" \in HandlerPC
          /\ "capacity" \in HandlerPC \ {"idle"}
          /\ TypeOK
      OBVIOUS
    <3>. HIDE DEF HandlerPC
    <3>2. at("spawn")' = at("spawn")
      BY <2>1, <3>1, HandlerMoves
    <3>3. at("increment")' = at("increment")
      BY <2>1, <3>1, HandlerMoves
    <3>. QED BY <3>2, <3>3
  <2>3. UNCHANGED <<g_active_tasks, Running>>
    BY <1>5 DEF AssignTask, Running
  <2>4. main_pc \notin {"cleanup", "stop", "join", "exited"}
    BY <1>5 DEF AssignTask, Serving, ControlOrder
  <2>. QED BY <1>4, <2>2, <2>3, <2>4
<1>6. CASE TestCapacity(a)
  <2>1. UNCHANGED <<g_active_tasks, Running>> /\ assign[a] = "capacity"
    BY <1>6 DEF TestCapacity, Running
  <2>2. CASE g_active_tasks >= capacity
    <3>1. assign' = [assign EXCEPT ![a] = "idle"]
      BY <1>6, <2>2 DEF TestCapacity, HandlerIsAt
    <3>2. at("spawn")' = at("spawn") /\ at("increment")' = at("increment")
      BY <2>1, <3>1, HandlerMoves
    <3>3. adm' = adm - 1
      BY <2>1, <3>1, HandlerMoves
    <3>. QED BY <1>4, <2>1, <3>2, <3>3
  <2>3. CASE ~(g_active_tasks >= capacity)
    <3>1. assign' = [assign EXCEPT ![a] = "increment"]
      BY <1>6, <2>3 DEF TestCapacity, HandlerIsAt
    <3>2. /\ at("spawn")' = at("spawn")
          /\ at("increment")' = at("increment") + 1
          /\ adm' = adm
      BY <2>1, <3>1, HandlerMoves
    <3>3. at("increment")' <= n
      <4>1. HandlersAt("increment")' \in SUBSET AssignThread
        BY DEF HandlersAt
      <4>. QED BY <4>1, ThreadsAssumption, FS_Subset
    <3>4. g_active_tasks + at("increment") + 1 <= capacity + n - 1
      BY <1>4, <2>3, <3>2, <3>3
    <3>. QED BY <1>4, <2>1, <3>2, <3>4
  <2>. QED BY <2>2, <2>3
<1>7. CASE IncrementActive(a)
  <2>1. /\ assign[a] = "increment" /\ assign' = [assign EXCEPT ![a] = "spawn"]
        /\ g_active_tasks' = g_active_tasks + 1
        /\ UNCHANGED Running
    BY <1>7 DEF IncrementActive, HandlerIsAt, Running
  <2>2. /\ at("spawn")' = at("spawn") + 1
        /\ at("increment")' = at("increment") - 1
        /\ adm' = adm
    BY <2>1, HandlerMoves
  <2>. QED BY <1>4, <2>1, <2>2
<1>8. CASE SpawnAndAccept(a)
  <2>1. PICK e \in ExecThread : exec[e].pc = "idle" /\ exec' = [exec EXCEPT ![e].pc = "run"]
    BY <1>8 DEF SpawnAndAccept
  <2>2. run' = run + 1
    <3>1. exec' = [exec EXCEPT ![e] = [exec[e] EXCEPT !.pc = "run"]]
      BY <2>1
    <3>2. [exec[e] EXCEPT !.pc = "run"].pc = "run"
      BY DEF TypeOK
    <3>. QED BY <2>1, <3>1, <3>2, ThreadMoves
  <2>3. /\ assign[a] = "spawn" /\ assign' = [assign EXCEPT ![a] = "idle"]
        /\ UNCHANGED g_active_tasks
    BY <1>8 DEF SpawnAndAccept, HandlerIsAt
  <2>4. /\ at("spawn")' = at("spawn") - 1
        /\ at("increment")' = at("increment")
        /\ adm' = adm - 1
    BY <2>3, HandlerMoves
  <2>. QED BY <1>4, <2>2, <2>3, <2>4
<1>. QED BY <1>5, <1>6, <1>7, <1>8 DEF Handler

(* They stay so when a task is computed, reported or ends.                 *)
LEMMA ExecutionIInv ==
  ASSUME IInv, TypeOK', NEW e \in ExecThread, Execution(e)
  PROVE  IInv'
<1>. USE DEF IInv
<1>. DEFINE run == Cardinality(Running)
<1>1. /\ exec[e].pc # "idle"
      /\ UNCHANGED <<g_draining, g_shutdown, assign, hb_active, main_pc>>
  BY DEF Execution, RunPrimeTask, ReportAcknowledged, ReportFails, ExecutionEnds, ThreadIs
<1>2. UNCHANGED <<Admitted, HandlersAt("spawn"), HandlersAt("increment")>>
  BY <1>1 DEF Admitted, HandlersAt
<1>3. ControlOrder'
  <2>1. e \in Running
    BY <1>1 DEF Running
  <2>. QED BY <1>1, <2>1 DEF ControlOrder
<1>4. run' \in Nat /\ g_active_tasks' \in Int /\ g_active_tasks \in Int /\ run \in Nat
  <2>1. UNCHANGED g_active_tasks \/ g_active_tasks' = g_active_tasks - 1
    BY DEF Execution, RunPrimeTask, ReportAcknowledged, ReportFails, ExecutionEnds
  <2>2. g_active_tasks \in Int /\ run \in Nat
    BY Counts DEF TypeOK
  <2>3. Cardinality(Running)' \in Nat
    <3>1. Running' \in SUBSET ExecThread
      BY DEF Running
    <3>. QED BY <3>1, ThreadsAssumption, FS_Subset, FS_CardinalityType
  <2>. QED BY <2>1, <2>2, <2>3
<1>5. \/ UNCHANGED g_active_tasks /\ run' = run
      \/ g_active_tasks' = g_active_tasks - 1 /\ run' = run - 1
  <2>1. CASE RunPrimeTask(e)
    <3>. DEFINE first == [pc |-> "report", attempt |-> 1]
    <3>1. exec' = [exec EXCEPT ![e] = first] /\ first.pc = "report"
      BY <2>1 DEF RunPrimeTask, ThreadIs
    <3>. HIDE DEF first
    <3>2. run' = run
      BY <1>1, <3>1, ThreadMoves
    <3>. QED BY <2>1, <3>2 DEF RunPrimeTask
  <2>2. CASE ReportAcknowledged(e)
    <3>1. exec' = [exec EXCEPT ![e] = [exec[e] EXCEPT !.pc = "ended"]]
      BY <2>2 DEF ReportAcknowledged, ThreadIs
    <3>2. [exec[e] EXCEPT !.pc = "ended"].pc = "ended"
      BY DEF TypeOK
    <3>3. run' = run
      BY <1>1, <3>1, <3>2, ThreadMoves
    <3>. QED BY <2>2, <3>3 DEF ReportAcknowledged
  <2>3. CASE ReportFails(e)
    <3>. DEFINE again == [exec[e] EXCEPT !.attempt = @ + 1]
                given_up == [exec[e] EXCEPT !.pc = "ended"]
    <3>1. again.pc = "report" /\ given_up.pc = "ended"
      BY <2>3 DEF ReportFails, TypeOK
    <3>2. exec' = [exec EXCEPT ![e] = again] \/ exec' = [exec EXCEPT ![e] = given_up]
      BY <2>3 DEF ReportFails, ThreadIs
    <3>. HIDE DEF again, given_up
    <3>3. run' = run
      BY <1>1, <3>1, <3>2, ThreadMoves
    <3>. QED BY <2>3, <3>3 DEF ReportFails
  <2>4. CASE ExecutionEnds(e)
    <3>1. exec' = [exec EXCEPT ![e] = Idle] /\ Idle.pc = "idle"
      BY <2>4 DEF ExecutionEnds, ThreadIs, Idle
    <3>2. TypeOK
      OBVIOUS
    <3>. HIDE DEF IInv
    <3>3. run' = run - 1
      BY <1>1, <3>1, <3>2, ThreadMoves
    <3>. QED BY <2>4, <3>3 DEF ExecutionEnds
  <2>. QED BY <2>1, <2>2, <2>3, <2>4 DEF Execution
<1>6. ActiveCounted'
  <2>1. Cardinality(HandlersAt("spawn")) \in Nat
    BY Counts
  <2>. QED BY <1>2, <1>4, <1>5, <2>1 DEF ActiveCounted
<1>7. OvershootBounded'
  <2>1. Cardinality(HandlersAt("increment")) \in Nat /\ MostActive \in Int
    BY Counts, CapacityAssumption DEF MostActive
  <2>. QED BY <1>1, <1>2, <1>4, <1>5, <2>1 DEF OvershootBounded, MostActive
<1>8. LeftBehindBounded'
  <2>1. Cardinality(Admitted) \in Nat /\ Cardinality(AssignThread) \in Nat
    BY Counts
  <2>. QED BY <1>1, <1>2, <1>4, <1>5, <2>1 DEF LeftBehindBounded
<1>. QED BY <1>3, <1>6, <1>7, <1>8

(* They stay so in the steps of the other threads: main leaves the drain   *)
(* loop only when nothing is counted.                                      *)
LEMMA OthersIInv ==
  ASSUME IInv, TypeOK',
         SignalArrives \/ SignalEnds \/ HeartbeatLoop \/ Main \/ UNCHANGED vars
  PROVE  IInv'
<1>. USE DEF IInv
<1>1. UNCHANGED <<g_active_tasks, assign, exec>>
  BY DEF SignalArrives, SignalEnds, HeartbeatLoop, TestShutdown, HeartbeatReturns,
         HeartbeatWakes, HeartbeatIs, Main, Registers, Listens, ListenFails, LeaveServing,
         LeaveDraining, ShutdownCalled, ShutdownReturns, MainReturns, MainGoes, vars
<1>2. UNCHANGED <<Running, Admitted, HandlersAt("spawn"), HandlersAt("increment")>>
  BY <1>1 DEF Running, Admitted, HandlersAt
<1>3. ActiveCounted'
  BY <1>1, <1>2 DEF ActiveCounted
<1>4. OvershootBounded'
  <2>1. hb_active' \in {hb_active, g_active_tasks}
    BY DEF SignalArrives, SignalEnds, HeartbeatLoop, TestShutdown, HeartbeatReturns,
           HeartbeatWakes, HeartbeatIs, Main, Registers, Listens, ListenFails, LeaveServing,
           LeaveDraining, ShutdownCalled, ShutdownReturns, MainReturns, MainGoes, vars
  <2>2. g_active_tasks <= MostActive
    <3>1. g_active_tasks \in Nat /\ Cardinality(HandlersAt("increment")) \in Nat /\ MostActive \in Int
      BY Counts, CapacityAssumption DEF TypeOK, MostActive
    <3>. QED BY <3>1 DEF OvershootBounded
  <2>. QED BY <1>1, <1>2, <2>1, <2>2 DEF OvershootBounded, MostActive
<1>5. CASE SignalArrives \/ SignalEnds \/ HeartbeatLoop \/ UNCHANGED vars
  <2>1. UNCHANGED main_pc /\ (g_shutdown' => g_draining') /\ (g_shutdown => g_shutdown')
    BY <1>5 DEF SignalArrives, SignalEnds, HeartbeatLoop, TestShutdown, HeartbeatReturns,
                HeartbeatWakes, HeartbeatIs, vars, ControlOrder
  <2>. QED BY <1>2, <1>3, <1>4, <2>1 DEF LeftBehindBounded, ControlOrder
<1>6. CASE Main
  <2>1. UNCHANGED <<g_draining, g_shutdown>>
    BY <1>6 DEF Main, Registers, Listens, ListenFails, LeaveServing, LeaveDraining,
                ShutdownCalled, ShutdownReturns, MainReturns, MainGoes
  <2>2. ControlOrder'
    BY <1>2, <1>6, <2>1 DEF Main, Registers, Listens, ListenFails, LeaveServing,
                LeaveDraining, ShutdownCalled, ShutdownReturns, MainReturns, MainGoes, ControlOrder
  <2>3. LeftBehindBounded'
    <3>1. /\ Cardinality(Running) \in Nat
          /\ Cardinality(Admitted) \in 0..Cardinality(AssignThread)
          /\ Cardinality(HandlersAt("spawn")) \in Nat
          /\ Cardinality(AssignThread) \in Nat
      BY Counts
    <3>2. CASE main_pc \in {"register", "listen"}
      <4>1. Cardinality(Running) = 0 /\ Cardinality(Admitted) = 0
        BY <3>2, FS_EmptySet DEF ControlOrder
      <4>. QED BY <1>2, <3>1, <4>1 DEF LeftBehindBounded
    <3>3. CASE LeaveDraining
      <4>1. g_active_tasks = 0
        BY <3>3 DEF LeaveDraining, TypeOK
      <4>2. Cardinality(Running) = 0
        BY <3>1, <4>1 DEF ActiveCounted
      <4>. QED BY <1>2, <3>1, <4>2 DEF LeftBehindBounded
    <3>4. CASE LeaveServing
      BY <3>4 DEF LeaveServing, MainGoes, LeftBehindBounded
    <3>5. CASE ShutdownCalled \/ ShutdownReturns \/ MainReturns
      BY <1>2, <3>5 DEF ShutdownCalled, ShutdownReturns, MainReturns, MainGoes, LeftBehindBounded
    <3>. QED BY <1>6, <3>2, <3>3, <3>4, <3>5 DEF Main, Registers, Listens, ListenFails, MainGoes
  <2>. QED BY <1>3, <1>4, <2>2, <2>3
<1>. QED BY <1>5, <1>6

-----------------------------------------------------------------------------
(* The invariants hold when the process starts.                            *)
LEMMA InitIInv == Init => IInv
<1>. SUFFICES ASSUME Init PROVE IInv
  OBVIOUS
<1>1. Running = {} /\ Admitted = {} /\ HandlersAt("spawn") = {} /\ HandlersAt("increment") = {}
  BY DEF Init, Idle, Running, Admitted, HandlersAt
<1>2. TypeOK
  <2>1. Idle \in [pc : {"idle", "run", "report", "ended"}, attempt : 0..kMaxAttempts]
    BY AttemptsAssumption DEF Idle
  <2>. QED BY <2>1 DEF Init, TypeOK
<1>3. Cardinality({}) = 0
  BY FS_EmptySet
<1>4. MostActive >= 0
  BY Counts, CapacityAssumption DEF MostActive
<1>. QED BY <1>1, <1>2, <1>3, <1>4
         DEF Init, IInv, ActiveCounted, OvershootBounded, LeftBehindBounded, ControlOrder

(* Every step keeps them.                                                  *)
LEMMA NextIInv == IInv /\ [Next]_vars => IInv'
BY TypeStep, HandlerIInv, ExecutionIInv, OthersIInv DEF Next

(* The safety invariants of the worker, with what they rest on, hold in    *)
(* every state.                                                            *)
THEOREM WorkerInvariant == Spec => []IInv
BY InitIInv, NextIInv, PTL DEF Spec

(* Every variable keeps its type; the count of tasks is never negative.    *)
THEOREM WorkerTypes == Spec => []TypeOK
BY WorkerInvariant, PTL DEF IInv

(* g_active_tasks is the number of tasks in execution or about to be.      *)
THEOREM ActiveIsCounted == Spec => []ActiveCounted
BY WorkerInvariant, PTL DEF IInv

(* The capacity is exceeded by less than the number of handler threads.    *)
THEOREM OvershootIsBounded == Spec => []OvershootBounded
BY WorkerInvariant, PTL DEF IInv

(* A drain leaves at most one task for each handler thread.                *)
THEOREM LeftBehindIsBounded == Spec => []LeftBehindBounded
BY WorkerInvariant, PTL DEF IInv

(* main leaves the drain loop only when no task is in execution.           *)
THEOREM DrainDoesWait == Spec => DrainWaits
<1>1. IInv /\ [Next]_vars => [main_pc = "drain" /\ main_pc' = "cleanup" => Running = {}]_vars
  <2>. SUFFICES ASSUME IInv, Next, main_pc = "drain", main_pc' = "cleanup"
                PROVE  Running = {}
    OBVIOUS
  <2>1. LeaveDraining
    BY DEF Next, SignalArrives, SignalEnds, AssignTask, Handler, TestCapacity, IncrementActive,
           SpawnAndAccept, HandlerIsAt, Execution, RunPrimeTask, ReportAcknowledged, ReportFails,
           ExecutionEnds, ThreadIs, HeartbeatLoop, TestShutdown, HeartbeatReturns, HeartbeatWakes,
           HeartbeatIs, Main, Registers, Listens, ListenFails, LeaveServing, ShutdownCalled,
           ShutdownReturns, MainReturns, MainGoes
  <2>2. g_active_tasks = 0
    BY <2>1 DEF LeaveDraining, IInv, TypeOK
  <2>3. Cardinality(Running) = 0
    BY <2>2, Counts DEF IInv, ActiveCounted
  <2>. QED BY <2>3, Counts, FS_EmptySet
<1>. QED BY <1>1, WorkerInvariant, PTL DEF Spec, DrainWaits

(* A handler that is to start a thread finds a name for it: ExecThread     *)
(* does not hold the worker back.                                          *)
THEOREM ThreadsSuffice ==
  Spec => [](\A a \in AssignThread : assign[a] = "spawn" =>
               \E e \in ExecThread : exec[e].pc = "idle")
<1>1. IInv => \A a \in AssignThread : assign[a] = "spawn" =>
                \E e \in ExecThread : exec[e].pc = "idle"
  <2>. SUFFICES ASSUME IInv, NEW a \in AssignThread, assign[a] = "spawn",
                       \A e \in ExecThread : exec[e].pc # "idle"
                PROVE  FALSE
    OBVIOUS
  <2>1. Running = ExecThread
    BY DEF Running
  <2>2. Cardinality(HandlersAt("spawn")) \in Nat \ {0}
    <3>1. a \in HandlersAt("spawn")
      BY DEF HandlersAt
    <3>. QED BY <3>1, Counts, FS_EmptySet
  <2>3. g_active_tasks <= MostActive
    <3>1. Cardinality(HandlersAt("increment")) \in Nat /\ g_active_tasks \in Nat /\ MostActive \in Int
      BY Counts, CapacityAssumption DEF IInv, TypeOK, MostActive
    <3>. QED BY <3>1 DEF IInv, OvershootBounded
  <2>4. Cardinality(ExecThread) \in Nat /\ Cardinality(ExecThread) >= MostActive
    BY ThreadsAssumption, FS_CardinalityType DEF MostActive
  <2>5. MostActive \in Int
    BY Counts, CapacityAssumption DEF MostActive
  <2>. QED BY <2>1, <2>2, <2>3, <2>4, <2>5 DEF IInv, ActiveCounted, TypeOK
<1>. QED BY <1>1, WorkerInvariant, PTL
=============================================================================
