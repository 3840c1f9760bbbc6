----------------------------- MODULE WorkerPool -----------------------------
(***************************************************************************)
(* The coordinator's view of its workers (coordinator/worker_pool.h): the  *)
(* map workers_ of WorkerInfo records.  Every method holds mutex_ for its  *)
(* whole body and is one atomic step.                                      *)
(*                                                                         *)
(* last_heartbeat_ms is abstracted to the only test the code makes of it,  *)
(* "older than the heartbeat timeout": the field "silent", which           *)
(* HeartbeatsMissed, the passage of time, makes true.                      *)
(***************************************************************************)
EXTENDS Protocol

CONSTANTS
  Capacity,  \* the capacities workers register
  MaxLoad    \* the largest active_tasks a worker reports

ASSUME PoolAssumption ==
  /\ MaxLoad \in Nat
  /\ Capacity \subseteq {c \in Int : c <= MaxLoad}

VARIABLE workers  \* workers_: a function from the known ids to WorkerInfo

WorkerInfo ==
  [address: Address, capacity: Capacity, active_tasks: Nat,
   silent: BOOLEAN, alive: BOOLEAN]

PoolTypeOK ==
  /\ DOMAIN workers \subseteq Worker
  /\ \A w \in DOMAIN workers : workers[w] \in WorkerInfo

NoWorkers == [w \in {} |-> {}]

PoolInit == workers = NoWorkers

(* A new process: the pool was in memory only.                             *)
PoolReset == workers' = NoWorkers

-----------------------------------------------------------------------------
(* register_worker overwrites whatever was known under the id.             *)
register_worker(w, address, capacity) ==
  workers' = [v \in DOMAIN workers \cup {w} |->
                IF v = w
                THEN [address |-> address, capacity |-> capacity,
                      active_tasks |-> 0, silent |-> FALSE, alive |-> TRUE]
                ELSE workers[v]]

(* Variants: a dead worker stays dead; the coordinator's count is kept.    *)
heartbeat_KeepsDead(w, active_tasks) ==
  workers' = IF w \in DOMAIN workers
             THEN [workers EXCEPT ![w].silent = FALSE,
                                  ![w].active_tasks = active_tasks]
             ELSE workers
heartbeat_KeepsLoad(w, active_tasks) ==
  workers' = IF w \in DOMAIN workers
             THEN [workers EXCEPT ![w].silent = FALSE, ![w].alive = TRUE]
             ELSE workers

(* heartbeat refreshes and revives a known worker, and takes its own count *)
(* of active tasks for the coordinator's; it ignores an unknown one.       *)
heartbeat(w, active_tasks) ==
  workers' = IF w \in DOMAIN workers
             THEN [workers EXCEPT ![w].silent = FALSE,
                                  ![w].active_tasks = active_tasks,
                                  ![w].alive = TRUE]
             ELSE workers

(* Variant: no test of the capacity.                                       *)
Available_AnyLoad == {w \in DOMAIN workers : workers[w].alive}

Available ==
  {w \in DOMAIN workers : workers[w].alive
                          /\ workers[w].active_tasks < workers[w].capacity}

(* The workers select_worker may return: the least loaded, ties at random. *)
select_worker ==
  {w \in Available :
     \A v \in Available : workers[w].active_tasks <= workers[v].active_tasks}

increment_load(w) ==
  workers' = IF w \in DOMAIN workers
             THEN [workers EXCEPT ![w].active_tasks = @ + 1]
             ELSE workers

(* Variant: no test for zero.                                              *)
decrement_load_Unchecked(w) ==
  workers' = IF w \in DOMAIN workers
             THEN [workers EXCEPT ![w].active_tasks = @ - 1]
             ELSE workers

decrement_load(w) ==
  workers' = IF w \in DOMAIN workers /\ workers[w].active_tasks > 0
             THEN [workers EXCEPT ![w].active_tasks = @ - 1]
             ELSE workers

(* Variant: a dead worker is removed from the pool.                        *)
mark_dead_Removes(w) == workers' = [v \in DOMAIN workers \ {w} |-> workers[v]]

mark_dead(w) ==
  workers' = IF w \in DOMAIN workers
             THEN [workers EXCEPT ![w].alive = FALSE]
             ELSE workers

(* remove_worker: nothing calls it, so a worker stays known for ever.      *)
remove_worker(w) == workers' = [v \in DOMAIN workers \ {w} |-> workers[v]]

find_dead_workers ==
  {w \in DOMAIN workers : workers[w].alive /\ workers[w].silent}

(* Time: more than the heartbeat timeout has passed since the last one.    *)
HeartbeatsMissed(w) ==
  /\ w \in DOMAIN workers
  /\ ~workers[w].silent
  /\ workers' = [workers EXCEPT ![w].silent = TRUE]

=============================================================================
