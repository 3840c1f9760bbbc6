----------------------------- MODULE PrimeWorker -----------------------------
(***************************************************************************)
(* The worker with what its executions compute, worker/main.cpp: each      *)
(* thread of execute_task has its own copy of a payload and its own        *)
(* report, which it fills once and sends until it is acknowledged.         *)
(***************************************************************************)
EXTENDS Worker, PrimeCheck

CONSTANTS
    Number,     \* the numbers that payloads name
    Malformed,  \* any payload that is no decimal number, or one that stoull refuses
    None        \* of a thread that has no task or no report

ASSUME NumberAssumption == Number \subseteq UInt /\ Malformed \notin UInt

Payload == Number \cup {Malformed}

VARIABLES
    payload,  \* ExecThread -> payload of its task
    report    \* ExecThread -> the verdict in its request to ReportResult

locals == <<payload, report>>

Completed(answer) == [state |-> "COMPLETED", answer |-> answer]
Failed == [state |-> "FAILED"]

PrimeInit ==
    /\ Init
    /\ payload = [e \in ExecThread |-> None]
    /\ report = [e \in ExecThread |-> None]

-----------------------------------------------------------------------------
\* run_prime_task, and the exception it ends with for a malformed payload.
run_prime_task(p) ==
    IF p = Malformed THEN Failed ELSE Completed(check_prime(p))

\* The handler hands the payload of its request to the thread it starts; nothing
\* has looked at it before.
Spawns(a) ==
    /\ SpawnAndAccept(a)
    /\ \E p \in Payload :
          payload' = [e \in ExecThread |->
                        IF exec[e].pc = "idle" /\ exec'[e].pc = "run" THEN p ELSE payload[e]]
    /\ UNCHANGED report

\* Variant: the threads share one request object.
Computes_SharedReport(e) ==
    /\ RunPrimeTask(e)
    /\ report' = [f \in ExecThread |->
                    IF exec'[f].pc = "report" THEN run_prime_task(payload[e]) ELSE None]
    /\ UNCHANGED payload

Computes(e) ==
    /\ RunPrimeTask(e)
    /\ report' = [report EXCEPT ![e] = run_prime_task(payload[e])]
    /\ UNCHANGED payload

\* An attempt at reporting sends what the thread has, again if need be.  When
\* there is no further attempt neither is needed any more.
Reports(e) ==
    /\ ReportAcknowledged(e) \/ ReportFails(e)
    /\ IF exec'[e].pc = "report"
         THEN UNCHANGED locals
         ELSE /\ payload' = [payload EXCEPT ![e] = None]
              /\ report' = [report EXCEPT ![e] = None]

Admits(a) == (AssignTask(a) \/ TestCapacity(a) \/ IncrementActive(a)) /\ UNCHANGED locals

Others ==
    /\ \/ \E e \in ExecThread : ExecutionEnds(e)
       \/ SignalArrives \/ SignalEnds
       \/ HeartbeatLoop \/ Main
    /\ UNCHANGED locals

PrimeNext ==
    /\ main_pc # "exited"
    /\ \/ \E a \in AssignThread : Admits(a) \/ Spawns(a)
       \/ \E e \in ExecThread : Computes(e) \/ Reports(e)
       \/ Others

PrimeSpec == PrimeInit /\ [][PrimeNext]_<<vars, locals>>

FairPrimeSpec == PrimeSpec /\ Fairness

-----------------------------------------------------------------------------
\* The reports that are right for a payload.
RightReports(p) ==
    IF p = Malformed THEN {Failed}
    ELSE {Completed(answer) : answer \in {r \in {Expected(p), NotPrime(p)} : AnswerRight(p, r)}}

(***************************************************************************)
(* When a thread has something to report, check_prime is right for every   *)
(* number it could have been given, not only for the payloads of the       *)
(* instance: it finds the smallest factor if there is one, and no square   *)
(* that should end its loop wraps around, but for large primes.            *)
(***************************************************************************)
PrimeRight ==
    \A e \in ExecThread : exec[e].pc = "report" => CheckPrimeRight

(***************************************************************************)
(* Whatever else the worker executes at the time and however often a       *)
(* report is sent, it is the right one for the payload of the thread's own *)
(* task: primality with the smallest factor, but for large primes, or the  *)
(* failure of a payload that names no number.                              *)
(***************************************************************************)
ResultsRight ==
    \A e \in ExecThread :
        exec[e].pc = "report" => report[e] \in RightReports(payload[e])

===============================================================================
