-------------------------------- MODULE Metrics --------------------------------
(***************************************************************************)
(* MetricsCollector (coordinator/metrics.h) and the shutdown of the        *)
(* coordinator around it (coordinator/main.cpp).  Handlers record          *)
(* completions and take snapshots for GetMetrics; a reporting thread takes *)
(* one every five seconds; main stops that thread after the scheduler and  *)
(* before the server.                                                      *)
(*                                                                         *)
(* A call of record_completion is two steps, for it reads the clock before *)
(* it takes mutex_; so is a call of snapshot.  The clock advances by a     *)
(* step of its own.  The totals are modelled in Services.tla; the depth of *)
(* the queue and the workers alive, which snapshot reads afterwards from   *)
(* the store and the pool, are left out.                                   *)
(***************************************************************************)
EXTENDS Integers, SequencesExt

CONSTANTS
    Thread,       \* handler threads of the gRPC server
    Reporter,     \* the reporting thread, thread_
    Latency,      \* latencies that reports carry
    window_size,
    Recent,       \* the five seconds of the throughput, in ticks of the clock
    MaxTime,      \* bound: the clock stops here
    MaxRecords    \* bound: completions

ASSUME MetricsAssumption ==
    /\ Reporter \notin Thread
    /\ Latency \subseteq Nat
    /\ window_size \in Nat \ {0}
    /\ Recent \in Nat /\ MaxTime \in Nat /\ MaxRecords \in Nat

VARIABLES
    now,       \* now_ms()
    samples,   \* samples_, oldest first
    calls,     \* what each thread does in record_completion or snapshot
    recorded,  \* every sample ever stored, in the order of mutex_
    running_,
    r_pc,      \* the reporting thread, in run
    main_pc,
    g_shutdown

collectorVars == <<samples, calls, recorded>>
stopVars == <<running_, r_pc, main_pc, g_shutdown>>
vars == <<now, collectorVars, stopVars>>

Caller == Thread \cup {Reporter}
Sample == [latency : Latency, completed_at : 0..MaxTime]

Idle == [pc |-> "idle"]
RecordCall == [pc : {"store"}, sample : Sample]
SnapshotCall == [pc : {"copy"}, cutoff : Int]

TypeOK ==
    /\ now \in 0..MaxTime
    /\ samples \in Seq(Sample) /\ Len(samples) <= window_size
    /\ calls \in [Caller -> {Idle} \cup RecordCall \cup SnapshotCall]
    /\ recorded \in Seq(Sample)
    /\ running_ \in BOOLEAN
    /\ r_pc \in {"none", "test", "predicate", "block", "wait", "timeout", "print", "ended"}
    /\ main_pc \in {"start", "serve", "scheduler", "metrics", "notify", "join", "server", "exited"}
    /\ g_shutdown \in BOOLEAN

Init ==
    /\ now = 0
    /\ samples = <<>>
    /\ calls = [c \in Caller |-> Idle]
    /\ recorded = <<>>
    /\ running_ = FALSE
    /\ r_pc = "none"
    /\ main_pc = "start"
    /\ g_shutdown = FALSE

Tick ==
    /\ now < MaxTime
    /\ now' = now + 1
    /\ UNCHANGED <<collectorVars, stopVars>>

-----------------------------------------------------------------------------
(* record_completion                                                       *)

\* The server takes calls until main shuts it down.
Serving == main_pc # "exited"

ReadClock(th, latency) ==
    /\ Serving /\ main_pc # "server"
    /\ calls[th] = Idle
    /\ Len(recorded) + Cardinality({u \in Thread : calls[u].pc = "store"}) < MaxRecords
    /\ calls' = [calls EXCEPT ![th] =
         [pc |-> "store", sample |-> [latency |-> latency, completed_at |-> now]]]
    /\ UNCHANGED <<now, samples, recorded, stopVars>>

\* Variant: the window is trimmed before the sample is added.
PushSample_TrimsFirst(s) ==
    Append(IF Len(samples) > window_size THEN Tail(samples) ELSE samples, s)

\* push_back, then pop_front if the window is exceeded.
PushSample(s) ==
    LET pushed == Append(samples, s)
    IN  IF Len(pushed) > window_size THEN Tail(pushed) ELSE pushed

StoreSample(th) ==
    /\ calls[th].pc = "store"
    /\ samples' = PushSample(calls[th].sample)
    /\ recorded' = Append(recorded, calls[th].sample)
    /\ calls' = [calls EXCEPT ![th] = Idle]
    /\ UNCHANGED <<now, stopVars>>

-----------------------------------------------------------------------------
(* snapshot                                                                *)

ReadCutoff(c) ==
    /\ calls[c] = Idle
    /\ calls' = [calls EXCEPT ![c] = [pc |-> "copy", cutoff |-> now - Recent]]
    /\ UNCHANGED <<now, samples, recorded>>

\* Under mutex_: what the snapshot shows is computed from the samples of this moment.
CopySamples(c) ==
    /\ calls[c].pc = "copy"
    /\ calls' = [calls EXCEPT ![c] = Idle]
    /\ UNCHANGED <<now, samples, recorded>>

\* Variant: the samples are taken to be in the order of their times.
CompletionsSince_Ordered(cutoff) ==
    Len(samples) - Max({0} \cup {i \in DOMAIN samples : samples[i].completed_at < cutoff})

\* completions_last_5s
CompletionsSince(cutoff) ==
    Cardinality({i \in DOMAIN samples : samples[i].completed_at >= cutoff})

\* Variant: rounded up, one too far at the end.
Index_Ceiling(n, pct) == (n * pct) \div 100

\* The index from 0 of a percentile among n sorted values.
Index(n, pct) == ((n - 1) * pct) \div 100

percentile(values, pct) == IF values = <<>> THEN 0 ELSE values[Index(Len(values), pct) + 1]

\* The places of the values that are no later than that of place i when they are sorted.
NoLater(values, i) ==
    {j \in DOMAIN values : values[j] < values[i] \/ (values[j] = values[i] /\ j <= i)}

\* std::sort: each value goes to the place that the number of those gives.
Sorted(values) ==
    LET place == [i \in DOMAIN values |-> Cardinality(NoLater(values, i))]
    IN  [k \in DOMAIN values |-> values[CHOOSE i \in DOMAIN values : place[i] = k]]

\* GetMetrics
GetMetrics(th) ==
    /\ Serving /\ main_pc # "server"
    /\ ReadCutoff(th)
    /\ UNCHANGED stopVars

SnapshotTaken(th) == CopySamples(th) /\ UNCHANGED stopVars

-----------------------------------------------------------------------------
(* run: the reporting thread.  It holds cv_mutex_ but while it waits and   *)
(* while it prints; nobody else takes that mutex.                          *)

ReporterIs(pc) == r_pc' = pc /\ UNCHANGED <<running_, main_pc, g_shutdown>>

ReporterTests ==
    /\ r_pc = "test"
    /\ ReporterIs(IF running_ THEN "predicate" ELSE "ended")
    /\ UNCHANGED <<now, collectorVars>>

\* wait_for asks the predicate, and goes to sleep if it does not hold.
ReporterAsks ==
    /\ r_pc = "predicate"
    /\ ReporterIs(IF running_ THEN "block" ELSE "ended")
    /\ UNCHANGED <<now, collectorVars>>

ReporterBlocks ==
    /\ r_pc = "block"
    /\ ReporterIs("wait")
    /\ UNCHANGED <<now, collectorVars>>

\* Variant: wait in place of wait_for.
ReporterTimeout_Never == FALSE /\ UNCHANGED vars

ReporterTimeout ==
    /\ r_pc = "wait"
    /\ ReporterIs("timeout")
    /\ UNCHANGED <<now, collectorVars>>

\* After a timeout wait_for returns the predicate.
ReporterReturns ==
    /\ r_pc = "timeout"
    /\ ReporterIs(IF running_ THEN "print" ELSE "ended")
    /\ UNCHANGED <<now, collectorVars>>

ReporterPrints ==
    /\ r_pc = "print"
    /\ \/ ReadCutoff(Reporter) /\ UNCHANGED stopVars
       \/ CopySamples(Reporter) /\ ReporterIs("test")

-----------------------------------------------------------------------------
(* main                                                                    *)

SignalArrives ==
    /\ ~g_shutdown
    /\ g_shutdown' = TRUE
    /\ UNCHANGED <<now, collectorVars, running_, r_pc, main_pc>>

MainGoes(from, to) ==
    /\ main_pc = from
    /\ main_pc' = to
    /\ UNCHANGED <<now, collectorVars, g_shutdown>>

\* metrics.start; the scheduler is started next (Scheduler.tla).
Starts == MainGoes("start", "serve") /\ running_' = TRUE /\ r_pc' = "test"

LeavesServing == g_shutdown /\ MainGoes("serve", "scheduler") /\ UNCHANGED <<running_, r_pc>>

\* scheduler.stop returns when its threads have ended (Scheduler.tla).
SchedulerStopped == MainGoes("scheduler", "metrics") /\ UNCHANGED <<running_, r_pc>>

\* metrics.stop: clear the flag, notify, join.
StopsMetrics == MainGoes("metrics", "notify") /\ running_' = FALSE /\ UNCHANGED r_pc

NotifiesReporter ==
    /\ MainGoes("notify", "join")
    /\ r_pc' = IF r_pc = "wait" THEN "predicate" ELSE r_pc
    /\ UNCHANGED running_

JoinsReporter == r_pc = "ended" /\ MainGoes("join", "server") /\ UNCHANGED <<running_, r_pc>>

\* server->Shutdown waits for the handlers; then main returns.
ServerShutDown ==
    /\ \A th \in Thread : calls[th] = Idle
    /\ MainGoes("server", "exited")
    /\ UNCHANGED <<running_, r_pc>>

-----------------------------------------------------------------------------
Handler(th) == StoreSample(th) \/ SnapshotTaken(th)

ReportingThread ==
    ReporterTests \/ ReporterAsks \/ ReporterBlocks \/ ReporterTimeout \/ ReporterReturns
      \/ ReporterPrints

Main ==
    Starts \/ LeavesServing \/ SchedulerStopped \/ StopsMetrics \/ NotifiesReporter
      \/ JoinsReporter \/ ServerShutDown

Next ==
    \/ Tick
    \/ \E th \in Thread : Handler(th) \/ GetMetrics(th)
    \/ \E th \in Thread, latency \in Latency : ReadClock(th, latency)
    \/ ReportingThread
    \/ SignalArrives
    \/ Main

Spec == Init /\ [][Next]_vars

(* Every thread that has something to do goes on; wait_for returns after   *)
(* its five seconds.  Nothing is assumed of calls or of signals.           *)
Fairness ==
    /\ \A th \in Thread : WF_vars(Handler(th))
    /\ WF_vars(ReportingThread)
    /\ WF_vars(Main)

FairSpec == Spec /\ Fairness

-----------------------------------------------------------------------------
(***************************************************************************)
(* The window holds the latest completions, all of them until it is full,  *)
(* and never more than window_size.                                        *)
(***************************************************************************)
WindowIsLatest ==
    /\ Len(samples) = Min({window_size, Len(recorded)})
    /\ IsSuffix(samples, recorded)

(***************************************************************************)
(* The throughput counts every completion of the last five seconds that    *)
(* has been recorded, although the clock is read before the lock and the   *)
(* samples may be out of order; it counts less only when the window is     *)
(* full, and then at least the latest of them.                             *)
(***************************************************************************)
ThroughputExact ==
    \A c \in Caller :
      calls[c].pc = "copy" =>
        LET counted == CompletionsSince(calls[c].cutoff)
            actual == Cardinality({i \in DOMAIN recorded :
                                     recorded[i].completed_at >= calls[c].cutoff})
        IN  /\ counted <= actual
            /\ counted < actual => Len(samples) = window_size

\* The largest value below which there are at most pct percent of the others.
RankOf(values, v) == Cardinality({i \in DOMAIN values : values[i] < v})

IsPercentile(values, pct, v) ==
    /\ v \in ToSet(values)
    /\ 100 * RankOf(values, v) <= pct * (Len(values) - 1)
    /\ \A u \in ToSet(values) :
         u > v => 100 * RankOf(values, u) > pct * (Len(values) - 1)

\* Windows of many lengths, with equal latencies among them.
Windows == {[i \in 1..n |-> (n - i) \div repeat] : n \in (1..24) \cup (99..103), repeat \in 1..3}

PercentilesOf(values) ==
    LET sorted == Sorted(values)
    IN  \A pct \in {50, 95, 99} : IsPercentile(values, pct, percentile(sorted, pct))

WindowsRight == \A values \in Windows : PercentilesOf(values)

(***************************************************************************)
(* Whenever a snapshot is computed, percentile picks from the samples the  *)
(* value that the definition by ranks gives, for the three percentages     *)
(* used, also at both ends of the window and among equal latencies; and so *)
(* it would from the longer windows of Windows.                            *)
(***************************************************************************)
PercentilesRight ==
    \A c \in Caller :
      calls[c].pc = "copy" =>
        /\ samples # <<>> => PercentilesOf([i \in DOMAIN samples |-> samples[i].latency])
        /\ WindowsRight

(***************************************************************************)
(* A signal ends the process: although stop clears running_ and notifies   *)
(* without cv_mutex_, and the notification is lost when the reporting      *)
(* thread is about to sleep, main joins that thread and the server.        *)
(***************************************************************************)
ShutdownCompletes == g_shutdown ~> main_pc = "exited"

===============================================================================
