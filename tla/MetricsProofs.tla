---------------------------- MODULE MetricsProofs ----------------------------
(***************************************************************************)
(* The window of MetricsCollector and the throughput computed from it are  *)
(* right for every size of window, number of handler threads and course of *)
(* the clock.  None of it needs the samples to be in the order of their    *)
(* times.                                                                  *)
(***************************************************************************)
EXTENDS Metrics, FiniteSetTheorems, SequenceTheorems, TLAPS

(* How far the window is into what was recorded.                           *)
Dropped == Len(recorded) - Len(samples)

(* The window is the end of what was recorded, sample by sample.           *)
SamplesAreLatest ==
  /\ Len(samples) = IF Len(recorded) < window_size THEN Len(recorded) ELSE window_size
  /\ \A k \in 1..Len(samples) : samples[k] = recorded[Dropped + k]

MInv == TypeOK /\ SamplesAreLatest

-----------------------------------------------------------------------------
(* Where the window is.                                                    *)
LEMMA WindowPlace ==
  ASSUME MInv
  PROVE  /\ samples \in Seq(Sample) /\ recorded \in Seq(Sample)
         /\ Len(samples) \in Nat /\ Len(recorded) \in Nat
         /\ Len(samples) = window_size \/ Len(samples) = Len(recorded)
         /\ Len(samples) <= Len(recorded)
         /\ Dropped \in Nat /\ Len(recorded) = Dropped + Len(samples)
         /\ \A k \in 1..Len(samples) : samples[k] = recorded[Dropped + k]
<1>1. /\ samples \in Seq(Sample) /\ recorded \in Seq(Sample) /\ window_size \in Nat
  BY MetricsAssumption DEF MInv, TypeOK
<1>2. Len(samples) \in Nat /\ Len(recorded) \in Nat
  BY <1>1
<1>3. Len(samples) = IF Len(recorded) < window_size THEN Len(recorded) ELSE window_size
  BY DEF MInv, SamplesAreLatest
<1>4. \A k \in 1..Len(samples) : samples[k] = recorded[Dropped + k]
  BY DEF MInv, SamplesAreLatest
<1>5. /\ Len(samples) = window_size \/ Len(samples) = Len(recorded)
      /\ Len(samples) <= Len(recorded)
  BY <1>1, <1>2, <1>3
<1>6. Dropped \in Nat /\ Len(recorded) = Dropped + Len(samples)
  BY <1>1, <1>2, <1>5 DEF Dropped
<1>. QED BY <1>1, <1>2, <1>4, <1>5, <1>6

(* A sample is added at the end, and at most one is lost at the front.     *)
LEMMA PushEffect ==
  ASSUME MInv, NEW s \in Sample
  PROVE  \E lost \in {0, 1} :
           /\ PushSample(s) \in Seq(Sample)
           /\ Len(PushSample(s)) = Len(samples) + 1 - lost
           /\ lost = 1 <=> Len(samples) = window_size
           /\ \A k \in 1..Len(PushSample(s)) :
                PushSample(s)[k] = IF k + lost = Len(samples) + 1 THEN s ELSE samples[k + lost]
<1>1. /\ samples \in Seq(Sample) /\ Len(samples) \in Nat
      /\ Len(samples) <= window_size /\ window_size \in Nat \ {0}
  BY MetricsAssumption DEF MInv, TypeOK
<1>. DEFINE pushed == Append(samples, s)
<1>2. /\ pushed \in Seq(Sample) /\ Len(pushed) = Len(samples) + 1
      /\ \A k \in 1..Len(samples) + 1 :
           pushed[k] = IF k = Len(samples) + 1 THEN s ELSE samples[k]
  BY <1>1
<1>. HIDE DEF pushed
<1>3. PushSample(s) = IF Len(pushed) > window_size THEN Tail(pushed) ELSE pushed
  BY DEF PushSample, pushed
<1>4. CASE Len(samples) = window_size
  <2>1. PushSample(s) = Tail(pushed)
    BY <1>1, <1>2, <1>3, <1>4
  <2>2. /\ Tail(pushed) \in Seq(Sample) /\ Len(Tail(pushed)) = Len(samples)
        /\ \A k \in 1..Len(samples) : Tail(pushed)[k] = pushed[k + 1]
    BY <1>1, <1>2, <1>4
  <2>. QED BY <1>1, <1>2, <1>4, <2>1, <2>2
<1>5. CASE Len(samples) # window_size
  <2>1. PushSample(s) = pushed
    BY <1>1, <1>2, <1>3, <1>5
  <2>. QED BY <1>1, <1>2, <1>5, <2>1
<1>. QED BY <1>4, <1>5

(* What a thread stores is a sample.                                       *)
LEMMA StoreKeeps ==
  ASSUME MInv, NEW th \in Thread, StoreSample(th)
  PROVE  MInv'
<1>1. calls[th].sample \in Sample
  BY DEF StoreSample, MInv, TypeOK, Caller, Idle, RecordCall, SnapshotCall
<1>2. /\ samples' = PushSample(calls[th].sample)
      /\ recorded' = Append(recorded, calls[th].sample)
      /\ calls' = [calls EXCEPT ![th] = Idle]
      /\ UNCHANGED <<now, running_, r_pc, main_pc, g_shutdown>>
  BY DEF StoreSample, stopVars
<1>3. /\ Len(samples) \in Nat /\ Len(recorded) \in Nat /\ recorded \in Seq(Sample)
      /\ Len(samples) <= window_size /\ window_size \in Nat \ {0}
  BY MetricsAssumption DEF MInv, TypeOK
<1>4. TypeOK'
  BY <1>1, <1>2, <1>3, PushEffect DEF MInv, TypeOK, Caller
<1>5. /\ Len(recorded') = Len(recorded) + 1
      /\ \A k \in 1..Len(recorded) + 1 :
           recorded'[k] = IF k = Len(recorded) + 1 THEN calls[th].sample ELSE recorded[k]
  BY <1>1, <1>2, <1>3
<1>6. SamplesAreLatest'
  <2>1. PICK lost \in {0, 1} :
          /\ Len(samples') = Len(samples) + 1 - lost
          /\ lost = 1 <=> Len(samples) = window_size
          /\ \A k \in 1..Len(samples') :
               samples'[k] = IF k + lost = Len(samples) + 1 THEN calls[th].sample
                             ELSE samples[k + lost]
    BY <1>1, <1>2, PushEffect
  <2>2. Len(samples') = IF Len(recorded') < window_size THEN Len(recorded') ELSE window_size
    BY <1>3, <1>5, <2>1 DEF MInv, SamplesAreLatest
  <2>3. ASSUME NEW k \in 1..Len(samples')
        PROVE  samples'[k] = recorded'[Len(recorded') - Len(samples') + k]
    <3>1. Len(recorded') - Len(samples') + k = Dropped + k + lost
      BY <1>3, <1>5, <2>1 DEF Dropped
    <3>2. /\ Dropped \in Nat /\ Dropped + Len(samples) = Len(recorded)
          /\ \A j \in 1..Len(samples) : samples[j] = recorded[Dropped + j]
      BY WindowPlace
    <3>3. k + lost \in 1..Len(samples) + 1
      BY <1>3, <2>1
    <3>4. CASE k + lost = Len(samples) + 1
      <4>1. samples'[k] = calls[th].sample
        BY <2>1, <3>4
      <4>2. Len(recorded') - Len(samples') + k = Len(recorded) + 1
        BY <1>3, <3>1, <3>2, <3>4
      <4>3. Len(recorded) + 1 \in 1..Len(recorded) + 1
        BY <1>3
      <4>. QED BY <1>5, <4>1, <4>2, <4>3
    <3>5. CASE k + lost # Len(samples) + 1
      <4>1. k + lost \in 1..Len(samples)
        BY <1>3, <3>3, <3>5
      <4>2. samples'[k] = recorded[Dropped + (k + lost)]
        BY <2>1, <3>2, <3>5, <4>1
      <4>3. Dropped + (k + lost) \in 1..Len(recorded)
        BY <1>3, <3>2, <4>1
      <4>. QED BY <1>3, <1>5, <3>1, <3>2, <4>2, <4>3
    <3>. QED BY <3>4, <3>5
  <2>. QED BY <2>2, <2>3 DEF SamplesAreLatest, Dropped
<1>. QED BY <1>4, <1>6 DEF MInv

(* No other step stores anything.                                          *)
LEMMA OtherStepsKeep ==
  ASSUME MInv, [Next]_vars, ~\E th \in Thread : StoreSample(th)
  PROVE  MInv'
<1>. USE MetricsAssumption DEF MInv, TypeOK, stopVars, collectorVars
<1>1. ASSUME UNCHANGED <<samples, recorded>> PROVE SamplesAreLatest'
  BY <1>1 DEF SamplesAreLatest, Dropped
<1>2. CASE Tick
  BY <1>1, <1>2 DEF Tick
<1>3. ASSUME NEW th \in Thread, NEW latency \in Latency, ReadClock(th, latency)
      PROVE  MInv'
  <2>1. [pc |-> "store", sample |-> [latency |-> latency, completed_at |-> now]] \in RecordCall
    BY DEF RecordCall, Sample
  <2>. QED BY <1>1, <1>3, <2>1 DEF ReadClock, Caller
<1>4. ASSUME NEW c \in Caller, ReadCutoff(c)
      PROVE  /\ calls' \in [Caller -> {Idle} \cup RecordCall \cup SnapshotCall]
             /\ UNCHANGED <<now, samples, recorded>>
  <2>1. [pc |-> "copy", cutoff |-> now - Recent] \in SnapshotCall
    BY DEF SnapshotCall
  <2>. QED BY <1>4, <2>1 DEF ReadCutoff
<1>5. ASSUME NEW c \in Caller, CopySamples(c)
      PROVE  /\ calls' \in [Caller -> {Idle} \cup RecordCall \cup SnapshotCall]
             /\ UNCHANGED <<now, samples, recorded>>
  BY <1>5 DEF CopySamples
<1>6. ASSUME NEW th \in Thread, GetMetrics(th) \/ SnapshotTaken(th)
      PROVE  MInv'
  BY <1>1, <1>4, <1>5, <1>6 DEF GetMetrics, SnapshotTaken, Caller
<1>7. CASE ReportingThread
  <2>1. CASE ReporterPrints
    BY <1>1, <1>4, <1>5, <2>1 DEF ReporterPrints, ReporterIs, Caller
  <2>. QED BY <1>1, <1>7, <2>1 DEF ReportingThread, ReporterTests, ReporterAsks, ReporterBlocks,
              ReporterTimeout, ReporterReturns, ReporterIs
<1>8. CASE SignalArrives \/ Main
  BY <1>1, <1>8 DEF SignalArrives, Main, Starts, LeavesServing, SchedulerStopped, StopsMetrics,
     NotifiesReporter, JoinsReporter, ServerShutDown, MainGoes
<1>9. CASE UNCHANGED vars
  BY <1>1, <1>9 DEF vars
<1>. QED BY <1>2, <1>3, <1>6, <1>7, <1>8, <1>9 DEF Next, Handler

THEOREM MetricsInvariant == Spec => []MInv
<1>1. Init => MInv
  <2>. SUFFICES ASSUME Init PROVE MInv
    OBVIOUS
  <2>1. TypeOK
    <3>1. calls \in [Caller -> {Idle} \cup RecordCall \cup SnapshotCall]
      BY DEF Init
    <3>2. samples \in Seq(Sample) /\ Len(samples) <= window_size /\ recorded \in Seq(Sample)
      BY MetricsAssumption DEF Init
    <3>3. now \in 0..MaxTime /\ r_pc = "none" /\ main_pc = "start"
      BY MetricsAssumption DEF Init
    <3>4. running_ \in BOOLEAN /\ g_shutdown \in BOOLEAN
      BY Zenon DEF Init
    <3>. QED BY <3>1, <3>2, <3>3, <3>4 DEF TypeOK
  <2>2. SamplesAreLatest
    BY MetricsAssumption DEF Init, SamplesAreLatest
  <2>. QED BY <2>1, <2>2 DEF MInv
<1>2. MInv /\ [Next]_vars => MInv'
  BY StoreKeeps, OtherStepsKeep
<1>. QED BY <1>1, <1>2, PTL DEF Spec

(* Every variable keeps its type; the window never exceeds window_size.    *)
THEOREM MetricsTypes == Spec => []TypeOK
<1>1. MInv => TypeOK
  BY DEF MInv
<1>. QED BY <1>1, MetricsInvariant, PTL

-----------------------------------------------------------------------------
(* The window.                                                             *)

(* Sample by sample or by IsSuffix is the same.                            *)
LEMMA LatestIsSuffix ==
  ASSUME MInv
  PROVE  WindowIsLatest
<1>. USE WindowPlace
<1>1. Len(samples) = Min({window_size, Len(recorded)})
  <2>1. Len(samples) = IF Len(recorded) < window_size THEN Len(recorded) ELSE window_size
    BY DEF MInv, SamplesAreLatest
  <2>. QED BY <2>1, MetricsAssumption DEF Min
<1>2. IsSuffix(samples, recorded)
  <2>. DEFINE n == Len(samples)
              s == Reverse(samples)
              t == Reverse(recorded)
  <2>1. n \in Nat /\ n <= Len(recorded)
    OBVIOUS
  <2>2. /\ Len(s) = n /\ Len(t) = Len(recorded)
        /\ \A k \in 1..n : s[k] = samples[n - k + 1]
        /\ \A k \in 1..Len(recorded) : t[k] = recorded[Len(recorded) - k + 1]
    BY DEF Reverse
  <2>3. ASSUME NEW k \in 1..n
        PROVE  s[k] = t[k] /\ s[k] \in Sample
    <3>1. n - k + 1 \in 1..n /\ k \in 1..Len(recorded)
      BY <2>1
    <3>2. Dropped + (n - k + 1) = Len(recorded) - k + 1
      <4>1. n \in Nat /\ k \in Nat /\ Dropped \in Nat /\ Len(recorded) = Dropped + n
        BY <2>1
      <4>. HIDE DEF n
      <4>. QED BY ONLY <4>1
    <3>3. samples[n - k + 1] = recorded[Len(recorded) - k + 1]
      <4>1. samples[n - k + 1] = recorded[Dropped + (n - k + 1)]
        BY <3>1
      <4>. QED BY ONLY <3>2, <4>1
    <3>4. samples[n - k + 1] \in Sample
      BY <3>1
    <3>. QED BY <2>2, <3>1, <3>3, <3>4
  <2>. HIDE DEF n, s, t
  <2>4. /\ SubSeq(s, 1, n) \in Seq(Sample) /\ SubSeq(t, 1, n) \in Seq(Sample)
        /\ Len(SubSeq(s, 1, n)) = n /\ Len(SubSeq(t, 1, n)) = n
        /\ \A k \in 1..n : SubSeq(s, 1, n)[k] = s[k] /\ SubSeq(t, 1, n)[k] = t[k]
    <3>1. \A k \in 1..n : s[k] \in Sample /\ t[k] \in Sample
      BY <2>3
    <3>2. /\ SubSeq(s, 1, n) \in Seq(Sample)
          /\ Len(SubSeq(s, 1, n)) = IF 1 <= n THEN n - 1 + 1 ELSE 0
          /\ \A k \in 1..n - 1 + 1 : SubSeq(s, 1, n)[k] = s[1 + k - 1]
      BY <2>1, <3>1, SubSeqProperties
    <3>3. /\ SubSeq(t, 1, n) \in Seq(Sample)
          /\ Len(SubSeq(t, 1, n)) = IF 1 <= n THEN n - 1 + 1 ELSE 0
          /\ \A k \in 1..n - 1 + 1 : SubSeq(t, 1, n)[k] = t[1 + k - 1]
      BY <2>1, <3>1, SubSeqProperties
    <3>. QED BY <2>1, <3>2, <3>3
  <2>5. SubSeq(s, 1, n) = SubSeq(t, 1, n)
    BY <2>3, <2>4, SeqEqual
  <2>. QED BY <2>1, <2>2, <2>5 DEF IsSuffix, IsPrefix, n, s, t
<1>. QED BY <1>1, <1>2 DEF WindowIsLatest

(* The window is the latest completions, whatever calls overlap.           *)
THEOREM WindowHoldsLatest == Spec => []WindowIsLatest
BY MetricsInvariant, LatestIsSuffix, PTL

-----------------------------------------------------------------------------
(* The throughput.                                                         *)

Since(s, cutoff) == {k \in DOMAIN s : s[k].completed_at >= cutoff}

(* The completions counted are those of the window, each once.             *)
LEMMA CountIsExact ==
  ASSUME MInv, NEW cutoff
  PROVE  LET counted == CompletionsSince(cutoff)
             actual == Cardinality(Since(recorded, cutoff))
         IN  /\ counted <= actual
             /\ counted < actual => Len(samples) = window_size
<1>. USE WindowPlace
<1>1. IsFiniteSet(Since(samples, cutoff)) /\ IsFiniteSet(Since(recorded, cutoff))
  <2>1. IsFiniteSet(1..Len(samples)) /\ IsFiniteSet(1..Len(recorded))
    BY FS_Interval
  <2>2. Since(samples, cutoff) \subseteq 1..Len(samples)
    BY DEF Since
  <2>3. Since(recorded, cutoff) \subseteq 1..Len(recorded)
    BY DEF Since
  <2>. QED BY <2>1, <2>2, <2>3, FS_Subset
<1>2. CompletionsSince(cutoff) = Cardinality(Since(samples, cutoff))
  BY DEF CompletionsSince, Since
<1>3. Cardinality(Since(samples, cutoff)) <= Cardinality(Since(recorded, cutoff))
  <2>. DEFINE place == [k \in Since(samples, cutoff) |-> Dropped + k]
  <2>1. ASSUME NEW k \in Since(samples, cutoff) PROVE Dropped + k \in Since(recorded, cutoff)
    <3>1. k \in 1..Len(samples) /\ samples[k].completed_at >= cutoff
      BY DEF Since
    <3>2. Dropped + k \in 1..Len(recorded) /\ recorded[Dropped + k] = samples[k]
      BY <3>1
    <3>. QED BY <3>1, <3>2 DEF Since
  <2>2. \A j, k \in Since(samples, cutoff) : Dropped + j = Dropped + k => j = k
    BY DEF Since
  <2>3. place \in Injection(Since(samples, cutoff), Since(recorded, cutoff))
    BY <2>1, <2>2 DEF Injection, IsInjective
  <2>. HIDE DEF place
  <2>. QED BY <1>1, <2>3, FS_Injection
<1>4. CASE Len(samples) = Len(recorded)
  <2>1. \A k \in 1..Len(samples) : samples[k] = recorded[k]
    BY <1>4
  <2>2. Since(samples, cutoff) = Since(recorded, cutoff)
    BY <1>4, <2>1 DEF Since
  <2>. QED BY <1>1, <1>2, <2>2, FS_CardinalityType
<1>5. CASE Len(samples) = window_size
  BY <1>2, <1>3, <1>5
<1>. QED BY <1>4, <1>5

(* No completion of the last seconds is missed by a snapshot, unless more  *)
(* of them than the window holds have been recorded.                       *)
THEOREM ThroughputIsExact == Spec => []ThroughputExact
<1>1. MInv => ThroughputExact
  BY CountIsExact DEF ThroughputExact, Since
<1>. QED BY <1>1, MetricsInvariant, PTL

-----------------------------------------------------------------------------
(* Sorting.                                                                *)

(* The values that are no later are as many as the place says, and those   *)
(* of an earlier value are among them.                                     *)
LEMMA NoLaterOrder ==
  ASSUME NEW n \in Nat, NEW values \in [1..n -> Int], NEW i \in 1..n, NEW j \in 1..n
  PROVE  /\ IsFiniteSet(NoLater(values, i)) /\ Cardinality(NoLater(values, i)) \in 1..n
         /\ i # j => Cardinality(NoLater(values, i)) # Cardinality(NoLater(values, j))
         /\ values[i] < values[j]
              => Cardinality(NoLater(values, i)) < Cardinality(NoLater(values, j))
<1>1. \A k \in 1..n :
        /\ NoLater(values, k) \subseteq 1..n /\ k \in NoLater(values, k)
        /\ IsFiniteSet(NoLater(values, k)) /\ Cardinality(NoLater(values, k)) \in 1..n
  <2>. TAKE k \in 1..n
  <2>1. NoLater(values, k) \in SUBSET (1..n) /\ k \in NoLater(values, k)
    BY DEF NoLater
  <2>2. IsFiniteSet(1..n) /\ Cardinality(1..n) = n
    BY FS_Interval
  <2>3. /\ IsFiniteSet(NoLater(values, k)) /\ Cardinality(NoLater(values, k)) <= n
        /\ Cardinality(NoLater(values, k)) \in Nat
    BY <2>1, <2>2, FS_Subset, FS_CardinalityType
  <2>4. Cardinality(NoLater(values, k)) # 0
    BY <2>1, <2>3, FS_EmptySet
  <2>5. Cardinality(NoLater(values, k)) \in 1..n
    BY <2>3, <2>4
  <2>. QED BY <2>1, <2>3, <2>5
<1>2. ASSUME NEW k \in 1..n, NEW l \in 1..n, k # l, k \in NoLater(values, l)
      PROVE  Cardinality(NoLater(values, k)) < Cardinality(NoLater(values, l))
  <2>1. NoLater(values, k) \in SUBSET NoLater(values, l)
    BY <1>2 DEF NoLater
  <2>2. l \notin NoLater(values, k)
    BY <1>2 DEF NoLater
  <2>3. /\ Cardinality(NoLater(values, k)) <= Cardinality(NoLater(values, l))
        /\ Cardinality(NoLater(values, k)) # Cardinality(NoLater(values, l))
    BY <1>1, <2>1, <2>2, FS_Subset
  <2>4. Cardinality(NoLater(values, k)) \in Int /\ Cardinality(NoLater(values, l)) \in Int
    BY <1>1
  <2>. QED BY <2>3, <2>4
<1>3. j \in NoLater(values, i) \/ i \in NoLater(values, j)
  BY DEF NoLater
<1>4. values[i] < values[j] => i # j /\ i \in NoLater(values, j)
  BY DEF NoLater
<1>. QED BY <1>1, <1>2, <1>3, <1>4

(* Every place is taken.                                                   *)
LEMMA PlaceTaken ==
  ASSUME NEW n \in Nat, NEW values \in [1..n -> Int], NEW k \in 1..n
  PROVE  \E i \in 1..n : Cardinality(NoLater(values, i)) = k
<1>. SUFFICES ASSUME \A i \in 1..n : Cardinality(NoLater(values, i)) # k PROVE FALSE
  OBVIOUS
<1>. DEFINE place == [i \in 1..n |-> Cardinality(NoLater(values, i))]
            others == (1..n) \ {k}
<1>1. place \in [1..n -> others]
  BY NoLaterOrder
<1>2. IsFiniteSet(1..n) /\ Cardinality(1..n) = n
  BY FS_Interval
<1>3. IsFiniteSet(others) /\ Cardinality(others) = n - 1
  BY <1>2, FS_RemoveElement
<1>. HIDE DEF others
<1>4. \E i, j \in 1..n : i # j /\ place[i] = place[j]
  <2>. HIDE DEF place
  <2>. QED BY <1>1, <1>2, <1>3, FS_PigeonHole
<1>. QED BY <1>4, NoLaterOrder

(* Sorted has each of the values once, in their order.                     *)
LEMMA SortedSorts ==
  ASSUME NEW n \in Nat, NEW values \in [1..n -> Int]
  PROVE  \E from \in [1..n -> 1..n] :
           /\ \A k \in 1..n : Cardinality(NoLater(values, from[k])) = k
           /\ \A k, l \in 1..n : from[k] = from[l] => k = l
           /\ Sorted(values) = [k \in 1..n |-> values[from[k]]]
           /\ \A k, l \in 1..n : k <= l => Sorted(values)[k] <= Sorted(values)[l]
<1>. DEFINE place == [i \in 1..n |-> Cardinality(NoLater(values, i))]
            from == [k \in 1..n |-> CHOOSE i \in 1..n : place[i] = k]
<1>1. \A k \in 1..n : from[k] \in 1..n /\ Cardinality(NoLater(values, from[k])) = k
  <2>. TAKE k \in 1..n
  <2>1. \E i \in 1..n : place[i] = k
    BY PlaceTaken
  <2>2. from[k] \in 1..n /\ place[from[k]] = k
    BY <2>1
  <2>. QED BY <2>2
<1>2. Sorted(values) = [k \in 1..n |-> values[from[k]]]
  BY DEF Sorted
<1>3. from \in [1..n -> 1..n]
  BY <1>1
<1>. HIDE DEF from
<1>4. ASSUME NEW k \in 1..n, NEW l \in 1..n, k <= l
      PROVE  Sorted(values)[k] <= Sorted(values)[l]
  <2>1. values[from[l]] < values[from[k]] =>
          Cardinality(NoLater(values, from[l])) < Cardinality(NoLater(values, from[k]))
    BY <1>3, NoLaterOrder
  <2>2. ~(values[from[l]] < values[from[k]])
    BY <1>1, <1>4, <2>1
  <2>3. values[from[k]] \in Int /\ values[from[l]] \in Int
    BY <1>3
  <2>. QED BY <1>2, <2>2, <2>3
<1>. QED BY <1>1, <1>2, <1>3, <1>4

(* The index is that of the last value that has at most pct percent of the *)
(* others before it.                                                       *)
LEMMA IndexBounds ==
  ASSUME NEW n \in Nat \ {0}, NEW pct \in 0..100
  PROVE  /\ Index(n, pct) \in 0..n - 1
         /\ 100 * Index(n, pct) <= pct * (n - 1)
         /\ pct * (n - 1) < 100 * (Index(n, pct) + 1)
<1>. DEFINE m == (n - 1) * pct
<1>1. n - 1 \in Nat /\ pct \in Nat /\ pct <= 100
  OBVIOUS
<1>2. m \in Nat /\ m <= (n - 1) * 100 /\ m = pct * (n - 1)
  BY <1>1
<1>3. Index(n, pct) = m \div 100
  BY DEF Index
<1>. HIDE DEF m
<1>4. m \div 100 \in Nat /\ 100 * (m \div 100) <= m /\ m < 100 * ((m \div 100) + 1)
  BY <1>2
<1>. QED BY <1>1, <1>2, <1>3, <1>4

(* The value at the index of a percentile is that percentile by its rank.  *)
LEMMA PercentileByRank ==
  ASSUME NEW n \in Nat \ {0}, NEW values \in [1..n -> Int], NEW pct \in 0..100
  PROVE  IsPercentile(values, pct, percentile(Sorted(values), pct))
<1>. DEFINE index == Index(n, pct) + 1
            most == pct * (n - 1)
<1>1. n \in Nat
  OBVIOUS
<1>2. /\ index \in 1..n /\ most \in Int
      /\ 100 * (index - 1) <= most /\ most < 100 * index
  <2>1. /\ Index(n, pct) \in 0..n - 1
        /\ 100 * Index(n, pct) <= most /\ most < 100 * (Index(n, pct) + 1)
    BY IndexBounds
  <2>2. most \in Int
    OBVIOUS
  <2>. HIDE DEF most
  <2>. QED BY <1>1, <2>1, <2>2
<1>. HIDE DEF most
<1>3. PICK i \in 1..n : /\ Cardinality(NoLater(values, i)) = index
                       /\ percentile(Sorted(values), pct) = values[i]
  <2>1. PICK from \in [1..n -> 1..n] :
          /\ \A k \in 1..n : Cardinality(NoLater(values, from[k])) = k
          /\ \A k, l \in 1..n : from[k] = from[l] => k = l
          /\ Sorted(values) = [k \in 1..n |-> values[from[k]]]
          /\ \A k, l \in 1..n : k <= l => Sorted(values)[k] <= Sorted(values)[l]
    BY <1>1, SortedSorts
  <2>2. Len(Sorted(values)) = n
    BY <1>1, <2>1
  <2>3. Sorted(values) # <<>>
    <3>1. Len(<<>>) = 0
      OBVIOUS
    <3>. QED BY <2>2, <3>1
  <2>4. from[index] \in 1..n /\ Cardinality(NoLater(values, from[index])) = index
    BY <1>2, <2>1
  <2>5. Sorted(values)[index] = values[from[index]]
    BY <1>2, <2>1
  <2>6. percentile(Sorted(values), pct) = Sorted(values)[index]
    BY <2>2, <2>3 DEF percentile
  <2>. QED BY <2>4, <2>5, <2>6
<1>. DEFINE v == values[i]
<1>4. percentile(Sorted(values), pct) = v
  BY <1>3
<1>5. i \in 1..n /\ v \in Int /\ Cardinality(NoLater(values, i)) = index
  BY <1>3
<1>. HIDE DEF index
<1>6. ToSet(values) = {values[k] : k \in 1..n} /\ Len(values) = n /\ DOMAIN values = 1..n
  <2>1. DOMAIN values = 1..n
    OBVIOUS
  <2>. QED BY <1>1, <2>1 DEF ToSet
<1>7. IsFiniteSet(NoLater(values, i)) /\ i \in NoLater(values, i)
  <2>1. IsFiniteSet(NoLater(values, i))
    BY <1>1, <1>5, NoLaterOrder
  <2>. QED BY <1>5, <2>1 DEF NoLater
\* The smaller values are before it.
<1>8. RankOf(values, v) <= index - 1 /\ RankOf(values, v) \in Nat
  <2>. DEFINE smaller == {k \in DOMAIN values : values[k] < v}
  <2>1. smaller \in SUBSET (NoLater(values, i) \ {i})
    BY <1>5 DEF NoLater
  <2>2. /\ IsFiniteSet(NoLater(values, i) \ {i})
        /\ Cardinality(NoLater(values, i) \ {i}) = index - 1
    BY <1>5, <1>7, FS_RemoveElement
  <2>. HIDE DEF smaller, v
  <2>3. Cardinality(smaller) <= index - 1 /\ Cardinality(smaller) \in Nat
    BY <2>1, <2>2, FS_Subset, FS_CardinalityType
  <2>. QED BY <2>3 DEF RankOf, smaller
\* Those up to it are before a larger value.
<1>9. ASSUME NEW u \in ToSet(values), u > v
      PROVE  RankOf(values, u) >= index /\ RankOf(values, u) \in Nat
  <2>. DEFINE smaller == {k \in DOMAIN values : values[k] < u}
  <2>1. u \in Int
    BY <1>6
  <2>2. smaller \in SUBSET (1..n)
    BY <1>6
  <2>3. ASSUME NEW k \in NoLater(values, i) PROVE k \in smaller
    <3>1. k \in 1..n /\ (values[k] < v \/ values[k] = v)
      BY <1>6 DEF NoLater
    <3>2. values[k] \in Int
      BY <3>1
    <3>. HIDE DEF v
    <3>3. values[k] < u
      BY <1>5, <1>9, <2>1, <3>1, <3>2
    <3>. QED BY <1>6, <3>1, <3>3
  <2>4. IsFiniteSet(1..n)
    BY <1>1, FS_Interval
  <2>. HIDE DEF smaller, v
  <2>5. IsFiniteSet(smaller) /\ NoLater(values, i) \in SUBSET smaller
    BY <2>2, <2>3, <2>4, FS_Subset
  <2>6. Cardinality(smaller) >= Cardinality(NoLater(values, i)) /\ Cardinality(smaller) \in Nat
    BY <2>5, FS_Subset, FS_CardinalityType
  <2>. QED BY <1>5, <2>6 DEF RankOf, smaller
<1>. HIDE DEF v
<1>10. 100 * RankOf(values, v) <= most
  BY <1>2, <1>8
<1>11. ASSUME NEW u \in ToSet(values), u > v
       PROVE  100 * RankOf(values, u) > most
  <2>1. RankOf(values, u) >= index /\ RankOf(values, u) \in Nat
    BY <1>9, <1>11
  <2>. QED BY <1>2, <2>1
<1>12. v \in ToSet(values)
  BY <1>5, <1>6 DEF v
<1>. QED BY <1>4, <1>6, <1>10, <1>11, <1>12 DEF IsPercentile, most

(* A snapshot shows the percentiles of its samples.                        *)
THEOREM PercentilesAreRight == Spec => []PercentilesRight
<1>1. ASSUME NEW n \in Nat \ {0}, NEW values \in [1..n -> Int]
      PROVE  PercentilesOf(values)
  <2>1. \A pct \in 0..100 : IsPercentile(values, pct, percentile(Sorted(values), pct))
    BY PercentileByRank
  <2>2. {50, 95, 99} \subseteq 0..100
    OBVIOUS
  <2>. QED BY <2>1, <2>2 DEF PercentilesOf
<1>2. WindowsRight
  <2>1. ASSUME NEW n \in (1..24) \cup (99..103), NEW repeat \in 1..3
        PROVE  PercentilesOf([i \in 1..n |-> (n - i) \div repeat])
    <3>1. n \in Nat \ {0}
      OBVIOUS
    <3>2. \A i \in 1..n : (n - i) \div repeat \in Int
      BY <3>1
    <3>3. [i \in 1..n |-> (n - i) \div repeat] \in [1..n -> Int]
      BY <3>2
    <3>. QED BY <1>1, <3>1, <3>3
  <2>2. ASSUME NEW values \in Windows PROVE PercentilesOf(values)
    <3>1. PICK n \in (1..24) \cup (99..103), repeat \in 1..3 :
            values = [i \in 1..n |-> (n - i) \div repeat]
      BY DEF Windows
    <3>. QED BY <2>1, <3>1
  <2>. QED BY <2>2 DEF WindowsRight
<1>3. TypeOK => PercentilesRight
  <2>. DEFINE latencies == [i \in DOMAIN samples |-> samples[i].latency]
  <2>. SUFFICES ASSUME TypeOK, samples # <<>> PROVE PercentilesOf(latencies)
    BY <1>2 DEF PercentilesRight
  <2>1. samples \in Seq(Sample) /\ Latency \subseteq Int
    BY MetricsAssumption DEF TypeOK
  <2>2. Len(samples) \in Nat \ {0} /\ DOMAIN samples = 1..Len(samples)
    BY <2>1
  <2>3. \A i \in DOMAIN samples : samples[i].latency \in Int
    <3>1. \A i \in DOMAIN samples : samples[i] \in Sample
      BY <2>1, <2>2
    <3>. QED BY <2>1, <3>1 DEF Sample
  <2>4. latencies \in [1..Len(samples) -> Int]
    BY <2>2, <2>3
  <2>. HIDE DEF latencies
  <2>. QED BY <1>1, <2>2, <2>4
<1>. QED BY <1>3, MetricsTypes, PTL

==============================================================================
