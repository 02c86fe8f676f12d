------------------------------- MODULE Anomaly -------------------------------
(***************************************************************************)
(* Statistical anomaly detection of one metric (anomaly.py, baseline.py,   *)
(* metrics.py): --record, --check and --tick measure the metric or take a  *)
(* cached value, compare it with the rolling baseline, silence what is     *)
(* repeated, and add a sample to the baseline every six hours.             *)
(*                                                                         *)
(* Mean and standard deviation are kept as n, sum and sum of squares, and  *)
(* the gates compare exact integers.  The metrics do not touch each other; *)
(* a run is one step (StateFile and TickAlerts treat runs that overlap or  *)
(* die).  Times are ages in slots, as old as makes a difference.           *)
(***************************************************************************)
EXTENDS Integers, Sequences, SequencesExt

CONSTANTS
  Value,         \* what the metric may be
  MinSamples,    \* baseline_min_samples
  MinDelta,      \* min_delta
  SigmaAbove,    \* sigma_above, in tenths
  SigmaBelow,    \* sigma_below, in tenths; None: drops are not looked at
  None,
  Fresh,         \* cache_ttl_seconds
  Cooldown,      \* cooldown_minutes
  Hour,          \* the dedup window of anomaly: keys
  Slot,          \* dedup_slot_hours, and the six hours of a tick
  Outage,        \* 72 hours
  Keep           \* max_baseline_days

ASSUME ValueAssumption  == Value \subseteq Nat /\ None \notin Nat
ASSUME GateAssumption   == /\ MinSamples \in Nat \ {0} /\ MinDelta \in Nat
                           /\ SigmaAbove \in Nat /\ SigmaBelow \in Nat \cup {None}
ASSUME TimeAssumption   == /\ {Fresh, Cooldown, Hour, Slot, Outage, Keep} \subseteq Nat \ {0}
                           /\ Slot < Outage /\ Outage < Keep

StaleAfter == 3              \* equal values in a row before silence
Old        == Keep + 1       \* ages that are more than Keep
Quiet      == Cooldown + Hour
Forgotten  == Quiet + 1      \* ages of alerts that are more than Quiet

Direction == {"above", "below"}
Sample    == [age : 0..Old, value : Value]
Outcome   == {"none", "mean", "alert", "duplicate", "cooldown", "stale"}

VARIABLES
  metric,     \* what a measurement would give now
  cache,      \* metric_cache: the last measurement and its age
  samples,    \* daily_stats
  base,       \* baselines[key]: n, sum, sq; or None
  recorded,   \* age of last_record
  stale,      \* stale_anomaly_counts[key], or NoCount
  flagged,    \* last_flagged_anomalies, per direction, while in cooldown
  sent,       \* age of the dedup entry of each direction
  outcome,    \* history: what the last detection came to
  announced,  \* history: the count began when its direction had been alerted
  bridged     \* history: a --record added the first sample after an outage

NoCount == [count |-> 0, value |-> None]
Expired == [age |-> Cooldown, value |-> None]

vars == <<metric, cache, samples, base, recorded, stale, flagged, sent,
          outcome, announced, bridged>>

Init ==
  /\ metric \in Value
  /\ cache = [age |-> Fresh, value |-> metric]
  /\ samples = <<>> /\ base = None
  /\ recorded = Slot
  /\ stale = NoCount
  /\ flagged = [d \in Direction |-> Expired]
  /\ sent = [d \in Direction |-> Forgotten]
  /\ outcome = "none" /\ announced = TRUE /\ bridged = FALSE

Later(age, max) == IF age < max THEN age + 1 ELSE max

MetricChange(v) ==
  /\ metric' = v /\ v # metric
  /\ UNCHANGED <<cache, samples, base, recorded, stale, flagged, sent,
                 outcome, announced, bridged>>

PassTime ==
  /\ cache' = [cache EXCEPT !.age = Later(@, Fresh)]
  /\ samples' = [i \in DOMAIN samples |-> [samples[i] EXCEPT !.age = Later(@, Old)]]
  /\ recorded' = Later(recorded, Slot)
  /\ flagged' = [d \in Direction |-> IF flagged[d].age + 1 < Cooldown
                                  THEN [flagged[d] EXCEPT !.age = @ + 1] ELSE Expired]
  /\ sent' = [d \in Direction |-> Later(sent[d], Forgotten)]
  /\ <<cache, samples, recorded, flagged, sent>>' # <<cache, samples, recorded, flagged, sent>>
  /\ UNCHANGED <<metric, base, stale, outcome, announced, bridged>>

-----------------------------------------------------------------------------
(* The baseline *)

Values(s) == [i \in DOMAIN s |-> s[i].value]

ComputeBaselines(s) ==
  IF Len(s) < MinSamples THEN None
  ELSE [n   |-> Len(s),
        sum |-> FoldSeq(+, 0, Values(s)),
        sq  |-> FoldSeq(LAMBDA v, acc : v * v + acc, 0, Values(s))]

(* The host was off: nothing was sampled for more than 72 hours.           *)
OutOfDate(s) == s # <<>> /\ Last(s).age > Outage

Cleared(s, b) == IF OutOfDate(s) THEN <<<<>>, None>> ELSE <<s, b>>

(* Mutant of Trimmed: old samples stay.                                    *)
TrimmedNever(s) == s

(* The samples that are not too old, taken one after the other.            *)
Trimmed(s) ==
  LET kept[n \in 0..Len(s)] ==
        IF n = 0 THEN <<>>
        ELSE IF s[n].age <= Keep THEN Append(kept[n - 1], s[n]) ELSE kept[n - 1]
  IN  kept[Len(s)]

(* Mutant of RecordSample: the baseline lacks the new sample.              *)
RecordSampleLate(s, b, v) ==
  IF recorded < Slot
  THEN /\ samples' = s /\ base' = b /\ UNCHANGED recorded
  ELSE /\ samples' = Trimmed(Append(s, [age |-> 0, value |-> v]))
       /\ base' = ComputeBaselines(s)
       /\ recorded' = 0

(* Mutant of RecordSample: a baseline that exists is not computed again.   *)
RecordSampleOnce(s, b, v) ==
  IF recorded < Slot
  THEN /\ samples' = s /\ base' = b /\ UNCHANGED recorded
  ELSE /\ samples' = Trimmed(Append(s, [age |-> 0, value |-> v]))
       /\ base' = IF b = None THEN ComputeBaselines(samples') ELSE b
       /\ recorded' = 0

(* record_sample of value v, to the samples s and the baseline b.          *)
RecordSample(s, b, v) ==
  IF recorded < Slot
  THEN /\ samples' = s /\ base' = b /\ UNCHANGED recorded
  ELSE /\ samples' = Trimmed(Append(s, [age |-> 0, value |-> v]))
       /\ base' = ComputeBaselines(samples')
       /\ recorded' = 0

-----------------------------------------------------------------------------
(* The gates *)

Abs(x) == IF x < 0 THEN -x ELSE x

DirectionOf(b, v) == IF v * b.n > b.sum THEN "above" ELSE "below"
Delta(b, v)       == Abs(v * b.n - b.sum)           \* n times the deviation
Spread(b)         == b.n * b.sq - b.sum * b.sum     \* n(n-1) times the variance

(* sigma_above and 3.0 stand in for a threshold of zero or a missing one.  *)
Sigma(d) ==
  LET s == IF d = "above" THEN SigmaAbove ELSE SigmaBelow
  IN  IF s \notin {None, 0} THEN s ELSE IF SigmaAbove # 0 THEN SigmaAbove ELSE 30

PassesGates(b, v) ==
  /\ Delta(b, v) >= MinDelta * b.n
  /\ ~(DirectionOf(b, v) = "below" /\ SigmaBelow = None)
  /\ Spread(b) # 0 =>
       100 * (b.n - 1) * Delta(b, v) * Delta(b, v) >
         Sigma(DirectionOf(b, v)) * Sigma(DirectionOf(b, v)) * b.n * Spread(b)

-----------------------------------------------------------------------------
(* Detection and dispatch *)

(* Within a tenth of the value the count began with; zero never is.        *)
SameValue(v) == stale.value # 0 /\ 10 * Abs(v - stale.value) <= stale.value

Counted(v) ==
  IF stale # NoCount /\ SameValue(v)
  THEN [stale EXCEPT !.count = IF @ < StaleAfter THEN @ + 1 ELSE @]
  ELSE [count |-> 1, value |-> v]

InCooldown(d, v) == flagged[d].age < Cooldown /\ flagged[d].value = v

(* Mutant of IsDuplicate: the window is too long.                          *)
IsDuplicateLonger(d) == sent[d] < Forgotten

IsDuplicate(d) == sent[d] < Hour

(* A value inside the gates leaves the count as it is.                     *)
Unremarkable ==
  /\ outcome' = "none"
  /\ UNCHANGED <<stale, flagged, sent, announced>>

AtMean ==
  /\ stale' = NoCount
  /\ outcome' = "mean" /\ announced' = TRUE
  /\ UNCHANGED <<flagged, sent>>

Anomalous(d, v) ==
  /\ stale' = Counted(v)
  /\ \/ /\ stale'.count >= StaleAfter
        /\ outcome' = "stale" /\ UNCHANGED <<flagged, sent>>
     \/ /\ stale'.count < StaleAfter /\ InCooldown(d, v)
        /\ outcome' = "cooldown" /\ UNCHANGED <<flagged, sent>>
     \/ /\ stale'.count < StaleAfter /\ ~InCooldown(d, v)
        /\ flagged' = [flagged EXCEPT ![d] = [age |-> 0, value |-> v]]
        /\ IF IsDuplicate(d)
           THEN outcome' = "duplicate" /\ UNCHANGED sent
           ELSE outcome' = "alert" /\ sent' = [sent EXCEPT ![d] = 0]
  /\ announced' = (sent'[d] <= Quiet \/ (announced /\ stale'.count > 1))

(* Detection of value v against baseline b, and dispatch of its alert.     *)
Detect(b, v) ==
  \/ b = None /\ Unremarkable
  \/ b # None /\ v * b.n = b.sum /\ AtMean
  \/ b # None /\ v * b.n # b.sum /\ ~PassesGates(b, v) /\ Unremarkable
  \/ b # None /\ v * b.n # b.sum /\ PassesGates(b, v) /\ Anomalous(DirectionOf(b, v), v)

-----------------------------------------------------------------------------
(* The runs *)

(* History: two successive samples span an outage.                         *)
Gap(s) == \E i \in 1..(Len(s) - 1) : s[i].age - s[i + 1].age > Outage

(* collect_metrics_from_state of a new process: the stored measurement as  *)
(* long as it is fresh, otherwise a new one.                               *)
Measured == IF cache.age < Fresh THEN cache.value ELSE metric

Measure ==
  cache' = IF cache.age < Fresh THEN cache ELSE [age |-> 0, value |-> metric]

Tick ==
  LET kept == Cleared(samples, base)
  IN  /\ Measure
      /\ Detect(kept[2], Measured)
      /\ RecordSample(kept[1], kept[2], Measured)
      /\ bridged' = (bridged /\ Gap(samples'))
      /\ UNCHANGED metric

Check ==
  /\ Measure
  /\ Detect(base, Measured)
  /\ UNCHANGED <<metric, samples, base, recorded, bridged>>

(* --record does not ask whether the samples are out of date.              *)
Record ==
  /\ cache' = [age |-> 0, value |-> metric]
  /\ RecordSample(samples, base, metric)
  /\ bridged' = (Gap(samples') /\ (bridged \/ OutOfDate(samples)))
  /\ UNCHANGED <<metric, stale, flagged, sent, outcome, announced>>

Next ==
  \/ \E v \in Value : MetricChange(v)
  \/ PassTime
  \/ Tick
  \/ Check
  \/ Record

Spec == Init /\ [][Next]_vars

(* The clock and the scheduler go on; nobody has to run the other modes.   *)
FairSpec == Spec /\ WF_vars(PassTime) /\ WF_vars(Tick)

-----------------------------------------------------------------------------
(* Properties *)

(* Every variable has its type.                                            *)
TypeOK ==
  /\ metric \in Value
  /\ cache \in [age : 0..Fresh, value : Value]
  /\ samples \in Seq(Sample)
  /\ base # None => base.n = Len(samples)
  /\ recorded \in 0..Slot
  /\ stale = NoCount \/ stale \in [count : 1..StaleAfter, value : Value]
  /\ \A d \in Direction : \/ flagged[d] = Expired
                          \/ flagged[d] \in [age : 0..(Cooldown - 1), value : Value]
  /\ sent \in [Direction -> 0..Forgotten]
  /\ outcome \in Outcome /\ announced \in BOOLEAN /\ bridged \in BOOLEAN

(* The saved baseline is the one of the saved samples, which are a slot    *)
(* apart and at most max_baseline_days older than the last of them,        *)
(* whichever modes recorded or cleared them.  They do not span an outage,  *)
(* unless a --record came before the first tick after it (baseline.py:90). *)
BaselineOfSamples ==
  /\ base = ComputeBaselines(samples)
  /\ \A i \in 1..(Len(samples) - 1) :
       samples[i].age < Old => samples[i].age - samples[i + 1].age >= Slot
  /\ samples # <<>> /\ Last(samples).age = 0 => samples[1].age <= Keep
  /\ Gap(samples) => bridged

(* An anomaly that raises no alert is no news: its direction was alerted   *)
(* at most a cooldown and an hour ago, or had been when one of the equal   *)
(* values was seen whose count now silences it.                            *)
SilenceAnnounced ==
  outcome \in {"cooldown", "duplicate", "stale"} => announced

(* A metric that stays where it is becomes its own baseline: the checks    *)
(* are not silenced by the stale baseline for ever.                        *)
StaleEnds == \A v \in Value : <>[](metric = v) => []<>(outcome # "stale")
=============================================================================
