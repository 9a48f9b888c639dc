----------------------------- MODULE Detectors ------------------------------
(***************************************************************************)
(* The detectors over the training history of a node: z-score, loss        *)
(* plateau and throughput regression. Each judges the end of the history   *)
(* and suppresses a finding whose key it raised within its cooldown.       *)
(*                                                                         *)
(* The three share nothing but the metrics, which they only read: a        *)
(* behaviour follows one of them, kind. A pass runs on the event loop, but *)
(* gRPC threads store samples between any two of its reads.                *)
(*                                                                         *)
(* Losses and throughputs are small integers, and the tests on means,      *)
(* slopes and medians are cross-multiplied. A time is the age since an     *)
(* event, which Tick increases up to where it tells nothing more.          *)
(***************************************************************************)
EXTENDS Integers, Sequences, FiniteSets

CONSTANTS
  DetNodes,       \* node identifiers
  Kinds,          \* the detectors to follow
  Readings,       \* BOUND: the samples, by the detector that is to tell them apart
  BufferSize,     \* _RING_BUFFER_SIZE, in samples
  ZWindows,       \* zscore_windows_minutes, in samples and in order
  ZMinSamples,    \* zscore_min_samples
  ZThreshold,     \* zscore_threshold
  PlateauWindow,  \* plateau_window_steps
  PlateauBase,    \* plateau_baseline_window_steps
  Warmup,         \* plateau_warmup_steps
  PlateauSlope,   \* plateau_threshold, in hundredths
  RegBaseline,    \* regression_baseline_samples
  RegRecent,      \* regression_recent_samples
  RegRatio,       \* regression_ratio, in hundredths
  DetCooldown     \* the dedup_cooldown_seconds of the detector

ASSUME DetectorsAssumption ==
  /\ Kinds \subseteq {"zscore", "plateau", "regression"} /\ Kinds # {}
  /\ \A k \in Kinds : Readings[k] \subseteq [loss : Int, tps : Nat, ahead : {0, 1}]
  /\ ZWindows \in Seq(Nat \ {0})
  /\ {BufferSize, PlateauWindow, PlateauBase, RegBaseline, RegRecent} \subseteq Nat \ {0}
  /\ ZWindows # <<>> /\ IsFiniteSet(DetNodes)
  /\ {ZMinSamples, ZThreshold, Warmup, PlateauSlope, RegRatio} \subseteq Nat
  /\ DetCooldown \in Nat

VARIABLES
  kind,     \* the detector
  history,  \* training_metrics of each node, oldest first
  dpass,    \* the pass: the node it is at and which of its reads comes next, or Idle
  last,     \* _last_alerted: key -> the age of its last alert
  since,    \* history: per key, the time since its last alert, up to the cooldown
  found     \* history: the keys found by the current or last pass

detVars == <<kind, history, dpass, last, since, found>>

Fields  == {"loss", "tps"}
DetKeys == DetNodes \X (Fields \cup {"node"})

\* BOUND: beyond this age the eviction has dropped the entry.
EvictAge == 2 * DetCooldown + 1

Idle == [node |-> 0, read |-> 0]

\* The nodes in the order in which they became known.
DetNodeSeq == CHOOSE s \in [1..Cardinality(DetNodes) -> DetNodes] :
                {s[i] : i \in DOMAIN s} = DetNodes

\* What a pass reads of a node: for the z-score each window of each field.
Reads(n) ==
  IF kind = "zscore"
    THEN [i \in 1..2 * Len(ZWindows) |->
            [node |-> n, field |-> IF i % 2 = 1 THEN "loss" ELSE "tps",
             window |-> ZWindows[(i + 1) \div 2]]]
    ELSE <<[node |-> n, field |-> "node", window |-> 0]>>

ReadCount == IF kind = "zscore" THEN 2 * Len(ZWindows) ELSE 1

TSample == [loss : Int, tps : Nat, step : 0..Warmup + BufferSize + 1]

DetTypeOK ==
  /\ kind \in Kinds
  /\ history \in [DetNodes -> Seq(TSample)]
  /\ dpass \in [node : 0..Len(DetNodeSeq) + 1, read : 0..ReadCount]
  /\ DOMAIN last \subseteq DetKeys
  /\ \A k \in DOMAIN last : last[k] \in 0..EvictAge
  /\ since \in [DetKeys -> 0..DetCooldown]
  /\ found \subseteq DetKeys

\* The last k elements of s, and those before them.
Newest(s, k) == SubSeq(s, IF k < Len(s) THEN Len(s) - k + 1 ELSE 1, Len(s))
Before(s, k) == SubSeq(s, 1, Len(s) - k)

SumOf(s) ==
  LET sum[i \in 0..Len(s)] == IF i = 0 THEN 0 ELSE sum[i - 1] + s[i] IN sum[Len(s)]

Times(s, t) == [i \in DOMAIN s |-> s[i] * t[i]]
Square(x) == x * x
Abs(x) == IF x < 0 THEN -x ELSE x

\* The k-th smallest element of s, and twice the median of s.
Kth(s, k) ==
  CHOOSE v \in {s[i] : i \in DOMAIN s} :
    /\ Cardinality({i \in DOMAIN s : s[i] < v}) < k
    /\ Cardinality({i \in DOMAIN s : s[i] <= v}) >= k

Median2(s) == Kth(s, (Len(s) + 1) \div 2) + Kth(s, Len(s) \div 2 + 1)

LossesOf(h) == [i \in DOMAIN h |-> h[i].loss]
TpsOf(h)    == [i \in DOMAIN h |-> h[i].tps]
StepsOf(h)  == [i \in DOMAIN h |-> h[i].step]

-----------------------------------------------------------------------------
(* The tests. *)

\* get_training_metric_series
Series(n, field, window) ==
  LET h == Newest(history[n], window) IN IF field = "loss" THEN LossesOf(h) ELSE TpsOf(h)

\* |z| of the last value against those before it exceeds the threshold.
Outlier(s) ==
  /\ Len(s) >= ZMinSamples /\ Len(s) >= 2
  /\ LET base   == Before(s, 1)
         spread == Len(base) * SumOf(Times(base, base)) - Square(SumOf(base))
     IN /\ spread > 0
        /\ Square(Len(base) * s[Len(s)] - SumOf(base)) > Square(ZThreshold) * spread

\* _linear_slope, below the threshold: no slope at all if every step is the same.
Flat(h) ==
  LET x == StepsOf(h) y == LossesOf(h)
      den == Len(h) * SumOf(Times(x, x)) - Square(SumOf(x))
      num == Len(h) * SumOf(Times(x, y)) - SumOf(x) * SumOf(y)
  IN 100 * Abs(num) < PlateauSlope * (IF den = 0 THEN 1 ELSE den)

\* The loss is flat while the throughput of the window holds against what came before.
Plateau(h) ==
  /\ Len(h) >= PlateauWindow /\ h[Len(h)].step > Warmup
  /\ LET window == Newest(h, PlateauWindow)
         base   == Newest(Before(h, PlateauWindow), PlateauBase)
         speed  == Median2(TpsOf(window))
     IN Flat(window) /\ speed > 0 /\ (base = <<>> \/ speed >= Median2(TpsOf(base)))

\* The recent throughput is below a part of what it was before.
Regressed(h) ==
  /\ Len(h) >= RegBaseline + RegRecent
  /\ LET base == Median2(TpsOf(Newest(Before(h, RegRecent), RegBaseline)))
     IN base > 0 /\ 100 * Median2(TpsOf(Newest(h, RegRecent))) < RegRatio * base

-----------------------------------------------------------------------------
(* Passes. *)

Finding(r) ==
  \/ kind = "zscore" /\ Outlier(Series(r.node, r.field, r.window))
  \/ kind = "plateau" /\ Plateau(history[r.node])
  \/ kind = "regression" /\ Regressed(history[r.node])

RaiseKey(key) ==
  /\ last' = [k \in DOMAIN last \cup {key} |-> IF k = key THEN 0 ELSE last[k]]
  /\ since' = [since EXCEPT ![key] = 0]

\* MUTANT: a suppressed finding starts the cooldown anew.
SuppressSliding(key) ==
  /\ key \in DOMAIN last /\ last[key] < DetCooldown
  /\ last' = [last EXCEPT ![key] = 0] /\ UNCHANGED since

\* A finding whose key was raised within the cooldown is dropped.
Suppress(key) ==
  /\ key \in DOMAIN last /\ last[key] < DetCooldown
  /\ UNCHANGED <<last, since>>

Emit(key) ==
  \/ Suppress(key)
  \/ ~(key \in DOMAIN last /\ last[key] < DetCooldown) /\ RaiseKey(key)

\* MUTANT: the eviction mistakes half the cooldown for twice.
SurvivesHalf(k) == 2 * last[k] < DetCooldown

\* The entries that survive the end of a pass.
Survives(k) == last[k] <= 2 * DetCooldown

\* The end of a pass forgets the entries that are old enough.
Evict == last' = [k \in {x \in DOMAIN last : Survives(x)} |-> last[k]]

StartDetection ==
  /\ dpass = Idle
  /\ dpass' = [node |-> 1, read |-> 1]
  /\ found' = {}
  /\ UNCHANGED <<kind, history, last, since>>

Check ==
  /\ dpass.node \in 1..Len(DetNodeSeq)
  /\ LET r == Reads(DetNodeSeq[dpass.node])[dpass.read] key == <<r.node, r.field>> IN
       IF Finding(r)
         THEN Emit(key) /\ found' = found \cup {key}
         ELSE UNCHANGED <<last, since, found>>
  /\ dpass' = IF dpass.read < ReadCount THEN [dpass EXCEPT !.read = @ + 1]
                                        ELSE [node |-> dpass.node + 1, read |-> 1]
  /\ UNCHANGED <<kind, history>>

EndDetection ==
  /\ dpass.node = Len(DetNodeSeq) + 1
  /\ Evict
  /\ dpass' = Idle
  /\ UNCHANGED <<kind, history, since, found>>

\* A training sample arrives, on a gRPC thread; its step may be that of the last one.
\* BOUND: the steps are shifted so that those of a full buffer stay small.
IngestTraining ==
  \E n \in DetNodes, r \in Readings[kind] :
    LET h     == history[n]
        step  == IF h = <<>> THEN 0 ELSE h[Len(h)].step + r.ahead
        shift == IF step > Warmup + BufferSize THEN 1 ELSE 0
        all   == Append(h, [loss |-> r.loss, tps |-> r.tps, step |-> step])
        kept  == Newest(all, BufferSize)
        moved == [i \in DOMAIN kept |-> [kept[i] EXCEPT !.step = @ - shift]]
    IN /\ history' = [history EXCEPT ![n] = moved]
       /\ UNCHANGED <<kind, dpass, last, since, found>>

\* BOUND: a pass takes less than a unit of time.
DetTick ==
  /\ dpass = Idle
  /\ last' = [k \in DOMAIN last |-> IF last[k] < EvictAge THEN last[k] + 1 ELSE EvictAge]
  /\ since' = [k \in DetKeys |-> IF since[k] < DetCooldown THEN since[k] + 1 ELSE DetCooldown]
  /\ found' = {}
  /\ UNCHANGED <<kind, history, dpass>>

DetInit ==
  /\ kind \in Kinds
  /\ history = [n \in DetNodes |-> <<>>]
  /\ dpass = Idle
  /\ last = <<>>
  /\ since = [k \in DetKeys |-> DetCooldown]
  /\ found = {}

DetNext == IngestTraining \/ StartDetection \/ Check \/ EndDetection \/ DetTick

DetSpec == DetInit /\ [][DetNext]_detVars
-----------------------------------------------------------------------------
(* Properties. *)

Quiet == INSTANCE Throttle WITH Keys <- DetKeys, Period <- DetCooldown, quiet <- since

\* Two alerts of a key are a cooldown apart (zscore.py, "suppress repeat alerts for the
\* same (node_id, alert_type) within 60s"), although a pass finds the same anomaly in
\* several windows and its end forgets old entries.
ImplementsThrottle == Quiet!Spec

\* The deduplication never silences an anomaly: a key found by the pass has had an alert
\* within the cooldown, however long and often it has been found before.
NotSilenced == \A k \in found : since[k] < DetCooldown \/ DetCooldown = 0
=============================================================================
