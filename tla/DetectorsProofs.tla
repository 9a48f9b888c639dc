-------------------------- MODULE DetectorsProofs --------------------------
(***************************************************************************)
(* Proofs about the detectors, for any nodes, tests, windows, cooldowns    *)
(* and bounds.                                                             *)
(*                                                                         *)
(* The deduplication implements Throttle, and it silences nothing.         *)
(*                                                                         *)
(* The inductive invariant, Dedup, relates the dictionary _last_alerted to *)
(* what was really raised: an entry is as old as the last alert of its key *)
(* (up to the cooldown), and a key without an entry, never raised or       *)
(* evicted, has been quiet for a cooldown.                                 *)
(*                                                                         *)
(* The numeric, the DiLoCo and the cross-node detector each have an        *)
(* invariant of their own: InstabilityInv, IncrementInv, RingInv. Of       *)
(* DiLoCo, that a divergence is one of the last steps is a fact about      *)
(* their order (LastSteps). The types of the backend's modules follow.     *)
(***************************************************************************)
EXTENDS MCBackend, RankingProofs, SequenceTheorems, TLAPS

Upto(a, b) == IF a < b THEN a ELSE b

Cursor ==
  \/ dpass = Idle
  \/ /\ dpass.node \in 1..Len(DetNodeSeq) + 1
     /\ dpass.read \in 1..ReadCount
     /\ dpass = [node |-> dpass.node, read |-> dpass.read]

Dedup ==
  /\ kind \in Kinds
  /\ since \in [DetKeys -> 0..DetCooldown]
  /\ DOMAIN last \subseteq DetKeys
  /\ \A k \in DOMAIN last : last[k] \in 0..EvictAge
  /\ \A k \in DOMAIN last : since[k] = Upto(last[k], DetCooldown)
  /\ \A k \in DetKeys \ DOMAIN last : since[k] = DetCooldown
  /\ Cursor
  /\ found \subseteq DetKeys
  /\ NotSilenced

USE DetectorsAssumption

-----------------------------------------------------------------------------
(* The order of the nodes and the reads of a node. *)

\* DetNodeSeq, which is a choice, is a sequence of the nodes.
LEMMA NodeSeqType ==
  /\ Cardinality(DetNodes) \in Nat
  /\ DetNodeSeq \in [1..Cardinality(DetNodes) -> DetNodes]
  /\ Len(DetNodeSeq) = Cardinality(DetNodes)
<1> DEFINE N == Cardinality(DetNodes)
           Lists(s) == s \in [1..N -> DetNodes] /\ {s[i] : i \in DOMAIN s} = DetNodes
<1>1. N \in Nat /\ ExistsBijection(1..N, DetNodes)
  BY FS_CardinalityType
<1>2. PICK s : s \in Bijection(1..N, DetNodes)
  BY <1>1 DEF ExistsBijection
<1>3. s \in [1..N -> DetNodes] /\ \A n \in DetNodes : \E i \in 1..N : s[i] = n
  BY <1>2 DEF Bijection, Surjection, Injection
<1>4. {s[i] : i \in DOMAIN s} = DetNodes
  BY <1>3
<1>5. DetNodeSeq \in [1..N -> DetNodes]
  BY <1>3, <1>4 DEF DetNodeSeq
<1>6. Len(DetNodeSeq) = N
  BY <1>1, <1>5
<1> QED BY <1>1, <1>5, <1>6

\* Each read of a pass is of a key.
LEMMA ReadsAreKeys ==
  ASSUME NEW n \in DetNodes, NEW i \in 1..ReadCount
  PROVE  <<Reads(n)[i].node, Reads(n)[i].field>> \in DetKeys
<1>1. CASE kind = "zscore"
  <2>1. i \in 1..2 * Len(ZWindows)
    BY <1>1 DEF ReadCount
  <2>2. Reads(n)[i] = [node |-> n, field |-> IF i % 2 = 1 THEN "loss" ELSE "tps",
                       window |-> ZWindows[(i + 1) \div 2]]
    BY <1>1, <2>1 DEF Reads
  <2> QED BY <2>2 DEF DetKeys, Fields
<1>2. CASE kind # "zscore"
  <2>1. i = 1
    BY <1>2 DEF ReadCount
  <2>2. Reads(n)[i] = [node |-> n, field |-> "node", window |-> 0]
    BY <1>2, <2>1 DEF Reads
  <2> QED BY <2>2 DEF DetKeys
<1> QED BY <1>1, <1>2

LEMMA ReadCountPositive == ReadCount \in Nat \ {0}
<1>1. Len(ZWindows) \in Nat \ {0}
  BY DEF DetectorsAssumption
<1> QED BY <1>1 DEF ReadCount

-----------------------------------------------------------------------------
(* Dedup is inductive. *)

LEMMA DedupInit == DetInit => Dedup
  BY DEF DetInit, Dedup, Cursor, NotSilenced

\* A raise of a key, and what it leaves of the invariant.
LEMMA RaiseKeeps ==
  ASSUME Dedup, NEW key \in DetKeys, RaiseKey(key)
  PROVE  /\ since' \in [DetKeys -> 0..DetCooldown]
         /\ DOMAIN last' \subseteq DetKeys
         /\ \A k \in DOMAIN last' : last'[k] \in 0..EvictAge
         /\ \A k \in DOMAIN last' : since'[k] = Upto(last'[k], DetCooldown)
         /\ \A k \in DetKeys \ DOMAIN last' : since'[k] = DetCooldown
         /\ since'[key] = 0
         /\ \A k \in DetKeys \ {key} : since'[k] = since[k]
<1>1. /\ since \in [DetKeys -> 0..DetCooldown] /\ DetCooldown \in Nat
      /\ since' = [since EXCEPT ![key] = 0]
  BY DEF Dedup, RaiseKey, DetectorsAssumption
<1>2. /\ since' \in [DetKeys -> 0..DetCooldown] /\ since'[key] = 0
      /\ \A k \in DetKeys \ {key} : since'[k] = since[k]
  BY <1>1
<1>3. /\ DOMAIN last' = DOMAIN last \cup {key} /\ last'[key] = 0
      /\ \A k \in DOMAIN last \ {key} : last'[k] = last[k]
  BY DEF RaiseKey
<1>4. DOMAIN last' \subseteq DetKeys
  BY <1>3 DEF Dedup
<1>5. 0 \in 0..EvictAge
  BY <1>1 DEF EvictAge
<1>6. \A k \in DOMAIN last' : last'[k] \in 0..EvictAge
  BY <1>3, <1>5 DEF Dedup
<1>7. Upto(0, DetCooldown) = 0
  BY <1>1 DEF Upto
<1>8. \A k \in DOMAIN last' : since'[k] = Upto(last'[k], DetCooldown)
  BY <1>2, <1>3, <1>4, <1>7 DEF Dedup
<1>9. \A k \in DetKeys \ DOMAIN last' : since'[k] = DetCooldown
  BY <1>2, <1>3 DEF Dedup
<1> QED BY <1>2, <1>4, <1>6, <1>8, <1>9

\* A finding is suppressed only within the cooldown, and raised only after it.
LEMMA EmitCases ==
  ASSUME Dedup, NEW key \in DetKeys, Emit(key)
  PROVE  \/ since[key] < DetCooldown /\ UNCHANGED <<last, since>>
         \/ since[key] = DetCooldown /\ RaiseKey(key)
<1>1. since[key] \in 0..DetCooldown /\ DetCooldown \in Nat
  BY DEF Dedup, DetectorsAssumption
<1>2. CASE key \in DOMAIN last
  <2>1. last[key] \in 0..EvictAge /\ since[key] = Upto(last[key], DetCooldown)
    BY <1>2 DEF Dedup
  <2>2. EvictAge \in Nat
    BY <1>1, SMTT(30) DEF EvictAge
  <2>3. CASE last[key] < DetCooldown
    BY <1>1, <1>2, <2>1, <2>2, <2>3 DEF Upto, Emit, Suppress
  <2>4. CASE ~(last[key] < DetCooldown)
    BY <1>1, <1>2, <2>1, <2>2, <2>4 DEF Upto, Emit, Suppress
  <2> QED BY <2>3, <2>4
<1>3. CASE key \notin DOMAIN last
  <2>1. since[key] = DetCooldown
    BY <1>3 DEF Dedup
  <2> QED BY <1>3, <2>1 DEF Emit, Suppress
<1> QED BY <1>2, <1>3

LEMMA CheckReadsKey ==
  ASSUME Dedup, dpass.node \in 1..Len(DetNodeSeq)
  PROVE  LET r == Reads(DetNodeSeq[dpass.node])[dpass.read] IN <<r.node, r.field>> \in DetKeys
<1>1. dpass # Idle
  BY DEF Idle
<1>2. dpass.read \in 1..ReadCount
  BY <1>1 DEF Dedup, Cursor
<1>3. DetNodeSeq[dpass.node] \in DetNodes
  BY NodeSeqType
<1> QED BY <1>2, <1>3, ReadsAreKeys

LEMMA Successor ==
  ASSUME NEW n \in Nat, NEW i \in 1..n
  PROVE  /\ i \in 1..n + 1 /\ i + 1 \in 1..n + 1
         /\ i < n => i + 1 \in 1..n
  OBVIOUS

LEMMA CheckKeeps ==
  ASSUME Dedup, Check
  PROVE  Dedup' /\ (Quiet!Next \/ UNCHANGED since)
<1> DEFINE r == Reads(DetNodeSeq[dpass.node])[dpass.read]
           key == <<r.node, r.field>>
<1>1. dpass.node \in 1..Len(DetNodeSeq)
  BY DEF Check
<1>2. key \in DetKeys
  BY <1>1, CheckReadsKey
<1>3. dpass # Idle /\ dpass.read \in 1..ReadCount
  BY <1>1, SMTT(30) DEF Idle, Dedup, Cursor
<1>4. Cursor'
  <2>1. Len(DetNodeSeq) \in Nat /\ ReadCount \in Nat \ {0}
    BY NodeSeqType, ReadCountPositive
  <2>2. ReadCount' = ReadCount /\ Len(DetNodeSeq)' = Len(DetNodeSeq)
    BY DEF Check, ReadCount
  <2>3. CASE dpass.read < ReadCount
    <3>1. dpass' = [node |-> dpass.node, read |-> dpass.read + 1]
      BY <1>3, <2>3 DEF Check, Dedup, Cursor
    <3>2. dpass'.node = dpass.node /\ dpass'.read = dpass.read + 1
      BY <3>1
    <3>3. dpass'.node \in 1..Len(DetNodeSeq) + 1
      BY <1>1, <2>1, <3>2, Successor
    <3>4. dpass'.read \in 1..ReadCount
      BY <1>3, <2>1, <2>3, <3>2, Successor
    <3> QED BY <2>2, <3>1, <3>2, <3>3, <3>4 DEF Cursor
  <2>4. CASE ~(dpass.read < ReadCount)
    <3>1. dpass' = [node |-> dpass.node + 1, read |-> 1]
      BY <2>4 DEF Check
    <3>2. dpass'.node = dpass.node + 1 /\ dpass'.read = 1
      BY <3>1
    <3>3. dpass'.node \in 1..Len(DetNodeSeq) + 1
      BY <1>1, <2>1, <3>2, Successor
    <3>4. dpass'.read \in 1..ReadCount
      BY <2>1, <3>2
    <3> QED BY <2>2, <3>1, <3>2, <3>3, <3>4 DEF Cursor
  <2> QED BY <2>3, <2>4
<1>5. kind' \in Kinds
  BY DEF Check, Dedup
<1>6. CASE UNCHANGED <<last, since, found>>
  BY <1>4, <1>5, <1>6 DEF Dedup, NotSilenced
<1>7. CASE Emit(key) /\ found' = found \cup {key}
  <2>1. found' \subseteq DetKeys
    BY <1>2, <1>7 DEF Dedup
  <2>2. CASE since[key] < DetCooldown /\ UNCHANGED <<last, since>>
    <3>1. NotSilenced'
      BY <1>7, <2>2 DEF Dedup, NotSilenced
    <3> QED BY <1>4, <1>5, <2>1, <2>2, <3>1 DEF Dedup
  <2>3. CASE since[key] = DetCooldown /\ RaiseKey(key)
    <3>1. /\ since'[key] = 0 /\ \A k \in DetKeys \ {key} : since'[k] = since[k]
      BY <1>2, <2>3, RaiseKeeps
    <3>2. DetCooldown \in Nat
      BY DEF DetectorsAssumption
    <3>3. NotSilenced'
      <4> SUFFICES ASSUME NEW k \in found' PROVE since'[k] < DetCooldown \/ DetCooldown = 0
        BY DEF NotSilenced
      <4>1. CASE k = key
        BY <3>1, <3>2, <4>1
      <4>2. CASE k # key
        BY <1>7, <3>1, <4>2 DEF Dedup, NotSilenced
      <4> QED BY <4>1, <4>2
    <3>4. Dedup'
      BY <1>2, <1>4, <1>5, <2>1, <2>3, <3>3, RaiseKeeps DEF Dedup
    <3>5. Quiet!Raise({key})
      <4>1. since' = [since EXCEPT ![key] = 0] /\ since \in [DetKeys -> 0..DetCooldown]
        BY <2>3 DEF RaiseKey, Dedup
      <4>2. since' = [k \in DetKeys |-> IF k \in {key} THEN 0 ELSE since[k]]
        BY <4>1
      <4> QED BY <2>3, <4>2 DEF Quiet!Raise
    <3>6. {key} \in SUBSET DetKeys
      BY <1>2
    <3> QED BY <3>4, <3>5, <3>6 DEF Quiet!Next
  <2> QED BY <1>2, <1>7, <2>2, <2>3, EmitCases
<1> QED BY <1>6, <1>7 DEF Check

LEMMA AgesUpTo ==
  ASSUME NEW limit \in Nat, NEW age \in 0..limit
  PROVE  (IF age < limit THEN age + 1 ELSE limit) \in 0..limit
  OBVIOUS

LEMMA TickKeeps ==
  ASSUME Dedup, DetTick
  PROVE  Dedup' /\ Quiet!Next
<1>1. DetCooldown \in Nat /\ since \in [DetKeys -> 0..DetCooldown]
  BY DEF DetectorsAssumption, Dedup
<1>2. since' = [k \in DetKeys |-> IF since[k] < DetCooldown THEN since[k] + 1 ELSE DetCooldown]
  BY DEF DetTick
<1>3. Quiet!Next
  BY <1>2 DEF Quiet!Next, Quiet!Tick
<1>4. since' \in [DetKeys -> 0..DetCooldown]
  BY <1>1, <1>2, SMTT(30)
<1>5. /\ DOMAIN last' = DOMAIN last
      /\ \A k \in DOMAIN last :
           last'[k] = IF last[k] < EvictAge THEN last[k] + 1 ELSE EvictAge
  BY DEF DetTick
<1>6. EvictAge \in Nat /\ EvictAge > DetCooldown
  BY <1>1 DEF EvictAge
<1>7. \A k \in DOMAIN last' : last'[k] \in 0..EvictAge
  <2> SUFFICES ASSUME NEW k \in DOMAIN last PROVE last'[k] \in 0..EvictAge
    BY <1>5
  <2>1. last[k] \in 0..EvictAge
    BY DEF Dedup
  <2>2. (IF last[k] < EvictAge THEN last[k] + 1 ELSE EvictAge) \in 0..EvictAge
    BY <1>6, <2>1, AgesUpTo
  <2> QED BY <1>5, <2>2
<1>8. \A k \in DOMAIN last' : since'[k] = Upto(last'[k], DetCooldown)
  <2> SUFFICES ASSUME NEW k \in DOMAIN last PROVE since'[k] = Upto(last'[k], DetCooldown)
    BY <1>5
  <2>1. k \in DetKeys /\ last[k] \in 0..EvictAge /\ since[k] = Upto(last[k], DetCooldown)
    BY DEF Dedup
  <2>2. since'[k] = IF since[k] < DetCooldown THEN since[k] + 1 ELSE DetCooldown
    BY <1>2, <2>1
  <2>3. last'[k] = IF last[k] < EvictAge THEN last[k] + 1 ELSE EvictAge
    BY <1>5
  <2>4. since[k] = IF last[k] < DetCooldown THEN last[k] ELSE DetCooldown
    BY <2>1 DEF Upto
  <2> QED BY <1>1, <1>6, <2>1, <2>2, <2>3, <2>4, SMTT(30) DEF Upto
<1>9. \A k \in DetKeys \ DOMAIN last' : since'[k] = DetCooldown
  BY <1>1, <1>2, <1>5 DEF Dedup
<1>10. Cursor' /\ kind' \in Kinds
  BY DEF DetTick, Dedup, Cursor
<1>11. found' \subseteq DetKeys /\ NotSilenced'
  BY DEF DetTick, NotSilenced
<1>12. DOMAIN last' \subseteq DetKeys
  BY <1>5 DEF Dedup
<1> QED BY <1>3, <1>4, <1>7, <1>8, <1>9, <1>10, <1>11, <1>12 DEF Dedup

\* What the eviction drops is older than the cooldown.
LEMMA EvictKeeps ==
  ASSUME Dedup, EndDetection
  PROVE  Dedup' /\ UNCHANGED since
<1>1. DetCooldown \in Nat
  BY DEF DetectorsAssumption
<1>2. /\ DOMAIN last' = {k \in DOMAIN last : last[k] <= 2 * DetCooldown}
      /\ \A k \in DOMAIN last' : last'[k] = last[k]
  BY DEF EndDetection, Evict, Survives
<1>3. \A k \in DOMAIN last \ DOMAIN last' : since[k] = DetCooldown
  <2> SUFFICES ASSUME NEW k \in DOMAIN last, ~(last[k] <= 2 * DetCooldown)
               PROVE  since[k] = DetCooldown
    BY <1>2
  <2>1. last[k] \in 0..EvictAge /\ EvictAge \in Nat
    BY <1>1 DEF Dedup, EvictAge
  <2>2. ~(last[k] < DetCooldown)
    BY <1>1, <2>1, SMTT(30)
  <2> QED BY <2>2 DEF Dedup, Upto
<1>4. \A k \in DetKeys \ DOMAIN last' : since[k] = DetCooldown
  BY <1>3 DEF Dedup
<1>5. since' = since /\ kind' = kind /\ found' = found
  BY DEF EndDetection
<1>6. Cursor'
  BY DEF EndDetection, Cursor
<1> QED BY <1>2, <1>4, <1>5, <1>6 DEF Dedup, NotSilenced

LEMMA StartKeeps ==
  ASSUME Dedup, StartDetection
  PROVE  Dedup' /\ UNCHANGED since
<1>1. UNCHANGED <<kind, last, since>>
  BY DEF StartDetection
<1>2. Cursor'
  <2>1. dpass' = [node |-> 1, read |-> 1] /\ ReadCount' = ReadCount
    BY DEF StartDetection, ReadCount
  <2>2. Len(DetNodeSeq) \in Nat /\ ReadCount \in Nat \ {0}
    BY NodeSeqType, ReadCountPositive
  <2> QED BY <2>1, <2>2 DEF Cursor
<1>3. found' = {}
  BY DEF StartDetection
<1> QED BY <1>1, <1>2, <1>3 DEF Dedup, NotSilenced

LEMMA DedupStep ==
  ASSUME Dedup, [DetNext]_detVars
  PROVE  Dedup' /\ (Quiet!Next \/ UNCHANGED since)
<1>1. CASE IngestTraining
  <2>1. UNCHANGED <<kind, dpass, last, since, found>>
    BY <1>1 DEF IngestTraining
  <2>2. Cursor'
    BY <2>1 DEF Dedup, Cursor, ReadCount
  <2> QED BY <2>1, <2>2 DEF Dedup, NotSilenced
<1>2. CASE StartDetection
  BY <1>2, StartKeeps
<1>3. CASE Check
  BY <1>3, CheckKeeps
<1>4. CASE EndDetection
  BY <1>4, EvictKeeps
<1>5. CASE DetTick
  BY <1>5, TickKeeps
<1>6. CASE UNCHANGED detVars
  <2>1. UNCHANGED <<kind, dpass, last, since, found>>
    BY <1>6 DEF detVars
  <2>2. Cursor'
    BY <2>1 DEF Dedup, Cursor, ReadCount
  <2> QED BY <2>1, <2>2 DEF Dedup, NotSilenced
<1> QED BY <1>1, <1>2, <1>3, <1>4, <1>5, <1>6 DEF DetNext

THEOREM DedupInvariant == DetSpec => []Dedup
<1>1. DetInit => Dedup
  BY DedupInit
<1>2. Dedup /\ [DetNext]_detVars => Dedup'
  BY DedupStep
<1> QED BY <1>1, <1>2, PTL DEF DetSpec

-----------------------------------------------------------------------------
(* The theorems. *)

\* An anomaly found by a pass has had an alert within the cooldown, however many nodes,
\* windows and passes there are (zscore.py, the deduplication of run_zscore_detection).
THEOREM NeverSilenced == DetSpec => []NotSilenced
<1>1. Dedup => NotSilenced
  BY DEF Dedup
<1> QED BY <1>1, DedupInvariant, PTL

\* Every detector implements Throttle: the alerts of a key are a cooldown apart, whatever
\* is found, stored meanwhile, and evicted at the end of the passes.
THEOREM DetectorsImplementThrottle == DetSpec => ImplementsThrottle
<1>1. DetInit => Quiet!Init
  BY DEF DetInit, Quiet!Init
<1>2. Dedup /\ [DetNext]_detVars => [Quiet!Next]_since
  BY DedupStep
<1> QED BY <1>1, <1>2, DedupInvariant, PTL DEF DetSpec, ImplementsThrottle, Quiet!Spec

-----------------------------------------------------------------------------
(* The numeric instability detector. *)

HIDE DetectorsAssumption

\* A pair that is in the set has been alerted, and, while the set was never full, no pair
\* has been alerted that is not in it: only then does the set say who was alerted.
InstabilityInv ==
  /\ head \in [InNodes -> [step : InSteps, bad : BOOLEAN]]
  /\ itodo \subseteq InNodes
  /\ evicted \in BOOLEAN
  /\ emitted \subseteq Pairs /\ IsFiniteSet(emitted) /\ Cardinality(emitted) <= MaxEmitted
  /\ visited \subseteq Pairs
  /\ times \in [Pairs -> 0..2]
  /\ \A p \in emitted \cup visited : times[p] > 0
  /\ ~evicted => \A p \in Pairs : times[p] <= 1 /\ (times[p] > 0 => p \in emitted)

LEMMA InstabilityStart == InInit => InstabilityInv
<1> SUFFICES ASSUME InInit PROVE InstabilityInv
  OBVIOUS
<1>1. NoSample \in [step : InSteps, bad : BOOLEAN]
  BY InstabilityAssumption DEF NoSample
<1>2. IsFiniteSet(emitted) /\ Cardinality(emitted) <= MaxEmitted
  BY FS_EmptySet, InstabilityAssumption DEF InInit
<1>3. /\ head = [n \in InNodes |-> NoSample] /\ itodo = {} /\ emitted = {} /\ visited = {}
      /\ times = [p \in Pairs |-> 0] /\ evicted = FALSE
  BY DEF InInit
<1>4. head \in [InNodes -> [step : InSteps, bad : BOOLEAN]] /\ times \in [Pairs -> 0..2]
  BY <1>1, <1>3
<1>5. \A p \in Pairs : times[p] = 0
  BY <1>3
<1>6. ~evicted => \A p \in Pairs : times[p] <= 1 /\ (times[p] > 0 => p \in emitted)
  BY <1>5
<1>7. \A p \in emitted \cup visited : times[p] > 0
  BY <1>3
<1> QED BY <1>2, <1>3, <1>4, <1>6, <1>7, Zenon DEF InstabilityInv

\* What is left of a set when it is trimmed: at most as many as it may hold, since half of
\* the bound is at least one.
LEMMA EvictBounds ==
  ASSUME NEW s, IsFiniteSet(s), Cardinality(s) <= MaxEmitted + 1, NEW t \in EvictIfFull(s)
  PROVE  /\ t \subseteq s /\ IsFiniteSet(t) /\ Cardinality(t) <= MaxEmitted
         /\ ~Full(s) => t = s
<1>1. Cardinality(s) \in Nat /\ MaxEmitted \in Nat /\ MaxEmitted >= 2
  <2>1. Cardinality(s) \in Nat
    BY FS_CardinalityType
  <2> QED BY <2>1, InstabilityAssumption
<1>2. CASE Full(s)
  <2>1. t \in SUBSET s /\ Cardinality(t) = Cardinality(s) - MaxEmitted \div 2
    BY <1>2 DEF EvictIfFull
  <2>2. MaxEmitted \div 2 >= 1
    BY <1>1
  <2>3. IsFiniteSet(t)
    BY <2>1, FS_Subset
  <2>4. MaxEmitted \div 2 \in Nat
    BY <1>1
  <2> HIDE DEF Full
  <2>5. Cardinality(t) <= MaxEmitted
    BY <1>1, <2>1, <2>2, <2>4
  <2> QED BY <1>2, <2>1, <2>3, <2>5
<1>3. CASE ~Full(s)
  BY <1>1, <1>3 DEF EvictIfFull, Full
<1> QED BY <1>2, <1>3

LEMMA ScanKeeps ==
  ASSUME InstabilityInv, Scan
  PROVE  InstabilityInv'
<1>1. PICK n \in itodo :
        LET pair == <<n, head[n].step>> IN
        /\ itodo' = itodo \ {n}
        /\ IF head[n].bad
             THEN /\ visited' = visited \cup {pair}
                  /\ IF New(pair) THEN EmitPair(pair) ELSE UNCHANGED <<emitted, times, evicted>>
             ELSE UNCHANGED <<visited, emitted, times, evicted>>
  BY DEF Scan
<1>2. PICK pair : pair = <<n, head[n].step>>
  OBVIOUS
<1>3. head' = head /\ itodo' \subseteq InNodes
  BY <1>1 DEF Scan, InstabilityInv
<1>4. pair \in Pairs
  <2>1. n \in InNodes /\ head[n] \in [step : InSteps, bad : BOOLEAN]
    BY DEF InstabilityInv
  <2> QED BY <1>2, <2>1 DEF Pairs
<1>5. CASE ~head[n].bad
  BY <1>1, <1>3, <1>5 DEF InstabilityInv
<1>6. CASE head[n].bad /\ ~New(pair)
  BY <1>1, <1>2, <1>3, <1>4, <1>6 DEF InstabilityInv, New
<1>7. CASE head[n].bad /\ New(pair)
  <2>1. visited' = visited \cup {pair} /\ EmitPair(pair)
    BY <1>1, <1>2, <1>7
  <2> DEFINE all == emitted \cup {pair}
  <2>2. /\ emitted' \in EvictIfFull(all) /\ evicted' = (evicted \/ Full(all))
        /\ times' = [times EXCEPT ![pair] = IF @ < 2 THEN @ + 1 ELSE 2]
    BY <2>1 DEF EmitPair
  <2>3. pair \notin emitted /\ IsFiniteSet(all) /\ Cardinality(all) = Cardinality(emitted) + 1
    BY <1>7, FS_AddElement DEF New, InstabilityInv
  <2>4. Cardinality(emitted) \in Nat /\ Cardinality(emitted) <= MaxEmitted /\ MaxEmitted \in Nat
    BY FS_CardinalityType, InstabilityAssumption DEF InstabilityInv
  <2>5. all \subseteq Pairs /\ \A p \in emitted : times[p] > 0
    BY <1>4 DEF InstabilityInv
  <2> HIDE DEF all
  <2>6. /\ emitted' \subseteq all /\ IsFiniteSet(emitted') /\ Cardinality(emitted') <= MaxEmitted
        /\ ~Full(all) => emitted' = all
    <3>1. Cardinality(all) <= MaxEmitted + 1
      BY <2>3, <2>4
    <3> QED BY <2>2, <2>3, <3>1, EvictBounds
  <2>7. /\ times' \in [Pairs -> 0..2]
        /\ times[pair] \in 0..2 /\ times'[pair] > 0 /\ (times[pair] = 0 => times'[pair] = 1)
        /\ \A p \in Pairs : p # pair => times'[p] = times[p]
    BY <1>4, <2>2 DEF InstabilityInv
  <2>8. \A p \in emitted' \cup visited' : times'[p] > 0
    <3>1. \A p \in emitted \cup visited : p \in Pairs /\ times[p] > 0
      BY DEF InstabilityInv
    <3>2. emitted' \cup visited' \subseteq emitted \cup visited \cup {pair}
      BY <2>1, <2>6 DEF all
    <3> QED BY <2>7, <3>1, <3>2
  <2>9. ~evicted' => \A p \in Pairs : times'[p] <= 1 /\ (times'[p] > 0 => p \in emitted')
    <3>1. SUFFICES ASSUME ~evicted' PROVE \A p \in Pairs : /\ times'[p] <= 1
                                                           /\ times'[p] > 0 => p \in emitted'
      OBVIOUS
    <3>2. ~evicted /\ emitted' = all
      BY <2>2, <2>6, <3>1
    <3>3. \A p \in Pairs : times[p] <= 1 /\ (times[p] > 0 => p \in emitted)
      BY <3>2 DEF InstabilityInv
    <3>4. times[pair] = 0
      BY <1>4, <2>3, <2>7, <3>3
    <3> QED BY <2>7, <3>2, <3>3, <3>4 DEF all
  <2>10. evicted' \in BOOLEAN /\ visited' \subseteq Pairs /\ emitted' \subseteq Pairs
    BY <1>4, <2>1, <2>2, <2>5, <2>6 DEF InstabilityInv
  <2>11. head' \in [InNodes -> [step : InSteps, bad : BOOLEAN]]
    BY <1>3 DEF InstabilityInv
  <2> QED BY <1>3, <2>6, <2>7, <2>8, <2>9, <2>10, <2>11 DEF InstabilityInv
<1> QED BY <1>5, <1>6, <1>7

LEMMA InstabilityStep ==
  ASSUME InstabilityInv, [InNext]_inVars
  PROVE  InstabilityInv'
<1>1. CASE IngestSample
  <2>1. PICK n \in InNodes, s \in InSteps, bad \in BOOLEAN :
          /\ head' = [head EXCEPT ![n] = [step |-> s, bad |-> bad]]
          /\ UNCHANGED <<itodo, ipass, emitted, times, evicted, visited>>
    BY <1>1 DEF IngestSample
  <2>2. head' \in [InNodes -> [step : InSteps, bad : BOOLEAN]]
    BY <2>1 DEF InstabilityInv
  <2> QED BY <2>1, <2>2 DEF InstabilityInv
<1>2. CASE StartScan
  BY <1>2 DEF StartScan, InstabilityInv
<1>3. CASE EndScan
  BY <1>3 DEF EndScan, InstabilityInv
<1>4. CASE UNCHANGED inVars
  BY <1>4 DEF inVars, InstabilityInv
<1> QED BY <1>1, <1>2, <1>3, <1>4, ScanKeeps DEF InNext

\* For any nodes, steps and bound of at least two: the set stays within its bound, no broken
\* sample a pass comes across goes without an alert, and none gets two until the set has
\* once been full (numeric_instability.py: _emitted_steps, _evict_if_full).
THEOREM BrokenAlwaysReportedOnce == InSpec => []BrokenReportedOnce
<1>1. InInit => InstabilityInv
  BY InstabilityStart
<1>2. InstabilityInv /\ [InNext]_inVars => InstabilityInv'
  BY InstabilityStep
<1>3. InstabilityInv => BrokenReportedOnce
  BY DEF InstabilityInv, BrokenReportedOnce
<1> QED BY <1>1, <1>2, <1>3, PTL DEF InSpec

-----------------------------------------------------------------------------
(* The DiLoCo detector: one alert of a kind per increment. *)

\* The increment that last raised an alert is not ahead of the one recorded, and while the
\* checks of a worker are to be made, it is behind: the increment is new to them.
IncrementInv ==
  /\ diloco \in [Reporting -> Seq(DiSample)]
  /\ lastOuter \in [Reporting -> -1..MaxOuter]
  /\ spoke \in [Checks -> [Reporting -> -1..MaxOuter]]
  /\ todo \subseteq Reporting
  /\ doing \in {"idle", "outer"} \cup Checks
  /\ doing \in Checks => worker \in Reporting
  /\ \A c \in Checks : \A n \in Reporting : spoke[c][n] <= lastOuter[n]
  /\ doing = "divergence" => \A c \in Checks : spoke[c][worker] < lastOuter[worker]
  /\ doing = "sync" => spoke["sync"][worker] < lastOuter[worker]
  /\ AlertedOnce

LEMMA IncrementStart == DiInit => IncrementInv
<1> SUFFICES ASSUME DiInit PROVE IncrementInv
  OBVIOUS
<1>1. MaxOuter \in Nat /\ -1 \in -1..MaxOuter
  BY DiLoCoAssumption
<1>2. diloco \in [Reporting -> Seq(DiSample)]
  BY DEF DiInit
<1>3. lastOuter \in [Reporting -> -1..MaxOuter] /\ \A n \in Reporting : lastOuter[n] = -1
  BY <1>1 DEF DiInit
<1>4. /\ spoke \in [Checks -> [Reporting -> -1..MaxOuter]]
      /\ \A c \in Checks : \A n \in Reporting : spoke[c][n] = -1
  BY <1>1 DEF DiInit
<1>5. doing = "idle" /\ todo = {} /\ AlertedOnce
  BY DEF DiInit, AlertedOnce
<1> QED BY <1>2, <1>3, <1>4, <1>5 DEF IncrementInv, Checks

LEMMA IngestKeepsIncrement ==
  ASSUME IncrementInv, IngestDiLoCo
  PROVE  IncrementInv'
<1>1. PICK n \in Reporting, v \in DiReadings, s \in 0..MaxOuter :
        diloco' = [diloco EXCEPT ![n] =
          IF Len(Append(diloco[n], [step |-> s, val |-> v])) > DiBuffer
            THEN Tail(Append(diloco[n], [step |-> s, val |-> v]))
            ELSE Append(diloco[n], [step |-> s, val |-> v])]
  BY DEF IngestDiLoCo
<1>2. UNCHANGED <<lastOuter, todo, doing, worker, spoke, again>>
  BY DEF IngestDiLoCo
<1>3. diloco' \in [Reporting -> Seq(DiSample)]
  <2> DEFINE m == [step |-> s, val |-> v]
             all == Append(diloco[n], m)
  <2>1. m \in DiSample /\ diloco \in [Reporting -> Seq(DiSample)]
    BY DEF DiSample, IncrementInv
  <2>2. diloco[n] \in Seq(DiSample)
    BY <2>1
  <2> HIDE DEF m
  <2>3. all \in Seq(DiSample) /\ Len(all) = Len(diloco[n]) + 1 /\ Len(diloco[n]) \in Nat
    BY <2>1, <2>2
  <2> HIDE DEF all
  <2>4. all # <<>>
    BY <2>3
  <2>5. Tail(all) \in Seq(DiSample)
    BY <2>3, <2>4
  <2> QED BY <1>1, <2>1, <2>3, <2>5 DEF all, m
<1> QED BY <1>2, <1>3 DEF IncrementInv, AlertedOnce

LEMMA ReadOuterKeeps ==
  ASSUME IncrementInv, ReadOuter
  PROVE  IncrementInv'
<1>1. PICK n \in todo :
        LET h == diloco[n]
            current == IF h = <<>> THEN lastOuter[n] ELSE h[Len(h)].step
        IN /\ todo' = todo \ {n}
           /\ \/ current < lastOuter[n] /\ SeeRestart(n, current)
              \/ Increment(n, current) /\ SeeIncrement(n, current)
              \/ /\ current >= lastOuter[n] /\ ~Increment(n, current)
                 /\ UNCHANGED <<lastOuter, doing, worker, spoke>>
  BY DEF ReadOuter
<1>2. /\ doing = "outer" /\ UNCHANGED <<diloco, deviant, again>> /\ todo' \subseteq Reporting
      /\ n \in Reporting
  BY <1>1 DEF ReadOuter, IncrementInv
<1>3. PICK current : current = IF diloco[n] = <<>> THEN lastOuter[n]
                                                   ELSE diloco[n][Len(diloco[n])].step
  OBVIOUS
<1>4. current \in -1..MaxOuter /\ lastOuter[n] \in -1..MaxOuter /\ MaxOuter \in Nat
  <2>1. diloco[n] \in Seq(DiSample) /\ lastOuter[n] \in -1..MaxOuter /\ MaxOuter \in Nat
    BY <1>2, DiLoCoAssumption DEF IncrementInv
  <2>2. CASE diloco[n] # <<>>
    <3>1. diloco[n][Len(diloco[n])] \in DiSample
      BY <2>1, <2>2
    <3>2. diloco[n][Len(diloco[n])].step \in 0..MaxOuter
      BY <3>1 DEF DiSample
    <3> QED BY <1>3, <2>1, <2>2, <3>2
  <2> QED BY <1>3, <2>1, <2>2
<1>5. /\ diloco' \in [Reporting -> Seq(DiSample)] /\ AlertedOnce'
      /\ lastOuter \in [Reporting -> -1..MaxOuter]
      /\ spoke \in [Checks -> [Reporting -> -1..MaxOuter]]
      /\ \A c \in Checks : \A m \in Reporting : spoke[c][m] <= lastOuter[m]
  BY <1>2 DEF IncrementInv, AlertedOnce
<1>6. CASE current < lastOuter[n] /\ SeeRestart(n, current)
  <2>1. /\ lastOuter' = [lastOuter EXCEPT ![n] = current]
        /\ spoke' = [c \in Checks |-> [spoke[c] EXCEPT ![n] = -1]]
        /\ UNCHANGED <<doing, worker>>
    BY <1>6 DEF SeeRestart
  <2>2. /\ lastOuter' \in [Reporting -> -1..MaxOuter] /\ lastOuter'[n] = current
        /\ \A m \in Reporting : m # n => lastOuter'[m] = lastOuter[m]
    BY <1>2, <1>4, <1>5, <2>1
  <2>3. spoke' \in [Checks -> [Reporting -> -1..MaxOuter]]
    <3>1. -1 \in -1..MaxOuter
      BY <1>4
    <3>2. ASSUME NEW c \in Checks
          PROVE  [spoke[c] EXCEPT ![n] = -1] \in [Reporting -> -1..MaxOuter]
      <4>1. spoke[c] \in [Reporting -> -1..MaxOuter]
        BY <1>5
      <4> QED BY <3>1, <4>1
    <3> QED BY <2>1, <3>2
  <2>4. \A c \in Checks : /\ spoke'[c][n] = -1
                          /\ \A m \in Reporting : m # n => spoke'[c][m] = spoke[c][m]
    BY <1>2, <1>5, <2>1
  <2>5. \A c \in Checks : \A m \in Reporting : spoke'[c][m] <= lastOuter'[m]
    <3>1. -1 <= current
      BY <1>4
    <3> QED BY <1>5, <2>2, <2>4, <3>1
  <2> QED BY <1>2, <1>5, <2>1, <2>2, <2>3, <2>5 DEF IncrementInv, Checks
<1>7. CASE Increment(n, current) /\ SeeIncrement(n, current)
  <2>1. /\ lastOuter' = [lastOuter EXCEPT ![n] = current] /\ current > lastOuter[n]
        /\ doing' = "divergence" /\ worker' = n /\ spoke' = spoke
    BY <1>7 DEF SeeIncrement, Increment
  <2>2. /\ lastOuter' \in [Reporting -> -1..MaxOuter] /\ lastOuter'[n] = current
        /\ \A m \in Reporting : m # n => lastOuter'[m] = lastOuter[m]
    BY <1>2, <1>4, <1>5, <2>1
  <2>3. \A c \in Checks : spoke[c][n] <= lastOuter[n] /\ spoke[c][n] \in -1..MaxOuter
    BY <1>2, <1>5
  <2>4. \A c \in Checks : spoke'[c][n] < lastOuter'[n]
    BY <1>4, <2>1, <2>2, <2>3
  <2>5. \A c \in Checks : \A m \in Reporting : spoke'[c][m] <= lastOuter'[m]
    BY <1>4, <1>5, <2>1, <2>2, <2>3, <2>4
  <2> QED BY <1>2, <1>5, <2>1, <2>2, <2>4, <2>5 DEF IncrementInv, Checks
<1>8. CASE UNCHANGED <<lastOuter, doing, worker, spoke>>
  BY <1>2, <1>5, <1>8 DEF IncrementInv, Checks
<1> QED BY <1>1, <1>3, <1>6, <1>7, <1>8

LEMMA CheckWorkerKeeps ==
  ASSUME IncrementInv, NEW check \in Checks, CheckWorker(check)
  PROVE  IncrementInv'
<1>1. /\ doing = check /\ doing' = (IF check = "divergence" THEN "sync" ELSE "outer")
      /\ UNCHANGED <<diloco, lastOuter, todo, worker>>
      /\ worker \in Reporting
  BY DEF CheckWorker, IncrementInv
<1>2. /\ lastOuter \in [Reporting -> -1..MaxOuter]
      /\ spoke \in [Checks -> [Reporting -> -1..MaxOuter]]
      /\ lastOuter[worker] \in -1..MaxOuter /\ MaxOuter \in Nat
      /\ spoke[check][worker] \in -1..MaxOuter
  BY <1>1, DiLoCoAssumption DEF IncrementInv
<1>3. /\ \A c \in Checks : \A n \in Reporting : spoke[c][n] <= lastOuter[n]
      /\ spoke[check][worker] < lastOuter[worker]
      /\ check = "divergence" => spoke["sync"][worker] < lastOuter[worker]
  BY <1>1 DEF IncrementInv, Checks
<1>4. CASE UNCHANGED <<spoke, again>>
  BY <1>1, <1>2, <1>3, <1>4 DEF IncrementInv, AlertedOnce, Checks
<1>5. CASE /\ spoke' = [spoke EXCEPT ![check][worker] = lastOuter[worker]]
           /\ again' = (again \/ spoke[check][worker] >= lastOuter[worker])
  <2>1. ~again'
    <3>1. ~(spoke[check][worker] >= lastOuter[worker])
      BY <1>2, <1>3
    <3>2. ~again
      BY DEF IncrementInv, AlertedOnce
    <3> QED BY <1>5, <3>1, <3>2, Zenon
  <2>2. /\ spoke' \in [Checks -> [Reporting -> -1..MaxOuter]]
        /\ spoke'[check][worker] = lastOuter[worker]
        /\ \A n \in Reporting : n # worker => spoke'[check][n] = spoke[check][n]
        /\ \A c \in Checks : c # check => spoke'[c] = spoke[c]
    BY <1>1, <1>2, <1>5
  <2>3. \A c \in Checks : \A n \in Reporting : spoke'[c][n] <= lastOuter'[n]
    BY <1>1, <1>2, <1>3, <2>2
  <2>4. doing' = "sync" => spoke'["sync"][worker'] < lastOuter'[worker']
    BY <1>1, <1>3, <2>2 DEF Checks
  <2> QED BY <1>1, <1>2, <2>1, <2>2, <2>3, <2>4 DEF IncrementInv, AlertedOnce, Checks
<1> QED BY <1>4, <1>5 DEF CheckWorker

LEMMA IncrementStep ==
  ASSUME IncrementInv, [DiNext]_diVars
  PROVE  IncrementInv'
<1>1. CASE StartDiLoCo
  BY <1>1 DEF StartDiLoCo, IncrementInv, AlertedOnce, Checks
<1>2. CASE ComparePseudoGradients
  BY <1>2 DEF ComparePseudoGradients, IncrementInv, AlertedOnce, Checks
<1>3. CASE UNCHANGED diVars
  BY <1>3 DEF diVars, IncrementInv, AlertedOnce
<1> QED BY <1>1, <1>2, <1>3, IngestKeepsIncrement, ReadOuterKeeps, CheckWorkerKeeps DEF DiNext

\* For any workers, samples, buffer and thresholds: an increment of a worker's outer step
\* raises at most one alert of each kind, although samples repeat the step, arrive during
\* the pass, and the steps of a restarted worker start over (diloco.py, run_diloco_detection).
THEOREM AlwaysAlertedOnce == DiSpec => []AlertedOnce
<1>1. DiInit => IncrementInv
  BY IncrementStart
<1>2. IncrementInv /\ [DiNext]_diVars => IncrementInv'
  BY IncrementStep
<1>3. IncrementInv => AlertedOnce
  BY DEF IncrementInv
<1> QED BY <1>1, <1>2, <1>3, PTL DEF DiSpec

-----------------------------------------------------------------------------
(* The cross-node detector. *)

\* The ring holds, of each node whose agent's alert is not yet forgotten, the latest alert
\* of the agent, at the place that the alerts stored since it leave; and no alert of an
\* agent in it is more recent.
RingInv ==
  /\ ring \in Seq(StoredAlert) /\ Len(ring) <= RingCap
  /\ cpass \in {"idle", "correlate"}
  /\ agentAge \in [CoNodes -> Ages] /\ behind \in [CoNodes -> 0..RingCap]
  /\ \A i \in 1..Len(ring) : ring[i].agent => agentAge[ring[i].node] <= ring[i].age
  /\ \A n \in CoNodes : behind[n] < RingCap =>
       \E i \in 1..Len(ring) : /\ i <= behind[n] + 1
                               /\ ring[i].agent /\ ring[i].node = n /\ ring[i].age = agentAge[n]

LEMMA RingStart == CoInit => RingInv
<1> SUFFICES ASSUME CoInit PROVE RingInv
  OBVIOUS
<1>1. RingCap \in Nat /\ Window + 1 \in Ages
  BY CorrelationAssumption DEF Ages
<1>2. ring = <<>> /\ ring \in Seq(StoredAlert) /\ Len(ring) = 0 /\ cpass = "idle"
  BY EmptySeq DEF CoInit
<1>3. agentAge \in [CoNodes -> Ages] /\ behind \in [CoNodes -> 0..RingCap]
  BY <1>1 DEF CoInit
<1>4. \A n \in CoNodes : ~(behind[n] < RingCap)
  BY <1>1 DEF CoInit
<1> QED BY <1>1, <1>2, <1>3, <1>4 DEF RingInv

\* The alerts of a set of nodes come before those that were in the ring, which keeps as
\* many as it may.
LEMMA AddedAlerts ==
  ASSUME RingInv, NEW nodes \in SUBSET CoNodes, NEW agent \in BOOLEAN, NEW age \in Ages,
         AddAll(nodes, agent, age)
  PROVE  /\ Cardinality(nodes) \in Nat
         /\ ring' \in Seq(StoredAlert) /\ Len(ring') <= RingCap
         /\ \A i \in 1..Len(ring') :
              \/ \E n \in nodes : /\ i <= Cardinality(nodes)
                                  /\ ring'[i] = [node |-> n, agent |-> agent, age |-> age]
              \/ /\ i - Cardinality(nodes) \in 1..Len(ring)
                 /\ ring'[i] = ring[i - Cardinality(nodes)]
         /\ \A i \in 1..Len(ring) : i + Cardinality(nodes) <= RingCap =>
              /\ i + Cardinality(nodes) \in 1..Len(ring')
              /\ ring'[i + Cardinality(nodes)] = ring[i]
         /\ nodes # {} => 1 \in 1..Len(ring')
<1>0. IsFiniteSet(nodes) /\ Cardinality(nodes) \in Nat
  <2>1. IsFiniteSet(nodes)
    BY FS_Subset, CorrelationAssumption
  <2> QED BY <2>1, FS_CardinalityType
<1>1. PICK K \in Nat : K = Cardinality(nodes)
  BY <1>0
<1>2. PICK order \in [1..K -> nodes] :
        ring' = Trim([i \in DOMAIN order |-> [node |-> order[i], agent |-> agent, age |-> age]]
                     \o ring)
  BY <1>1 DEF AddAll
<1> DEFINE new == [i \in 1..K |-> [node |-> order[i], agent |-> agent, age |-> age]]
           all == new \o ring
           kept == Cap(RingCap, Len(all))
<1>3. ring' = SubSeq(all, 1, kept)
  BY <1>2 DEF Trim
<1>4. \A i \in 1..K : order[i] \in nodes /\ new[i] \in StoredAlert
  BY DEF StoredAlert
<1>5. new \in Seq(StoredAlert) /\ Len(new) = K
  BY <1>1, <1>4
<1>6. ring \in Seq(StoredAlert) /\ Len(ring) \in Nat /\ RingCap \in Nat \ {0}
  BY CorrelationAssumption DEF RingInv
<1>7. \A i \in 1..K : new[i] = [node |-> order[i], agent |-> agent, age |-> age]
  OBVIOUS
<1> HIDE DEF new
<1>8. /\ all \in Seq(StoredAlert) /\ Len(all) = K + Len(ring)
      /\ \A i \in 1..(K + Len(ring)) : all[i] = IF i <= K THEN new[i] ELSE ring[i - K]
  BY <1>5, <1>6, ConcatProperties
<1> HIDE DEF all
<1>9. kept \in Nat /\ kept <= RingCap /\ kept <= Len(all) /\ (kept = RingCap \/ kept = Len(all))
  BY <1>1, <1>6, <1>8 DEF Cap
<1> HIDE DEF kept
<1>10. /\ ring' \in Seq(StoredAlert) /\ Len(ring') = kept
       /\ \A i \in 1..kept : ring'[i] = all[i]
  <2>1. \A i \in 1..kept : all[i] \in StoredAlert
    BY <1>8, <1>9
  <2>2. /\ SubSeq(all, 1, kept) \in Seq(StoredAlert)
        /\ Len(SubSeq(all, 1, kept)) = IF 1 <= kept THEN kept - 1 + 1 ELSE 0
        /\ \A i \in 1..(kept - 1 + 1) : SubSeq(all, 1, kept)[i] = all[1 + i - 1]
    BY <1>9, <2>1, SubSeqProperties
  <2> QED BY <1>3, <1>9, <2>2
<1>11. ASSUME NEW i \in 1..Len(ring')
       PROVE  \/ \E n \in nodes : /\ i <= K
                                  /\ ring'[i] = [node |-> n, agent |-> agent, age |-> age]
              \/ i - K \in 1..Len(ring) /\ ring'[i] = ring[i - K]
  <2>1. i \in 1..(K + Len(ring)) /\ ring'[i] = all[i]
    BY <1>6, <1>8, <1>9, <1>10
  <2>2. CASE i <= K
    <3>1. i \in 1..K /\ ring'[i] = new[i]
      BY <1>8, <2>1, <2>2
    <3> QED BY <1>4, <1>7, <2>2, <3>1
  <2>3. CASE ~(i <= K)
    BY <1>6, <1>8, <2>1, <2>3
  <2> QED BY <2>2, <2>3
<1>12. ASSUME NEW i \in 1..Len(ring), i + K <= RingCap
       PROVE  i + K \in 1..Len(ring') /\ ring'[i + K] = ring[i]
  <2>1. i + K \in 1..(K + Len(ring)) /\ ~(i + K <= K) /\ (i + K) - K = i
    BY <1>6
  <2>2. i + K \in 1..kept
    BY <1>8, <1>9, <1>12, <2>1
  <2> QED BY <1>8, <1>10, <2>1, <2>2
<1>13. ASSUME nodes # {}
       PROVE  1 \in 1..Len(ring')
  <2>1. K # 0
    BY <1>0, <1>1, <1>13, FS_EmptySet
  <2> QED BY <1>6, <1>8, <1>9, <1>10, <2>1
<1> QED BY <1>0, <1>1, <1>9, <1>10, <1>11, <1>12, <1>13

\* What the backend stores itself.
LEMMA CentralKeeps ==
  ASSUME RingInv, NEW nodes \in SUBSET CoNodes, AddAll(nodes, FALSE, 0),
         cpass' \in {"idle", "correlate"}
  PROVE  RingInv'
<1>1. PICK K : K = Cardinality(nodes)
  OBVIOUS
<1>2. 0 \in Ages /\ FALSE \in BOOLEAN /\ RingCap \in Nat \ {0}
  BY CorrelationAssumption DEF Ages
<1>3. /\ K \in Nat /\ ring' \in Seq(StoredAlert) /\ Len(ring') <= RingCap
      /\ \A i \in 1..Len(ring') :
           \/ \E n \in nodes : i <= K /\ ring'[i] = [node |-> n, agent |-> FALSE, age |-> 0]
           \/ i - K \in 1..Len(ring) /\ ring'[i] = ring[i - K]
      /\ \A i \in 1..Len(ring) : i + K <= RingCap =>
           i + K \in 1..Len(ring') /\ ring'[i + K] = ring[i]
  BY <1>1, <1>2, AddedAlerts
<1>4. /\ agentAge' = agentAge
      /\ behind' = [x \in CoNodes |-> Cap(behind[x] + K, RingCap)]
  BY <1>1 DEF AddAll, RingInv
<1>5. /\ agentAge \in [CoNodes -> Ages] /\ behind \in [CoNodes -> 0..RingCap]
      /\ ring \in Seq(StoredAlert) /\ Len(ring) \in Nat
      /\ \A i \in 1..Len(ring) : ring[i].agent => agentAge[ring[i].node] <= ring[i].age
  BY DEF RingInv
<1>6. ASSUME NEW n \in CoNodes
      PROVE  /\ behind'[n] \in 0..RingCap
             /\ behind'[n] < RingCap => behind'[n] = behind[n] + K /\ behind[n] < RingCap
  BY <1>2, <1>3, <1>4, <1>5 DEF Cap
<1>7. behind' \in [CoNodes -> 0..RingCap]
  BY <1>4, <1>6
<1>8. \A i \in 1..Len(ring') : ring'[i].agent => agentAge'[ring'[i].node] <= ring'[i].age
  <2> TAKE i \in 1..Len(ring')
  <2>1. CASE \E n \in nodes : ring'[i] = [node |-> n, agent |-> FALSE, age |-> 0]
    <3>1. ~ring'[i].agent
      BY <2>1
    <3> QED BY <3>1
  <2>2. CASE i - K \in 1..Len(ring) /\ ring'[i] = ring[i - K]
    BY <1>4, <1>5, <2>2
  <2> QED BY <1>3, <2>1, <2>2
<1>9. ASSUME NEW n \in CoNodes, behind'[n] < RingCap
      PROVE  \E i \in 1..Len(ring') :
               /\ i <= behind'[n] + 1
               /\ ring'[i].agent /\ ring'[i].node = n /\ ring'[i].age = agentAge'[n]
  <2>1. behind'[n] = behind[n] + K /\ behind[n] < RingCap
    BY <1>6, <1>9
  <2>2. PICK i \in 1..Len(ring) : /\ i <= behind[n] + 1
                                  /\ ring[i].agent /\ ring[i].node = n /\ ring[i].age = agentAge[n]
    BY <2>1 DEF RingInv
  <2>3. behind[n] \in Nat /\ i + K <= behind'[n] + 1 /\ i + K <= RingCap
    BY <1>2, <1>3, <1>5, <1>9, <2>1, <2>2
  <2>4. i + K \in 1..Len(ring') /\ ring'[i + K] = ring[i]
    BY <1>3, <2>3
  <2> QED BY <1>4, <2>2, <2>3, <2>4
<1> QED BY <1>3, <1>4, <1>5, <1>7, <1>8, <1>9 DEF RingInv

\* The alert of an agent.
LEMMA ReportKeeps ==
  ASSUME RingInv, NEW n \in CoNodes, NEW age \in Ages, AddAll({n}, TRUE, age), cpass' = cpass
  PROVE  RingInv'
<1>1. {n} \in SUBSET CoNodes /\ {n} # {} /\ Cardinality({n}) = 1 /\ TRUE \in BOOLEAN
  BY FS_Singleton
<1>2. /\ ring' \in Seq(StoredAlert) /\ Len(ring') <= RingCap
      /\ \A i \in 1..Len(ring') :
           \/ \E x \in {n} : i <= 1 /\ ring'[i] = [node |-> x, agent |-> TRUE, age |-> age]
           \/ i - 1 \in 1..Len(ring) /\ ring'[i] = ring[i - 1]
      /\ \A i \in 1..Len(ring) : i + 1 <= RingCap =>
           i + 1 \in 1..Len(ring') /\ ring'[i + 1] = ring[i]
      /\ 1 \in 1..Len(ring')
  <2> DEFINE K == Cardinality({n})
  <2>1. /\ ring' \in Seq(StoredAlert) /\ Len(ring') <= RingCap
        /\ \A i \in 1..Len(ring') :
             \/ \E x \in {n} : i <= K /\ ring'[i] = [node |-> x, agent |-> TRUE, age |-> age]
             \/ i - K \in 1..Len(ring) /\ ring'[i] = ring[i - K]
        /\ \A i \in 1..Len(ring) : i + K <= RingCap =>
             i + K \in 1..Len(ring') /\ ring'[i + K] = ring[i]
        /\ 1 \in 1..Len(ring')
    BY <1>1, AddedAlerts
  <2> QED BY <1>1, <2>1
<1>3. /\ behind' = [x \in CoNodes |-> IF x = n /\ age <= agentAge[x]
                                        THEN 0 ELSE Cap(behind[x] + 1, RingCap)]
      /\ agentAge' = [x \in CoNodes |-> IF x = n THEN Cap(age, agentAge[x]) ELSE agentAge[x]]
  BY <1>1 DEF AddAll
<1>4. /\ agentAge \in [CoNodes -> Ages] /\ behind \in [CoNodes -> 0..RingCap]
      /\ ring \in Seq(StoredAlert) /\ Len(ring) \in Nat /\ cpass \in {"idle", "correlate"}
      /\ \A i \in 1..Len(ring) : ring[i].agent => agentAge[ring[i].node] <= ring[i].age
      /\ RingCap \in Nat \ {0} /\ Window \in Nat
  BY CorrelationAssumption DEF RingInv
<1>5. /\ agentAge' \in [CoNodes -> Ages] /\ agentAge'[n] <= age
      /\ \A x \in CoNodes : /\ agentAge'[x] <= agentAge[x]
                            /\ (x # n \/ ~(age <= agentAge[x])) => agentAge'[x] = agentAge[x]
      /\ age <= agentAge[n] => agentAge'[n] = age
  BY <1>3, <1>4 DEF Cap, Ages
<1>6. behind' \in [CoNodes -> 0..RingCap]
  <2>1. ASSUME NEW x \in CoNodes PROVE Cap(behind[x] + 1, RingCap) \in 0..RingCap
    BY <1>4 DEF Cap
  <2>2. 0 \in 0..RingCap
    BY <1>4
  <2> QED BY <1>3, <2>1, <2>2
<1>7. ring'[1] = [node |-> n, agent |-> TRUE, age |-> age]
  <2>1. ~(1 - 1 \in 1..Len(ring))
    BY <1>4
  <2>2. \E x \in {n} : ring'[1] = [node |-> x, agent |-> TRUE, age |-> age]
    BY <1>2, <2>1
  <2> QED BY <2>2
<1>8. \A i \in 1..Len(ring') : ring'[i].agent => agentAge'[ring'[i].node] <= ring'[i].age
  <2> TAKE i \in 1..Len(ring')
  <2>1. CASE ring'[i] = [node |-> n, agent |-> TRUE, age |-> age]
    BY <1>5, <2>1
  <2>2. CASE i - 1 \in 1..Len(ring) /\ ring'[i] = ring[i - 1]
    <3>1. PICK a : a = ring[i - 1]
      OBVIOUS
    <3>2. a \in StoredAlert
      BY <1>4, <2>2, <3>1
    <3>3. a.node \in CoNodes /\ a.age \in Ages
      BY <3>2 DEF StoredAlert
    <3>4. a.agent => agentAge[a.node] <= a.age
      BY <1>4, <2>2, <3>1
    <3>5. agentAge[a.node] \in Ages /\ agentAge'[a.node] \in Ages
      BY <1>4, <1>5, <3>3
    <3>6. agentAge'[a.node] <= agentAge[a.node]
      BY <1>5, <3>3
    <3>7. a.agent => agentAge'[a.node] <= a.age
      BY <1>4, <3>3, <3>4, <3>5, <3>6 DEF Ages
    <3> QED BY <2>2, <3>1, <3>7
  <2> QED BY <1>2, <2>1, <2>2
<1>9. ASSUME NEW x \in CoNodes, behind'[x] < RingCap
      PROVE  \E i \in 1..Len(ring') :
               /\ i <= behind'[x] + 1
               /\ ring'[i].agent /\ ring'[i].node = x /\ ring'[i].age = agentAge'[x]
  <2>1. CASE x = n /\ age <= agentAge[x]
    <3>1. behind'[x] = 0 /\ agentAge'[x] = age
      BY <1>3, <1>5, <2>1
    <3> QED BY <1>2, <1>7, <2>1, <3>1
  <2>2. CASE ~(x = n /\ age <= agentAge[x])
    <3>1. behind'[x] = behind[x] + 1 /\ behind[x] < RingCap /\ agentAge'[x] = agentAge[x]
      BY <1>3, <1>4, <1>5, <1>9, <2>2 DEF Cap
    <3>2. PICK i \in 1..Len(ring) :
            /\ i <= behind[x] + 1
            /\ ring[i].agent /\ ring[i].node = x /\ ring[i].age = agentAge[x]
      BY <3>1 DEF RingInv
    <3>3. i + 1 <= behind'[x] + 1 /\ i + 1 <= RingCap
      BY <1>4, <1>9, <3>1, <3>2
    <3>4. i + 1 \in 1..Len(ring') /\ ring'[i + 1] = ring[i]
      BY <1>2, <3>3
    <3> QED BY <3>1, <3>2, <3>3, <3>4
  <2> QED BY <2>1, <2>2
<1> QED BY <1>2, <1>4, <1>5, <1>6, <1>8, <1>9 DEF RingInv

LEMMA AgesPass ==
  ASSUME RingInv, CoTick
  PROVE  RingInv'
<1>1. /\ ring' = [i \in DOMAIN ring |-> [ring[i] EXCEPT !.age = Cap(ring[i].age + 1, Window + 1)]]
      /\ agentAge' = [n \in CoNodes |-> Cap(agentAge[n] + 1, Window + 1)]
      /\ behind' = behind /\ cpass' = cpass
  BY DEF CoTick
<1>2. /\ ring \in Seq(StoredAlert) /\ Len(ring) \in Nat /\ DOMAIN ring = 1..Len(ring)
      /\ Window \in Nat /\ agentAge \in [CoNodes -> Ages]
  BY CorrelationAssumption DEF RingInv
<1>3. ASSUME NEW i \in 1..Len(ring)
      PROVE  /\ ring[i].node \in CoNodes /\ ring[i].age \in Ages
             /\ ring'[i] \in StoredAlert
             /\ ring'[i].node = ring[i].node /\ (ring'[i].agent <=> ring[i].agent)
             /\ ring'[i].age = Cap(ring[i].age + 1, Window + 1)
  <2>1. ring[i] \in StoredAlert
    BY <1>2
  <2>2. ring'[i] = [ring[i] EXCEPT !.age = Cap(ring[i].age + 1, Window + 1)]
    BY <1>1, <1>2
  <2>3. Cap(ring[i].age + 1, Window + 1) \in Ages
    BY <1>2, <2>1 DEF StoredAlert, Ages, Cap
  <2> QED BY <2>1, <2>2, <2>3 DEF StoredAlert
<1>4. ring' \in Seq(StoredAlert) /\ Len(ring') = Len(ring)
  <2>1. DOMAIN ring' = 1..Len(ring)
    BY <1>1, <1>2
  <2>2. ring' = [i \in 1..Len(ring) |-> ring'[i]]
    BY <1>1, <2>1
  <2>3. \A i \in 1..Len(ring) : ring'[i] \in StoredAlert
    BY <1>3
  <2>4. PICK s : s = ring'
    OBVIOUS
  <2>5. s \in Seq(StoredAlert) /\ Len(s) = Len(ring)
    BY <1>2, <2>2, <2>3, <2>4
  <2> QED BY <2>4, <2>5
<1>5. agentAge' \in [CoNodes -> Ages]
  BY <1>1, <1>2 DEF Ages, Cap
<1>6. \A i \in 1..Len(ring') : ring'[i].agent => agentAge'[ring'[i].node] <= ring'[i].age
  <2> TAKE i \in 1..Len(ring')
  <2>1. /\ ring[i].node \in CoNodes /\ ring[i].age \in Ages
        /\ ring'[i].node = ring[i].node /\ (ring'[i].agent <=> ring[i].agent)
        /\ ring'[i].age = Cap(ring[i].age + 1, Window + 1)
    BY <1>3, <1>4
  <2>2. ring[i].agent => agentAge[ring[i].node] <= ring[i].age
    BY <1>4 DEF RingInv
  <2>3. /\ agentAge[ring[i].node] \in Ages
        /\ agentAge'[ring[i].node] = Cap(agentAge[ring[i].node] + 1, Window + 1)
    BY <1>1, <1>2, <2>1
  <2> QED BY <1>2, <2>1, <2>2, <2>3 DEF Cap, Ages
<1>7. ASSUME NEW n \in CoNodes, behind[n] < RingCap
      PROVE  \E i \in 1..Len(ring') :
               /\ i <= behind[n] + 1
               /\ ring'[i].agent /\ ring'[i].node = n /\ ring'[i].age = agentAge'[n]
  <2>1. PICK i \in 1..Len(ring) : /\ i <= behind[n] + 1
                                  /\ ring[i].agent /\ ring[i].node = n /\ ring[i].age = agentAge[n]
    BY <1>7 DEF RingInv
  <2> QED BY <1>1, <1>3, <1>4, <2>1
<1> QED BY <1>1, <1>4, <1>5, <1>6, <1>7, ZenonT(30) DEF RingInv

LEMMA StragglersAreNodes ==
  ASSUME NEW data \in SUBSET CoNodes, NEW mean \in [data -> MeanTps]
  PROVE  Stragglers(mean) \in SUBSET CoNodes
  BY DEF Stragglers

\* The alerts that are considered and what is found in them.
Reporters == {Latest[i].node : i \in {k \in DOMAIN Latest : Counts(Latest[k])}}

LEMMA LatestAlerts ==
  ASSUME RingInv
  PROVE  /\ DOMAIN Latest = {i \in 1..Len(ring) : i <= QueryCap}
         /\ \A i \in DOMAIN Latest : Latest[i] = ring[i]
<1> DEFINE k == Cap(QueryCap, Len(ring))
<1>1. ring \in Seq(StoredAlert) /\ Len(ring) \in Nat /\ QueryCap \in Nat \ {0}
  BY CorrelationAssumption DEF RingInv
<1>2. k \in Nat /\ k <= Len(ring) /\ k <= QueryCap /\ (k = Len(ring) \/ k = QueryCap)
  BY <1>1 DEF Cap
<1>3. Latest = SubSeq(ring, 1, k)
  BY DEF Latest, Query
<1> HIDE DEF k
<1>4. /\ Latest \in Seq(StoredAlert) /\ Len(Latest) = k
      /\ \A i \in 1..k : Latest[i] = ring[i]
  <2>1. \A i \in 1..k : ring[i] \in StoredAlert
    BY <1>1, <1>2
  <2>2. /\ SubSeq(ring, 1, k) \in Seq(StoredAlert)
        /\ Len(SubSeq(ring, 1, k)) = IF 1 <= k THEN k - 1 + 1 ELSE 0
        /\ \A i \in 1..(k - 1 + 1) : SubSeq(ring, 1, k)[i] = ring[1 + i - 1]
    BY <1>2, <2>1, SubSeqProperties
  <2> QED BY <1>2, <1>3, <2>2
<1>5. DOMAIN Latest = 1..k
  BY <1>4
<1> QED BY <1>1, <1>2, <1>4, <1>5

\* What is found is exact.
LEMMA CorrelateExact ==
  ASSUME RingInv, Correlate
  PROVE  /\ RingInv'
         /\ Cardinality(failing') # 1
         /\ \A n \in failing' : agentAge[n] <= Window
         /\ Cardinality(Recent) >= 2 => Recent \subseteq failing'
<1> DEFINE named == IF Cardinality(Reporters) >= 2 THEN Reporters ELSE {}
<1>1. AddAll(named, FALSE, 0) /\ failing' = named /\ cpass' = "idle"
  BY DEF Correlate, Reporters
<1>2. /\ ring \in Seq(StoredAlert) /\ Len(ring) \in Nat /\ {QueryCap, RingCap} \subseteq Nat
      /\ QueryCap <= RingCap /\ Window \in Nat /\ agentAge \in [CoNodes -> Ages]
      /\ behind \in [CoNodes -> 0..RingCap] /\ IsFiniteSet(CoNodes)
  BY CorrelationAssumption DEF RingInv
<1>3. \A n : n \in Reporters <=>
        \E i \in 1..Len(ring) : i <= QueryCap /\ Counts(ring[i]) /\ ring[i].node = n
  BY LatestAlerts DEF Reporters
<1>4. ASSUME NEW n \in Reporters
      PROVE  n \in CoNodes /\ agentAge[n] <= Window
  <2>1. PICK i \in 1..Len(ring) : Counts(ring[i]) /\ ring[i].node = n
    BY <1>3
  <2>2. ring[i] \in StoredAlert
    BY <1>2
  <2>3. n \in CoNodes /\ ring[i].age \in Ages /\ ring[i].age <= Window /\ ring[i].agent
    BY <2>1, <2>2 DEF StoredAlert, Counts
  <2>4. agentAge[n] <= ring[i].age /\ agentAge[n] \in Ages
    BY <1>2, <2>1, <2>3 DEF RingInv
  <2> QED BY <1>2, <2>3, <2>4 DEF Ages
<1>5. IsFiniteSet(Reporters) /\ Cardinality(Reporters) \in Nat /\ Reporters \in SUBSET CoNodes
  <2>1. Reporters \in SUBSET CoNodes
    BY <1>4
  <2> QED BY <1>2, <2>1, FS_Subset, FS_CardinalityType
<1>6. Recent \subseteq Reporters
  <2> SUFFICES ASSUME NEW n \in Recent PROVE n \in Reporters
    OBVIOUS
  <2>1. n \in CoNodes /\ agentAge[n] <= Window /\ behind[n] < QueryCap /\ behind[n] \in Nat
    BY <1>2 DEF Recent
  <2>2. PICK i \in 1..Len(ring) : /\ i <= behind[n] + 1
                                  /\ ring[i].agent /\ ring[i].node = n /\ ring[i].age = agentAge[n]
    <3>1. behind[n] < RingCap
      BY <1>2, <2>1
    <3> QED BY <2>1, <3>1 DEF RingInv
  <2>3. i <= QueryCap /\ Counts(ring[i])
    BY <1>2, <2>1, <2>2 DEF Counts
  <2> QED BY <1>3, <2>2, <2>3
<1>7. Cardinality(Recent) >= 2 => Recent \subseteq named
  <2>1. Cardinality(Recent) <= Cardinality(Reporters) /\ Cardinality(Recent) \in Nat
    BY <1>5, <1>6, FS_Subset, FS_CardinalityType
  <2> QED BY <1>5, <1>6, <2>1
<1>8. Cardinality(named) # 1
  BY <1>5, FS_EmptySet
<1>9. named \in SUBSET CoNodes
  BY <1>5
<1> HIDE DEF named
<1>10. RingInv'
  BY <1>1, <1>9, CentralKeeps
<1> QED BY <1>1, <1>4, <1>7, <1>8, <1>10 DEF named

LEMMA RingStep ==
  ASSUME RingInv, [CoNext]_coVars
  PROVE  /\ RingInv'
         /\ cpass = "correlate" /\ cpass' = "idle" =>
              /\ Cardinality(failing') # 1
              /\ \A n \in failing' : agentAge[n] <= Window
              /\ Cardinality(Recent) >= 2 => Recent \subseteq failing'
<1>1. CASE ReportAlert
  <2>1. PICK n \in CoNodes, age \in 0..CoMaxDelay : AddAll({n}, TRUE, Cap(age, Window + 1))
    BY <1>1 DEF ReportAlert
  <2>2. cpass' = cpass /\ Cap(age, Window + 1) \in Ages
    BY <1>1, CorrelationAssumption DEF ReportAlert, Ages, Cap
  <2>3. RingInv'
    BY <2>1, <2>2, ReportKeeps
  <2> QED BY <2>2, <2>3
<1>2. CASE CentralAlert
  <2>1. PICK n \in CoNodes : AddAll({n}, FALSE, 0)
    BY <1>2 DEF CentralAlert
  <2>2. cpass = "idle" /\ cpass' = "idle" /\ {n} \in SUBSET CoNodes
    BY <1>2 DEF CentralAlert
  <2> QED BY <2>1, <2>2, CentralKeeps
<1>3. CASE DetectStragglers
  <2>1. PICK data \in SUBSET CoNodes : \E mean \in [data -> MeanTps] :
               AddAll(Stragglers(mean), FALSE, 0)
    BY <1>3 DEF DetectStragglers
  <2>2. PICK mean \in [data -> MeanTps] : AddAll(Stragglers(mean), FALSE, 0)
    BY <2>1
  <2>3. cpass = "idle" /\ cpass' = "correlate" /\ Stragglers(mean) \in SUBSET CoNodes
    BY <1>3, StragglersAreNodes DEF DetectStragglers
  <2> QED BY <2>2, <2>3, CentralKeeps
<1>4. CASE Correlate
  BY <1>4, CorrelateExact
<1>5. CASE CoTick
  <2>1. cpass = "idle"
    BY <1>5 DEF CoTick
  <2> QED BY <1>5, <2>1, AgesPass
<1>6. CASE UNCHANGED coVars
  <2>1. UNCHANGED <<ring, cpass, failing, agentAge, behind>>
    BY <1>6 DEF coVars
  <2> QED BY <2>1 DEF RingInv
<1> QED BY <1>1, <1>2, <1>3, <1>4, <1>5, <1>6 DEF CoNext

\* For any nodes, ring, delays and window: a correlated failure is of two nodes or more, each
\* with an alert of its own agent within the window, and names every node whose agent's alert
\* the query still reaches (cross_node.py, _detect_correlated_failures).
THEOREM CorrelationAlwaysExact == CoSpec => CorrelationExact
<1>1. CoInit => RingInv
  BY RingStart
<1>2. RingInv /\ [CoNext]_coVars =>
        /\ RingInv'
        /\ cpass = "correlate" /\ cpass' = "idle" =>
             /\ Cardinality(failing') # 1
             /\ \A n \in failing' : agentAge[n] <= Window
             /\ Cardinality(Recent) >= 2 => Recent \subseteq failing'
  BY RingStep
<1> QED BY <1>1, <1>2, PTL DEF CoSpec, CorrelationExact

-----------------------------------------------------------------------------
(* The sums of the DiLoCo detector. A sum takes the elements of a set in an order that is  *)
(* not known; its facts are shown by a smallest subset for which they would not hold.      *)

\* Of a set of finite sets that is not empty, some member is smallest.
LEMMA Smallest ==
  ASSUME NEW F, F # {}, \A s \in F : IsFiniteSet(s)
  PROVE  \E s \in F : \A t \in F : Cardinality(s) <= Cardinality(t)
<1> DEFINE T == {Cardinality(s) : s \in F}
<1>1. T \in SUBSET Nat /\ T # {}
  BY FS_CardinalityType
<1>2. PICK x \in T : \A y \in T : x <= y
  BY <1>1, Least
<1> QED BY <1>2

FirstOf(s) == CHOOSE x \in s : TRUE
SumStep(f, g, s) == IF s = {} THEN 0 ELSE f[FirstOf(s)] + g[s \ {FirstOf(s)}]
IsSum(g, D, f) == g = [s \in D |-> SumStep(f, g, s)]

\* The subsets of up to m elements.
UpTo(S, m) == {s \in SUBSET S : Cardinality(s) <= m}

LEMMA FirstIn ==
  ASSUME NEW s, s # {}
  PROVE  FirstOf(s) \in s
  BY DEF FirstOf

LEMMA SumUpTo ==
  ASSUME NEW S, IsFiniteSet(S), NEW f, NEW m \in Nat
  PROVE  \E g : IsSum(g, UpTo(S, m), f)
<1> DEFINE T == {k \in Nat : ~ \E g : IsSum(g, UpTo(S, k), f)}
<1>1. SUFFICES ASSUME T # {} PROVE FALSE
  OBVIOUS
<1>2. PICK k \in T : \A y \in T : k <= y
  BY <1>1, Least
<1>3. k \in Nat /\ ~ \E g : IsSum(g, UpTo(S, k), f)
  BY <1>2
<1>4. \A s \in SUBSET S : IsFiniteSet(s) /\ Cardinality(s) \in Nat
  BY FS_Subset, FS_CardinalityType
<1>5. CASE k = 0
  <2>1. \A s \in UpTo(S, 0) : s = {}
    BY <1>4, FS_EmptySet DEF UpTo
  <2>2. IsSum([s \in UpTo(S, 0) |-> 0], UpTo(S, 0), f)
    BY <2>1 DEF IsSum, SumStep
  <2> QED BY <1>3, <1>5, <2>2
<1>6. CASE k # 0
  <2>1. k - 1 \in Nat /\ k - 1 \notin T
    BY <1>2, <1>3, <1>6
  <2>2. PICK g : IsSum(g, UpTo(S, k - 1), f)
    BY <2>1
  <2> DEFINE h == [s \in UpTo(S, k) |-> SumStep(f, g, s)]
  <2>3. \A s \in UpTo(S, k - 1) : s \in UpTo(S, k) /\ h[s] = g[s]
    BY <1>4, <2>1, <2>2 DEF UpTo, IsSum
  <2>4. ASSUME NEW s \in UpTo(S, k)
        PROVE  h[s] = SumStep(f, h, s)
    <3>1. CASE s = {}
      BY <3>1 DEF SumStep
    <3>2. CASE s # {}
      <4> DEFINE less == s \ {FirstOf(s)}
      <4>1. FirstOf(s) \in s /\ s \in SUBSET S /\ Cardinality(s) <= k
        BY <3>2, FirstIn DEF UpTo
      <4>2. Cardinality(less) = Cardinality(s) - 1
        BY <1>4, <4>1, FS_RemoveElement
      <4>3. less \in UpTo(S, k - 1)
        BY <1>3, <1>4, <4>1, <4>2 DEF UpTo
      <4>4. h[less] = g[less]
        BY <2>3, <4>3
      <4> HIDE DEF less, h
      <4>5. SumStep(f, h, s) = f[FirstOf(s)] + h[less] /\ SumStep(f, g, s) = f[FirstOf(s)] + g[less]
        BY <3>2 DEF SumStep, less
      <4>6. h[s] = SumStep(f, g, s)
        BY DEF h
      <4> QED BY <4>4, <4>5, <4>6
    <3> QED BY <3>1, <3>2
  <2>5. h = [s \in UpTo(S, k) |-> SumStep(f, h, s)]
    BY <2>4
  <2>6. IsSum(h, UpTo(S, k), f)
    BY <2>5 DEF IsSum
  <2> QED BY <1>3, <2>6
<1> QED BY <1>5, <1>6

\* The sum over a set is a function of its subsets that adds one element at a time.
LEMMA SumIs ==
  ASSUME NEW S, IsFiniteSet(S), NEW f
  PROVE  \E g : IsSum(g, SUBSET S, f) /\ SumOver(S, f) = g[S]
<1> DEFINE sum == CHOOSE g : IsSum(g, SUBSET S, f)
<1>1. Cardinality(S) \in Nat /\ \A s \in SUBSET S : Cardinality(s) <= Cardinality(S)
  BY FS_Subset, FS_CardinalityType
<1>2. UpTo(S, Cardinality(S)) = SUBSET S
  BY <1>1 DEF UpTo
<1>3. IsSum(sum, SUBSET S, f)
  <2>1. \E g : IsSum(g, UpTo(S, Cardinality(S)), f)
    BY <1>1, SumUpTo
  <2>2. \E g : IsSum(g, SUBSET S, f)
    BY <1>2, <2>1
  <2> QED BY <2>2
<1>4. SumOver(S, f) = sum[S]
  BY Zenon DEF SumOver, IsSum, SumStep, FirstOf
<1> QED BY <1>3, <1>4

IsInt(f, S) == \A x \in S : f[x] \in Int

\* In whatever order: a sum is any of its terms and the sum of the rest.
Splits(g, S, f) ==
  /\ g[{}] = 0
  /\ \A s \in SUBSET S : g[s] \in Int /\ \A n \in s : g[s] = f[n] + g[s \ {n}]

LEMMA SumSplits ==
  ASSUME NEW S, IsFiniteSet(S), NEW f, IsInt(f, S), NEW g, IsSum(g, SUBSET S, f)
  PROVE  Splits(g, S, f)
<1> DEFINE Good(t) == g[t] \in Int /\ \A n \in t : g[t] = f[n] + g[t \ {n}]
           F == {t \in SUBSET S : ~Good(t)}
<1>1. \A t \in SUBSET S : /\ IsFiniteSet(t) /\ Cardinality(t) \in Nat
                          /\ g[t] = SumStep(f, g, t)
  BY FS_Subset, FS_CardinalityType DEF IsSum
<1>2. g[{}] = 0
  BY <1>1 DEF SumStep
<1>3. SUFFICES ASSUME F # {} PROVE FALSE
  BY <1>2 DEF Splits
<1>4. PICK t \in F : \A u \in F : Cardinality(t) <= Cardinality(u)
  BY <1>1, <1>3, Smallest
<1>5. t \in SUBSET S /\ ~Good(t)
  BY <1>4
<1>6. ASSUME NEW u \in SUBSET t, NEW n \in t, n \notin u
      PROVE  Good(u)
  <2>1. u \in SUBSET S /\ IsFiniteSet(t) /\ IsFiniteSet(t \ {n}) /\ u \in SUBSET (t \ {n})
    BY <1>1, <1>5, <1>6, FS_RemoveElement
  <2>2. /\ Cardinality(t \ {n}) = Cardinality(t) - 1 /\ Cardinality(u) <= Cardinality(t \ {n})
    BY <2>1, FS_RemoveElement, FS_Subset
  <2>3. ~(Cardinality(t) <= Cardinality(u))
    BY <1>1, <1>5, <2>1, <2>2
  <2>4. u \notin F
    BY <1>4, <2>3, Zenon
  <2> QED BY <2>1, <2>4
<1>7. t # {}
  <2>1. Good({})
    BY <1>2
  <2> HIDE DEF Good, F
  <2> QED BY <1>5, <2>1
<1>8. PICK c : c = FirstOf(t)
  OBVIOUS
<1>9. c \in t /\ g[t] = f[c] + g[t \ {c}]
  BY <1>1, <1>5, <1>7, <1>8, FirstIn DEF SumStep
<1>10. Good(t \ {c})
  BY <1>6, <1>9
<1>11. f[c] \in Int /\ g[t] \in Int
  BY <1>5, <1>9, <1>10 DEF IsInt
<1>12. ASSUME NEW n \in t
       PROVE  g[t] = f[n] + g[t \ {n}]
  <2>1. CASE n = c
    BY <1>9, <2>1
  <2>2. CASE n # c
    <3>0. PICK rest : rest = (t \ {c}) \ {n}
      OBVIOUS
    <3>1. g[t \ {c}] = f[n] + g[rest]
      BY <1>10, <2>2, <3>0
    <3>2. Good(t \ {n}) /\ c \in t \ {n}
      BY <1>6, <1>9, <2>2
    <3>3. g[t \ {n}] = f[c] + g[rest]
      <4>1. (t \ {n}) \ {c} = rest
        BY <3>0
      <4> QED BY <3>2, <4>1
    <3>4. Good(rest)
      BY <1>6, <3>0
    <3>5. f[n] \in Int /\ g[rest] \in Int
      BY <1>5, <3>4 DEF IsInt
    <3> HIDE DEF Good, F
    <3> QED BY <1>9, <1>11, <3>1, <3>3, <3>5
  <2> QED BY <2>1, <2>2
<1> QED BY <1>5, <1>11, <1>12

-----------------------------------------------------------------------------
(* No worker's norm is far from the mean of few. *)

LEMMA SquareNat == \A x \in Int : x * x >= 0
<1> TAKE x \in Int
<1>1. CASE x >= 0
  BY <1>1
<1>2. CASE x < 0
  BY <1>2
<1> QED BY <1>1, <1>2

LEMMA SignOfFactor ==
  ASSUME NEW m \in Int, NEW y \in Int, m > 0, m * y >= 0
  PROVE  y >= 0
<1>1. SUFFICES ASSUME y <= -1 PROVE FALSE
  OBVIOUS
<1>2. m * y <= m * (-1)
  BY <1>1
<1>3. m * (-1) = -m
  OBVIOUS
<1> QED BY <1>2, <1>3

\* What carries Cauchy's inequality from m values to one more.
LEMMA SquareOfSum ==
  ASSUME NEW m \in Nat, NEW s \in Int, NEW q \in Int, NEW x \in Int,
         m * q >= s * s, m = 0 => s = 0 /\ q = 0
  PROVE  (m + 1) * (q + x * x) >= (s + x) * (s + x)
<1> DEFINE y == q + m * (x * x) - 2 * (s * x)
<1>1. (m + 1) * (q + x * x) - (s + x) * (s + x) = (m * q - s * s) + y
  OBVIOUS
<1>2. CASE m = 0
  BY <1>2
<1>3. CASE m > 0
  <2>1. m * y = (m * q - s * s) + (s - m * x) * (s - m * x)
    OBVIOUS
  <2>2. (s - m * x) * (s - m * x) >= 0
    <3>1. s - m * x \in Int
      OBVIOUS
    <3> HIDE DEF y
    <3> QED BY <3>1, SquareNat
  <2>3. y \in Int
    OBVIOUS
  <2>4. m * q \in Int /\ s * s \in Int /\ (s - m * x) * (s - m * x) \in Int
    OBVIOUS
  <2> HIDE DEF y
  <2>5. m * y >= 0
    BY <2>1, <2>2, <2>4
  <2>6. y >= 0
    BY <1>3, <2>3, <2>5, SignOfFactor
  <2>7. m * q - s * s >= 0
    BY <2>4
  <2> QED BY <1>1, <2>3, <2>4, <2>6, <2>7
<1> QED BY <1>2, <1>3

\* Samuelson's inequality, for a value x and the m others of sum s and sum of squares q: the
\* distance of x from the mean is at most the root of m deviations.
LEMMA Samuelson ==
  ASSUME NEW m \in Nat, NEW s \in Int, NEW q \in Int, NEW x \in Int, m * q >= s * s
  PROVE  LET k == m + 1
             sum == s + x
             dist == k * x - sum
             spread == k * (q + x * x) - sum * sum
         IN dist * dist <= m * spread
<1> DEFINE k == m + 1
           dist == k * x - (s + x)
           spread == k * (q + x * x) - (s + x) * (s + x)
<1>1. m * spread - dist * dist = k * (m * q - s * s)
  OBVIOUS
<1>2. m * q - s * s \in Nat /\ k \in Nat
  OBVIOUS
<1>3. k * (m * q - s * s) >= 0
  <2>1. \A a, b \in Nat : a * b >= 0
    OBVIOUS
  <2> HIDE DEF k
  <2> QED BY <1>2, <2>1
<1>4. m * spread \in Int /\ dist * dist \in Int
  OBVIOUS
<1> HIDE DEF k, dist, spread
<1>5. dist * dist <= m * spread
  BY <1>1, <1>3, <1>4
<1> QED BY <1>5 DEF k, dist, spread

\* The square of a sum is at most the number of its terms times the sum of the squares.
LEMMA SumOfSquares ==
  ASSUME NEW S, IsFiniteSet(S), NEW f, IsInt(f, S),
         NEW f2, \A x \in S : f2[x] = f[x] * f[x],
         NEW g, IsSum(g, SUBSET S, f), NEW h, IsSum(h, SUBSET S, f2), NEW s \in SUBSET S
  PROVE  Cardinality(s) * h[s] >= g[s] * g[s]
<1> DEFINE F == {t \in SUBSET S : ~(Cardinality(t) * h[t] >= g[t] * g[t])}
<1>1. IsInt(f2, S)
  BY DEF IsInt
<1>2. /\ g[{}] = 0
      /\ \A t \in SUBSET S : g[t] \in Int /\ \A n \in t : g[t] = f[n] + g[t \ {n}]
  <2>1. Splits(g, S, f)
    BY SumSplits
  <2> QED BY <2>1 DEF Splits
<1>3. /\ h[{}] = 0
      /\ \A t \in SUBSET S : h[t] \in Int /\ \A n \in t : h[t] = f2[n] + h[t \ {n}]
  <2>1. Splits(h, S, f2)
    BY <1>1, SumSplits
  <2> QED BY <2>1 DEF Splits
<1>4. \A t \in SUBSET S : IsFiniteSet(t) /\ Cardinality(t) \in Nat
  BY FS_Subset, FS_CardinalityType
<1>5. SUFFICES ASSUME F # {} PROVE FALSE
  OBVIOUS
<1>6. PICK t \in F : \A u \in F : Cardinality(t) <= Cardinality(u)
  BY <1>4, <1>5, Smallest
<1>7. t \in SUBSET S /\ ~(Cardinality(t) * h[t] >= g[t] * g[t])
  BY <1>6
<1>8. t # {}
  <2>1. t = {} => Cardinality(t) = 0 /\ g[t] = 0 /\ h[t] = 0
    BY <1>2, <1>3, <1>7, FS_EmptySet
  <2> HIDE DEF F
  <2> QED BY <1>7, <2>1
<1>9. PICK n : n \in t
  BY <1>8
<1>10. PICK m, a, b, x : m = Cardinality(t) - 1 /\ a = g[t \ {n}] /\ b = h[t \ {n}] /\ x = f[n]
  OBVIOUS
<1>11. /\ m = Cardinality(t \ {n}) /\ m \in Nat /\ Cardinality(t) = m + 1
       /\ t \ {n} \in SUBSET S
  BY <1>4, <1>7, <1>9, <1>10, FS_RemoveElement, SMTT(30)
<1>12. a \in Int /\ b \in Int /\ x \in Int /\ g[t] = x + a /\ h[t] = x * x + b
  BY <1>2, <1>3, <1>7, <1>9, <1>10, <1>11 DEF IsInt
<1>13. m * b >= a * a
  <2>1. ~(Cardinality(t) <= Cardinality(t \ {n}))
    BY <1>11
  <2>2. t \ {n} \notin F
    BY <1>6, <2>1, Zenon
  <2> QED BY <1>10, <1>11, <2>2
<1>14. m = 0 => a = 0 /\ b = 0
  <2>1. m = 0 => t \ {n} = {}
    BY <1>4, <1>11, FS_EmptySet
  <2> QED BY <1>2, <1>3, <1>10, <1>11, <2>1
<1>15. (m + 1) * (b + x * x) >= (a + x) * (a + x)
  BY <1>11, <1>12, <1>13, <1>14, SquareOfSum
<1> HIDE DEF F
<1>16. x + a = a + x /\ x * x + b = b + x * x
  BY <1>12
<1> QED BY <1>7, <1>11, <1>12, <1>15, <1>16

LEMMA FewDeviateNot ==
  ASSUME NEW all, IsFiniteSet(all), NEW norm \in [all -> Int],
         Cardinality(all) <= DiThreshold * DiThreshold, NEW n \in all
  PROVE  ~Deviates(n, norm) /\ ~AtThreshold(n, norm)
<1> DEFINE norm2 == [x \in all |-> norm[x] * norm[x]]
<1>1. DOMAIN norm = all /\ \A x \in all : norm[x] \in Int /\ norm2[x] = norm[x] * norm[x]
  OBVIOUS
<1>2. IsInt(norm, all) /\ IsInt(norm2, all)
  BY <1>1 DEF IsInt
<1> HIDE DEF norm2
<1>3. PICK g : IsSum(g, SUBSET all, norm) /\ SumOver(all, norm) = g[all]
  BY SumIs
<1>4. PICK h : IsSum(h, SUBSET all, norm2) /\ SumOver(all, norm2) = h[all]
  BY SumIs
<1>5. all \in SUBSET all /\ all \ {n} \in SUBSET all
  OBVIOUS
<1>6. PICK m, a, b, x : /\ m = Cardinality(all \ {n}) /\ a = g[all \ {n}] /\ b = h[all \ {n}]
                        /\ x = norm[n]
  OBVIOUS
<1>7. m \in Nat /\ Cardinality(all) = m + 1
  <2>1. /\ Cardinality(all) \in Nat /\ IsFiniteSet(all \ {n})
        /\ Cardinality(all \ {n}) = Cardinality(all) - 1
    BY FS_CardinalityType, FS_RemoveElement
  <2>2. Cardinality(all \ {n}) \in Nat
    BY <2>1, FS_CardinalityType
  <2> QED BY <1>6, <2>1, <2>2
<1>8. x \in Int /\ a \in Int /\ g[all] = x + a
  <2>1. Splits(g, all, norm)
    BY <1>2, <1>3, SumSplits
  <2>2. g[all \ {n}] \in Int /\ g[all] = norm[n] + g[all \ {n}]
    BY <1>5, <2>1 DEF Splits
  <2> QED BY <1>1, <1>6, <2>2
<1>9. b \in Int /\ h[all] = x * x + b
  <2>1. Splits(h, all, norm2)
    BY <1>2, <1>4, SumSplits
  <2>2. h[all \ {n}] \in Int /\ h[all] = norm2[n] + h[all \ {n}]
    BY <1>5, <2>1 DEF Splits
  <2> QED BY <1>1, <1>6, <2>2
<1>10. m * b >= a * a
  BY <1>1, <1>2, <1>3, <1>4, <1>5, <1>6, SumOfSquares
<1> DEFINE dist == (m + 1) * x - (a + x)
           spread == (m + 1) * (b + x * x) - (a + x) * (a + x)
<1>11. dist * dist <= m * spread
  BY <1>7, <1>8, <1>9, <1>10, Samuelson
<1>12. dist \in Int /\ spread \in Int
  BY <1>7, <1>8, <1>9
<1>13. /\ (m + 1) * x - (x + a) = dist
       /\ (m + 1) * (x * x + b) - (x + a) * (x + a) = spread
  BY <1>7, <1>8, <1>9
<1> HIDE DEF dist, spread
<1>14. Distance(norm[n], norm) = dist * dist /\ Spread(norm) = spread
  <2>1. SumOver(all, norm) = x + a /\ SumOver(all, norm2) = x * x + b /\ norm[n] = x
    BY <1>3, <1>4, <1>6, <1>8, <1>9
  <2> QED BY <1>1, <1>7, <1>13, <2>1 DEF Distance, Spread, norm2
<1>15. PICK limit : limit = DiThreshold * DiThreshold
  OBVIOUS
<1>16. limit \in Nat /\ m + 1 <= limit
  BY <1>7, <1>15, DiLoCoAssumption
<1>17. spread > 0 => m * spread < limit * spread
  <2>1. spread > 0 => (m + 1) * spread <= limit * spread
    BY <1>7, <1>12, <1>16
  <2>2. (m + 1) * spread = m * spread + spread /\ m * spread \in Int
    BY <1>7, <1>12
  <2>3. limit * spread \in Int
    BY <1>12, <1>16
  <2> QED BY <1>12, <2>1, <2>2, <2>3
<1>18. m * spread \in Int /\ limit * spread \in Int /\ dist * dist \in Int
  BY <1>7, <1>12, <1>16
<1>19. spread > 0 => dist * dist < limit * spread
  BY <1>11, <1>17, <1>18
<1> QED BY <1>14, <1>15, <1>18, <1>19 DEF Deviates, AtThreshold

LEMMA FewRaiseNone ==
  ASSUME Cardinality(Workers) <= DiThreshold * DiThreshold, deviant = {}, [DiNext]_diVars
  PROVE  deviant' = {}
<1>1. CASE UNCHANGED deviant
  BY <1>1
<1>2. CASE StartDiLoCo
  BY <1>2 DEF StartDiLoCo
<1>3. CASE ComparePseudoGradients
  <2>0. PICK known \in SUBSET Workers : \E f \in [known -> Norms] : deviant' \in Deviants(f)
    BY <1>3 DEF ComparePseudoGradients
  <2>1. PICK norm \in [known -> Norms] : deviant' \in Deviants(norm)
    BY <2>0
  <2>2. /\ IsFiniteSet(known) /\ Cardinality(known) <= Cardinality(Workers)
        /\ Cardinality(known) \in Nat /\ Cardinality(Workers) \in Nat
    BY DiLoCoAssumption, FS_Subset, FS_CardinalityType
  <2>3. norm \in [known -> Int] /\ DOMAIN norm = known
    <3>1. \A x \in Norms : x \in Int
      BY DiLoCoAssumption
    <3> QED BY <3>1
  <2>4. DiThreshold * DiThreshold \in Nat
    BY DiLoCoAssumption
  <2>5. Cardinality(known) <= DiThreshold * DiThreshold
    BY <2>2, <2>4
  <2>6. \A n \in known : ~Deviates(n, norm) /\ ~AtThreshold(n, norm)
    BY <2>2, <2>3, <2>5, FewDeviateNot
  <2>7. Deviants(norm) = {{}}
    <3>1. {n \in DOMAIN norm : Deviates(n, norm)} = {} /\ {n \in DOMAIN norm : AtThreshold(n, norm)} = {}
      BY <2>3, <2>6
    <3> QED BY <3>1 DEF Deviants
  <2> QED BY <2>1, <2>7
<1> QED BY <1>1, <1>2, <1>3
        DEF DiNext, diVars, IngestDiLoCo, ReadOuter, CheckWorker

\* For any norms: with no more workers than the square of the threshold, the comparison of
\* pseudo-gradients raises nothing at all, since a value is at most the root of n - 1
\* deviations from a mean it is part of; with one more worker the limit can be met, and
\* rounding decides (diloco.py, _detect_pseudo_grad_divergence).
THEOREM NormsAlwaysSilent ==
  ASSUME Cardinality(Workers) <= DiThreshold * DiThreshold
  PROVE  DiSpec => [](deviant = {})
<1>1. DiInit => deviant = {}
  BY DEF DiInit
<1>2. deviant = {} /\ [DiNext]_diVars => (deviant = {})'
  BY FewRaiseNone
<1> QED BY <1>1, <1>2, PTL DEF DiSpec

-----------------------------------------------------------------------------
(* The check of the last outer steps, on a history without a restart. *)

StepsIn(h) == {h[i].step : i \in DOMAIN h}

\* The steps that the check keeps, as a set.
FromOn(steps, s) == {t \in steps : t >= s}
LastSteps(steps) == {s \in steps : Cardinality(FromOn(steps, s)) <= Divergence + 1}

\* K has every step of steps above one of its own.
UpClosed(K, steps) == \A s \in K, t \in steps : t >= s => t \in K

LEMMA LastStepsUpClosed ==
  ASSUME NEW steps, steps \subseteq Int, IsFiniteSet(steps)
  PROVE  LastSteps(steps) \subseteq steps /\ UpClosed(LastSteps(steps), steps)
<1>1. ASSUME NEW s \in LastSteps(steps), NEW t \in steps, t >= s
      PROVE  t \in LastSteps(steps)
  <2>1. s \in steps /\ Cardinality(FromOn(steps, s)) <= Divergence + 1
    BY DEF LastSteps
  <2>0. s \in Int /\ t \in Int /\ \A x \in steps : x \in Int
    BY <2>1
  <2>2. FromOn(steps, t) \subseteq FromOn(steps, s) /\ FromOn(steps, s) \subseteq steps
    <3>1. \A x \in steps : x >= t => x >= s
      BY <1>1, <2>0
    <3> QED BY <3>1 DEF FromOn
  <2>3. IsFiniteSet(FromOn(steps, s))
    BY <2>2, FS_Subset
  <2>4. /\ Cardinality(FromOn(steps, t)) <= Cardinality(FromOn(steps, s))
        /\ Cardinality(FromOn(steps, s)) \in Nat /\ Cardinality(FromOn(steps, t)) \in Nat
    BY <2>2, <2>3, FS_Subset, FS_CardinalityType
  <2>5. Cardinality(FromOn(steps, t)) <= Divergence + 1
    BY <2>1, <2>4, DiLoCoAssumption
  <2> QED BY <2>5 DEF LastSteps
<1> QED BY <1>1 DEF UpClosed, LastSteps

LEMMA LastStepsUnique ==
  ASSUME NEW steps, steps \subseteq Int, IsFiniteSet(steps), NEW K, K \subseteq steps,
         UpClosed(K, steps), Cardinality(K) = Divergence + 1
  PROVE  K = LastSteps(steps)
<1>1. Divergence \in Nat /\ IsFiniteSet(K)
  BY DiLoCoAssumption, FS_Subset
<1>2. ASSUME NEW s \in K PROVE s \in LastSteps(steps)
  <2>1. FromOn(steps, s) \subseteq K
    BY <1>2 DEF UpClosed, FromOn
  <2>2. Cardinality(FromOn(steps, s)) <= Divergence + 1
    BY <1>1, <2>1, FS_Subset
  <2> QED BY <2>2 DEF LastSteps
<1>3. ASSUME NEW s \in LastSteps(steps) PROVE s \in K
  <2> SUFFICES ASSUME s \notin K PROVE FALSE
    OBVIOUS
  <2>1. s \in steps /\ Cardinality(FromOn(steps, s)) <= Divergence + 1
    BY DEF LastSteps
  <2>2. \A k \in K : k >= s
    BY <2>1 DEF UpClosed
  <2>3. K \cup {s} \subseteq FromOn(steps, s) /\ FromOn(steps, s) \subseteq steps
    BY <2>1, <2>2 DEF FromOn
  <2>4. IsFiniteSet(FromOn(steps, s)) /\ Cardinality(FromOn(steps, s)) \in Nat
    BY <2>3, FS_Subset, FS_CardinalityType
  <2>5. Cardinality(K \cup {s}) = Divergence + 2
    <3>1. Cardinality(K \cup {s}) = Cardinality(K) + 1
      BY <1>1, FS_AddElement
    <3> QED BY <1>1, <3>1
  <2>6. Cardinality(K \cup {s}) <= Cardinality(FromOn(steps, s))
    BY <2>3, <2>4, FS_Subset
  <2> QED BY <1>1, <2>1, <2>4, <2>5, <2>6
<1> QED BY <1>2, <1>3

\* Between neighbours of an ascending sequence there is no element.
LEMMA AscendingNeighbours ==
  ASSUME NEW S, S \subseteq Int, IsFiniteSet(S), NEW p \in 1..(Len(Ascending(S)) - 1),
         NEW x \in S, x > Ascending(S)[p]
  PROVE  Ascending(S)[p + 1] <= x
<1> DEFINE seq == Ascending(S)
           n == Len(seq)
<1>1. /\ seq \in Seq(S) /\ \A q \in 1..n : seq[q] \in S
      /\ \A q, r \in 1..n : q < r => seq[q] < seq[r]
      /\ \E q \in 1..n : seq[q] = x
  BY AscendingIs
<1>2. PICK q \in 1..n : seq[q] = x
  BY <1>1
<1>3. n \in Nat /\ p \in 1..n /\ p + 1 \in 1..n
  BY <1>1
<1> HIDE DEF seq, n
<1>4. seq[p] \in Int /\ seq[p + 1] \in Int /\ x \in Int
  BY <1>1, <1>3
<1>5. ~(q <= p)
  <2>1. q = p => FALSE
    BY <1>2, <1>4 DEF seq
  <2>2. q < p => FALSE
    BY <1>1, <1>2, <1>3, <1>4 DEF seq
  <2> QED BY <1>3, <2>1, <2>2
<1>6. q = p + 1 \/ p + 1 < q
  BY <1>3, <1>5
<1>7. seq[p + 1] <= x
  BY <1>1, <1>2, <1>3, <1>4, <1>6
<1> QED BY <1>7 DEF seq

\* In one run the steps grow along the history, and a final sample is the last of its step.
Grows(h) == \A i, j \in 1..Len(h) : i <= j => h[i].step <= h[j].step

LEMMA StepsOfHistory ==
  ASSUME NEW h \in Seq(DiSample)
  PROVE  /\ Len(h) \in Nat /\ \A i \in 1..Len(h) : h[i].step \in 0..MaxOuter
         /\ StepsIn(h) \subseteq Int /\ IsFiniteSet(StepsIn(h))
         /\ \A i \in 1..Len(h) : h[i].step \in StepsIn(h)
         /\ \A s \in StepsIn(h) : \E i \in 1..Len(h) : h[i].step = s
<1>1. DOMAIN h = 1..Len(h) /\ Len(h) \in Nat
  OBVIOUS
<1>2. \A i \in 1..Len(h) : h[i].step \in 0..MaxOuter
  <2>1. \A i \in 1..Len(h) : h[i] \in DiSample
    OBVIOUS
  <2> QED BY <2>1 DEF DiSample
<1>3. StepsIn(h) \subseteq 0..MaxOuter
  BY <1>1, <1>2 DEF StepsIn
<1>4. IsFiniteSet(0..MaxOuter) /\ MaxOuter \in Nat
  BY DiLoCoAssumption, FS_Interval
<1>5. IsFiniteSet(StepsIn(h)) /\ StepsIn(h) \subseteq Int
  BY <1>3, <1>4, FS_Subset
<1> QED BY <1>1, <1>2, <1>5 DEF StepsIn

LEMMA OneRunGrows ==
  ASSUME NEW h \in Seq(DiSample), OneRun(h)
  PROVE  Grows(h)
<1>1. Len(h) \in Nat /\ \A i \in 1..Len(h) : h[i].step \in Nat
  BY StepsOfHistory, DiLoCoAssumption
<1> SUFFICES ASSUME NEW i \in 1..Len(h), NEW j \in 1..Len(h), i <= j
             PROVE  h[i].step <= h[j].step
  BY DEF Grows
<1> DEFINE T == {k \in 1..Len(h) : i <= k /\ h[k].step < h[i].step}
<1>2. SUFFICES ASSUME T # {} PROVE FALSE
  BY <1>1
<1>3. T \in SUBSET Nat
  OBVIOUS
<1>4. PICK k \in T : \A x \in T : k <= x
  BY <1>2, <1>3, Least
<1>5. k \in 1..Len(h) /\ i <= k /\ h[k].step < h[i].step
  OBVIOUS
<1>6. k # i
  BY <1>1, <1>5
<1>7. k - 1 \in 1..Len(h) /\ i <= k - 1 /\ k - 1 \in 1..(Len(h) - 1) /\ ~(k <= k - 1)
      /\ (k - 1) + 1 = k
  BY <1>1, <1>5, <1>6
<1>8. h[k - 1].step >= h[i].step
  BY <1>1, <1>4, <1>7
<1>9. h[k - 1].step <= h[k].step
  BY <1>7 DEF OneRun
<1> HIDE DEF T
<1> QED BY <1>1, <1>5, <1>7, <1>8, <1>9

\* The final samples, one of each step.
LEMMA FinalSamples ==
  ASSUME NEW h \in Seq(DiSample), Grows(h)
  PROVE  /\ \A i, j \in 1..Len(h) : i < j /\ IsFinal(h, i) => h[i].step < h[j].step
         /\ \A s \in StepsIn(h) : \E i \in 1..Len(h) : IsFinal(h, i) /\ h[i].step = s
         /\ \A i \in 1..Len(h) : IsFinal(h, i) => ByStep(h, h[i].step) = h[i]
<1>1. /\ Len(h) \in Nat /\ \A i \in 1..Len(h) : h[i].step \in Nat
      /\ \A s \in StepsIn(h) : \E i \in 1..Len(h) : h[i].step = s
  <2>1. 0..MaxOuter \subseteq Nat
    OBVIOUS
  <2>2. \A i \in 1..Len(h) : h[i].step \in 0..MaxOuter
    BY StepsOfHistory
  <2> QED BY StepsOfHistory, <2>1, <2>2, Zenon
<1>2. ASSUME NEW i \in 1..Len(h), NEW j \in 1..Len(h), i < j, IsFinal(h, i)
      PROVE  h[i].step < h[j].step
  <2>1. i # Len(h) /\ i + 1 \in 1..Len(h) /\ i <= i + 1 /\ i + 1 <= j
    BY <1>1, <1>2
  <2>2. h[i + 1].step # h[i].step
    BY <1>2, <2>1 DEF IsFinal
  <2>3. h[i].step <= h[i + 1].step /\ h[i + 1].step <= h[j].step
    BY <2>1 DEF Grows
  <2> QED BY <1>1, <2>1, <2>2, <2>3
<1>3. ASSUME NEW s \in StepsIn(h)
      PROVE  \E i \in 1..Len(h) : IsFinal(h, i) /\ h[i].step = s
  <2> DEFINE T == {k \in 0..Len(h) : Len(h) - k \in 1..Len(h) /\ h[Len(h) - k].step = s}
  <2>1. PICK j \in 1..Len(h) : h[j].step = s
    BY <1>1
  <2>2. Len(h) - j \in 0..Len(h) /\ Len(h) - (Len(h) - j) = j
    BY <1>1
  <2>3. Len(h) - j \in T
    BY <2>1, <2>2
  <2>4. T \in SUBSET Nat
    OBVIOUS
  <2>5. PICK k \in T : \A x \in T : k <= x
    BY <2>3, <2>4, Least
  <2>6. k \in 0..Len(h) /\ Len(h) - k \in 1..Len(h) /\ h[Len(h) - k].step = s
    OBVIOUS
  <2>7. ASSUME Len(h) - k # Len(h), h[Len(h) - k + 1].step = s PROVE FALSE
    <3>1. /\ k - 1 \in 0..Len(h) /\ Len(h) - (k - 1) = Len(h) - k + 1
          /\ Len(h) - (k - 1) \in 1..Len(h) /\ ~(k <= k - 1)
      BY <1>1, <2>6, <2>7
    <3>2. k - 1 \in T
      BY <2>7, <3>1
    <3> QED BY <2>5, <3>1, <3>2
  <2>8. IsFinal(h, Len(h) - k)
    BY <2>6, <2>7 DEF IsFinal
  <2> QED BY <2>6, <2>8
<1>4. ASSUME NEW i \in 1..Len(h), IsFinal(h, i)
      PROVE  ByStep(h, h[i].step) = h[i]
  <2> DEFINE LastAt(x) == h[x].step = h[i].step
                          /\ \A k \in (x + 1)..Len(h) : h[k].step # h[i].step
  <2>1. DOMAIN h = 1..Len(h)
    OBVIOUS
  <2>2. \A k \in (i + 1)..Len(h) : k \in 1..Len(h) /\ i < k
    BY <1>1
  <2>3. \A k \in (i + 1)..Len(h) : h[k].step # h[i].step
    BY <1>1, <1>2, <1>4, <2>2
  <2>4. LastAt(i)
    BY <2>3
  <2>5. ASSUME NEW x \in 1..Len(h), LastAt(x) PROVE x = i
    <3>1. x < i => i \in (x + 1)..Len(h)
      BY <1>1
    <3>2. i < x => x \in (i + 1)..Len(h)
      BY <1>1
    <3>3. ~(x < i) /\ ~(i < x)
      BY <2>3, <2>5, <3>1, <3>2
    <3> QED BY <1>1, <3>3
  <2>6. (CHOOSE x \in 1..Len(h) : LastAt(x)) = i
    <3> HIDE DEF LastAt
    <3> QED BY <2>4, <2>5
  <2> QED BY <2>1, <2>6 DEF ByStep
<1> QED BY <1>2, <1>3, <1>4

\* The steps of final samples are as many as the samples.
StepsAt(h, tail) == {h[i].step : i \in tail}

LEMMA TailSteps ==
  ASSUME NEW h \in Seq(DiSample), Grows(h),
         NEW tail, tail \subseteq 1..Len(h), \A i \in tail : IsFinal(h, i)
  PROVE  Cardinality(StepsAt(h, tail)) = Cardinality(tail)
<1> DEFINE f == [i \in tail |-> h[i].step]
           K == StepsAt(h, tail)
<1>1. Len(h) \in Nat /\ \A i \in 1..Len(h) : h[i].step \in Nat
  BY StepsOfHistory, DiLoCoAssumption
<1>2. IsFiniteSet(tail) /\ \A i \in tail : i \in 1..Len(h)
  BY <1>1, PlacesFinite
<1>3. \A i \in tail : h[i].step \in K
  BY DEF StepsAt
<1>4. \A s \in K : \E i \in tail : h[i].step = s
  BY DEF StepsAt
<1>5. \A i, j \in tail : i < j => h[i].step < h[j].step
  BY <1>2, FinalSamples
<1>6. ASSUME NEW i \in tail, NEW j \in tail, h[i].step = h[j].step PROVE i = j
  BY <1>1, <1>2, <1>5, <1>6
<1> HIDE DEF K
<1>7. f \in Bijection(tail, K)
  <2>1. f \in [tail -> K]
    BY <1>3
  <2>2. \A i, j \in tail : f[i] = f[j] => i = j
    BY <1>6
  <2>3. \A s \in K : \E i \in tail : f[i] = s
    BY <1>4
  <2> QED BY <2>1, <2>2, <2>3 DEF Bijection, Injection, Surjection, IsInjective
<1>8. ExistsBijection(tail, K)
  BY <1>7 DEF ExistsBijection
<1> QED BY <1>2, <1>8, FS_Bijection DEF K

LEMMA RecentIsAscending ==
  ASSUME NEW h
  PROVE  RecentSteps(h) = Ascending(LastSteps(StepsIn(h)))
  BY DEF RecentSteps, LastSteps, StepsIn, FromOn

\* What the check compares: the final samples of neighbouring steps.
LEMMA RecentSamples ==
  ASSUME NEW h \in Seq(DiSample), Grows(h),
         NEW i \in 1..Len(h), NEW j \in 1..Len(h), IsFinal(h, i), IsFinal(h, j),
         NEW p \in 1..(Len(RecentSteps(h)) - 1),
         h[i].step = RecentSteps(h)[p], h[j].step = RecentSteps(h)[p + 1]
  PROVE  /\ Follows(h, i, j)
         /\ ByStep(h, RecentSteps(h)[p]) = h[i] /\ ByStep(h, RecentSteps(h)[p + 1]) = h[j]
<1> DEFINE L == LastSteps(StepsIn(h))
           recent == RecentSteps(h)
<1>1. /\ Len(h) \in Nat /\ \A k \in 1..Len(h) : h[k].step \in Int /\ h[k].step \in StepsIn(h)
      /\ StepsIn(h) \subseteq Int /\ IsFiniteSet(StepsIn(h))
  BY StepsOfHistory
<1>2. /\ L \subseteq StepsIn(h) /\ UpClosed(L, StepsIn(h))
      /\ L \subseteq Int /\ IsFiniteSet(L) /\ recent = Ascending(L)
  BY <1>1, LastStepsUpClosed, RecentIsAscending, FS_Subset
<1>3. /\ \A q \in 1..Len(recent) : recent[q] \in L
      /\ \A q, r \in 1..Len(recent) : q < r => recent[q] < recent[r]
      /\ Len(recent) \in Nat
  <2>1. /\ Ascending(L) \in Seq(L)
        /\ \A q \in 1..Len(Ascending(L)) : Ascending(L)[q] \in L
        /\ \A q, r \in 1..Len(Ascending(L)) : q < r => Ascending(L)[q] < Ascending(L)[r]
    BY <1>2, AscendingIs
  <2>2. recent \in Seq(L)
    BY <1>2, <2>1
  <2> HIDE DEF L, recent
  <2> QED BY <1>2, <2>1, <2>2
<1>4. \A x \in L : x > recent[p] => recent[p + 1] <= x
  BY <1>2, AscendingNeighbours
<1> HIDE DEF L, recent
<1>5. p \in 1..Len(recent) /\ p + 1 \in 1..Len(recent)
  BY <1>3 DEF recent
<1>6. h[i].step = recent[p] /\ h[j].step = recent[p + 1] /\ recent[p] < recent[p + 1]
      /\ recent[p] \in L
  BY <1>3, <1>5 DEF recent
<1>7. i < j
  <2>1. ~(j <= i)
    <3> SUFFICES ASSUME j <= i PROVE FALSE
      OBVIOUS
    <3>1. h[j].step <= h[i].step
      BY DEF Grows
    <3> QED BY <1>1, <1>6, <3>1
  <2> QED BY <1>1, <2>1
<1>8. ASSUME NEW k \in (i + 1)..(j - 1), IsFinal(h, k) PROVE FALSE
  <2>1. k \in 1..Len(h) /\ i < k /\ k < j
    BY <1>1, <1>8
  <2>2. h[i].step < h[k].step /\ h[k].step < h[j].step
    BY <1>8, <2>1, FinalSamples
  <2>3. h[k].step \in L
    BY <1>1, <1>2, <1>6, <2>1, <2>2 DEF UpClosed
  <2> QED BY <1>1, <1>4, <1>6, <2>1, <2>2, <2>3
<1>9. ByStep(h, h[i].step) = h[i] /\ ByStep(h, h[j].step) = h[j]
  BY FinalSamples
<1> QED BY <1>6, <1>7, <1>8, <1>9 DEF Follows, recent

\* The samples of a tail are those of the last steps.
LEMMA TailIsLast ==
  ASSUME NEW h \in Seq(DiSample), Grows(h),
         NEW tail, tail \subseteq 1..Len(h), \A i \in tail : IsFinal(h, i),
         Cardinality(tail) = Divergence + 1,
         \A i \in tail \ {Len(h)} : \E j \in tail : Follows(h, i, j)
  PROVE  StepsAt(h, tail) = LastSteps(StepsIn(h))
<1> DEFINE K == StepsAt(h, tail)
<1>1. /\ Len(h) \in Nat /\ \A k \in 1..Len(h) : h[k].step \in Int /\ h[k].step \in StepsIn(h)
      /\ StepsIn(h) \subseteq Int /\ IsFiniteSet(StepsIn(h))
  BY StepsOfHistory
<1>2. K \subseteq StepsIn(h)
  BY <1>1 DEF StepsAt
<1>3. ASSUME NEW s \in K, NEW t \in StepsIn(h), t >= s, t \notin K PROVE FALSE
  <2>1. PICK i \in tail : h[i].step = s
    BY DEF StepsAt
  <2>2. PICK f \in 1..Len(h) : IsFinal(h, f) /\ h[f].step = t
    BY FinalSamples
  <2>3. f \notin tail
    BY <1>3, <2>2 DEF StepsAt
  <2>4. i < f
    <3>1. i \in 1..Len(h) /\ i # f
      BY <2>1, <2>3
    <3>2. ~(f < i)
      <4> SUFFICES ASSUME f < i PROVE FALSE
        OBVIOUS
      <4>1. h[f].step < h[i].step
        BY <2>2, <3>1, FinalSamples
      <4>2. h[f].step = t /\ h[i].step = s /\ s \in Int /\ t \in Int
        BY <1>1, <2>1, <2>2, <3>1
      <4> QED BY <1>3, <4>1, <4>2
    <3> QED BY <1>1, <3>1, <3>2
  <2> DEFINE T == {d \in 0..Len(h) : Len(h) - d \in tail /\ Len(h) - d < f}
  <2>5. i \in 1..Len(h) /\ Len(h) - i \in 0..Len(h) /\ Len(h) - (Len(h) - i) = i
    BY <1>1, <2>1
  <2>6. Len(h) - i \in T
    BY <2>4, <2>5
  <2>7. T \in SUBSET Nat
    OBVIOUS
  <2>8. PICK d \in T : \A e \in T : d <= e
    BY <2>6, <2>7, Least
  <2>9. d \in 0..Len(h) /\ Len(h) - d \in tail /\ Len(h) - d < f
    OBVIOUS
  <2>10. PICK x : x = Len(h) - d
    OBVIOUS
  <2>11. x \in tail /\ x < f /\ x \in 1..Len(h) /\ x # Len(h)
    BY <1>1, <2>9, <2>10
  <2>12. \A y \in tail : y < f => y <= x
    <3> SUFFICES ASSUME NEW y \in tail, y < f PROVE y <= x
      OBVIOUS
    <3>1. y \in 1..Len(h) /\ Len(h) - y \in 0..Len(h) /\ Len(h) - (Len(h) - y) = y
      BY <1>1
    <3>2. Len(h) - y \in T
      BY <3>1
    <3>3. d <= Len(h) - y
      BY <2>8, <3>2
    <3> QED BY <1>1, <2>9, <2>10, <3>1, <3>3
  <2> HIDE DEF T
  <2>13. PICK j \in tail : Follows(h, x, j)
    BY <2>11
  <2>14. x < j /\ \A k \in (x + 1)..(j - 1) : ~IsFinal(h, k)
    BY <2>13 DEF Follows
  <2>15. j \in 1..Len(h) /\ j # f /\ ~(j < f)
    <3>1. j \in 1..Len(h)
      OBVIOUS
    <3> QED BY <1>1, <2>3, <2>11, <2>12, <2>14, <3>1
  <2>16. f \in (x + 1)..(j - 1)
    BY <1>1, <2>11, <2>15
  <2> QED BY <2>2, <2>14, <2>16
<1>4. UpClosed(K, StepsIn(h))
  BY <1>3 DEF UpClosed
<1>5. Cardinality(K) = Divergence + 1
  BY TailSteps
<1> HIDE DEF K
<1>6. K = LastSteps(StepsIn(h))
  BY <1>1, <1>2, <1>4, <1>5, LastStepsUnique
<1> QED BY <1>6 DEF K

LEMMA DivergentThenTail ==
  ASSUME NEW h \in Seq(DiSample), Grows(h), Divergent(h)
  PROVE  TailDiverges(h)
<1> DEFINE L == LastSteps(StepsIn(h))
           recent == RecentSteps(h)
           tail == {i \in 1..Len(h) : IsFinal(h, i) /\ h[i].step \in L}
<1>1. /\ Len(h) \in Nat /\ \A k \in 1..Len(h) : h[k].step \in Int /\ h[k].step \in StepsIn(h)
      /\ StepsIn(h) \subseteq Int /\ IsFiniteSet(StepsIn(h))
      /\ \A s \in StepsIn(h) : \E k \in 1..Len(h) : h[k].step = s
      /\ DOMAIN h = 1..Len(h)
  BY StepsOfHistory
<1>2. /\ L \subseteq StepsIn(h) /\ UpClosed(L, StepsIn(h))
      /\ L \subseteq Int /\ IsFiniteSet(L) /\ recent = Ascending(L)
  BY <1>1, LastStepsUpClosed, RecentIsAscending, FS_Subset
<1>3. /\ \A q \in 1..Len(recent) : recent[q] \in L
      /\ \A q, r \in 1..Len(recent) : q < r => recent[q] < recent[r]
      /\ \A x \in L : \E q \in 1..Len(recent) : recent[q] = x
      /\ Len(recent) = Cardinality(L)
  BY <1>2, AscendingIs
<1>4. /\ Len(recent) = Divergence + 1 /\ Divergence \in Nat \ {0}
      /\ \A p \in 1..Divergence : Diverges(ByStep(h, recent[p]), ByStep(h, recent[p + 1]))
  BY DiLoCoAssumption DEF Divergent
<1>5. \A s \in StepsIn(h) : \E i \in 1..Len(h) : IsFinal(h, i) /\ h[i].step = s
  BY FinalSamples
<1>6. StepsAt(h, tail) = L
  <2>1. \A s \in L : \E i \in tail : h[i].step = s
    BY <1>2, <1>5
  <2>2. \A i \in tail : h[i].step \in L
    OBVIOUS
  <2> HIDE DEF tail, L
  <2> QED BY <2>1, <2>2 DEF StepsAt
<1>7. tail \subseteq 1..Len(h) /\ \A i \in tail : IsFinal(h, i) /\ h[i].step \in L
  OBVIOUS
<1>8. \A i \in 1..Len(h) : IsFinal(h, i) /\ h[i].step \in L => i \in tail
  OBVIOUS
<1> HIDE DEF L, tail, recent
<1>9. Cardinality(tail) = Divergence + 1
  <2>1. Cardinality(StepsAt(h, tail)) = Cardinality(tail)
    BY <1>7, TailSteps
  <2> QED BY <1>3, <1>4, <1>6, <2>1
<1>10. Len(h) \in tail
  <2>1. 1 \in 1..Len(recent)
    BY <1>4
  <2>2. recent[1] \in L /\ recent[1] \in StepsIn(h)
    BY <1>2, <1>3, <2>1
  <2>3. PICK k \in 1..Len(h) : h[k].step = recent[1]
    BY <1>1, <2>2
  <2>4. Len(h) \in 1..Len(h) /\ k <= Len(h)
    BY <1>1
  <2>5. h[k].step <= h[Len(h)].step
    BY <2>4 DEF Grows
  <2>6. h[Len(h)].step \in L
    BY <1>1, <1>2, <2>2, <2>3, <2>4, <2>5 DEF UpClosed
  <2>7. IsFinal(h, Len(h))
    BY DEF IsFinal
  <2> QED BY <1>8, <2>4, <2>6, <2>7
<1>11. ASSUME NEW i \in tail \ {Len(h)}
       PROVE  \E j \in tail : Follows(h, i, j) /\ Diverges(h[i], h[j])
  <2>1. i \in 1..Len(h) /\ IsFinal(h, i) /\ h[i].step \in L /\ i < Len(h)
    <3>1. i \in tail /\ i # Len(h)
      OBVIOUS
    <3>2. i \in 1..Len(h) /\ IsFinal(h, i) /\ h[i].step \in L
      BY <1>7, <3>1
    <3>3. \A n \in Nat : \A x \in 1..n : x # n => x < n
      OBVIOUS
    <3> QED BY <1>1, <3>1, <3>2, <3>3
  <2>2. PICK p \in 1..Len(recent) : recent[p] = h[i].step
    BY <1>3, <2>1
  <2>3. h[Len(h)].step \in L /\ h[i].step < h[Len(h)].step
    BY <1>7, <1>10, <2>1, FinalSamples
  <2>4. PICK q \in 1..Len(recent) : recent[q] = h[Len(h)].step
    BY <1>3, <2>3
  <2>5. p # Divergence + 1
    <3> SUFFICES ASSUME p = Divergence + 1 PROVE FALSE
      OBVIOUS
    <3>1. q = p \/ q < p
      BY <1>4
    <3>2. recent[q] <= recent[p]
      <4>1. recent[p] \in Int /\ recent[q] \in Int
        BY <1>2, <1>3
      <4>2. q < p => recent[q] < recent[p]
        BY <1>3
      <4> QED BY <3>1, <4>1, <4>2
    <3>3. h[i].step \in Int /\ h[Len(h)].step \in Int
      BY <1>2, <2>1, <2>3
    <3> QED BY <2>2, <2>3, <2>4, <3>2, <3>3
  <2>6. p \in 1..Divergence /\ p + 1 \in 1..Len(recent) /\ p \in 1..(Len(recent) - 1)
    BY <1>4, <2>5
  <2>7. recent[p + 1] \in L /\ recent[p + 1] \in StepsIn(h)
    BY <1>2, <1>3, <2>6
  <2>8. PICK j \in 1..Len(h) : IsFinal(h, j) /\ h[j].step = recent[p + 1]
    BY <1>5, <2>7
  <2>9. j \in tail
    BY <1>8, <2>7, <2>8
  <2>10. /\ Follows(h, i, j)
         /\ ByStep(h, recent[p]) = h[i] /\ ByStep(h, recent[p + 1]) = h[j]
    BY <2>1, <2>2, <2>6, <2>8, RecentSamples DEF recent
  <2>11. Diverges(ByStep(h, recent[p]), ByStep(h, recent[p + 1]))
    BY <1>4, <2>6
  <2>12. Diverges(h[i], h[j])
    BY <2>10, <2>11
  <2> QED BY <2>9, <2>10, <2>12
<1>12. tail \in SUBSET {i \in DOMAIN h : IsFinal(h, i)}
  BY <1>1, <1>7
<1> QED BY <1>9, <1>10, <1>11, <1>12, Zenon DEF TailDiverges

LEMMA TailThenDivergent ==
  ASSUME NEW h \in Seq(DiSample), Grows(h), TailDiverges(h)
  PROVE  Divergent(h)
<1> DEFINE L == LastSteps(StepsIn(h))
           recent == RecentSteps(h)
<1>1. /\ Len(h) \in Nat /\ \A k \in 1..Len(h) : h[k].step \in Int
      /\ StepsIn(h) \subseteq Int /\ IsFiniteSet(StepsIn(h))
      /\ DOMAIN h = 1..Len(h)
  BY StepsOfHistory
<1>2. PICK tail \in SUBSET {i \in DOMAIN h : IsFinal(h, i)} :
        /\ Cardinality(tail) = Divergence + 1 /\ Len(h) \in tail
        /\ \A i \in tail \ {Len(h)} :
             \E j \in tail : Follows(h, i, j) /\ Diverges(h[i], h[j])
  BY Zenon DEF TailDiverges
<1>3. /\ tail \subseteq 1..Len(h) /\ \A i \in tail : i \in 1..Len(h) /\ IsFinal(h, i)
      /\ \A i \in tail \ {Len(h)} : \E j \in tail : Follows(h, i, j)
  BY <1>1, <1>2
<1>4. StepsAt(h, tail) = L
  BY <1>2, <1>3, TailIsLast
<1>5. /\ L \subseteq Int /\ IsFiniteSet(L) /\ recent = Ascending(L)
  <2>1. L \subseteq StepsIn(h)
    BY DEF LastSteps
  <2> QED BY <1>1, <2>1, RecentIsAscending, FS_Subset
<1>6. /\ \A q \in 1..Len(recent) : recent[q] \in L
      /\ \A q, r \in 1..Len(recent) : q < r => recent[q] < recent[r]
      /\ Len(recent) = Cardinality(L)
  BY <1>5, AscendingIs
<1>7. Cardinality(L) = Divergence + 1 /\ Divergence \in Nat \ {0}
  BY <1>2, <1>3, <1>4, TailSteps, DiLoCoAssumption
<1> HIDE DEF L, recent
<1>8. ASSUME NEW p \in 1..Divergence
      PROVE  Diverges(ByStep(h, recent[p]), ByStep(h, recent[p + 1]))
  <2>1. p \in 1..Len(recent) /\ p + 1 \in 1..Len(recent) /\ p \in 1..(Len(recent) - 1) /\ p < p + 1
    BY <1>6, <1>7
  <2>2. recent[p] \in L /\ recent[p + 1] \in L /\ recent[p] < recent[p + 1]
    BY <1>6, <2>1
  <2>3. PICK i \in tail : h[i].step = recent[p]
    BY <1>4, <2>2 DEF StepsAt
  <2>4. PICK j \in tail : h[j].step = recent[p + 1]
    BY <1>4, <2>2 DEF StepsAt
  <2>5. i \in 1..Len(h) /\ j \in 1..Len(h) /\ IsFinal(h, i) /\ IsFinal(h, j)
    BY <1>3
  <2>6. /\ Follows(h, i, j)
        /\ ByStep(h, recent[p]) = h[i] /\ ByStep(h, recent[p + 1]) = h[j]
    BY <2>1, <2>3, <2>4, <2>5, RecentSamples DEF recent
  <2>7. i < j /\ \A k \in (i + 1)..(j - 1) : ~IsFinal(h, k)
    BY <2>6 DEF Follows
  <2>8. i \in tail \ {Len(h)}
    BY <1>1, <2>5, <2>7
  <2>9. PICK m \in tail : Follows(h, i, m) /\ Diverges(h[i], h[m])
    BY <1>2, <2>8
  <2>10. i < m /\ (\A k \in (i + 1)..(m - 1) : ~IsFinal(h, k)) /\ m \in 1..Len(h) /\ IsFinal(h, m)
    BY <1>3, <2>9 DEF Follows
  <2>11. m = j
    <3>1. m < j => m \in (i + 1)..(j - 1)
      BY <1>1, <2>5, <2>10
    <3>2. j < m => j \in (i + 1)..(m - 1)
      BY <1>1, <2>5, <2>7, <2>10
    <3>3. ~(m < j) /\ ~(j < m)
      BY <2>5, <2>7, <2>10, <3>1, <3>2
    <3> QED BY <1>1, <2>5, <2>10, <3>3
  <2> QED BY <2>6, <2>9, <2>11
<1> QED BY <1>6, <1>7, <1>8 DEF Divergent, recent

\* A check of a worker raises the alert exactly when it fails: the increment is new to it.
LEMMA DivergenceStep ==
  ASSUME IncrementInv, [DiNext]_diVars
  PROVE  [LET h == diloco[worker] IN
            doing = "divergence" /\ doing' = "sync" /\ OneRun(h) =>
              (spoke'["divergence"][worker] = lastOuter[worker] <=> TailDiverges(h))]_diVars
<1> SUFFICES ASSUME doing = "divergence", doing' = "sync", OneRun(diloco[worker])
             PROVE  spoke'["divergence"][worker] = lastOuter[worker]
                      <=> TailDiverges(diloco[worker])
  OBVIOUS
<1>1. CheckWorker("divergence")
  BY DEF DiNext, diVars, IngestDiLoCo, StartDiLoCo, ReadOuter, ComparePseudoGradients,
         CheckWorker, Checks
<1>2. /\ worker \in Reporting /\ diloco[worker] \in Seq(DiSample) /\ "divergence" \in Checks
      /\ lastOuter[worker] \in -1..MaxOuter /\ MaxOuter \in Nat
      /\ spoke \in [Checks -> [Reporting -> -1..MaxOuter]]
      /\ spoke["divergence"][worker] < lastOuter[worker]
  BY DiLoCoAssumption DEF IncrementInv, Checks
<1>3. Fails("divergence", diloco[worker]) <=> TailDiverges(diloco[worker])
  <2>1. Grows(diloco[worker])
    BY <1>2, OneRunGrows
  <2>2. Divergent(diloco[worker]) <=> TailDiverges(diloco[worker])
    BY <1>2, <2>1, DivergentThenTail, TailThenDivergent
  <2> QED BY <2>2 DEF Fails
<1>4. CASE Fails("divergence", diloco[worker])
  <2>1. spoke' = [spoke EXCEPT !["divergence"][worker] = lastOuter[worker]]
    BY <1>1, <1>4 DEF CheckWorker
  <2>2. spoke'["divergence"][worker] = lastOuter[worker]
    BY <1>2, <2>1
  <2> QED BY <1>3, <1>4, <2>2
<1>5. CASE ~Fails("divergence", diloco[worker])
  <2>1. spoke' = spoke
    BY <1>1, <1>5 DEF CheckWorker
  <2>2. spoke["divergence"][worker] \in -1..MaxOuter
    BY <1>2
  <2>3. spoke'["divergence"][worker] # lastOuter[worker]
    BY <1>2, <2>1, <2>2
  <2> QED BY <1>3, <1>5, <2>3
<1> QED BY <1>4, <1>5

\* For any history without a restart and any number of steps compared: the check raises the
\* alert exactly when the losses move apart between the final samples of the last steps,
\* whatever samples repeat a step or arrive during the pass (diloco.py,
\* _detect_inner_outer_divergence).
THEOREM DivergenceAlwaysGenuine == DiSpec => DivergenceGenuine
<1>1. DiInit => IncrementInv
  BY IncrementStart
<1>2. IncrementInv /\ [DiNext]_diVars => IncrementInv'
  BY IncrementStep
<1>3. IncrementInv /\ [DiNext]_diVars
        => [LET h == diloco[worker] IN
              doing = "divergence" /\ doing' = "sync" /\ OneRun(h) =>
                (spoke'["divergence"][worker] = lastOuter[worker] <=> TailDiverges(h))]_diVars
  BY DivergenceStep
<1> QED BY <1>1, <1>2, <1>3, PTL DEF DiSpec, DivergenceGenuine

-----------------------------------------------------------------------------
(* The types of the backend's modules. *)

\* A sequence of which one element is taken out, and one put at the end.
LEMMA MovedType ==
  ASSUME NEW S, NEW s \in Seq(S), NEW i \in DOMAIN s
  PROVE  MoveToEnd(s, i) \in Seq(S)
<1> DEFINE front == SubSeq(s, 1, i - 1)
           back  == SubSeq(s, i + 1, Len(s))
<1>1. Len(s) \in Nat /\ i \in 1..Len(s) /\ s[i] \in S
  OBVIOUS
<1>2. front \in Seq(S) /\ back \in Seq(S)
  BY <1>1, SubSeqProperties
<1>3. MoveToEnd(s, i) = Append(front \o back, s[i])
  BY DEF MoveToEnd, Seqs!RemoveAt
<1> HIDE DEF front, back
<1>4. front \o back \in Seq(S)
  BY <1>2, ConcatProperties
<1> QED BY <1>1, <1>3, <1>4, AppendProperties

\* Entries of the registry, each kept or given another status.
LEMMA StatusesChanged ==
  ASSUME jobs \in Seq(Entry), NEW P, NEW s \in JobStatuses,
         jobs' = [i \in DOMAIN jobs |-> IF i \in P THEN [jobs[i] EXCEPT !.status = s] ELSE jobs[i]]
  PROVE  jobs' \in Seq(Entry)
<1>1. \A i \in 1..Len(jobs) : jobs[i] \in Entry
  OBVIOUS
<1>2. ASSUME NEW e \in Entry PROVE [e EXCEPT !.status = s] \in Entry
  BY DEF Entry
<1>3. PICK q : q = jobs'
  OBVIOUS
<1>4. /\ DOMAIN jobs = 1..Len(jobs) /\ Len(jobs) \in Nat
      /\ q = [i \in 1..Len(jobs) |-> IF i \in P THEN [jobs[i] EXCEPT !.status = s] ELSE jobs[i]]
  BY <1>3
<1>5. \A i \in 1..Len(jobs) : q[i] \in Entry
  BY <1>1, <1>2, <1>4
<1>6. q \in [1..Len(jobs) -> Entry]
  BY <1>4, <1>5
<1> QED BY <1>3, <1>4, <1>6

LEMMA UpdateTyped ==
  ASSUME jobs \in Seq(Entry), NEW j, NEW s \in JobStatuses, UpdateStatus(j, s)
  PROVE  jobs' \in Seq(Entry)
<1> DEFINE P == {i \in DOMAIN jobs : jobs[i].id = j}
<1>1. jobs' = [i \in DOMAIN jobs |-> IF i \in P THEN [jobs[i] EXCEPT !.status = s] ELSE jobs[i]]
  BY DEF UpdateStatus
<1> HIDE DEF P
<1> QED BY <1>1, StatusesChanged

LEMMA StatusTyped ==
  ASSUME jobs \in Seq(Entry), NEW j
  PROVE  StatusOf(j) \in JobStatuses \cup {"unknown"}
<1>1. CASE Known(j)
  <2>1. \E i \in DOMAIN jobs : jobs[i].id = j
    BY <1>1 DEF Known, JobIds
  <2>2. PICK i \in DOMAIN jobs : StatusOf(j) = jobs[i].status
    BY <1>1, <2>1 DEF StatusOf
  <2>3. jobs[i] \in Entry
    OBVIOUS
  <2> QED BY <2>2, <2>3 DEF Entry
<1>2. CASE ~Known(j)
  BY <1>2 DEF StatusOf
<1> QED BY <1>1, <1>2

LEMMA RegisterTyped ==
  ASSUME JobTypeOK, NEW j \in Jobs, Register(j)
  PROVE  JobTypeOK'
<1>1. /\ jobs \in Seq(Entry) /\ recency \in Seq(Jobs) /\ declared \in [Jobs -> JobStatuses]
      /\ mark \in Mark \cup {NoMark}
  BY DEF JobTypeOK
<1>2. jobs' \in Seq(Entry)
  <2>1. CASE RegisterAgain(j)
    BY <1>1, <2>1, MovedType DEF RegisterAgain
  <2>2. CASE RegisterNew(j)
    <3> DEFINE e == [id |-> j, status |-> "registered"]
    <3>1. e \in Entry
      BY DEF Entry, JobStatuses
    <3>2. jobs' = IF Len(Append(jobs, e)) > MaxJobs THEN Tail(Append(jobs, e)) ELSE Append(jobs, e)
      BY <2>2 DEF RegisterNew
    <3> HIDE DEF e
    <3>3. Append(jobs, e) \in Seq(Entry) /\ Append(jobs, e) # <<>>
      BY <1>1, <3>1, AppendProperties
    <3>4. Tail(Append(jobs, e)) \in Seq(Entry)
      BY <3>3, HeadTailProperties
    <3> QED BY <3>2, <3>3, <3>4
  <2> QED BY <2>1, <2>2 DEF Register
<1>3. recency' \in Seq(Jobs)
  <2>1. CASE \E i \in DOMAIN recency : recency' = MoveToEnd(recency, i)
    BY <1>1, <2>1, MovedType
  <2>2. CASE recency' = Append(recency, j)
    BY <1>1, <2>2, AppendProperties
  <2> QED BY <2>1, <2>2 DEF Register
<1>4. declared' \in [Jobs -> JobStatuses] /\ mark' = mark
  BY <1>1 DEF Register, JobStatuses
<1> QED BY <1>1, <1>2, <1>3, <1>4, Zenon DEF JobTypeOK

LEMMA MarkReadTyped ==
  ASSUME JobTypeOK, NEW j \in Jobs \cup {NoJob}, NEW then \in Jobs \cup {NoJob}, MarkRead(j, then)
  PROVE  JobTypeOK'
<1> DEFINE first  == IF j = NoJob THEN then ELSE j
           second == IF j = NoJob THEN NoJob ELSE then
<1>1. mark' = IF first = NoJob THEN NoMark
              ELSE [job |-> first, seen |-> StatusOf(first), then |-> second]
  BY DEF MarkRead, StartMark
<1>2. StatusOf(first) \in JobStatuses \cup {"unknown"}
  BY StatusTyped DEF JobTypeOK
<1>3. mark' \in Mark \cup {NoMark}
  BY <1>1, <1>2 DEF Mark
<1>4. UNCHANGED <<jobs, recency, declared>>
  BY DEF MarkRead
<1> QED BY <1>3, <1>4 DEF JobTypeOK

LEMMA JobTypeStep ==
  ASSUME JobTypeOK, [JobNext]_jobVars
  PROVE  JobTypeOK'
<1>1. /\ jobs \in Seq(Entry) /\ recency \in Seq(Jobs) /\ declared \in [Jobs -> JobStatuses]
      /\ mark \in Mark \cup {NoMark}
  BY DEF JobTypeOK
<1>2. ASSUME NEW p \in Patches, PatchJobStatus(p[1], p[2]) PROVE JobTypeOK'
  <2>1. p[1] \in Jobs /\ p[2] \in JobStatuses
    BY JobAssumption
  <2>2. jobs' \in Seq(Entry)
    BY <1>1, <1>2, <2>1, UpdateTyped DEF PatchJobStatus
  <2>3. declared' \in [Jobs -> JobStatuses] /\ UNCHANGED <<mark, recency>>
    BY <1>1, <1>2, <2>1 DEF PatchJobStatus
  <2> QED BY <1>1, <2>2, <2>3, Zenon DEF JobTypeOK
<1>3. ASSUME NEW j \in Jobs, NEW then \in Jobs \cup {NoJob}, MarkProgress(j, then)
      PROVE  JobTypeOK'
  <2> DEFINE P == {i \in DOMAIN jobs : jobs[i].id \in {j, then} /\ jobs[i].status = "registered"}
  <2>1. jobs' = [i \in DOMAIN jobs |->
                   IF i \in P THEN [jobs[i] EXCEPT !.status = "running"] ELSE jobs[i]]
    BY <1>3 DEF MarkProgress
  <2>2. "running" \in JobStatuses
    BY DEF JobStatuses
  <2> HIDE DEF P
  <2>3. jobs' \in Seq(Entry)
    BY <1>1, <2>1, <2>2, StatusesChanged
  <2>4. UNCHANGED <<mark, recency, declared>>
    BY <1>3 DEF MarkProgress
  <2> QED BY <1>1, <2>3, <2>4, Zenon DEF JobTypeOK
<1>4. CASE MarkWrite
  <2>1. mark \in Mark /\ UNCHANGED <<recency, declared>>
    BY <1>1, <1>4 DEF MarkWrite
  <2>2. mark' \in Mark \cup {NoMark}
    BY <1>4, <2>1 DEF MarkWrite, Mark
  <2>3. jobs' \in Seq(Entry)
    <3>1. "running" \in JobStatuses
      BY DEF JobStatuses
    <3> QED BY <1>1, <1>4, <3>1, UpdateTyped DEF MarkWrite, MarkAs
  <2> QED BY <1>1, <2>1, <2>2, <2>3, Zenon DEF JobTypeOK
<1>5. CASE MarkThen
  <2>1. mark \in Mark
    BY <1>1, <1>5 DEF MarkThen, NoMark
  <2>2. mark.then \in Jobs \cup {NoJob}
    BY <2>1 DEF Mark
  <2> QED BY <1>5, <2>2, MarkReadTyped DEF MarkThen
<1>6. CASE UNCHANGED jobVars
  BY <1>6 DEF jobVars, JobTypeOK
<1> QED BY <1>2, <1>3, <1>4, <1>5, <1>6, RegisterTyped, MarkReadTyped DEF JobNext

-----------------------------------------------------------------------------
(* Of the histories of training samples. *)

RawSample == [loss : Int, tps : Nat, step : Nat]

\* The steps of a buffer grow by at most one per sample, so that those of a full one leave
\* room for the shift of all of them.
Close(h) ==
  /\ h \in Seq(RawSample) /\ Len(h) <= BufferSize
  /\ \A i \in 1..Len(h) : /\ h[i].step <= Warmup + BufferSize
                          /\ h[Len(h)].step <= h[i].step + (Len(h) - i)

DetTypes ==
  /\ Dedup
  /\ history \in [DetNodes -> Seq(RawSample)]
  /\ \A n \in DetNodes : Close(history[n])

\* The buffer with a sample more, its oldest dropped if it is full.
EndsIn(kept, h, m) ==
  /\ Len(kept) \in Nat \ {0} /\ Len(kept) <= BufferSize
  /\ kept[Len(kept)] = m
  /\ \A i \in 1..(Len(kept) - 1) : /\ i + (Len(h) + 1 - Len(kept)) \in 1..Len(h)
                                   /\ kept[i] = h[i + (Len(h) + 1 - Len(kept))]

LEMMA BufferGrows ==
  ASSUME NEW S, NEW h \in Seq(S), NEW m \in S, BufferSize \in Nat \ {0}, Len(h) <= BufferSize,
         NEW kept, kept = Newest(Append(h, m), BufferSize)
  PROVE  kept \in Seq(S) /\ EndsIn(kept, h, m)
<1> DEFINE all == Append(h, m)
           from == IF BufferSize < Len(all) THEN Len(all) - BufferSize + 1 ELSE 1
           left == SubSeq(all, from, Len(all))
<1>1. /\ all \in Seq(S) /\ Len(all) = Len(h) + 1 /\ Len(h) \in Nat
      /\ \A i \in 1..Len(h) : all[i] = h[i]
      /\ all[Len(h) + 1] = m
  BY AppendProperties
<1> HIDE DEF all
<1>2. /\ from \in {1, 2} /\ from <= Len(all) /\ (from = 2 => Len(h) = BufferSize)
      /\ (from = 1 => Len(h) < BufferSize)
  BY <1>1
<1>5. kept = left
  BY DEF Newest, from, all
<1> HIDE DEF from
<1>3. \A i \in from..Len(all) : all[i] \in S
  BY <1>1, <1>2
<1>4. /\ kept \in Seq(S) /\ Len(kept) = Len(all) - from + 1
      /\ \A i \in 1..(Len(all) - from + 1) : kept[i] = all[from + i - 1]
  BY <1>1, <1>2, <1>3, <1>5, SubSeqProperties
<1>6. /\ Len(kept) \in Nat \ {0} /\ Len(kept) <= BufferSize /\ Len(kept) \in {Len(h), Len(h) + 1}
      /\ Len(h) + 1 - Len(kept) = from - 1
  BY <1>1, <1>2, <1>4
<1>7. kept[Len(kept)] = m
  <2>1. Len(kept) \in 1..(Len(all) - from + 1) /\ from + Len(kept) - 1 = Len(h) + 1
    BY <1>1, <1>2, <1>4
  <2> QED BY <1>1, <1>4, <2>1
<1>8. ASSUME NEW i \in 1..(Len(kept) - 1)
      PROVE  /\ i + (Len(h) + 1 - Len(kept)) \in 1..Len(h)
             /\ kept[i] = h[i + (Len(h) + 1 - Len(kept))]
  <2>1. /\ i \in 1..(Len(all) - from + 1) /\ from + i - 1 = i + (Len(h) + 1 - Len(kept))
        /\ i + (Len(h) + 1 - Len(kept)) \in 1..Len(h)
    BY <1>1, <1>2, <1>4
  <2> QED BY <1>1, <1>4, <2>1
<1> QED BY <1>4, <1>6, <1>7, <1>8 DEF EndsIn

LEMMA IngestTyped ==
  ASSUME DetTypes, IngestTraining
  PROVE  /\ history' \in [DetNodes -> Seq(RawSample)]
         /\ \A n \in DetNodes : Close(history'[n])
<1>1. PICK n \in DetNodes, r \in Readings[kind] :
        LET h     == history[n]
            step  == IF h = <<>> THEN 0 ELSE h[Len(h)].step + r.ahead
            shift == IF step > Warmup + BufferSize THEN 1 ELSE 0
            all   == Append(h, [loss |-> r.loss, tps |-> r.tps, step |-> step])
            kept  == Newest(all, BufferSize)
            moved == [i \in DOMAIN kept |-> [kept[i] EXCEPT !.step = @ - shift]]
        IN history' = [history EXCEPT ![n] = moved]
  BY DEF IngestTraining
<1>2. PICK h : h = history[n]
  OBVIOUS
<1>3. PICK step : step = IF h = <<>> THEN 0 ELSE h[Len(h)].step + r.ahead
  OBVIOUS
<1>4. PICK shift : shift = IF step > Warmup + BufferSize THEN 1 ELSE 0
  OBVIOUS
<1>5. PICK m : m = [loss |-> r.loss, tps |-> r.tps, step |-> step]
  OBVIOUS
<1>6. PICK kept : kept = Newest(Append(h, m), BufferSize)
  OBVIOUS
<1>7. PICK moved : moved = [i \in DOMAIN kept |-> [kept[i] EXCEPT !.step = @ - shift]]
  OBVIOUS
<1>8. history' = [history EXCEPT ![n] = moved]
  BY <1>1, <1>2, <1>3, <1>4, <1>5, <1>6, <1>7
<1>9. r.loss \in Int /\ r.tps \in Nat /\ r.ahead \in {0, 1}
  <2>1. kind \in Kinds
    BY DEF DetTypes, Dedup
  <2> QED BY <2>1, DetectorsAssumption
<1>10. BufferSize \in Nat \ {0} /\ Warmup \in Nat
  BY DetectorsAssumption
<1>11. /\ h \in Seq(RawSample) /\ Len(h) \in Nat /\ Len(h) <= BufferSize
       /\ \A i \in 1..Len(h) : /\ h[i].step \in Nat /\ h[i].step <= Warmup + BufferSize
                               /\ h[Len(h)].step <= h[i].step + (Len(h) - i)
  <2>1. Close(h)
    BY <1>2 DEF DetTypes
  <2>2. h \in Seq(RawSample)
    BY <2>1 DEF Close
  <2>3. \A i \in 1..Len(h) : h[i] \in RawSample
    BY <2>2
  <2>4. \A i \in 1..Len(h) : h[i].step \in Nat
    BY <2>3 DEF RawSample
  <2> QED BY <2>1, <2>2, <2>4 DEF Close
<1>12. /\ step \in Nat /\ step <= Warmup + BufferSize + 1
       /\ \A i \in 1..Len(h) : step <= h[i].step + (Len(h) + 1 - i)
       /\ h = <<>> => step = 0
  <2>1. CASE h = <<>>
    BY <1>3, <1>10, <1>11, <2>1
  <2>2. CASE h # <<>>
    <3>1. Len(h) \in 1..Len(h) /\ step = h[Len(h)].step + r.ahead
      BY <1>3, <1>11, <2>2
    <3>2. h[Len(h)].step \in Nat /\ h[Len(h)].step <= Warmup + BufferSize
      BY <1>11, <3>1
    <3>3. step \in Nat /\ step <= h[Len(h)].step + 1
      BY <1>9, <3>1, <3>2
    <3>4. step <= Warmup + BufferSize + 1
      BY <1>10, <3>2, <3>3
    <3>5. ASSUME NEW i \in 1..Len(h) PROVE step <= h[i].step + (Len(h) + 1 - i)
      <4>1. h[i].step \in Nat /\ h[Len(h)].step <= h[i].step + (Len(h) - i)
        BY <1>11
      <4>2. PICK x, y : x = h[Len(h)].step /\ y = h[i].step
        OBVIOUS
      <4>3. x \in Nat /\ y \in Nat /\ x <= y + (Len(h) - i) /\ step <= x + 1
        BY <3>2, <3>3, <4>1, <4>2
      <4>4. step <= y + (Len(h) + 1 - i)
        BY <1>11, <3>3, <4>3
      <4> QED BY <4>2, <4>4
    <3> QED BY <2>2, <3>3, <3>4, <3>5
  <2> QED BY <2>1, <2>2
<1>13. m \in RawSample /\ m.step = step
  BY <1>5, <1>9, <1>12 DEF RawSample
<1>14. /\ kept \in Seq(RawSample) /\ Len(kept) \in Nat \ {0} /\ Len(kept) <= BufferSize
       /\ kept[Len(kept)] = m
       /\ \A i \in 1..(Len(kept) - 1) :
            /\ i + (Len(h) + 1 - Len(kept)) \in 1..Len(h)
            /\ kept[i] = h[i + (Len(h) + 1 - Len(kept))]
  <2>1. h \in Seq(RawSample) /\ Len(h) <= BufferSize /\ m \in RawSample
    BY <1>11, <1>13
  <2>2. BufferSize \in Nat \ {0} /\ kept = Newest(Append(h, m), BufferSize)
    BY <1>6, <1>10
  <2>3. kept \in Seq(RawSample) /\ EndsIn(kept, h, m)
    BY <2>1, <2>2, BufferGrows
  <2> QED BY <2>3, Zenon DEF EndsIn
<1>15. ASSUME NEW i \in 1..Len(kept)
       PROVE  /\ kept[i] \in RawSample /\ kept[i].step \in Nat
              /\ step <= kept[i].step + (Len(kept) - i)
              /\ kept[i].step - shift \in Nat
              /\ kept[i].step - shift <= Warmup + BufferSize
  <2>1. kept[i] \in RawSample /\ kept[i].step \in Nat
    <3>1. kept[i] \in RawSample
      BY <1>14
    <3> QED BY <3>1 DEF RawSample
  <2>2. CASE i = Len(kept)
    <3>1. kept[i].step = step
      BY <1>13, <1>14, <2>2
    <3> QED BY <1>4, <1>10, <1>12, <1>14, <2>1, <2>2, <3>1
  <2>3. CASE i # Len(kept)
    <3>1. PICK k \in 1..Len(h) : k = i + (Len(h) + 1 - Len(kept)) /\ kept[i] = h[k]
      BY <1>14, <2>3
    <3>2. step <= h[k].step + (Len(h) + 1 - k) /\ h[k].step <= Warmup + BufferSize
      BY <1>11, <1>12
    <3>3. Len(h) + 1 - k = Len(kept) - i
      BY <1>11, <1>14, <3>1
    <3>4. step <= kept[i].step + (Len(kept) - i) /\ kept[i].step <= Warmup + BufferSize
      BY <3>1, <3>2, <3>3
    <3>5. Len(kept) - i <= BufferSize /\ Len(kept) - i \in Nat
      BY <1>10, <1>14
    <3>6. kept[i].step - shift \in Nat /\ kept[i].step - shift <= Warmup + BufferSize
      BY <1>4, <1>10, <1>12, <2>1, <3>4, <3>5, SMTT(30)
    <3> QED BY <2>1, <3>4, <3>6
  <2> QED BY <2>2, <2>3
<1>16. /\ DOMAIN kept = 1..Len(kept) /\ shift \in {0, 1}
       /\ moved = [i \in 1..Len(kept) |-> [kept[i] EXCEPT !.step = kept[i].step - shift]]
  BY <1>4, <1>7, <1>14
<1>17. \A i \in 1..Len(kept) : moved[i] \in RawSample /\ moved[i].step = kept[i].step - shift
  <2>1. ASSUME NEW e \in RawSample, NEW x \in Nat
        PROVE  [e EXCEPT !.step = x] \in RawSample /\ [e EXCEPT !.step = x].step = x
    BY DEF RawSample
  <2> QED BY <1>15, <1>16, <2>1
<1>18. moved \in Seq(RawSample) /\ Len(moved) = Len(kept)
  <2>1. moved \in [1..Len(kept) -> RawSample]
    BY <1>16, <1>17
  <2> QED BY <1>14, <2>1
<1>19. Close(moved)
  <2>1. Len(kept) \in 1..Len(kept)
    BY <1>14
  <2>2. moved[Len(moved)].step = step - shift
    BY <1>13, <1>14, <1>17, <1>18, <2>1
  <2>3. ASSUME NEW i \in 1..Len(moved)
        PROVE  /\ moved[i].step <= Warmup + BufferSize
               /\ moved[Len(moved)].step <= moved[i].step + (Len(moved) - i)
    <3>1. /\ i \in 1..Len(kept) /\ moved[i].step = kept[i].step - shift
          /\ kept[i].step \in Nat /\ step <= kept[i].step + (Len(kept) - i)
          /\ kept[i].step - shift <= Warmup + BufferSize
      BY <1>15, <1>17, <1>18
    <3> QED BY <1>12, <1>14, <1>16, <1>18, <2>2, <3>1
  <2> QED BY <1>14, <1>18, <2>3 DEF Close
<1>20. history \in [DetNodes -> Seq(RawSample)]
  BY DEF DetTypes
<1>21. history' \in [DetNodes -> Seq(RawSample)]
  BY <1>8, <1>18, <1>20
<1>22. \A x \in DetNodes : history'[x] = IF x = n THEN moved ELSE history[x]
  BY <1>8, <1>20
<1>23. \A x \in DetNodes : Close(history'[x])
  BY <1>19, <1>22 DEF DetTypes
<1> QED BY <1>21, <1>23

LEMMA DetTypeStep ==
  ASSUME DetTypes, [DetNext]_detVars
  PROVE  DetTypes'
<1>1. Dedup'
  BY DedupStep DEF DetTypes
<1>2. CASE IngestTraining
  BY <1>1, <1>2, IngestTyped DEF DetTypes
<1>3. CASE UNCHANGED history
  BY <1>1, <1>3 DEF DetTypes
<1> QED BY <1>2, <1>3 DEF DetNext, detVars, StartDetection, Check, EndDetection, DetTick

LEMMA DetTypesGive == DetTypes => DetTypeOK
<1> SUFFICES ASSUME DetTypes PROVE DetTypeOK
  OBVIOUS
<1>1. Warmup \in Nat /\ BufferSize \in Nat
  BY DetectorsAssumption
<1>2. ASSUME NEW n \in DetNodes PROVE history[n] \in Seq(TSample)
  <2>1. Close(history[n])
    BY DEF DetTypes
  <2>2. history[n] \in Seq(RawSample)
    BY <2>1 DEF Close
  <2>3. ASSUME NEW i \in 1..Len(history[n]) PROVE history[n][i] \in TSample
    <3>1. history[n][i] \in RawSample
      BY <2>2
    <3>2. history[n][i].step <= Warmup + BufferSize
      BY <2>1 DEF Close
    <3>3. history[n][i].step \in 0..Warmup + BufferSize + 1
      BY <1>1, <3>1, <3>2 DEF RawSample
    <3> QED BY <3>1, <3>3 DEF TSample, RawSample
  <2>4. PICK h : h = history[n]
    OBVIOUS
  <2>5. h \in [1..Len(h) -> TSample] /\ Len(h) \in Nat
    BY <2>2, <2>3, <2>4
  <2> QED BY <2>4, <2>5
<1>3. history \in [DetNodes -> Seq(TSample)]
  <2>1. history \in [DetNodes -> Seq(RawSample)]
    BY DEF DetTypes
  <2>2. history = [n \in DetNodes |-> history[n]]
    BY <2>1
  <2> QED BY <1>2, <2>2, Zenon
<1>4. dpass \in [node : 0..Len(DetNodeSeq) + 1, read : 0..ReadCount]
  <2>1. Len(DetNodeSeq) \in Nat /\ ReadCount \in Nat \ {0}
    BY NodeSeqType, ReadCountPositive, DetectorsAssumption
  <2>2. CASE dpass = Idle
    BY <2>1, <2>2 DEF Idle
  <2>3. CASE /\ dpass.node \in 1..Len(DetNodeSeq) + 1 /\ dpass.read \in 1..ReadCount
             /\ dpass = [node |-> dpass.node, read |-> dpass.read]
    <3>1. dpass.node \in 0..Len(DetNodeSeq) + 1 /\ dpass.read \in 0..ReadCount
      BY <2>1, <2>3
    <3> QED BY <2>3, <3>1
  <2> QED BY <2>2, <2>3 DEF DetTypes, Dedup, Cursor
<1> QED BY <1>3, <1>4 DEF DetTypes, Dedup, DetTypeOK

-----------------------------------------------------------------------------
(* Of all the modules of the backend. *)

BackendTypes ==
  /\ JobTypeOK /\ DetTypes
  /\ InstabilityInv /\ ipass \in BOOLEAN /\ (~ipass => itodo = {})
  /\ RingInv /\ failing \subseteq CoNodes
  /\ IncrementInv /\ worker \in Reporting
  /\ deviant \subseteq Workers /\ outlying \subseteq Workers
  /\ \A n \in Reporting : Len(diloco[n]) <= DiBuffer

LEMMA BackendTypesStart == MCInit => BackendTypes
<1> SUFFICES ASSUME MCInit PROVE BackendTypes
  OBVIOUS
<1>1. JobTypeOK
  <2>1. jobs \in Seq(Entry) /\ recency \in Seq(Jobs)
    BY EmptySeq DEF MCInit, JobInit
  <2>2. declared \in [Jobs -> JobStatuses] /\ mark = NoMark
    BY DEF MCInit, JobInit, JobStatuses
  <2> QED BY <2>1, <2>2 DEF JobTypeOK
<1>2. DetTypes
  <2>1. Dedup
    BY DedupInit, DetectorsAssumption DEF MCInit
  <2>2. \A n \in DetNodes : history[n] = <<>>
    BY DEF MCInit, DetInit
  <2>3. Close(<<>>)
    <3>1. BufferSize \in Nat
      BY DetectorsAssumption
    <3> QED BY <3>1 DEF Close
  <2>4. history \in [DetNodes -> Seq(RawSample)]
    BY DEF MCInit, DetInit
  <2> QED BY <2>1, <2>2, <2>3, <2>4 DEF DetTypes
<1>3. InstabilityInv /\ ipass \in BOOLEAN /\ (~ipass => itodo = {})
  BY InstabilityStart DEF MCInit, InInit
<1>4. RingInv /\ failing \subseteq CoNodes
  BY RingStart DEF MCInit, CoInit
<1>5. IncrementInv /\ deviant \subseteq Workers /\ outlying \subseteq Workers
  BY IncrementStart DEF MCInit, DiInit
<1>6. worker \in Reporting
  BY DiLoCoAssumption DEF MCInit, DiInit, AnyWorker
<1>7. \A n \in Reporting : Len(diloco[n]) <= DiBuffer
  <2>1. DiBuffer \in Nat
    BY DiLoCoAssumption
  <2> QED BY <2>1 DEF MCInit, DiInit
<1> QED BY <1>1, <1>2, <1>3, <1>4, <1>5, <1>6, <1>7 DEF BackendTypes

\* The samples of 30 minutes.
LEMMA DiBufferStep ==
  ASSUME IncrementInv, [DiNext]_diVars, \A n \in Reporting : Len(diloco[n]) <= DiBuffer
  PROVE  \A n \in Reporting : Len(diloco'[n]) <= DiBuffer
<1>1. CASE diloco' = diloco
  BY <1>1
<1>2. CASE IngestDiLoCo
  <2>1. PICK n \in Reporting, v \in DiReadings, s \in 0..MaxOuter :
          diloco' = [diloco EXCEPT ![n] =
            IF Len(Append(diloco[n], [step |-> s, val |-> v])) > DiBuffer
              THEN Tail(Append(diloco[n], [step |-> s, val |-> v]))
              ELSE Append(diloco[n], [step |-> s, val |-> v])]
    BY <1>2 DEF IngestDiLoCo
  <2>2. PICK m : m = [step |-> s, val |-> v]
    OBVIOUS
  <2>3. PICK all : all = Append(diloco[n], m)
    OBVIOUS
  <2>4. /\ diloco \in [Reporting -> Seq(DiSample)] /\ DiBuffer \in Nat \ {0} /\ m \in DiSample
        /\ Len(diloco[n]) <= DiBuffer
    BY <2>2, DiLoCoAssumption DEF IncrementInv, DiSample
  <2>5. /\ all \in Seq(DiSample) /\ all # <<>> /\ Len(all) = Len(diloco[n]) + 1
        /\ Len(diloco[n]) \in Nat
    BY <2>3, <2>4, AppendProperties
  <2>6. Len(Tail(all)) = Len(all) - 1
    BY <2>5, HeadTailProperties
  <2>7. diloco' = [diloco EXCEPT ![n] = IF Len(all) > DiBuffer THEN Tail(all) ELSE all]
    BY <2>1, <2>2, <2>3
  <2>8. \A x \in Reporting :
          diloco'[x] = IF x = n THEN (IF Len(all) > DiBuffer THEN Tail(all) ELSE all)
                                ELSE diloco[x]
    BY <2>4, <2>7
  <2>9. Len(IF Len(all) > DiBuffer THEN Tail(all) ELSE all) <= DiBuffer
    BY <2>4, <2>5, <2>6
  <2> QED BY <2>8, <2>9
<1> QED BY <1>1, <1>2
        DEF DiNext, diVars, StartDiLoCo, ReadOuter, CheckWorker, ComparePseudoGradients

LEMMA DeviantStep ==
  ASSUME [DiNext]_diVars, deviant \subseteq Workers, outlying \subseteq Workers
  PROVE  deviant' \subseteq Workers /\ outlying' \subseteq Workers
<1>1. CASE ComparePseudoGradients
  <2>1. PICK known \in SUBSET Workers :
          \E norm \in [known -> Norms] : /\ deviant' \in Deviants(norm)
                                        /\ outlying' = {n \in known : Outlies(n, norm)}
    BY <1>1 DEF ComparePseudoGradients
  <2>2. PICK norm \in [known -> Norms] : /\ deviant' \in Deviants(norm)
                                         /\ outlying' = {n \in known : Outlies(n, norm)}
    BY <2>1
  <2>3. DOMAIN norm = known
    OBVIOUS
  <2>4. deviant' \subseteq known
    BY <2>2, <2>3 DEF Deviants
  <2> QED BY <2>2, <2>4
<1>2. CASE StartDiLoCo
  BY <1>2 DEF StartDiLoCo
<1>3. CASE deviant' = deviant /\ outlying' = outlying
  BY <1>3
<1> QED BY <1>1, <1>2, <1>3 DEF DiNext, diVars, IngestDiLoCo, ReadOuter, CheckWorker

LEMMA WorkerStep ==
  ASSUME [DiNext]_diVars, worker \in Reporting, todo \subseteq Reporting
  PROVE  worker' \in Reporting
  BY DEF DiNext, diVars, IngestDiLoCo, StartDiLoCo, ReadOuter, CheckWorker,
         ComparePseudoGradients, SeeRestart, SeeIncrement

LEMMA FailingStep ==
  ASSUME RingInv, [CoNext]_coVars, failing \subseteq CoNodes
  PROVE  failing' \subseteq CoNodes
<1>1. CASE Correlate
  <2>1. \A i \in DOMAIN Latest : Latest[i].node \in CoNodes
    <3>1. ring \in Seq(StoredAlert) /\ Len(ring) \in Nat /\ QueryCap \in Nat
      BY CorrelationAssumption DEF RingInv
    <3>2. Cap(QueryCap, Len(ring)) \in Nat /\ Cap(QueryCap, Len(ring)) <= Len(ring)
      BY <3>1 DEF Cap
    <3>3. \A i \in 1..Cap(QueryCap, Len(ring)) : ring[i] \in StoredAlert
      BY <3>1, <3>2
    <3>4. SubSeq(ring, 1, Cap(QueryCap, Len(ring))) \in Seq(StoredAlert)
      BY <3>2, <3>3, SubSeqProperties
    <3>5. Latest \in Seq(StoredAlert)
      BY <3>4 DEF Latest, Query
    <3>6. \A i \in DOMAIN Latest : Latest[i] \in StoredAlert
      BY <3>5
    <3> QED BY <3>6 DEF StoredAlert
  <2> QED BY <1>1, <2>1 DEF Correlate
<1>2. CASE failing' \in {failing, {}}
  BY <1>2
<1> QED BY <1>1, <1>2 DEF CoNext, coVars, ReportAlert, CentralAlert, DetectStragglers, CoTick

LEMMA ScanningStep ==
  ASSUME [InNext]_inVars, ipass \in BOOLEAN, ~ipass => itodo = {}
  PROVE  ipass' \in BOOLEAN /\ (~ipass' => itodo' = {})
<1>1. CASE UNCHANGED <<ipass, itodo>>
  BY <1>1
<1>2. CASE ipass' = TRUE
  BY <1>2
<1>3. CASE EndScan
  BY <1>3 DEF EndScan
<1>4. CASE Scan
  BY <1>4 DEF Scan
<1> QED BY <1>1, <1>2, <1>3, <1>4 DEF InNext, inVars, IngestSample, StartScan

LEMMA BackendTypesStep ==
  ASSUME BackendTypes, [MCNext]_allVars
  PROVE  BackendTypes'
<1>1. /\ [JobNext]_jobVars /\ [DetNext]_detVars /\ [InNext]_inVars
      /\ [CoNext]_coVars /\ [DiNext]_diVars
  BY DEF MCNext, allVars, jobVars, detVars, inVars, coVars, diVars
<1>2. JobTypeOK'
  BY <1>1, JobTypeStep DEF BackendTypes
<1>3. DetTypes'
  BY <1>1, DetTypeStep DEF BackendTypes
<1>4. InstabilityInv' /\ ipass' \in BOOLEAN /\ (~ipass' => itodo' = {})
  BY <1>1, InstabilityStep, ScanningStep DEF BackendTypes
<1>5. RingInv' /\ failing' \subseteq CoNodes
  BY <1>1, RingStep, FailingStep DEF BackendTypes
<1>6. IncrementInv'
  BY <1>1, IncrementStep DEF BackendTypes
<1>7. worker' \in Reporting
  BY <1>1, WorkerStep DEF BackendTypes, IncrementInv
<1>8. deviant' \subseteq Workers /\ outlying' \subseteq Workers
  BY <1>1, DeviantStep DEF BackendTypes
<1>9. \A n \in Reporting : Len(diloco'[n]) <= DiBuffer
  BY <1>1, DiBufferStep DEF BackendTypes
<1> QED BY <1>2, <1>3, <1>4, <1>5, <1>6, <1>7, <1>8, <1>9 DEF BackendTypes

LEMMA BackendTypesGive == BackendTypes => TypesOK
<1> SUFFICES ASSUME BackendTypes PROVE TypesOK
  OBVIOUS
<1>1. JobTypeOK /\ DetTypeOK
  BY DetTypesGive DEF BackendTypes
<1>2. InTypeOK
  BY DEF BackendTypes, InstabilityInv, InTypeOK
<1>3. CoTypeOK
  BY DEF BackendTypes, RingInv, CoTypeOK
<1>4. DiTypeOK
  BY DEF BackendTypes, IncrementInv, DiTypeOK
<1> QED BY <1>1, <1>2, <1>3, <1>4 DEF TypesOK

\* For any jobs, nodes, samples and bounds, the registry, the ring of alerts, the histories
\* and the records of the detectors stay within their bounds: no cursor leaves the list of
\* nodes, no age its clock, no buffer its size (stores.py, detectors/).
THEOREM BackendTypesAlways == MCSpec => []TypesOK
<1>1. MCInit => BackendTypes
  BY BackendTypesStart
<1>2. BackendTypes /\ [MCNext]_allVars => BackendTypes'
  BY BackendTypesStep
<1>3. BackendTypes => TypesOK
  BY BackendTypesGive
<1> QED BY <1>1, <1>2, <1>3, PTL DEF MCSpec
=============================================================================
