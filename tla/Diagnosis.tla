----------------------------- MODULE Diagnosis -----------------------------
(***************************************************************************)
(* The diagnosis pipeline of the backend: the alert ring, the diagnosis    *)
(* ring with its result cache, the per-node rate limiter, the automatic    *)
(* loop of main.py and the POST /diagnoses requests.                       *)
(*                                                                         *)
(* DiagnosisAgent.diagnose runs on worker threads (asyncio.to_thread), one *)
(* call per request and at most one for the automatic loop; each store is  *)
(* guarded by its own lock, so one action below is one critical section or *)
(* one lock-free stretch between two of them, and the threads interleave   *)
(* at those points.                                                        *)
(*                                                                         *)
(* A deque(maxlen = n) is written as the log of everything ever appended:  *)
(* its content is the last n entries of the log.                           *)
(***************************************************************************)
EXTENDS Integers, Sequences, FiniteSets

CONSTANTS
  Alerts,               \* alert identifiers
  Nodes,                \* node identifiers
  Fingerprints,         \* values of alert_fingerprint
  NodeOf,               \* [Alerts -> Nodes]
  FingerprintOf,        \* [Alerts -> Fingerprints]
  Critical,             \* the alerts of severity CRITICAL
  FallbackAlerts,       \* the alerts whose type has a local fallback diagnosis
  FallbackConf,         \* its confidence, fixed by the type
  Unhashable,           \* the alerts on which alert_fingerprint raises
  AutoCaller,           \* the worker thread of the automatic loop
  Requests,             \* the worker threads of POST /diagnoses
  MaxAlerts,            \* _MAX_ALERTS
  MaxDiagnoses,         \* _MAX_DIAGNOSES
  QueryLimit,           \* limit of the automatic loop's alert query
  ResultCacheTtl,       \* _RESULT_CACHE_TTL_MS
  FailedRetryCooldown,  \* _FAILED_RETRY_COOLDOWN_MS
  RateCooldown,         \* _DEFAULT_COOLDOWN_SECONDS of the rate limiter
  LoopInterval,         \* base sleep of the automatic loop
  MaxBackoff,           \* cap of the loop's backoff factor
  FailureCap,           \* BOUND: failures counted up to here (backoff is flat after)
  StartTime,            \* the clock when the process starts
  MaxTime,              \* BOUND: the clock stops here
  MaxCalls,             \* BOUND: calls of diagnose
  MaxInvalid,           \* BOUND: calls that end in an invalid response
  MaxManual             \* BOUND: calls of diagnose made by requests

Callers == {AutoCaller} \cup Requests

ASSUME CallersAssumption == AutoCaller \notin Requests
ASSUME AlertAssumption ==
  /\ NodeOf \in [Alerts -> Nodes]
  /\ FingerprintOf \in [Alerts -> Fingerprints]
  /\ Critical \subseteq Alerts
  /\ FallbackAlerts \subseteq Alerts
  /\ FallbackConf \in [FallbackAlerts -> {"high", "low"}]
  /\ Unhashable \subseteq Alerts
\* The fingerprint hashes the node, the severity and the type of the alert.
ASSUME FingerprintAssumption ==
  \A a, b \in Alerts : FingerprintOf[a] = FingerprintOf[b] =>
    /\ NodeOf[a] = NodeOf[b]
    /\ a \in Critical <=> b \in Critical
    /\ a \in FallbackAlerts <=> b \in FallbackAlerts
ASSUME ParameterAssumption ==
  /\ {MaxAlerts, MaxDiagnoses, QueryLimit, RateCooldown} \subseteq Nat \ {0}
  /\ {ResultCacheTtl, FailedRetryCooldown, LoopInterval} \subseteq Nat
  /\ {MaxBackoff, FailureCap} \subseteq Nat
  /\ {StartTime, MaxTime, MaxCalls, MaxInvalid, MaxManual} \subseteq Nat

VARIABLES
  now,           \* the clock, wall and monotonic
  reported,      \* AlertStore._alerts, as the log of every alert added
  diag,          \* every DiagnosisResult made, by diagnosis_id
  diagnoses,     \* DiagnosisStore._diagnoses, as the log of ids added
  fingerprints,  \* DiagnosisStore._fingerprints
  lastCall,      \* DiagnosisRateLimiter._last_call
  grants,        \* history: the slots the rate limiter handed out
  pc,            \* where each worker thread is in diagnose
  cur,           \* the diagnosis_id each worker thread is producing
  asked,         \* by worker thread: the alert, as a position in reported, of the call that
                 \* the event loop has handed to it and it has not begun, or 0
  loop,          \* the automatic loop: sleeping or inside a pass
  scan,          \* critical_alerts still to visit, as positions in reported
  passNow,       \* now_ms of the pass
  failures,      \* consecutive_failures
  wakeAt         \* when the sleep of the loop ends

storeVars == <<reported, diag, diagnoses, fingerprints>>
limitVars == <<lastCall, grants>>
callVars  == <<pc, cur>>
loopVars  == <<asked, loop, scan, passNow, failures, wakeAt>>
vars == <<now, storeVars, limitVars, callVars, loopVars>>

Time   == Nat
Phases == {"idle", "lookup", "clone", "acquire", "llm", "add", "index", "done", "raised"}
Statuses == {"pending", "completed", "failed", "rate_limited", "cached"}

Diagnosis == [alert: Alerts, by: Callers, start: Time, ts: Time, status: Statuses,
              conf: {"high", "low", "none"},     \* high: at least _RESULT_CACHE_MIN_CONFIDENCE
              model: {"llm", "fallback", "none"}, from: Nat]

TypeOK ==
  /\ now \in Time
  /\ reported \in Seq(Alerts)
  /\ diag \in Seq(Diagnosis)
  /\ diagnoses \in Seq(DOMAIN diag)
  /\ DOMAIN fingerprints \subseteq DOMAIN diag
  /\ \A id \in DOMAIN fingerprints : fingerprints[id] \in Fingerprints
  /\ lastCall \in [Nodes -> Time]
  /\ grants \subseteq [id: DOMAIN diag, node: Nodes, at: Time]
  /\ pc \in [Callers -> Phases]
  /\ cur \in [Callers -> Nat]
  /\ \A c \in Callers : pc[c] \notin {"idle", "raised"} => cur[c] \in DOMAIN diag
  /\ \A c \in Callers : pc[c] = "clone" => diag[cur[c]].from \in DOMAIN diag
  /\ asked \in [Callers -> Nat]
  /\ \A c \in Callers : asked[c] = 0 \/ asked[c] \in DOMAIN reported
  /\ loop \in {"sleep", "pass"}
  /\ scan \subseteq DOMAIN reported
  /\ passNow \in Time
  /\ failures \in Nat
  /\ wakeAt \in Int

-----------------------------------------------------------------------------
(* The two rings. *)

Min2(a, b) == IF a <= b THEN a ELSE b

StoredAlerts == {i \in DOMAIN reported : i > Len(reported) - MaxAlerts}

\* AlertStore.query(severity = "CRITICAL", limit = QueryLimit): the newest ones.
CriticalWindow ==
  {i \in StoredAlerts :
     /\ reported[i] \in Critical
     /\ Cardinality({j \in StoredAlerts : j > i /\ reported[j] \in Critical}) < QueryLimit}

StoredDiagnoses == {i \in DOMAIN diagnoses : i > Len(diagnoses) - MaxDiagnoses}
LiveIds == {diagnoses[i] : i \in StoredDiagnoses}

\* DiagnosisStore.get_by_alert_id returns the entry at this position, if any.
IsNewestFor(a, i) ==
  /\ i \in StoredDiagnoses
  /\ diag[diagnoses[i]].alert = a
  /\ \A j \in StoredDiagnoses : diag[diagnoses[j]].alert = a => j <= i

\* MUTANT: find_cached_match forgets the confidence threshold.
IsReusableAnyConf(id, i) ==
  /\ diag[diagnoses[i]].status = "completed"
  /\ diagnoses[i] \in DOMAIN fingerprints
  /\ fingerprints[diagnoses[i]] = FingerprintOf[diag[id].alert]

\* DiagnosisStore.find_cached_match, called for diagnosis id: the walk from the
\* newest entry ends at the first one older than the TTL.
IsReusable(id, i) ==
  LET d == diag[diagnoses[i]] IN
    /\ d.status = "completed"
    /\ d.conf = "high"
    /\ diagnoses[i] \in DOMAIN fingerprints
    /\ fingerprints[diagnoses[i]] = FingerprintOf[diag[id].alert]

InTtl(id, i) == diag[diagnoses[i]].ts >= diag[id].start - ResultCacheTtl

IsCachedMatch(id, i) ==
  /\ i \in StoredDiagnoses
  /\ IsReusable(id, i)
  /\ \A j \in StoredDiagnoses : j >= i => InTtl(id, j)
  /\ \A j \in StoredDiagnoses : j > i => ~IsReusable(id, j)

-----------------------------------------------------------------------------
(* DiagnosisAgent.diagnose, step by step. *)

\* The result of call c is complete and waits to be stored.
Finish(c, status, conf, model) ==
  /\ diag' = [diag EXCEPT ![cur[c]] =
                [@ EXCEPT !.ts = now, !.status = status, !.conf = conf, !.model = model]]
  /\ pc' = [pc EXCEPT ![c] = "add"]
  /\ UNCHANGED cur

\* MUTANT: the exits report a status the API does not know.
MakeFailedResultUnknown(c, status) == Finish(c, "error", "none", "none")

MakeFailedResult(c, status) == Finish(c, status, "none", "none")

\* The rule-based diagnosis of the alert types that have one.
MakeLocalFallbackResult(c) ==
  /\ diag[cur[c]].alert \in FallbackAlerts
  /\ Finish(c, "completed", FallbackConf[diag[cur[c]].alert], "fallback")

MakeLlmUnavailableResult(c, status) ==
  \/ MakeLocalFallbackResult(c)
  \/ diag[cur[c]].alert \notin FallbackAlerts /\ MakeFailedResult(c, status)

\* An infinite evidence value: its magnitude has no integer logarithm.
AlertFingerprintRaises(a) == a \in Unhashable

\* The thread begins with diagnose: the id, start_ms, the fingerprint and the lookup's
\* cutoff.
Diagnose(c, a) ==
  IF AlertFingerprintRaises(a)
    THEN /\ pc' = [pc EXCEPT ![c] = "raised"]
         /\ UNCHANGED <<cur, diag>>
    ELSE /\ Len(diag) < MaxCalls
         /\ diag' = Append(diag, [alert |-> a, by |-> c, start |-> now, ts |-> now,
                                  status |-> "pending", conf |-> "none",
                                  model |-> "none", from |-> 0])
         /\ cur' = [cur EXCEPT ![c] = Len(diag) + 1]
         /\ pc' = [pc EXCEPT ![c] = "lookup"]

Free(c) == pc[c] = "idle" /\ asked[c] = 0

\* await asyncio.to_thread(agent.diagnose, alert): the alert was chosen some time before.
Enter(c) ==
  /\ pc[c] = "idle" /\ asked[c] # 0
  /\ Diagnose(c, reported[asked[c]])
  /\ asked' = [asked EXCEPT ![c] = 0]
  /\ UNCHANGED <<now, reported, diagnoses, fingerprints, limitVars,
                 loop, scan, passNow, failures, wakeAt>>

LookupHit(c) ==
  /\ pc[c] = "lookup"
  /\ \E i \in StoredDiagnoses :
       /\ IsCachedMatch(cur[c], i)
       /\ diag' = [diag EXCEPT ![cur[c]] = [@ EXCEPT !.from = diagnoses[i]]]
  /\ pc' = [pc EXCEPT ![c] = "clone"]
  /\ UNCHANGED <<now, reported, diagnoses, fingerprints, limitVars, cur, loopVars>>

\* A request passes bypass_rate_limit = True and skips try_acquire.
LookupMiss(c) ==
  /\ pc[c] = "lookup"
  /\ \A i \in StoredDiagnoses : ~IsCachedMatch(cur[c], i)
  /\ pc' = [pc EXCEPT ![c] = IF c = AutoCaller THEN "acquire" ELSE "llm"]
  /\ UNCHANGED <<now, storeVars, limitVars, cur, loopVars>>

CloneCached(c) ==
  /\ pc[c] = "clone"
  /\ LET source == diag[diag[cur[c]].from] IN Finish(c, "cached", source.conf, source.model)
  /\ UNCHANGED <<now, reported, diagnoses, fingerprints, limitVars, loopVars>>

\* MUTANT: the cooldown ends one unit early.
MayAcquireEarly(node) == now - lastCall[node] >= RateCooldown - 1

\* MUTANT: a call at the end of the cooldown is refused still (<= for <).
MayAcquireLate(node) == now - lastCall[node] > RateCooldown

\* DiagnosisRateLimiter.try_acquire. Only the automatic loop calls it, one call
\* at a time, so its clock read and its critical section are one step.
MayAcquire(node) == now - lastCall[node] >= RateCooldown

TryAcquire(c) ==
  LET node == NodeOf[diag[cur[c]].alert] IN
  /\ pc[c] = "acquire"
  /\ \/ /\ MayAcquire(node)
        /\ lastCall' = [lastCall EXCEPT ![node] = now]
        /\ grants' = grants \cup {[id |-> cur[c], node |-> node, at |-> now]}
        /\ pc' = [pc EXCEPT ![c] = "llm"]
        /\ UNCHANGED <<diag, cur>>
     \/ /\ ~MayAcquire(node)
        /\ MakeLlmUnavailableResult(c, "rate_limited")
        /\ UNCHANGED limitVars
  /\ UNCHANGED <<now, reported, diagnoses, fingerprints, loopVars>>

\* No API key, so no client; context preparation failed; the response lacks the tool
\* block or a required field: a failed result, whatever the alert type.
FailCall(c) ==
  /\ pc[c] = "llm"
  /\ MakeFailedResult(c, "failed")
  /\ UNCHANGED <<now, reported, diagnoses, fingerprints, limitVars, loopVars>>

\* The API call ends in an error: rate limit, timeout, or any other exception.
LlmError(c) ==
  /\ pc[c] = "llm"
  /\ MakeLlmUnavailableResult(c, "failed")
  /\ UNCHANGED <<now, reported, diagnoses, fingerprints, limitVars, loopVars>>

LlmCompletes(c) ==
  /\ pc[c] = "llm"
  /\ \E conf \in {"high", "low"} : Finish(c, "completed", conf, "llm")
  /\ UNCHANGED <<now, reported, diagnoses, fingerprints, limitVars, loopVars>>

Unfinished == {id \in DOMAIN diag : diag[id].status = "pending"}

\* A field of the response is out of range (a confidence above 1, an unknown
\* urgency): building the result raises, and nothing is stored.
LlmInvalid(c) ==
  /\ pc[c] = "llm"
  /\ Cardinality(Unfinished) <= MaxInvalid
  /\ pc' = [pc EXCEPT ![c] = "raised"]
  /\ UNCHANGED <<now, storeVars, limitVars, cur, loopVars>>

\* MUTANT: the rate-limited exit returns its result without storing it.
AddDiagnosisUnlessLimited(c) ==
  LET d == diag[cur[c]] IN
  /\ pc[c] = "add"
  /\ diagnoses' = IF d.status = "rate_limited" THEN diagnoses ELSE Append(diagnoses, cur[c])
  /\ pc' = [pc EXCEPT ![c] = IF d.status = "completed" /\ d.model = "llm"
                               THEN "index" ELSE "done"]
  /\ UNCHANGED <<now, reported, diag, fingerprints, limitVars, cur, loopVars>>

\* DiagnosisStore.add. Only a completed result of the LLM goes on to the index:
\* the fallback's and the clone's paths return after the add.
AddDiagnosis(c) ==
  LET d == diag[cur[c]] IN
  /\ pc[c] = "add"
  /\ diagnoses' = Append(diagnoses, cur[c])
  /\ pc' = [pc EXCEPT ![c] = IF d.status = "completed" /\ d.model = "llm"
                               THEN "index" ELSE "done"]
  /\ UNCHANGED <<now, reported, diag, fingerprints, limitVars, cur, loopVars>>

\* MUTANT: pruning drops the live ids too.
PrunedAll(fps, id, fp) == [i \in {id} |-> fp]

\* DiagnosisStore.index_fingerprint: drop the ids the ring has lost, then add.
Pruned(fps, id, fp) ==
  [i \in (DOMAIN fps \cap LiveIds) \cup {id} |-> IF i = id THEN fp ELSE fps[i]]

IndexFingerprint(c) ==
  /\ pc[c] = "index"
  /\ fingerprints' = Pruned(fingerprints, cur[c], FingerprintOf[diag[cur[c]].alert])
  /\ pc' = [pc EXCEPT ![c] = "done"]
  /\ UNCHANGED <<now, reported, diag, diagnoses, limitVars, cur, loopVars>>

-----------------------------------------------------------------------------
(* POST /diagnoses. *)

ManualCalls == {id \in DOMAIN diag : diag[id].by \in Requests}

CreateDiagnosis(r) ==
  /\ Free(r)
  /\ Cardinality(ManualCalls) < MaxManual
  /\ \E i \in StoredAlerts : asked' = [asked EXCEPT ![r] = i]
  /\ UNCHANGED <<now, storeVars, limitVars, callVars, loop, scan, passNow, failures, wakeAt>>

\* 201, 502, or 500 when diagnose raised.
Respond(r) ==
  /\ pc[r] \in {"done", "raised"}
  /\ pc' = [pc EXCEPT ![r] = "idle"]
  /\ cur' = [cur EXCEPT ![r] = 0]
  /\ UNCHANGED <<now, storeVars, limitVars, loopVars>>

-----------------------------------------------------------------------------
(* The automatic loop. *)

Delay(f) == LoopInterval * Min2(2^f, MaxBackoff)

\* When the clock has reached its bound, sleeps no longer hold the loop back.
Elapsed(t) == now >= t \/ now = MaxTime

Sleep(f) ==
  /\ loop' = "sleep"
  /\ failures' = f
  /\ wakeAt' = now + Delay(f)
  /\ scan' = {}
  /\ passNow' = 0

AutoWake ==
  /\ loop = "sleep"
  /\ Elapsed(wakeAt)
  /\ loop' = "pass"
  /\ scan' = CriticalWindow
  /\ passNow' = now
  /\ wakeAt' = 0
  /\ UNCHANGED <<now, storeVars, limitVars, callVars, asked, failures>>

\* MUTANT: the retry cooldown runs from the start of the failed call.
SkipsFromStart(a) ==
  \E i \in StoredDiagnoses :
    /\ IsNewestFor(a, i)
    /\ \/ diag[diagnoses[i]].status \in {"completed", "cached", "rate_limited"}
       \/ /\ diag[diagnoses[i]].status = "failed"
          /\ passNow - diag[diagnoses[i]].start < FailedRetryCooldown

\* Whether the loop leaves alert a alone, given its newest diagnosis.
Skips(a) ==
  \E i \in StoredDiagnoses :
    /\ IsNewestFor(a, i)
    /\ \/ diag[diagnoses[i]].status \in {"completed", "cached", "rate_limited"}
       \/ /\ diag[diagnoses[i]].status = "failed"
          /\ passNow - diag[diagnoses[i]].ts < FailedRetryCooldown

\* One turn of the for loop, newest alert first: what is found of the alert decides
\* whether it is handed to a thread.
AutoVisit ==
  /\ loop = "pass" /\ Free(AutoCaller)
  /\ \E i \in scan :
       /\ \A j \in scan : j <= i
       /\ scan' = scan \ {i}
       /\ asked' = [asked EXCEPT ![AutoCaller] = IF Skips(reported[i]) THEN 0 ELSE i]
  /\ UNCHANGED <<now, storeVars, limitVars, callVars, loop, passNow, failures, wakeAt>>

\* diagnose returned: broadcast a success, go on with the pass.
AutoResume ==
  /\ pc[AutoCaller] = "done"
  /\ pc' = [pc EXCEPT ![AutoCaller] = "idle"]
  /\ cur' = [cur EXCEPT ![AutoCaller] = 0]
  /\ UNCHANGED <<now, storeVars, limitVars, loopVars>>

AutoPassEnds ==
  /\ loop = "pass" /\ Free(AutoCaller) /\ scan = {}
  /\ Sleep(0)
  /\ UNCHANGED <<now, storeVars, limitVars, callVars, asked>>

\* MUTANT: the exception is not caught inside the loop and ends its task.
AutoPassAbortsForGood ==
  /\ \/ pc[AutoCaller] = "raised"
     \/ pc[AutoCaller] = "done" /\ diag[cur[AutoCaller]].status \in {"completed", "cached"}
  /\ pc' = [pc EXCEPT ![AutoCaller] = "idle"]
  /\ cur' = [cur EXCEPT ![AutoCaller] = 0]
  /\ loop' = "ended"
  /\ UNCHANGED <<now, storeVars, limitVars, asked, scan, passNow, failures, wakeAt>>

\* diagnose raised, or the broadcast of a success did: the rest of the pass is
\* given up and the loop backs off.
AutoPassAborts ==
  /\ \/ pc[AutoCaller] = "raised"
     \/ pc[AutoCaller] = "done" /\ diag[cur[AutoCaller]].status \in {"completed", "cached"}
  /\ pc' = [pc EXCEPT ![AutoCaller] = "idle"]
  /\ cur' = [cur EXCEPT ![AutoCaller] = 0]
  /\ Sleep(Min2(failures + 1, FailureCap))
  /\ UNCHANGED <<now, storeVars, limitVars, asked>>

-----------------------------------------------------------------------------

\* ReportAlert of the gRPC server, or a detector: AlertStore.add.
ReportAlert(a) ==
  /\ \A i \in DOMAIN reported : reported[i] # a
  /\ reported' = Append(reported, a)
  /\ UNCHANGED <<now, diag, diagnoses, fingerprints, limitVars, callVars, loopVars>>

Tick ==
  /\ now < MaxTime
  /\ now' = now + 1
  /\ UNCHANGED <<storeVars, limitVars, callVars, loopVars>>

Init ==
  /\ now = StartTime
  /\ reported = <<>>
  /\ diag = <<>>
  /\ diagnoses = <<>>
  /\ fingerprints = <<>>
  /\ lastCall = [n \in Nodes |-> 0]
  /\ grants = {}
  /\ pc = [c \in Callers |-> "idle"]
  /\ cur = [c \in Callers |-> 0]
  /\ asked = [c \in Callers |-> 0]
  /\ loop = "sleep"
  /\ scan = {}
  /\ passNow = 0
  /\ failures = 0
  /\ wakeAt = StartTime + Delay(0)

\* The steps of one call of diagnose after its entry.
Step(c) ==
  \/ LookupHit(c) \/ LookupMiss(c) \/ CloneCached(c) \/ TryAcquire(c)
  \/ FailCall(c) \/ LlmError(c) \/ LlmCompletes(c) \/ LlmInvalid(c)
  \/ AddDiagnosis(c) \/ IndexFingerprint(c)

AutoLoop == AutoWake \/ AutoVisit \/ AutoResume \/ AutoPassEnds \/ AutoPassAborts

Next ==
  \/ \E c \in Callers : Enter(c) \/ Step(c)
  \/ \E r \in Requests : CreateDiagnosis(r) \/ Respond(r)
  \/ AutoLoop
  \/ \E a \in Alerts : ReportAlert(a)
  \/ Tick

Spec == Init /\ [][Next]_vars

\* Threads run, the event loop runs, time passes; alerts and requests need not come.
Fairness ==
  /\ \A c \in Callers : WF_vars(Enter(c) \/ Step(c))
  /\ \A r \in Requests : WF_vars(Respond(r))
  /\ WF_vars(AutoLoop)
  /\ WF_vars(Tick)

FairSpec == Spec /\ Fairness

-----------------------------------------------------------------------------
(* Properties. *)

\* Diagnosis s may answer the alert of diagnosis id in its place.
IsSource(s, id) ==
  /\ diag[s].status = "completed" /\ diag[s].model = "llm" /\ diag[s].conf = "high"
  /\ FingerprintOf[diag[s].alert] = FingerprintOf[diag[id].alert]
  /\ diag[id].start - diag[s].ts <= ResultCacheTtl

\* Every cached answer was cloned from a diagnosis the LLM completed (never from
\* a fallback or from another clone), with high confidence, for an alert of the
\* same fingerprint, and at most the TTL old when the call began
\* (store.py find_cached_match, agent.py phase 0).
CacheSound ==
  \A id \in DOMAIN diag : diag[id].status = "cached" =>
    diag[id].from \in DOMAIN diag /\ IsSource(diag[id].from, id)

\* The index and the ring agree although add and index_fingerprint are separate
\* critical sections: what is indexed is a completed LLM result under its own
\* fingerprint, and a completed LLM result still in the ring is indexed unless the
\* thread that added it has not got that far (store.py index_fingerprint). It "never grows
\* without bound": pruning keeps it within one entry of the ring's size even when an id was
\* evicted before it was indexed (store.py:23-24).
IndexIsTrue ==
  \A id \in DOMAIN fingerprints :
    /\ diag[id].status = "completed" /\ diag[id].model = "llm"
    /\ fingerprints[id] = FingerprintOf[diag[id].alert]

IndexAgrees ==
  /\ IndexIsTrue
  /\ \A id \in LiveIds : diag[id].status = "completed" /\ diag[id].model = "llm" =>
       \/ id \in DOMAIN fingerprints
       \/ \E c \in Callers : pc[c] = "index" /\ cur[c] = id
  /\ Cardinality(DOMAIN fingerprints) <= MaxDiagnoses + 1

\* Every finished call stores its result exactly once, whichever of the nine exits
\* of diagnose it took; no exit stores an unfinished one.
StoredOnce ==
  \A id \in DOMAIN diag :
    LET at == {i \in DOMAIN diagnoses : diagnoses[i] = id} IN
      IF diag[id].status = "pending" \/ \E c \in Callers : pc[c] = "add" /\ cur[c] = id
        THEN at = {}
        ELSE Cardinality(at) = 1

\* Paid calls of the automatic loop are spaced per node, however failures, raised
\* responses and requests interleave: each one holds a slot of its own, and two slots
\* of a node are RateCooldown apart (rate_limiter.py, agent.py rate limit check).
PaidCallsSpaced ==
  /\ \A id \in DOMAIN diag :
       diag[id].by = AutoCaller /\ diag[id].status = "completed" /\ diag[id].model = "llm" =>
         \E g \in grants : g.id = id
  /\ \A g, h \in grants :
       g.node = h.node /\ g # h =>
         g.at - h.at >= RateCooldown \/ h.at - g.at >= RateCooldown

\* A call is only answered rate_limited because another call of the automatic loop got
\* the node's slot less than RateCooldown before, or because the monotonic clock has not
\* yet reached RateCooldown (rate_limiter.py:25 starts from 0.0); a request never is.
HasSlotBefore(id) ==
  \E g \in grants : /\ g.node = NodeOf[diag[id].alert] /\ g.id < id
                   /\ g.at <= diag[id].ts /\ diag[id].ts - g.at < RateCooldown

RefusalsJustified ==
  \A id \in DOMAIN diag : diag[id].status = "rate_limited" =>
    /\ diag[id].by = AutoCaller
    /\ diag[id].ts < RateCooldown \/ HasSlotBefore(id)

\* The automatic loop calls diagnose again for an alert only when a result of that alert
\* at least as new as its own last one has failed, and FailedRetryCooldown before by the
\* real clock, although the loop compares with a clock read before the awaits of the pass
\* and requests store results for the same alert meanwhile (main.py:188, "retry failed
\* diagnoses at most once a minute"). What the ring has lost is forgotten, and a call that
\* raised has left nothing.
IsFailedSince(x, i, j, t) ==
  /\ i <= j /\ diagnoses[i] = x
  /\ LET z == diag[diagnoses[j]] IN
       z.alert = diag[x].alert /\ z.status = "failed" /\ t - z.ts >= FailedRetryCooldown

MayRetry(x, t) ==
  x \in LiveIds => \E i, j \in DOMAIN diagnoses : IsFailedSince(x, i, j, t)

RetriesSpaced ==
  \A x, y \in DOMAIN diag :
    /\ x < y /\ diag[x].alert = diag[y].alert
    /\ diag[x].by = AutoCaller /\ diag[y].by = AutoCaller
    /\ diag[x].status # "pending"
    => MayRetry(x, diag[y].start)

\* A CRITICAL alert among the newest QueryLimit gets a result of the automatic loop in the
\* end, if only a failed or a rate-limited one, unless newer ones push it out: evictions,
\* refusals, aborted passes and backoff delay it only, provided that the malformed
\* responses come to an end (MaxInvalid) and that every alert can be hashed.
IsAttempted(a) == \E i \in DOMAIN diagnoses : diag[diagnoses[i]].alert = a
IsRecent(a) == \E i \in CriticalWindow : reported[i] = a
RecentAttempted == \A a \in Critical \ Unhashable : IsRecent(a) ~> (IsAttempted(a) \/ ~IsRecent(a))

\* "Automatically diagnose CRITICAL alerts that lack a successful diagnosis" (main.py:192):
\* each of them is at least attempted, an alert whose own fingerprint raises left out.
IsReported(a) == \E i \in DOMAIN reported : reported[i] = a
CriticalAttempted == \A a \in Critical \ Unhashable : IsReported(a) ~> IsAttempted(a)
=============================================================================
