-------------------------- MODULE DiagnosisProofs --------------------------
(* Theorems of Diagnosis: types, the soundness of the result cache and the  *)
(* spacing of the paid calls, for every value of the constants.             *)
EXTENDS Diagnosis, RankingProofs, SequenceTheorems, TLAPS

USE DEF Time

-----------------------------------------------------------------------------
(* The table of diagnoses. *)

LEMMA AlertOfRecord ==
  ASSUME TypeOK, NEW id \in DOMAIN diag
  PROVE  diag[id] \in Diagnosis /\ diag[id].alert \in Alerts
  <1>1. diag[id] \in Diagnosis
    BY DEF TypeOK
  <1> QED
    BY <1>1 DEF Diagnosis

\* What Finish writes: one record, of the same call, and no other.
LEMMA FinishTable ==
  ASSUME TypeOK, NEW c \in Callers, cur[c] \in DOMAIN diag,
         NEW s \in Statuses, NEW f \in {"high", "low", "none"},
         NEW m \in {"llm", "fallback", "none"}, Finish(c, s, f, m)
  PROVE  /\ diag' \in Seq(Diagnosis)
         /\ DOMAIN diag' = DOMAIN diag
         /\ \A id \in DOMAIN diag \ {cur[c]} : diag'[id] = diag[id]
         /\ LET d == diag[cur[c]] IN
              /\ diag'[cur[c]].alert = d.alert
              /\ diag'[cur[c]].by = d.by
              /\ diag'[cur[c]].start = d.start
              /\ diag'[cur[c]].from = d.from
         /\ diag'[cur[c]].ts = now
         /\ diag'[cur[c]].status = s
         /\ diag'[cur[c]].conf = f
         /\ diag'[cur[c]].model = m
  <1> DEFINE d == [diag[cur[c]] EXCEPT !.ts = now, !.status = s, !.conf = f, !.model = m]
  <1>1. diag[cur[c]] \in Diagnosis
    BY DEF TypeOK
  <1>2. d \in Diagnosis
    BY <1>1 DEF TypeOK, Diagnosis
  <1>7. /\ d.alert = diag[cur[c]].alert /\ d.by = diag[cur[c]].by
        /\ d.start = diag[cur[c]].start /\ d.from = diag[cur[c]].from
        /\ d.ts = now /\ d.status = s /\ d.conf = f /\ d.model = m
    BY <1>1 DEF Diagnosis
  <1>3. diag' = [diag EXCEPT ![cur[c]] = d]
    BY DEF Finish
  <1> HIDE DEF d
  <1>4. DOMAIN diag = 1 .. Len(diag)
    BY DEF TypeOK
  <1>5. /\ [diag EXCEPT ![cur[c]] = d] \in Seq(Diagnosis)
        /\ Len([diag EXCEPT ![cur[c]] = d]) = Len(diag)
        /\ \A j \in 1 .. Len(diag) :
             [diag EXCEPT ![cur[c]] = d][j] = IF j = cur[c] THEN d ELSE diag[j]
    BY <1>2, <1>4, ExceptSeq DEF TypeOK
  <1>6. DOMAIN diag' = DOMAIN diag
    BY <1>3, <1>4, <1>5
  <1> QED
    BY <1>3, <1>4, <1>5, <1>6, <1>7

\* What the entry of diagnose appends.
LEMMA DiagnoseTable ==
  ASSUME TypeOK, NEW c \in Callers, NEW a \in Alerts, a \notin Unhashable, Diagnose(c, a)
  PROVE  /\ diag' \in Seq(Diagnosis)
         /\ Len(diag') = Len(diag) + 1
         /\ DOMAIN diag' = DOMAIN diag \cup {Len(diag) + 1}
         /\ Len(diag) + 1 \notin DOMAIN diag
         /\ \A id \in DOMAIN diag : diag'[id] = diag[id]
         /\ diag'[Len(diag) + 1] =
              [alert |-> a, by |-> c, start |-> now, ts |-> now, status |-> "pending",
               conf |-> "none", model |-> "none", from |-> 0]
  <1> DEFINE d == [alert |-> a, by |-> c, start |-> now, ts |-> now, status |-> "pending",
                   conf |-> "none", model |-> "none", from |-> 0]
  <1>1. d \in Diagnosis
    BY DEF TypeOK, Diagnosis, Statuses
  <1>2. diag' = Append(diag, d)
    BY DEF Diagnose, AlertFingerprintRaises
  <1> HIDE DEF d
  <1>3. /\ diag' \in Seq(Diagnosis)
        /\ Len(diag') = Len(diag) + 1
        /\ \A i \in 1 .. Len(diag) : diag'[i] = diag[i]
        /\ diag'[Len(diag) + 1] = d
    BY <1>1, <1>2, AppendProperties DEF TypeOK
  <1>4. DOMAIN diag = 1 .. Len(diag) /\ DOMAIN diag' = 1 .. Len(diag')
    BY <1>3 DEF TypeOK
  <1>5. Len(diag) \in Nat
    BY DEF TypeOK
  <1> QED
    BY <1>3, <1>4, <1>5 DEF d

-----------------------------------------------------------------------------
(* Types. *)

LEMMA TypeInit == Init => TypeOK
  BY CallersAssumption, AlertAssumption, ParameterAssumption, SMTT(30)
  DEF Init, TypeOK, Callers, Phases, Delay, Min2

\* The table and the id of every busy thread stay typed when a call finishes.
LEMMA FinishTypes ==
  ASSUME TypeOK, NEW c \in Callers, pc[c] \notin {"idle", "raised"},
         NEW s \in Statuses, NEW f \in {"high", "low", "none"},
         NEW m \in {"llm", "fallback", "none"}, Finish(c, s, f, m),
         UNCHANGED <<now, reported, diagnoses, fingerprints, lastCall, grants, loopVars>>
  PROVE  TypeOK'
  <1>1. cur[c] \in DOMAIN diag
    BY DEF TypeOK
  <1>2. diag' \in Seq(Diagnosis) /\ DOMAIN diag' = DOMAIN diag
    BY <1>1, FinishTable
  <1>3. cur' = cur /\ pc' = [pc EXCEPT ![c] = "add"]
    BY DEF Finish
  <1>4. \A k \in Callers : pc'[k] = "clone" => diag'[cur'[k]].from \in DOMAIN diag'
    <2> SUFFICES ASSUME NEW k \in Callers, pc'[k] = "clone"
                 PROVE  diag'[cur'[k]].from \in DOMAIN diag'
      OBVIOUS
    <2>1. pc[k] = "clone"
      BY <1>3 DEF TypeOK
    <2>2. cur[k] \in DOMAIN diag /\ diag[cur[k]].from \in DOMAIN diag
      BY <2>1 DEF TypeOK
    <2>3. diag'[cur[k]].from = diag[cur[k]].from
      <3>1. CASE cur[k] = cur[c]
        BY <1>1, <3>1, FinishTable
      <3>2. CASE cur[k] # cur[c]
        BY <1>1, <2>2, <3>2, FinishTable
      <3> QED
        BY <3>1, <3>2
    <2> QED
      BY <1>2, <1>3, <2>2, <2>3
  <1> QED
    BY <1>2, <1>3, <1>4 DEF TypeOK, loopVars, Phases

LEMMA UnavailableTypes ==
  ASSUME TypeOK, NEW c \in Callers, pc[c] \notin {"idle", "raised"},
         NEW s \in Statuses, MakeLlmUnavailableResult(c, s),
         UNCHANGED <<now, reported, diagnoses, fingerprints, lastCall, grants, loopVars>>
  PROVE  TypeOK'
  <1>1. cur[c] \in DOMAIN diag
    BY DEF TypeOK
  <1>2. CASE diag[cur[c]].alert \in FallbackAlerts
    <2>1. FallbackConf[diag[cur[c]].alert] \in {"high", "low", "none"}
      BY <1>2, AlertAssumption
    <2> QED
      BY <1>2, <2>1, FinishTypes DEF MakeLlmUnavailableResult, MakeLocalFallbackResult, Statuses
  <1>3. CASE diag[cur[c]].alert \notin FallbackAlerts
    BY <1>3, FinishTypes DEF MakeLlmUnavailableResult, MakeLocalFallbackResult, MakeFailedResult
  <1> QED
    BY <1>2, <1>3

\* The entry of diagnose, by whichever thread.
LEMMA DiagnoseTypes ==
  ASSUME TypeOK, NEW c \in Callers, NEW a \in Alerts, Diagnose(c, a),
         reported' = reported, diagnoses' = diagnoses, fingerprints' = fingerprints,
         lastCall' = lastCall, grants' = grants, now' = now, loop' = loop, scan' = scan,
         passNow' = passNow, failures' = failures, wakeAt' = wakeAt,
         asked' = [asked EXCEPT ![c] = 0]
  PROVE  TypeOK'
  <1>1. CASE a \in Unhashable
    BY <1>1 DEF TypeOK, Diagnose, AlertFingerprintRaises, Phases
  <1>2. CASE a \notin Unhashable
    <2>1. /\ diag' \in Seq(Diagnosis)
          /\ DOMAIN diag' = DOMAIN diag \cup {Len(diag) + 1}
      BY <1>2, DiagnoseTable
    <2>2. /\ cur' = [cur EXCEPT ![c] = Len(diag) + 1]
          /\ pc' = [pc EXCEPT ![c] = "lookup"]
      BY <1>2 DEF Diagnose, AlertFingerprintRaises
    <2>3. Len(diag) + 1 \in Nat
      BY DEF TypeOK
    <2>4. diagnoses' \in Seq(DOMAIN diag')
      <3>1. DOMAIN diag \subseteq DOMAIN diag'
        BY <2>1
      <3> QED
        BY <3>1 DEF TypeOK
    <2>5. grants' \subseteq [id: DOMAIN diag', node: Nodes, at: Time]
      BY <2>1 DEF TypeOK
    <2>6. pc' \in [Callers -> Phases] /\ cur' \in [Callers -> Nat]
      BY <2>2, <2>3 DEF TypeOK, Phases
    <2>8. \A k \in Callers : pc'[k] = "clone" => diag'[cur'[k]].from \in DOMAIN diag'
      <3> SUFFICES ASSUME NEW k \in Callers, pc'[k] = "clone"
                   PROVE  diag'[cur'[k]].from \in DOMAIN diag'
        OBVIOUS
      <3>1. k # c /\ pc[k] = "clone" /\ cur'[k] = cur[k]
        BY <2>2 DEF TypeOK
      <3>2. diag'[cur[k]] = diag[cur[k]]
        BY <1>2, <3>1, DiagnoseTable DEF TypeOK
      <3> QED
        BY <2>1, <3>1, <3>2 DEF TypeOK
    <2>7. \A k \in Callers : pc'[k] \notin {"idle", "raised"} => cur'[k] \in DOMAIN diag'
      BY <2>1, <2>2 DEF TypeOK
    <2> QED
      BY <2>1, <2>4, <2>5, <2>6, <2>7, <2>8 DEF TypeOK
  <1> QED
    BY <1>1, <1>2

LEMMA SleepTypes ==
  ASSUME NEW f \in Nat, now \in Nat, Sleep(f)
  PROVE  loop' = "sleep" /\ failures' \in Nat /\ wakeAt' \in Int /\ scan' = {} /\ passNow' \in Nat
  <1>1. 2^f \in Int
    OBVIOUS
  <1>2. Min2(2^f, MaxBackoff) \in Int
    BY <1>1, ParameterAssumption DEF Min2
  <1>3. Delay(f) \in Int
    BY <1>2, ParameterAssumption DEF Delay
  <1> QED
    BY <1>3 DEF Sleep

LEMMA TypeStep == TypeOK /\ [Next]_vars => TypeOK'
  <1> SUFFICES ASSUME TypeOK, [Next]_vars PROVE TypeOK'
    OBVIOUS
  <1>1. ASSUME NEW c \in Callers, Step(c) PROVE TypeOK'
    <2>0. /\ c \in DOMAIN pc
          /\ pc[c] \notin {"idle", "raised"} => cur[c] \in DOMAIN diag
      BY DEF TypeOK
    <2>1. CASE LookupHit(c)
      <3>1. PICK i \in StoredDiagnoses :
              diag' = [diag EXCEPT ![cur[c]] = [@ EXCEPT !.from = diagnoses[i]]]
        BY <2>1 DEF LookupHit
      <3>2. diagnoses[i] \in DOMAIN diag
        BY <3>1 DEF TypeOK, StoredDiagnoses
      <3>3. cur[c] \in 1 .. Len(diag) /\ DOMAIN diag = 1 .. Len(diag)
        BY <2>0, <2>1 DEF TypeOK, LookupHit
      <3>4. [diag[cur[c]] EXCEPT !.from = diagnoses[i]] \in Diagnosis
        <4>1. diag[cur[c]] \in Diagnosis /\ diagnoses[i] \in Nat
          BY <3>2, <3>3 DEF TypeOK
        <4> QED
          BY <4>1 DEF Diagnosis
      <3>5. diag' \in Seq(Diagnosis) /\ Len(diag') = Len(diag)
        BY <3>1, <3>3, <3>4, ExceptSeq DEF TypeOK
      <3>6. DOMAIN diag' = DOMAIN diag
        BY <3>3, <3>5
      <3>7. pc[c] = "lookup" /\ pc' = [pc EXCEPT ![c] = "clone"] /\ cur' = cur
        BY <2>1 DEF LookupHit
      <3>8. UNCHANGED <<now, reported, diagnoses, fingerprints, limitVars, loopVars>>
        BY <2>1 DEF LookupHit
      <3>9. \A k \in Callers : pc'[k] = "clone" => diag'[cur'[k]].from \in DOMAIN diag'
        <4> SUFFICES ASSUME NEW k \in Callers, pc'[k] = "clone"
                     PROVE  diag'[cur[k]].from \in DOMAIN diag'
          BY <3>7
        <4>1. CASE cur[k] = cur[c]
          <5>1. diag'[cur[c]] = [diag[cur[c]] EXCEPT !.from = diagnoses[i]]
            BY <3>1, <3>3 DEF TypeOK
          <5>2. diag[cur[c]] \in Diagnosis
            BY <2>0, <2>1 DEF TypeOK, LookupHit
          <5>3. diag'[cur[c]].from = diagnoses[i]
            BY <5>1, <5>2 DEF Diagnosis
          <5> QED
            BY <3>2, <3>6, <4>1, <5>3
        <4>2. CASE cur[k] # cur[c]
          <5>1. pc[k] = "clone" /\ cur[k] \in DOMAIN diag
            BY <3>7, <4>2 DEF TypeOK
          <5>2. diag'[cur[k]] = diag[cur[k]]
            BY <3>1, <4>2, <5>1 DEF TypeOK
          <5> QED
            BY <3>6, <5>1, <5>2 DEF TypeOK
        <4> QED
          BY <4>1, <4>2
      <3> QED
        BY <2>0, <3>5, <3>6, <3>7, <3>8, <3>9 DEF TypeOK, Phases, limitVars, loopVars
    <2>2. CASE LookupMiss(c)
      BY <2>2 DEF TypeOK, LookupMiss, Phases, storeVars, limitVars, callVars, loopVars
    <2>3. CASE CloneCached(c)
      <3>1. pc[c] = "clone"
        BY <2>3 DEF CloneCached, storeVars, limitVars, callVars, loopVars
      <3>2. diag[diag[cur[c]].from] \in Diagnosis
        BY <3>1 DEF TypeOK
      <3> QED
        BY <2>3, <3>1, <3>2, FinishTypes DEF CloneCached, Diagnosis, Statuses, storeVars, limitVars, callVars, loopVars
    <2>4. CASE TryAcquire(c)
      <3>1. CASE /\ MayAcquire(NodeOf[diag[cur[c]].alert])
                 /\ lastCall' = [lastCall EXCEPT ![NodeOf[diag[cur[c]].alert]] = now]
                 /\ grants' = grants \cup
                      {[id |-> cur[c], node |-> NodeOf[diag[cur[c]].alert], at |-> now]}
                 /\ pc' = [pc EXCEPT ![c] = "llm"]
                 /\ UNCHANGED <<diag, cur>>
        <4>1. NodeOf[diag[cur[c]].alert] \in Nodes
          BY <2>0, <2>4, AlertOfRecord, AlertAssumption DEF TryAcquire, storeVars, limitVars, callVars, loopVars
        <4>2. UNCHANGED <<now, reported, diagnoses, fingerprints, loopVars>>
          BY <2>4 DEF TryAcquire, storeVars, limitVars, callVars, loopVars
        <4> QED
          BY <2>0, <2>4, <3>1, <4>1, <4>2, SMTT(30) DEF TypeOK, Phases, TryAcquire, storeVars, limitVars, callVars, loopVars
      <3>2. CASE MakeLlmUnavailableResult(c, "rate_limited") /\ UNCHANGED limitVars
        BY <2>4, <3>2, UnavailableTypes DEF TryAcquire, Statuses, storeVars, limitVars, callVars, loopVars
      <3> QED
        BY <2>4, <3>1, <3>2 DEF TryAcquire, storeVars, limitVars, callVars, loopVars
    <2>5. CASE FailCall(c)
      BY <2>5, FinishTypes DEF FailCall, MakeFailedResult, Statuses, storeVars, limitVars, callVars, loopVars
    <2>6. CASE LlmError(c)
      BY <2>6, UnavailableTypes DEF LlmError, Statuses, storeVars, limitVars, callVars, loopVars
    <2>7. CASE LlmCompletes(c)
      BY <2>7, FinishTypes DEF LlmCompletes, Statuses, storeVars, limitVars, callVars, loopVars
    <2>8. CASE LlmInvalid(c)
      BY <2>8 DEF TypeOK, LlmInvalid, Phases, storeVars, limitVars, callVars, loopVars
    <2>9. CASE AddDiagnosis(c)
      <3>1. diagnoses' \in Seq(DOMAIN diag)
        BY <2>0, <2>9, AppendProperties DEF TypeOK, AddDiagnosis, storeVars, limitVars, callVars, loopVars
      <3> QED
        BY <2>0, <2>9, <3>1 DEF TypeOK, AddDiagnosis, Phases, storeVars, limitVars, callVars, loopVars
    <2>10. CASE IndexFingerprint(c)
      <3>1. FingerprintOf[diag[cur[c]].alert] \in Fingerprints
        BY <2>0, <2>10, AlertOfRecord, AlertAssumption DEF IndexFingerprint, storeVars, limitVars, callVars, loopVars
      <3>2. /\ DOMAIN fingerprints' \subseteq DOMAIN diag
            /\ \A id \in DOMAIN fingerprints' : fingerprints'[id] \in Fingerprints
        BY <2>0, <2>10, <3>1 DEF TypeOK, IndexFingerprint, Pruned, storeVars, limitVars, callVars, loopVars
      <3> QED
        BY <2>0, <2>10, <3>2 DEF TypeOK, IndexFingerprint, Phases, storeVars, limitVars, callVars, loopVars
    <2> QED
      BY <1>1, <2>1, <2>2, <2>3, <2>4, <2>5, <2>6, <2>7, <2>8, <2>9, <2>10 DEF Step
  <1>2. ASSUME NEW r \in Requests, CreateDiagnosis(r) PROVE TypeOK'
    BY <1>2 DEF TypeOK, CreateDiagnosis, StoredAlerts, Callers, storeVars, limitVars, callVars
  <1>3. ASSUME NEW r \in Requests, Respond(r) PROVE TypeOK'
    BY <1>3 DEF TypeOK, Respond, Phases, Callers, storeVars, limitVars, callVars, loopVars
  <1>4. CASE AutoWake
    BY <1>4 DEF TypeOK, AutoWake, CriticalWindow, StoredAlerts, storeVars, limitVars, callVars, loopVars
  <1>5. CASE AutoVisit
    <2>1. PICK i \in scan :
            /\ scan' = scan \ {i}
            /\ asked' = [asked EXCEPT ![AutoCaller] = IF Skips(reported[i]) THEN 0 ELSE i]
      BY <1>5 DEF AutoVisit
    <2>2. UNCHANGED <<now, storeVars, limitVars, callVars, loop, passNow, failures, wakeAt>>
      BY <1>5 DEF AutoVisit
    <2>3. i \in DOMAIN reported /\ i \in Nat
      BY <2>1 DEF TypeOK
    <2> QED
      BY <2>1, <2>2, <2>3 DEF TypeOK, Callers, storeVars, limitVars, callVars
  <1>6. CASE AutoResume
    BY <1>6 DEF TypeOK, AutoResume, Phases, Callers, storeVars, limitVars, callVars, loopVars
  <1>7. CASE AutoPassEnds
    <2>1. loop' = "sleep" /\ failures' \in Nat /\ wakeAt' \in Int /\ scan' = {} /\ passNow' \in Nat
      BY <1>7, SleepTypes DEF AutoPassEnds, TypeOK, storeVars, limitVars, callVars, loopVars
    <2> QED
      BY <1>7, <2>1 DEF TypeOK, AutoPassEnds, storeVars, limitVars, callVars, loopVars
  <1>8. CASE AutoPassAborts
    <2>0. failures \in Nat /\ FailureCap \in Nat
      BY ParameterAssumption DEF TypeOK
    <2>1. Min2(failures + 1, FailureCap) \in Nat
      BY <2>0 DEF Min2
    <2>2. loop' = "sleep" /\ failures' \in Nat /\ wakeAt' \in Int /\ scan' = {} /\ passNow' \in Nat
      BY <1>8, <2>1, SleepTypes DEF AutoPassAborts, TypeOK, storeVars, limitVars, callVars, loopVars
    <2>3. pc' \in [Callers -> Phases] /\ cur' \in [Callers -> Nat]
      BY <1>8 DEF TypeOK, AutoPassAborts, Phases, Callers, storeVars, limitVars, callVars, loopVars
    <2> QED
      BY <1>8, <2>2, <2>3 DEF TypeOK, AutoPassAborts, storeVars, limitVars, callVars, loopVars
  <1>9. ASSUME NEW a \in Alerts, ReportAlert(a) PROVE TypeOK'
    <2>1. reported' \in Seq(Alerts) /\ DOMAIN reported \subseteq DOMAIN reported'
      BY <1>9, AppendProperties DEF TypeOK, ReportAlert, storeVars, limitVars, callVars, loopVars
    <2> QED
      BY <1>9, <2>1 DEF TypeOK, ReportAlert, storeVars, limitVars, callVars, loopVars
  <1>10. CASE Tick
    BY <1>10 DEF TypeOK, Tick, storeVars, limitVars, callVars, loopVars
  <1>11. CASE UNCHANGED vars
    BY <1>11 DEF TypeOK, vars, storeVars, limitVars, callVars, loopVars
  <1>12. ASSUME NEW c \in Callers, Enter(c) PROVE TypeOK'
    <2>1. reported[asked[c]] \in Alerts
      BY <1>12 DEF TypeOK, Enter
    <2> QED
      BY <1>12, <2>1, DiagnoseTypes DEF Enter, limitVars
  <1> QED
    BY <1>1, <1>2, <1>3, <1>4, <1>5, <1>6, <1>7, <1>8, <1>9, <1>10, <1>11, <1>12
    DEF Next, AutoLoop

\* Every variable keeps its type in every behaviour: in particular a busy thread's id
\* is that of a stored record, and a clone's source exists.
THEOREM TypeCorrect == Spec => []TypeOK
  BY TypeInit, TypeStep, PTL DEF Spec

-----------------------------------------------------------------------------
(* The result cache. *)

\* A busy thread works on a record of its own, so no two of them share one.
Mine ==
  \A c \in Callers : pc[c] \notin {"idle", "raised"} => diag[cur[c]].by = c

\* Until its result is made, the record says pending: nobody else can refer to it.
Working ==
  \A c \in Callers :
    pc[c] \in {"lookup", "clone", "acquire", "llm"} => diag[cur[c]].status = "pending"

\* Only completed results of the LLM go on to the index.
Indexing ==
  \A c \in Callers : pc[c] = "index" =>
    diag[cur[c]].status = "completed" /\ diag[cur[c]].model = "llm"

\* What a thread is about to clone is fit to be cloned.
Cloning ==
  \A c \in Callers : pc[c] = "clone" => IsSource(diag[cur[c]].from, cur[c])

CacheInv == TypeOK /\ Mine /\ Working /\ Indexing /\ IndexIsTrue /\ Cloning /\ CacheSound

\* A finished diagnosis never changes, and a pending one keeps its alert, its caller and
\* its start.
Settles ==
  /\ DOMAIN diag \subseteq DOMAIN diag'
  /\ \A id \in DOMAIN diag :
       /\ diag'[id].alert = diag[id].alert
       /\ diag'[id].by = diag[id].by
       /\ diag'[id].start = diag[id].start
       /\ diag[id].status # "pending" => diag'[id] = diag[id]

LEMMA SourceStable ==
  ASSUME Settles, NEW s \in DOMAIN diag, NEW id \in DOMAIN diag, IsSource(s, id)
  PROVE  IsSource(s, id)'
  <1>1. diag'[s] = diag[s]
    BY DEF Settles, IsSource
  <1>2. diag'[id].alert = diag[id].alert /\ diag'[id].start = diag[id].start
    BY DEF Settles
  <1> QED
    BY <1>1, <1>2 DEF IsSource

LEMMA CacheInit == Init => CacheInv
  BY TypeInit DEF Init, CacheInv, Mine, Working, Indexing, IndexIsTrue, Cloning, CacheSound

\* Finishing a call keeps the invariant, when a cached result has a source to show.
LEMMA FinishKeepsCache ==
  ASSUME CacheInv, TypeOK', NEW c \in Callers, pc[c] \in {"clone", "acquire", "llm"},
         NEW s \in Statuses, NEW f \in {"high", "low", "none"},
         NEW m \in {"llm", "fallback", "none"}, Finish(c, s, f, m),
         fingerprints' = fingerprints,
         s = "cached" => pc[c] = "clone"
  PROVE  CacheInv'
  <1>1. cur[c] \in DOMAIN diag /\ diag[cur[c]].status = "pending" /\ TypeOK
    BY DEF CacheInv, TypeOK, Working
  <1>2. /\ DOMAIN diag' = DOMAIN diag
        /\ \A id \in DOMAIN diag \ {cur[c]} : diag'[id] = diag[id]
        /\ diag'[cur[c]].alert = diag[cur[c]].alert
        /\ diag'[cur[c]].by = diag[cur[c]].by
        /\ diag'[cur[c]].start = diag[cur[c]].start
        /\ diag'[cur[c]].from = diag[cur[c]].from
        /\ diag'[cur[c]].status = s
    BY <1>1, FinishTable
  <1>3. cur' = cur /\ pc' = [pc EXCEPT ![c] = "add"]
    BY DEF Finish
  <1>4. Settles
    BY <1>1, <1>2 DEF Settles
  <1>5. \A k \in Callers : k # c /\ pc[k] \notin {"idle", "raised"} =>
          cur[k] \in DOMAIN diag /\ cur[k] # cur[c] /\ diag'[cur[k]] = diag[cur[k]]
    BY <1>1, <1>2, ZenonT(30) DEF CacheInv, Mine, TypeOK
  <1>6. Mine'
    BY <1>2, <1>3, <1>5 DEF CacheInv, Mine, TypeOK
  <1>7. Working' /\ Indexing'
    BY <1>3, <1>5 DEF CacheInv, Working, Indexing, TypeOK
  <1>8. IndexIsTrue'
    BY <1>4, ZenonT(30) DEF CacheInv, IndexIsTrue, Settles, TypeOK
  <1>9. Cloning'
    <2> SUFFICES ASSUME NEW k \in Callers, pc'[k] = "clone"
                 PROVE  IsSource(diag[cur[k]].from, cur[k])'
      BY DEF Cloning
    <2>1. k # c /\ pc[k] = "clone"
      BY <1>1, <1>3 DEF TypeOK
    <2>2. /\ cur[k] \in DOMAIN diag /\ diag'[cur[k]] = diag[cur[k]]
          /\ diag[cur[k]].from \in DOMAIN diag
          /\ IsSource(diag[cur[k]].from, cur[k])
      BY <1>1, <1>5, <2>1 DEF CacheInv, Cloning, TypeOK
    <2>3. IsSource(diag[cur[k]].from, cur[k])'
      BY <1>3, <1>4, <2>2, SourceStable DEF IsSource
    <2> QED
      BY <2>3
  <1>10. CacheSound'
    <2> SUFFICES ASSUME NEW id \in DOMAIN diag, diag'[id].status = "cached"
                 PROVE  diag'[id].from \in DOMAIN diag' /\ IsSource(diag[id].from, id)'
      BY <1>2 DEF CacheSound
    <2>1. /\ diag'[id].from = diag[id].from
          /\ diag[id].from \in DOMAIN diag
          /\ IsSource(diag[id].from, id)
      <3>1. CASE id = cur[c]
        BY <1>1, <1>2, <3>1 DEF CacheInv, Cloning, TypeOK
      <3>2. CASE id # cur[c]
        BY <1>2, <3>2 DEF CacheInv, CacheSound
      <3> QED
        BY <3>1, <3>2
    <2> QED
      BY <1>2, <1>4, <2>1, SourceStable DEF IsSource
  <1> QED
    BY <1>6, <1>7, <1>8, <1>9, <1>10 DEF CacheInv

\* A step that neither starts nor finishes a call, and marks no new source.
LEMMA QuietKeepsCache ==
  ASSUME CacheInv, TypeOK', diag' = diag, fingerprints' = fingerprints,
         \A c \in Callers : pc'[c] \notin {"idle", "raised"} =>
           pc[c] \notin {"idle", "raised"} /\ cur'[c] = cur[c],
         \A c \in Callers : pc'[c] \in {"lookup", "clone", "acquire", "llm"} =>
           pc[c] \in {"lookup", "clone", "acquire", "llm"},
         \A c \in Callers : pc'[c] = "clone" => pc[c] = "clone",
         \A c \in Callers : pc'[c] = "index" =>
           diag[cur[c]].status = "completed" /\ diag[cur[c]].model = "llm"
  PROVE  CacheInv'
  <1>1. Mine' /\ Working' /\ Indexing'
    BY DEF CacheInv, Mine, Working, Indexing
  <1>2. IndexIsTrue' /\ Cloning' /\ CacheSound'
    BY DEF CacheInv, IndexIsTrue, Cloning, CacheSound, IsSource
  <1> QED
    BY <1>1, <1>2 DEF CacheInv

LEMMA DiagnoseKeepsCache ==
  ASSUME CacheInv, TypeOK', NEW c \in Callers, NEW a \in Alerts, pc[c] = "idle",
         Diagnose(c, a), fingerprints' = fingerprints
  PROVE  CacheInv'
  <1>0. TypeOK
    BY DEF CacheInv
  <1>1. CASE a \in Unhashable
    <2>1. diag' = diag /\ cur' = cur /\ pc' = [pc EXCEPT ![c] = "raised"]
      BY <1>1 DEF Diagnose, AlertFingerprintRaises
    <2> QED
      BY <1>0, <2>1, QuietKeepsCache DEF TypeOK, CacheInv, Indexing
  <1>2. CASE a \notin Unhashable
    <2> DEFINE n == Len(diag) + 1
    <2>1. /\ DOMAIN diag' = DOMAIN diag \cup {n}
          /\ n \notin DOMAIN diag
          /\ \A id \in DOMAIN diag : diag'[id] = diag[id]
          /\ diag'[n].by = c /\ diag'[n].status = "pending"
      <3>1. diag'[n] = [alert |-> a, by |-> c, start |-> now, ts |-> now, status |-> "pending",
                        conf |-> "none", model |-> "none", from |-> 0]
        BY <1>0, <1>2, DiagnoseTable
      <3>2. diag'[n].by = c /\ diag'[n].status = "pending"
        BY <3>1
      <3> QED
        BY <1>0, <1>2, <3>2, DiagnoseTable
    <2>2. cur' = [cur EXCEPT ![c] = n] /\ pc' = [pc EXCEPT ![c] = "lookup"]
      BY <1>2 DEF Diagnose, AlertFingerprintRaises
    <2> HIDE DEF n
    <2>3. Settles
      BY <2>1 DEF Settles
    <2>4. \A k \in Callers : k # c =>
            /\ pc'[k] = pc[k] /\ cur'[k] = cur[k]
            /\ pc[k] \notin {"idle", "raised"} =>
                 cur[k] \in DOMAIN diag /\ diag'[cur[k]] = diag[cur[k]]
      BY <1>0, <2>1, <2>2 DEF TypeOK
    <2>5. pc'[c] = "lookup" /\ cur'[c] = n
      BY <1>0, <2>2 DEF TypeOK
    <2>6. Mine' /\ Working' /\ Indexing'
      BY <2>1, <2>4, <2>5 DEF CacheInv, Mine, Working, Indexing
    <2>7. IndexIsTrue'
      BY <1>0, <2>3, ZenonT(30) DEF CacheInv, IndexIsTrue, Settles, TypeOK
    <2>8. Cloning'
      <3> SUFFICES ASSUME NEW k \in Callers, pc'[k] = "clone"
                   PROVE  IsSource(diag[cur[k]].from, cur[k])'
        BY DEF Cloning
      <3>1. k # c /\ pc[k] = "clone"
        BY <2>4, <2>5
      <3>2. /\ cur'[k] = cur[k] /\ cur[k] \in DOMAIN diag /\ diag'[cur[k]] = diag[cur[k]]
            /\ diag[cur[k]].from \in DOMAIN diag
            /\ IsSource(diag[cur[k]].from, cur[k])
        BY <1>0, <2>4, <3>1 DEF CacheInv, Cloning, TypeOK
      <3> QED
        BY <2>3, <3>2, SourceStable DEF IsSource
    <2>9. CacheSound'
      <3> SUFFICES ASSUME NEW id \in DOMAIN diag', diag'[id].status = "cached"
                   PROVE  diag'[id].from \in DOMAIN diag' /\ IsSource(diag[id].from, id)'
        BY DEF CacheSound
      <3>1. id \in DOMAIN diag /\ diag'[id] = diag[id]
        BY <2>1
      <3>2. diag[id].from \in DOMAIN diag /\ IsSource(diag[id].from, id)
        BY <3>1 DEF CacheInv, CacheSound
      <3> QED
        BY <2>1, <2>3, <3>1, <3>2, SourceStable DEF IsSource
    <2> QED
      BY <2>6, <2>7, <2>8, <2>9 DEF CacheInv
  <1> QED
    BY <1>1, <1>2

LEMMA UnavailableKeepsCache ==
  ASSUME CacheInv, TypeOK', NEW c \in Callers, pc[c] \in {"acquire", "llm"},
         NEW s \in {"failed", "rate_limited"}, MakeLlmUnavailableResult(c, s),
         fingerprints' = fingerprints
  PROVE  CacheInv'
  <1>1. cur[c] \in DOMAIN diag
    BY DEF CacheInv, TypeOK
  <1>2. CASE diag[cur[c]].alert \in FallbackAlerts
    <2>1. FallbackConf[diag[cur[c]].alert] \in {"high", "low", "none"}
      BY <1>2, AlertAssumption
    <2> QED
      BY <1>2, <2>1, FinishKeepsCache DEF MakeLlmUnavailableResult, MakeLocalFallbackResult, Statuses
  <1>3. CASE diag[cur[c]].alert \notin FallbackAlerts
    BY <1>3, FinishKeepsCache DEF MakeLlmUnavailableResult, MakeLocalFallbackResult, MakeFailedResult, Statuses
  <1> QED
    BY <1>2, <1>3

LEMMA LookupHitKeepsCache ==
  ASSUME CacheInv, TypeOK', NEW c \in Callers, LookupHit(c)
  PROVE  CacheInv'
  <1>0. TypeOK /\ pc[c] = "lookup" /\ cur[c] \in DOMAIN diag
    BY DEF CacheInv, TypeOK, LookupHit
  <1>1. PICK i \in StoredDiagnoses :
          /\ IsCachedMatch(cur[c], i)
          /\ diag' = [diag EXCEPT ![cur[c]] = [@ EXCEPT !.from = diagnoses[i]]]
    BY DEF LookupHit
  <1>2. diagnoses[i] \in DOMAIN diag
    BY <1>0, <1>1, SMTT(30) DEF TypeOK, StoredDiagnoses
  <1>3. IsSource(diagnoses[i], cur[c])
    <2>1. /\ diag[diagnoses[i]].status = "completed" /\ diag[diagnoses[i]].conf = "high"
          /\ diagnoses[i] \in DOMAIN fingerprints
          /\ fingerprints[diagnoses[i]] = FingerprintOf[diag[cur[c]].alert]
          /\ InTtl(cur[c], i)
      <3>1. i \in Int
        BY <1>0, <1>1, SMTT(30) DEF StoredDiagnoses, TypeOK
      <3> QED
        BY <1>1, <3>1 DEF IsCachedMatch, IsReusable
    <2>2. /\ diag[diagnoses[i]].model = "llm"
          /\ fingerprints[diagnoses[i]] = FingerprintOf[diag[diagnoses[i]].alert]
      BY <2>1 DEF CacheInv, IndexIsTrue
    <2>3. /\ diag[diagnoses[i]].ts \in Nat
          /\ diag[cur[c]].start \in Nat
      BY <1>0, <1>2, AlertOfRecord DEF Diagnosis
    <2>4. diag[cur[c]].start - diag[diagnoses[i]].ts <= ResultCacheTtl
      BY <2>1, <2>3, ParameterAssumption DEF InTtl
    <2> QED
      BY <2>1, <2>2, <2>4 DEF IsSource
  <1>4. /\ DOMAIN diag' = DOMAIN diag
        /\ \A id \in DOMAIN diag \ {cur[c]} : diag'[id] = diag[id]
        /\ diag'[cur[c]] = [diag[cur[c]] EXCEPT !.from = diagnoses[i]]
    BY <1>0, <1>1 DEF TypeOK
  <1>5. /\ diag'[cur[c]].alert = diag[cur[c]].alert
        /\ diag'[cur[c]].by = diag[cur[c]].by
        /\ diag'[cur[c]].start = diag[cur[c]].start
        /\ diag'[cur[c]].status = diag[cur[c]].status
        /\ diag'[cur[c]].from = diagnoses[i]
    <2>1. diag[cur[c]] \in Diagnosis
      BY <1>0, AlertOfRecord
    <2> QED
      BY <1>4, <2>1 DEF Diagnosis
  <1>6. diag[cur[c]].status = "pending"
    BY <1>0 DEF CacheInv, Working
  <1>7. /\ cur' = cur /\ pc' = [pc EXCEPT ![c] = "clone"]
        /\ fingerprints' = fingerprints /\ diagnoses' = diagnoses
    BY DEF LookupHit
  <1>8. Settles
    <2>1. \A id \in DOMAIN diag \ {cur[c]} : diag'[id] = diag[id]
      BY <1>4
    <2> QED
      BY <1>4, <2>1, <1>5, <1>6 DEF Settles
  <1>9. \A k \in Callers : k # c =>
          /\ pc'[k] = pc[k]
          /\ pc[k] \notin {"idle", "raised"} =>
               cur[k] \in DOMAIN diag /\ diag'[cur[k]] = diag[cur[k]]
    <2> SUFFICES ASSUME NEW k \in Callers, k # c
                 PROVE  /\ pc'[k] = pc[k]
                        /\ pc[k] \notin {"idle", "raised"} =>
                             cur[k] \in DOMAIN diag /\ diag'[cur[k]] = diag[cur[k]]
      OBVIOUS
    <2>1. pc'[k] = pc[k]
      BY <1>0, <1>7 DEF TypeOK
    <2>2. ASSUME pc[k] \notin {"idle", "raised"}
          PROVE  cur[k] \in DOMAIN diag /\ cur[k] # cur[c]
      BY <1>0, <2>2 DEF CacheInv, Mine, TypeOK
    <2>3. \A id \in DOMAIN diag \ {cur[c]} : diag'[id] = diag[id]
      BY <1>4
    <2> QED
      BY <2>1, <2>2, <2>3
  <1>10. pc'[c] = "clone"
    BY <1>0, <1>7 DEF TypeOK
  <1>11. Mine' /\ Working' /\ Indexing'
    BY <1>0, <1>5, <1>6, <1>7, <1>9, <1>10 DEF CacheInv, Mine, Working, Indexing
  <1>12. IndexIsTrue'
    BY <1>0, <1>7, <1>8, ZenonT(30) DEF CacheInv, IndexIsTrue, Settles, TypeOK
  <1>13. Cloning'
    <2> SUFFICES ASSUME NEW k \in Callers, pc'[k] = "clone"
                 PROVE  IsSource(diag[cur[k]].from, cur[k])'
      BY DEF Cloning
    <2>1. CASE k = c
      <3>1. IsSource(diagnoses[i], cur[c])'
        BY <1>0, <1>2, <1>3, <1>7, <1>8, SourceStable DEF IsSource
      <3> QED
        BY <1>5, <1>7, <2>1, <3>1
    <2>2. CASE k # c
      <3>1. pc[k] = "clone"
        BY <1>9, <2>2
      <3>2. /\ cur[k] \in DOMAIN diag /\ diag'[cur[k]] = diag[cur[k]]
            /\ diag[cur[k]].from \in DOMAIN diag
            /\ IsSource(diag[cur[k]].from, cur[k])
        BY <1>0, <1>9, <2>2, <3>1 DEF CacheInv, Cloning, TypeOK
      <3> QED
        BY <1>7, <1>8, <3>2, SourceStable DEF IsSource
    <2> QED
      BY <2>1, <2>2
  <1>14. CacheSound'
    <2> SUFFICES ASSUME NEW id \in DOMAIN diag, diag'[id].status = "cached"
                 PROVE  diag'[id].from \in DOMAIN diag' /\ IsSource(diag[id].from, id)'
      <3>1. DOMAIN diag' = DOMAIN diag
        BY <1>4
      <3> QED
        BY <3>1 DEF CacheSound
    <2>1. id # cur[c]
      BY <1>5, <1>6
    <2>2. diag'[id] = diag[id] /\ DOMAIN diag' = DOMAIN diag
      BY <1>4, <2>1
    <2>3. diag[id].from \in DOMAIN diag /\ IsSource(diag[id].from, id)
      BY <2>2 DEF CacheInv, CacheSound
    <2> QED
      BY <1>8, <2>2, <2>3, SourceStable DEF IsSource
  <1> QED
    BY <1>11, <1>12, <1>13, <1>14 DEF CacheInv

LEMMA CacheStep == CacheInv /\ [Next]_vars => CacheInv'
  <1> SUFFICES ASSUME CacheInv, [Next]_vars PROVE CacheInv'
    OBVIOUS
  <1>0. TypeOK /\ TypeOK'
    BY TypeStep DEF CacheInv
  <1>1. ASSUME NEW c \in Callers, Step(c) PROVE CacheInv'
    <2>1. CASE LookupHit(c)
      BY <1>0, <2>1, LookupHitKeepsCache
    <2>2. CASE LookupMiss(c)
      <3>1. /\ diag' = diag /\ fingerprints' = fingerprints /\ cur' = cur
            /\ pc[c] = "lookup"
            /\ pc' = [pc EXCEPT ![c] = IF c = AutoCaller THEN "acquire" ELSE "llm"]
        BY <2>2 DEF LookupMiss, storeVars
      <3> QED
        BY <1>0, <3>1, QuietKeepsCache DEF TypeOK, CacheInv, Indexing
    <2>3. CASE CloneCached(c)
      <3>1. pc[c] = "clone" /\ diag[diag[cur[c]].from] \in Diagnosis
        BY <1>0, <2>3 DEF TypeOK, CloneCached
      <3> QED
        BY <1>0, <2>3, <3>1, FinishKeepsCache DEF CloneCached, Diagnosis, Statuses
    <2>4. CASE TryAcquire(c)
      <3>1. CASE /\ diag' = diag /\ cur' = cur
                 /\ pc' = [pc EXCEPT ![c] = "llm"]
        <4>1. pc[c] = "acquire" /\ fingerprints' = fingerprints
          BY <2>4 DEF TryAcquire
        <4> QED
          BY <1>0, <3>1, <4>1, QuietKeepsCache DEF TypeOK, CacheInv, Indexing
      <3>2. CASE MakeLlmUnavailableResult(c, "rate_limited")
        BY <1>0, <2>4, <3>2, UnavailableKeepsCache DEF TryAcquire
      <3> QED
        BY <2>4, <3>1, <3>2 DEF TryAcquire
    <2>5. CASE FailCall(c)
      BY <1>0, <2>5, FinishKeepsCache DEF FailCall, MakeFailedResult, Statuses
    <2>6. CASE LlmError(c)
      BY <1>0, <2>6, UnavailableKeepsCache DEF LlmError
    <2>7. CASE LlmCompletes(c)
      BY <1>0, <2>7, FinishKeepsCache DEF LlmCompletes, Statuses
    <2>8. CASE LlmInvalid(c)
      <3>1. /\ diag' = diag /\ fingerprints' = fingerprints /\ cur' = cur
            /\ pc' = [pc EXCEPT ![c] = "raised"]
        BY <2>8 DEF LlmInvalid, storeVars
      <3> QED
        BY <1>0, <3>1, QuietKeepsCache DEF TypeOK, CacheInv, Indexing
    <2>9. CASE AddDiagnosis(c)
      <3>1. /\ diag' = diag /\ fingerprints' = fingerprints /\ cur' = cur
            /\ pc[c] = "add"
            /\ \/ pc' = [pc EXCEPT ![c] = "done"]
               \/ /\ diag[cur[c]].status = "completed" /\ diag[cur[c]].model = "llm"
                  /\ pc' = [pc EXCEPT ![c] = "index"]
        BY <2>9 DEF AddDiagnosis
      <3> QED
        BY <1>0, <3>1, QuietKeepsCache DEF TypeOK, CacheInv, Indexing
    <2>10. CASE IndexFingerprint(c)
      <3>1. /\ diag' = diag /\ cur' = cur
            /\ pc[c] = "index" /\ pc' = [pc EXCEPT ![c] = "done"]
            /\ fingerprints' =
                 Pruned(fingerprints, cur[c], FingerprintOf[diag[cur[c]].alert])
        BY <2>10 DEF IndexFingerprint
      <3>2. IndexIsTrue'
        BY <3>1 DEF CacheInv, Indexing, IndexIsTrue, Pruned
      <3>3. Mine' /\ Working' /\ Indexing' /\ Cloning' /\ CacheSound'
        <4>1. \A e \in Callers : pc'[e] = pc[e] \/ (e = c /\ pc'[e] = "done")
          BY <1>0, <3>1 DEF TypeOK
        <4>2. \A e \in Callers : pc'[e] = pc[e] \/ (e = c /\ pc[e] = "index" /\ pc'[e] = "done")
          BY <3>1, <4>1
        <4>3. Mine'
          BY <3>1, <4>2 DEF CacheInv, Mine
        <4>4. Working'
          BY <3>1, <4>2 DEF CacheInv, Working
        <4>5. Indexing' /\ Cloning'
          BY <3>1, <4>2 DEF CacheInv, Indexing, Cloning, IsSource
        <4>6. CacheSound'
          BY <3>1 DEF CacheInv, CacheSound, IsSource
        <4> QED BY <4>3, <4>4, <4>5, <4>6
      <3> QED
        BY <1>0, <3>2, <3>3 DEF CacheInv
    <2> QED
      BY <1>1, <2>1, <2>2, <2>3, <2>4, <2>5, <2>6, <2>7, <2>8, <2>9, <2>10 DEF Step
  <1>2. ASSUME NEW c \in Callers, Enter(c) PROVE CacheInv'
    <2>1. reported[asked[c]] \in Alerts
      BY <1>0, <1>2 DEF TypeOK, Enter
    <2> QED
      BY <1>0, <1>2, <2>1, DiagnoseKeepsCache DEF Enter
  <1>3. ASSUME NEW r \in Requests, Respond(r) PROVE CacheInv'
    <2>1. /\ diag' = diag /\ fingerprints' = fingerprints
          /\ pc' = [pc EXCEPT ![r] = "idle"] /\ cur' = [cur EXCEPT ![r] = 0]
      BY <1>3 DEF Respond, storeVars
    <2> QED
      BY <1>0, <2>1, QuietKeepsCache DEF TypeOK, CacheInv, Indexing, Callers
  <1>5. CASE AutoResume \/ AutoPassAborts
    <2>1. /\ diag' = diag /\ fingerprints' = fingerprints
          /\ pc' = [pc EXCEPT ![AutoCaller] = "idle"]
          /\ cur' = [cur EXCEPT ![AutoCaller] = 0]
      BY <1>5 DEF AutoResume, AutoPassAborts, storeVars
    <2> QED
      BY <1>0, <2>1, QuietKeepsCache DEF TypeOK, CacheInv, Indexing, Callers
  <1>4. CASE \/ AutoWake \/ AutoVisit \/ AutoPassEnds \/ Tick \/ UNCHANGED vars
             \/ \E r \in Requests : CreateDiagnosis(r)
             \/ \E a \in Alerts : ReportAlert(a)
    <2>1. diag' = diag /\ fingerprints' = fingerprints /\ pc' = pc /\ cur' = cur
      BY <1>4 DEF AutoWake, AutoVisit, AutoPassEnds, Tick, vars, CreateDiagnosis, ReportAlert,
                  storeVars, callVars
    <2> QED
      BY <1>0, <2>1, QuietKeepsCache DEF CacheInv, Indexing
  <1> QED
    BY <1>1, <1>2, <1>3, <1>4, <1>5 DEF Next, AutoLoop

\* Every cached answer comes from a high-confidence diagnosis the LLM completed for an
\* alert of the same fingerprint within the TTL, however calls, evictions and the
\* pruning of the index interleave.
THEOREM CacheIsSound == Spec => []CacheSound
  <1>1. CacheInv => CacheSound
    BY DEF CacheInv
  <1> QED
    BY <1>1, CacheInit, CacheStep, PTL DEF Spec

\* The fingerprint index only ever holds completed LLM diagnoses, each under the
\* fingerprint of its own alert.
THEOREM IndexStaysTrue == Spec => []IndexIsTrue
  <1>1. CacheInv => IndexIsTrue
    BY DEF CacheInv
  <1> QED
    BY <1>1, CacheInit, CacheStep, PTL DEF Spec

-----------------------------------------------------------------------------
(* What a step of the pipeline can be, as far as the calls and the stores are concerned. *)

\* diagnose is entered with an alert whose fingerprint can be computed.
Entered(c, a) ==
  /\ pc[c] = "idle" /\ a \notin Unhashable
  /\ Diagnose(c, a)
  /\ UNCHANGED <<now, diagnoses, fingerprints, limitVars>>

\* The result of a call is made. Only the rate limiter refuses, only the LLM is paid.
Finished(c, s, f, m) ==
  /\ pc[c] \in {"clone", "acquire", "llm"}
  /\ Finish(c, s, f, m)
  /\ s = "cached" => pc[c] = "clone"
  /\ s = "rate_limited" => pc[c] = "acquire" /\ ~MayAcquire(NodeOf[diag[cur[c]].alert])
  /\ s = "completed" /\ m = "llm" => pc[c] = "llm"
  /\ UNCHANGED <<now, diagnoses, fingerprints, limitVars>>

\* The rate limiter hands out a slot.
Granted(c) ==
  LET node == NodeOf[diag[cur[c]].alert] IN
  /\ pc[c] = "acquire" /\ MayAcquire(node)
  /\ lastCall' = [lastCall EXCEPT ![node] = now]
  /\ grants' = grants \cup {[id |-> cur[c], node |-> node, at |-> now]}
  /\ pc' = [pc EXCEPT ![c] = "llm"]
  /\ UNCHANGED <<now, storeVars, cur>>

\* A call only goes on to another phase, or its thread is done with it.
Moved(c, ph) ==
  /\ pc' = [pc EXCEPT ![c] = ph]
  /\ UNCHANGED <<now, diag, diagnoses, fingerprints, limitVars>>
  /\ \/ /\ pc[c] = "lookup" /\ cur' = cur
        /\ ph = IF c = AutoCaller THEN "acquire" ELSE "llm"
     \/ pc[c] \in {"idle", "llm"} /\ ph = "raised" /\ cur' = cur
     \/ pc[c] \in {"done", "raised"} /\ ph = "idle" /\ cur' = [cur EXCEPT ![c] = 0]

\* The calls and the stores are left alone.
Rested == now <= now' /\ UNCHANGED <<diag, diagnoses, fingerprints, limitVars, callVars>>

Made == {"completed", "failed", "rate_limited", "cached"}
Confs == {"high", "low", "none"}
Models == {"llm", "fallback", "none"}

Kind ==
  \/ \E c \in Callers :
       \/ \E a \in Alerts : Entered(c, a)
       \/ LookupHit(c) \/ AddDiagnosis(c) \/ IndexFingerprint(c) \/ Granted(c)
       \/ \E s \in Made, f \in Confs, m \in Models : Finished(c, s, f, m)
       \/ \E ph \in Phases : Moved(c, ph)
  \/ Rested

LEMMA UnavailableKind ==
  ASSUME TypeOK, NEW c \in Callers, pc[c] \in {"acquire", "llm"},
         NEW s \in {"failed", "rate_limited"}, MakeLlmUnavailableResult(c, s),
         s = "rate_limited" => pc[c] = "acquire" /\ ~MayAcquire(NodeOf[diag[cur[c]].alert]),
         UNCHANGED <<now, diagnoses, fingerprints, limitVars>>
  PROVE  \E k \in Made, f \in Confs, m \in Models : Finished(c, k, f, m)
<1>1. CASE MakeLocalFallbackResult(c)
  <2>1. FallbackConf[diag[cur[c]].alert] \in Confs
    BY <1>1, AlertAssumption DEF MakeLocalFallbackResult, Confs
  <2>2. Finished(c, "completed", FallbackConf[diag[cur[c]].alert], "fallback")
    BY <1>1 DEF MakeLocalFallbackResult, Finished
  <2> QED BY <2>1, <2>2 DEF Made, Models
<1>2. CASE MakeFailedResult(c, s)
  <2>1. Finished(c, s, "none", "none")
    BY <1>2 DEF MakeFailedResult, Finished
  <2> QED BY <2>1 DEF Made, Confs, Models
<1> QED BY <1>1, <1>2 DEF MakeLlmUnavailableResult

LEMMA CallKind ==
  ASSUME TypeOK, NEW c \in Callers, Step(c)
  PROVE  Kind
<1> USE DEF storeVars, limitVars, callVars, loopVars
<1>1. CASE LookupHit(c) \/ AddDiagnosis(c) \/ IndexFingerprint(c)
  BY <1>1 DEF Kind
<1>2. CASE LookupMiss(c)
  <2>1. Moved(c, IF c = AutoCaller THEN "acquire" ELSE "llm")
    BY <1>2 DEF LookupMiss, Moved
  <2> QED BY <2>1 DEF Kind, Phases
<1>3. CASE LlmInvalid(c)
  <2>1. Moved(c, "raised")
    BY <1>3 DEF LlmInvalid, Moved
  <2> QED BY <2>1 DEF Kind, Phases
<1>4. CASE CloneCached(c)
  <2> DEFINE source == diag[diag[cur[c]].from]
  <2>1. source \in Diagnosis
    BY <1>4 DEF TypeOK, CloneCached
  <2>2. source.conf \in Confs /\ source.model \in Models
    BY <2>1 DEF Diagnosis, Confs, Models
  <2>3. Finished(c, "cached", source.conf, source.model)
    BY <1>4 DEF CloneCached, Finished
  <2> QED BY <2>2, <2>3 DEF Kind, Made
<1>5. CASE TryAcquire(c)
  <2>1. CASE MayAcquire(NodeOf[diag[cur[c]].alert])
    BY <1>5, <2>1 DEF TryAcquire, Granted, Kind
  <2>2. CASE ~MayAcquire(NodeOf[diag[cur[c]].alert])
    BY <1>5, <2>2, UnavailableKind DEF TryAcquire, Kind
  <2> QED BY <2>1, <2>2
<1>6. CASE FailCall(c)
  <2>1. Finished(c, "failed", "none", "none")
    BY <1>6 DEF FailCall, MakeFailedResult, Finished
  <2> QED BY <2>1 DEF Kind, Made, Confs, Models
<1>7. CASE LlmError(c)
  BY <1>7, UnavailableKind DEF LlmError, Kind
<1>8. CASE LlmCompletes(c)
  <2>1. PICK conf \in {"high", "low"} : Finish(c, "completed", conf, "llm")
    BY <1>8 DEF LlmCompletes
  <2>2. Finished(c, "completed", conf, "llm")
    BY <1>8, <2>1 DEF LlmCompletes, Finished
  <2> QED BY <2>2 DEF Kind, Made, Confs, Models
<1> QED BY <1>1, <1>2, <1>3, <1>4, <1>5, <1>6, <1>7, <1>8 DEF Step

\* An entry of diagnose is an entry, or raises.
LEMMA EntryKind ==
  ASSUME NEW c \in Callers, NEW a \in Alerts, pc[c] = "idle", Diagnose(c, a),
         UNCHANGED <<now, diagnoses, fingerprints, limitVars>>
  PROVE  Kind
<1>1. CASE a \in Unhashable
  <2>1. Moved(c, "raised")
    BY <1>1 DEF Diagnose, AlertFingerprintRaises, Moved
  <2> QED BY <2>1 DEF Kind, Phases
<1>2. CASE a \notin Unhashable
  BY <1>2 DEF Entered, Kind
<1> QED BY <1>1, <1>2

LEMMA StepKind ==
  ASSUME TypeOK, [Next]_vars
  PROVE  Kind
<1> USE DEF storeVars, limitVars, callVars, loopVars
<1>1. CASE \E c \in Callers : Step(c)
  BY <1>1, CallKind
<1>2. ASSUME NEW c \in Callers, Enter(c) PROVE Kind
  <2>1. reported[asked[c]] \in Alerts
    BY <1>2 DEF TypeOK, Enter
  <2> QED BY <1>2, <2>1, EntryKind DEF Enter
<1>3. ASSUME NEW c \in Callers, Respond(c) \/ (c = AutoCaller /\ (AutoResume \/ AutoPassAborts))
      PROVE  Kind
  <2>1. Moved(c, "idle")
    BY <1>3 DEF Respond, AutoResume, AutoPassAborts, Moved
  <2> QED BY <2>1 DEF Kind, Phases
<1>4. CASE \/ AutoWake \/ AutoVisit \/ AutoPassEnds \/ Tick \/ UNCHANGED vars
           \/ \E r \in Requests : CreateDiagnosis(r)
           \/ \E a \in Alerts : ReportAlert(a)
  <2>1. UNCHANGED <<diag, diagnoses, fingerprints, limitVars, callVars>>
    BY <1>4 DEF AutoWake, AutoVisit, AutoPassEnds, Tick, vars, CreateDiagnosis, ReportAlert
  <2>2. now <= now'
    BY <1>4 DEF AutoWake, AutoVisit, AutoPassEnds, Tick, vars, CreateDiagnosis, ReportAlert, TypeOK
  <2> QED BY <2>1, <2>2 DEF Rested, Kind
<1> QED BY <1>1, <1>2, <1>3, <1>4 DEF Next, AutoLoop, Callers

-----------------------------------------------------------------------------
(* What every kind of step does to the records and to the other threads. *)

Busy(c) == pc[c] \notin {"idle", "raised"}

LEMMA KindSettles ==
  ASSUME CacheInv, Kind
  PROVE  Settles
<1>0. TypeOK
  BY DEF CacheInv
<1>1. ASSUME NEW c \in Callers, NEW a \in Alerts, Entered(c, a) PROVE Settles
  BY <1>0, <1>1, DiagnoseTable DEF Entered, Settles
<1>2. ASSUME NEW c \in Callers, LookupHit(c) PROVE Settles
  <2>1. PICK i \in StoredDiagnoses : diag' = [diag EXCEPT ![cur[c]] = [@ EXCEPT !.from = diagnoses[i]]]
    BY <1>2 DEF LookupHit
  <2>2. /\ cur[c] \in DOMAIN diag /\ diag[cur[c]] \in Diagnosis
        /\ diag[cur[c]].status = "pending"
    <3>1. pc[c] = "lookup" /\ cur[c] \in DOMAIN diag
      BY <1>0, <1>2 DEF TypeOK, LookupHit
    <3> QED BY <1>0, <3>1, AlertOfRecord DEF CacheInv, Working
  <2>3. /\ DOMAIN diag' = DOMAIN diag
        /\ diag'[cur[c]] = [diag[cur[c]] EXCEPT !.from = diagnoses[i]]
        /\ \A id \in DOMAIN diag : id # cur[c] => diag'[id] = diag[id]
    BY <1>0, <2>1, <2>2 DEF TypeOK
  <2>4. /\ diag'[cur[c]].alert = diag[cur[c]].alert /\ diag'[cur[c]].by = diag[cur[c]].by
        /\ diag'[cur[c]].start = diag[cur[c]].start
    BY <2>2, <2>3 DEF Diagnosis
  <2> QED BY <2>2, <2>3, <2>4 DEF Settles
<1>3. ASSUME NEW c \in Callers, NEW s \in Made, NEW f \in Confs, NEW m \in Models,
             Finished(c, s, f, m)
      PROVE  Settles
  <2>1. cur[c] \in DOMAIN diag /\ diag[cur[c]].status = "pending"
    BY <1>0, <1>3 DEF TypeOK, CacheInv, Working, Finished
  <2>2. s \in Statuses /\ f \in {"high", "low", "none"} /\ m \in {"llm", "fallback", "none"}
    BY DEF Made, Confs, Models, Statuses
  <2>3. Finish(c, s, f, m)
    BY <1>3 DEF Finished
  <2>4. /\ DOMAIN diag' = DOMAIN diag
        /\ \A id \in DOMAIN diag \ {cur[c]} : diag'[id] = diag[id]
        /\ diag'[cur[c]].alert = diag[cur[c]].alert /\ diag'[cur[c]].by = diag[cur[c]].by
        /\ diag'[cur[c]].start = diag[cur[c]].start
    BY <1>0, <2>1, <2>2, <2>3, FinishTable
  <2> QED BY <2>1, <2>4 DEF Settles
<1>4. CASE diag' = diag
  BY <1>4 DEF Settles
<1> QED BY <1>1, <1>2, <1>3, <1>4
        DEF Kind, AddDiagnosis, IndexFingerprint, Granted, Moved, Rested, storeVars

\* Two busy threads never work on the same record.
LEMMA OwnRecord ==
  ASSUME CacheInv, NEW c \in Callers, NEW k \in Callers, Busy(c), Busy(k), cur[c] = cur[k]
  PROVE  c = k
BY DEF CacheInv, Mine, Busy

\* What a finished call leaves behind.
LEMMA FinishedFacts ==
  ASSUME CacheInv, NEW c \in Callers, NEW s \in Made, NEW f \in Confs, NEW m \in Models,
         Finished(c, s, f, m)
  PROVE  /\ cur[c] \in DOMAIN diag /\ diag[cur[c]].status = "pending" /\ diag[cur[c]].by = c
         /\ pc[c] \in {"clone", "acquire", "llm"} /\ pc' = [pc EXCEPT ![c] = "add"] /\ cur' = cur
         /\ DOMAIN diag' = DOMAIN diag
         /\ \A id \in DOMAIN diag : id # cur[c] => diag'[id] = diag[id]
         /\ diag'[cur[c]].alert = diag[cur[c]].alert /\ diag'[cur[c]].by = c
         /\ diag'[cur[c]].status = s /\ diag'[cur[c]].model = m /\ diag'[cur[c]].ts = now
         /\ now' = now /\ lastCall' = lastCall /\ grants' = grants
         /\ diagnoses' = diagnoses /\ fingerprints' = fingerprints
<1>1. /\ cur[c] \in DOMAIN diag /\ diag[cur[c]].status = "pending" /\ diag[cur[c]].by = c
      /\ TypeOK
  BY DEF TypeOK, CacheInv, Working, Mine, Finished
<1>2. s \in Statuses /\ f \in {"high", "low", "none"} /\ m \in {"llm", "fallback", "none"}
  BY DEF Made, Statuses, Confs, Models
<1>3. Finish(c, s, f, m) /\ UNCHANGED <<now, diagnoses, fingerprints, limitVars>>
  BY DEF Finished
<1>4. /\ DOMAIN diag' = DOMAIN diag
      /\ \A id \in DOMAIN diag : id # cur[c] => diag'[id] = diag[id]
      /\ diag'[cur[c]].alert = diag[cur[c]].alert /\ diag'[cur[c]].by = c
      /\ diag'[cur[c]].status = s /\ diag'[cur[c]].model = m /\ diag'[cur[c]].ts = now
  BY <1>1, <1>2, <1>3, FinishTable
<1>5. /\ pc[c] \in {"clone", "acquire", "llm"} /\ pc' = [pc EXCEPT ![c] = "add"] /\ cur' = cur
  BY <1>3 DEF Finished, Finish
<1> QED BY <1>1, <1>3, <1>4, <1>5 DEF limitVars

\* What an entered call leaves behind.
LEMMA EnteredFacts ==
  ASSUME CacheInv, NEW c \in Callers, NEW a \in Alerts, Entered(c, a)
  PROVE  /\ pc[c] = "idle" /\ pc' = [pc EXCEPT ![c] = "lookup"]
         /\ cur' = [cur EXCEPT ![c] = Len(diag) + 1]
         /\ DOMAIN diag' = DOMAIN diag \cup {Len(diag) + 1} /\ Len(diag) + 1 \notin DOMAIN diag
         /\ \A id \in DOMAIN diag : diag'[id] = diag[id]
         /\ diag'[Len(diag) + 1].status = "pending" /\ diag'[Len(diag) + 1].by = c
         /\ diag'[Len(diag) + 1].alert = a
         /\ \A id \in DOMAIN diag : id < Len(diag) + 1
         /\ now' = now /\ lastCall' = lastCall /\ grants' = grants
         /\ diagnoses' = diagnoses /\ fingerprints' = fingerprints
<1>1. TypeOK /\ a \notin Unhashable /\ Diagnose(c, a)
      /\ UNCHANGED <<now, diagnoses, fingerprints, limitVars>>
  BY DEF CacheInv, Entered
<1>2. /\ DOMAIN diag' = DOMAIN diag \cup {Len(diag) + 1} /\ Len(diag) + 1 \notin DOMAIN diag
      /\ \A id \in DOMAIN diag : diag'[id] = diag[id]
      /\ diag'[Len(diag) + 1] =
           [alert |-> a, by |-> c, start |-> now, ts |-> now, status |-> "pending",
            conf |-> "none", model |-> "none", from |-> 0]
  BY <1>1, DiagnoseTable
<1>3. pc[c] = "idle" /\ pc' = [pc EXCEPT ![c] = "lookup"] /\ cur' = [cur EXCEPT ![c] = Len(diag) + 1]
  BY <1>1 DEF Entered, Diagnose, AlertFingerprintRaises
<1>4. \A id \in DOMAIN diag : id < Len(diag) + 1
  BY <1>1 DEF TypeOK
<1> QED BY <1>1, <1>2, <1>3, <1>4 DEF limitVars

\* What the choice of a source leaves behind.
LEMMA ChosenFacts ==
  ASSUME CacheInv, NEW c \in Callers, LookupHit(c)
  PROVE  /\ pc[c] = "lookup" /\ pc' = [pc EXCEPT ![c] = "clone"] /\ cur' = cur
         /\ DOMAIN diag' = DOMAIN diag
         /\ \A id \in DOMAIN diag : /\ diag'[id].status = diag[id].status
                                    /\ diag'[id].model = diag[id].model
                                    /\ diag'[id].alert = diag[id].alert
                                    /\ diag'[id].by = diag[id].by /\ diag'[id].ts = diag[id].ts
         /\ now' = now /\ lastCall' = lastCall /\ grants' = grants
         /\ diagnoses' = diagnoses /\ fingerprints' = fingerprints
<1>1. PICK i \in StoredDiagnoses : diag' = [diag EXCEPT ![cur[c]] = [@ EXCEPT !.from = diagnoses[i]]]
  BY DEF LookupHit
<1>2. cur[c] \in DOMAIN diag /\ diag[cur[c]] \in Diagnosis
  <2>1. TypeOK /\ cur[c] \in DOMAIN diag
    BY DEF TypeOK, CacheInv, LookupHit
  <2> QED BY <2>1, AlertOfRecord
<1>3. /\ DOMAIN diag' = DOMAIN diag
      /\ diag'[cur[c]] = [diag[cur[c]] EXCEPT !.from = diagnoses[i]]
      /\ \A id \in DOMAIN diag : id # cur[c] => diag'[id] = diag[id]
  BY <1>1, <1>2 DEF CacheInv, TypeOK
<1>4. LET d == diag[cur[c]] IN
      /\ diag'[cur[c]].status = d.status /\ diag'[cur[c]].model = d.model
      /\ diag'[cur[c]].alert = d.alert /\ diag'[cur[c]].by = d.by /\ diag'[cur[c]].ts = d.ts
  BY <1>2, <1>3 DEF Diagnosis
<1> QED BY <1>2, <1>3, <1>4 DEF LookupHit, limitVars

-----------------------------------------------------------------------------
(* Every result is stored once. *)

\* Only the automatic loop asks the rate limiter, and what waits to be stored is made.
Phased ==
  \A c \in Callers : /\ pc[c] = "acquire" => c = AutoCaller
                     /\ pc[c] = "add" => diag[cur[c]].status # "pending"

StoredAt(id) == {i \in DOMAIN diagnoses : diagnoses[i] = id}
Adding(id)   == \E c \in Callers : pc[c] = "add" /\ cur[c] = id
Unstored(id) == diag[id].status = "pending" \/ Adding(id)

StoredInv ==
  \A id \in DOMAIN diag :
    IF Unstored(id) THEN StoredAt(id) = {} ELSE \E i : StoredAt(id) = {i}

LEMMA PhasedStep ==
  ASSUME CacheInv, Phased, Kind
  PROVE  Phased'
<1>0. TypeOK /\ Settles
  BY KindSettles DEF CacheInv
<1>1. \A k \in Callers : pc[k] = "add" => cur[k] \in DOMAIN diag
  BY <1>0 DEF TypeOK
<1>2. ASSUME NEW c \in Callers, NEW k \in Callers, cur'[k] = cur[k], pc'[k] = pc[k]
      PROVE  /\ pc'[k] = "acquire" => k = AutoCaller
             /\ pc'[k] = "add" => diag'[cur'[k]].status # "pending"
  BY <1>0, <1>1, <1>2 DEF Phased, Settles
<1>3. ASSUME NEW c \in Callers, NEW a \in Alerts, Entered(c, a) PROVE Phased'
  BY <1>0, <1>2, <1>3, EnteredFacts DEF Phased, TypeOK
<1>4. ASSUME NEW c \in Callers, NEW s \in Made, NEW f \in Confs, NEW m \in Models,
             Finished(c, s, f, m)
      PROVE  Phased'
  <2>1. s # "pending"
    BY DEF Made
  <2> QED BY <1>0, <1>2, <1>4, <2>1, FinishedFacts DEF Phased, TypeOK
<1>5. ASSUME NEW c \in Callers, LookupHit(c) PROVE Phased'
  BY <1>0, <1>2, <1>5, ChosenFacts DEF Phased, TypeOK
<1>6. ASSUME NEW c \in Callers, AddDiagnosis(c) \/ IndexFingerprint(c) \/ Granted(c)
      PROVE  Phased'
  BY <1>0, <1>2, <1>6 DEF Phased, TypeOK, AddDiagnosis, IndexFingerprint, Granted
<1>7. ASSUME NEW c \in Callers, NEW ph \in Phases, Moved(c, ph) PROVE Phased'
  BY <1>0, <1>2, <1>7 DEF Phased, TypeOK, Moved
<1>8. CASE Rested
  BY <1>8 DEF Phased, Rested, callVars
<1> QED BY <1>3, <1>4, <1>5, <1>6, <1>7, <1>8 DEF Kind

\* The log of the store is not touched: each record stays stored or unstored.
LEMMA StoredStays ==
  ASSUME StoredInv, diagnoses' = diagnoses,
         \A id \in DOMAIN diag' :
           \/ id \in DOMAIN diag /\ (Unstored(id)' <=> Unstored(id))
           \/ StoredAt(id) = {} /\ Unstored(id)'
  PROVE  StoredInv'
<1>1. \A id : StoredAt(id)' = StoredAt(id)
  BY DEF StoredAt
<1> SUFFICES ASSUME NEW id \in DOMAIN diag'
             PROVE  IF Unstored(id)' THEN StoredAt(id)' = {} ELSE \E i : StoredAt(id)' = {i}
  BY DEF StoredInv
<1> QED BY <1>1, Zenon DEF StoredInv

LEMMA StoredStep ==
  ASSUME CacheInv, Phased, StoredInv, Kind
  PROVE  StoredInv'
<1>0. TypeOK
  BY DEF CacheInv
<1>1. ASSUME NEW c \in Callers, NEW a \in Alerts, Entered(c, a) PROVE StoredInv'
  <2>0. PICK new : new = Len(diag) + 1
    OBVIOUS
  <2>1. /\ pc[c] = "idle" /\ pc' = [pc EXCEPT ![c] = "lookup"] /\ cur' = [cur EXCEPT ![c] = new]
        /\ DOMAIN diag' = DOMAIN diag \cup {new} /\ new \notin DOMAIN diag
        /\ \A id \in DOMAIN diag : diag'[id] = diag[id]
        /\ diag'[new].status = "pending" /\ diagnoses' = diagnoses
    BY <1>1, <2>0, EnteredFacts
  <2>2. \A id : Adding(id)' <=> Adding(id)
    BY <1>0, <2>1 DEF Adding, TypeOK
  <2>3. \A id \in DOMAIN diag : Unstored(id)' <=> Unstored(id)
    BY <2>1, <2>2 DEF Unstored
  <2>4. StoredAt(new) = {} /\ Unstored(new)'
    BY <1>0, <2>1 DEF TypeOK, StoredAt, Unstored
  <2> QED BY <2>1, <2>3, <2>4, StoredStays
<1>2. ASSUME NEW c \in Callers, NEW s \in Made, NEW f \in Confs, NEW m \in Models,
             Finished(c, s, f, m)
      PROVE  StoredInv'
  <2>1. /\ cur[c] \in DOMAIN diag /\ diag[cur[c]].status = "pending"
        /\ pc[c] \in {"clone", "acquire", "llm"} /\ pc' = [pc EXCEPT ![c] = "add"] /\ cur' = cur
        /\ DOMAIN diag' = DOMAIN diag /\ diagnoses' = diagnoses
        /\ \A id \in DOMAIN diag : id # cur[c] => diag'[id] = diag[id]
    BY <1>2, FinishedFacts
  <2>2. \A id : id # cur[c] => (Adding(id)' <=> Adding(id))
    BY <1>0, <2>1 DEF Adding, TypeOK
  <2>3. \A id \in DOMAIN diag : id # cur[c] => (Unstored(id)' <=> Unstored(id))
    BY <2>1, <2>2 DEF Unstored
  <2>4. Unstored(cur[c])' /\ Unstored(cur[c])
    <3>1. pc'[c] = "add" /\ cur'[c] = cur[c]
      BY <1>0, <2>1 DEF TypeOK
    <3>2. PICK id \in DOMAIN diag : id = cur[c]
      BY <2>1
    <3>3. Unstored(id)' /\ Unstored(id)
      BY <2>1, <3>1, <3>2 DEF Unstored, Adding
    <3>4. cur' = cur
      BY <2>1
    <3> QED BY <3>2, <3>3, <3>4 DEF Unstored, Adding
  <2> QED BY <2>1, <2>3, <2>4, StoredStays
<1>3. ASSUME NEW c \in Callers, LookupHit(c) PROVE StoredInv'
  <2>1. /\ pc[c] = "lookup" /\ pc' = [pc EXCEPT ![c] = "clone"] /\ cur' = cur
        /\ DOMAIN diag' = DOMAIN diag /\ diagnoses' = diagnoses
        /\ \A id \in DOMAIN diag : diag'[id].status = diag[id].status
    BY <1>3, ChosenFacts
  <2>2. \A id : Adding(id)' <=> Adding(id)
    BY <1>0, <2>1 DEF Adding, TypeOK
  <2>3. \A id \in DOMAIN diag : Unstored(id)' <=> Unstored(id)
    BY <2>1, <2>2 DEF Unstored
  <2> QED BY <2>1, <2>3, StoredStays
<1>4. ASSUME NEW c \in Callers, AddDiagnosis(c) PROVE StoredInv'
  <2>1. /\ pc[c] = "add" /\ diagnoses' = Append(diagnoses, cur[c]) /\ diag' = diag /\ cur' = cur
        /\ \E ph \in {"index", "done"} : pc' = [pc EXCEPT ![c] = ph]
    BY <1>4 DEF AddDiagnosis
  <2>2. cur[c] \in DOMAIN diag /\ diag[cur[c]].status # "pending"
    BY <1>0, <2>1 DEF Phased, TypeOK
  <2>3. /\ DOMAIN diagnoses' = DOMAIN diagnoses \cup {Len(diagnoses) + 1}
        /\ \A i \in DOMAIN diagnoses : diagnoses'[i] = diagnoses[i]
        /\ diagnoses'[Len(diagnoses) + 1] = cur[c]
    BY <1>0, <2>1, <2>2, AppendProperties DEF TypeOK
  <2>4. ASSUME NEW id \in DOMAIN diag, id = cur[c]
        PROVE  ~Unstored(id)' /\ StoredAt(id)' = {Len(diagnoses) + 1}
    <3>1. Unstored(id)
      BY <2>1, <2>4 DEF Unstored, Adding
    <3>2. StoredAt(id) = {}
      BY <3>1 DEF StoredInv
    <3>3. StoredAt(id)' = {Len(diagnoses) + 1}
      BY <2>3, <2>4, <3>2 DEF StoredAt
    <3>4. ~Adding(id)'
      <4> SUFFICES ASSUME NEW k \in Callers, pc'[k] = "add", cur'[k] = id PROVE FALSE
        BY DEF Adding
      <4>1. pc[k] = "add" /\ cur[k] = cur[c] /\ k # c
        BY <1>0, <2>1, <2>4 DEF TypeOK
      <4> QED BY <2>1, <4>1, OwnRecord DEF Busy
    <3> QED BY <2>1, <2>2, <2>4, <3>3, <3>4 DEF Unstored
  <2>5. ASSUME NEW id \in DOMAIN diag, id # cur[c]
        PROVE  (Unstored(id)' <=> Unstored(id)) /\ StoredAt(id)' = StoredAt(id)
    <3>1. Adding(id)' <=> Adding(id)
      BY <1>0, <2>1, <2>5 DEF Adding, TypeOK
    <3>2. StoredAt(id)' = StoredAt(id)
      BY <2>3, <2>5 DEF StoredAt
    <3> QED BY <2>1, <3>1, <3>2 DEF Unstored
  <2> QED BY <2>1, <2>4, <2>5, Zenon DEF StoredInv
<1>5. ASSUME NEW c \in Callers, IndexFingerprint(c) \/ Granted(c) \/ \E ph \in Phases : Moved(c, ph)
      PROVE  StoredInv'
  <2>1. diag' = diag /\ diagnoses' = diagnoses
    BY <1>5 DEF IndexFingerprint, Granted, Moved, storeVars
  <2>2. \A id : Adding(id)' <=> Adding(id)
    BY <1>0, <1>5 DEF IndexFingerprint, Granted, Moved, Adding, TypeOK
  <2>3. \A id \in DOMAIN diag : Unstored(id)' <=> Unstored(id)
    BY <2>1, <2>2 DEF Unstored
  <2> QED BY <2>1, <2>3, StoredStays
<1>6. CASE Rested
  <2>1. diag' = diag /\ diagnoses' = diagnoses /\ pc' = pc /\ cur' = cur
    BY <1>6 DEF Rested, callVars
  <2>2. \A id \in DOMAIN diag : Unstored(id)' <=> Unstored(id)
    BY <2>1 DEF Unstored, Adding
  <2> QED BY <2>1, <2>2, StoredStays
<1> QED BY <1>1, <1>2, <1>3, <1>4, <1>5, <1>6 DEF Kind

LEMMA StoredMeansOnce == StoredInv => StoredOnce
<1> SUFFICES ASSUME StoredInv, NEW id \in DOMAIN diag
             PROVE  IF Unstored(id) THEN StoredAt(id) = {} ELSE Cardinality(StoredAt(id)) = 1
  BY Zenon DEF StoredOnce, Unstored, Adding, StoredAt
<1>1. IF Unstored(id) THEN StoredAt(id) = {} ELSE \E i : StoredAt(id) = {i}
  BY DEF StoredInv
<1> HIDE DEF StoredInv
<1>2. \A i : Cardinality({i}) = 1
  BY FS_Singleton
<1> QED BY <1>1, <1>2

-----------------------------------------------------------------------------
(* The slots of the rate limiter. *)

\* The limiter's entry for a node is the last slot it handed out. A call that asks for a
\* slot is newer than all that have one, and a call that pays has one.
SlotInv ==
  /\ \A n \in Nodes : lastCall[n] <= now
  /\ \A g \in grants : g.at <= lastCall[g.node]
  /\ \A n \in Nodes : lastCall[n] # 0 => \E g \in grants : g.node = n /\ g.at = lastCall[n]
  /\ pc[AutoCaller] \in {"lookup", "acquire"} => \A g \in grants : g.id < cur[AutoCaller]
  /\ pc[AutoCaller] = "llm" => \E g \in grants : g.id = cur[AutoCaller]

LEMMA AutoIsCaller == AutoCaller \in Callers
BY DEF Callers

LEMMA SlotTypes ==
  ASSUME TypeOK, NEW g \in grants
  PROVE  g.id \in DOMAIN diag /\ g.id \in Nat /\ g.node \in Nodes /\ g.at \in Nat
<1>1. g \in [id: DOMAIN diag, node: Nodes, at: Time] /\ DOMAIN diag \subseteq Nat
  BY DEF TypeOK
<1> QED BY <1>1

\* What a slot leaves behind.
LEMMA GrantedFacts ==
  ASSUME CacheInv, Phased, NEW c \in Callers, Granted(c)
  PROVE  /\ c = AutoCaller /\ pc[c] = "acquire" /\ cur[c] \in DOMAIN diag /\ cur[c] \in Nat
         /\ pc' = [pc EXCEPT ![c] = "llm"] /\ cur' = cur /\ diag' = diag /\ now' = now
         /\ diagnoses' = diagnoses /\ fingerprints' = fingerprints
         /\ NodeOf[diag[cur[c]].alert] \in Nodes
         /\ now - lastCall[NodeOf[diag[cur[c]].alert]] >= RateCooldown
         /\ lastCall' = [lastCall EXCEPT ![NodeOf[diag[cur[c]].alert]] = now]
         /\ grants' = grants \cup
              {[id |-> cur[c], node |-> NodeOf[diag[cur[c]].alert], at |-> now]}
<1>1. pc[c] = "acquire" /\ cur[c] \in DOMAIN diag /\ cur[c] \in Nat /\ TypeOK
  BY DEF Granted, CacheInv, TypeOK
<1>2. NodeOf[diag[cur[c]].alert] \in Nodes
  BY <1>1, AlertOfRecord, AlertAssumption
<1> QED BY <1>1, <1>2 DEF Granted, MayAcquire, Phased, storeVars

LEMMA SlotStep ==
  ASSUME CacheInv, Phased, SlotInv, Kind, TypeOK'
  PROVE  SlotInv'
<1>0. TypeOK /\ AutoCaller \in Callers /\ now \in Nat /\ lastCall \in [Nodes -> Nat]
  BY AutoIsCaller DEF CacheInv, TypeOK
<1>1. ASSUME NEW c \in Callers, NEW a \in Alerts, Entered(c, a) PROVE SlotInv'
  <2>1. \A g \in grants : g.id \in DOMAIN diag
    BY <1>0, SlotTypes
  <2>2. /\ pc' = [pc EXCEPT ![c] = "lookup"] /\ cur' = [cur EXCEPT ![c] = Len(diag) + 1]
        /\ \A id \in DOMAIN diag : id < Len(diag) + 1
        /\ now' = now /\ lastCall' = lastCall /\ grants' = grants
    BY <1>1, EnteredFacts
  <2>3. /\ c = AutoCaller => pc'[AutoCaller] = "lookup" /\ cur'[AutoCaller] = Len(diag) + 1
        /\ c # AutoCaller => pc'[AutoCaller] = pc[AutoCaller] /\ cur'[AutoCaller] = cur[AutoCaller]
    BY <1>0, <2>2 DEF TypeOK
  <2> QED BY <2>1, <2>2, <2>3 DEF SlotInv
<1>2. ASSUME now <= now', now' \in Nat, lastCall' = lastCall, grants' = grants,
             pc'[AutoCaller] \in {"lookup", "acquire"} =>
               pc[AutoCaller] \in {"lookup", "acquire"} /\ cur'[AutoCaller] = cur[AutoCaller],
             pc'[AutoCaller] = "llm" =>
               pc[AutoCaller] = "llm" /\ cur'[AutoCaller] = cur[AutoCaller]
      PROVE  SlotInv'
  <2>1. \A n \in Nodes : lastCall[n] <= now'
    BY <1>0, <1>2 DEF SlotInv
  <2> QED BY <1>2, <2>1 DEF SlotInv
<1>3. ASSUME NEW c \in Callers, NEW s \in Made, NEW f \in Confs, NEW m \in Models,
             Finished(c, s, f, m)
      PROVE  SlotInv'
  BY <1>0, <1>2, <1>3, FinishedFacts, SMTT(30) DEF TypeOK
<1>4. ASSUME NEW c \in Callers, LookupHit(c) PROVE SlotInv'
  BY <1>0, <1>2, <1>4, ChosenFacts DEF TypeOK
<1>5. ASSUME NEW c \in Callers, AddDiagnosis(c) \/ IndexFingerprint(c) PROVE SlotInv'
  <2>1. /\ UNCHANGED <<now, lastCall, grants, cur>>
        /\ pc' \in {[pc EXCEPT ![c] = "index"], [pc EXCEPT ![c] = "done"]}
    BY <1>5 DEF AddDiagnosis, IndexFingerprint, limitVars
  <2>2. pc \in [Callers -> Phases]
    BY <1>0 DEF TypeOK
  <2> QED BY <1>0, <1>2, <2>1, <2>2
<1>6. ASSUME NEW c \in Callers, NEW ph \in Phases, Moved(c, ph) PROVE SlotInv'
  <2>1. /\ pc' = [pc EXCEPT ![c] = ph] /\ UNCHANGED <<now, lastCall, grants>>
        /\ c = AutoCaller => \/ pc[c] = "lookup" /\ cur' = cur /\ ph = "acquire"
                             \/ ph = "raised" \/ ph = "idle"
        /\ c # AutoCaller => cur'[AutoCaller] = cur[AutoCaller]
    BY <1>0, <1>6 DEF Moved, limitVars, TypeOK
  <2>2. pc \in [Callers -> Phases]
    BY <1>0 DEF TypeOK
  <2>3. CASE c = AutoCaller
    BY <1>0, <1>2, <2>1, <2>2, <2>3
  <2>4. CASE c # AutoCaller
    BY <1>0, <1>2, <2>1, <2>2, <2>4
  <2> QED BY <2>3, <2>4
<1>7. ASSUME NEW c \in Callers, Granted(c) PROVE SlotInv'
  <2> DEFINE node == NodeOf[diag[cur[c]].alert]
             slot == [id |-> cur[c], node |-> node, at |-> now]
  <2>1. /\ c = AutoCaller /\ pc' = [pc EXCEPT ![c] = "llm"] /\ cur' = cur /\ now' = now
        /\ node \in Nodes /\ lastCall' = [lastCall EXCEPT ![node] = now]
        /\ grants' = grants \cup {slot}
    BY <1>7, GrantedFacts
  <2>2. slot.id = cur[c] /\ slot.node = node /\ slot.at = now
    OBVIOUS
  <2> HIDE DEF slot, node
  <2>3. /\ lastCall'[node] = now /\ \A n \in Nodes : n # node => lastCall'[n] = lastCall[n]
        /\ pc'[AutoCaller] = "llm" /\ cur'[AutoCaller] = cur[c]
    BY <1>0, <2>1 DEF TypeOK
  <2>4. \A g \in grants' : g.at <= lastCall'[g.node]
    <3> SUFFICES ASSUME NEW g \in grants' PROVE g.at <= lastCall'[g.node]
      OBVIOUS
    <3>1. CASE g = slot
      BY <1>0, <2>2, <2>3, <3>1
    <3>2. CASE g \in grants
      <4>1. g.node \in Nodes /\ g.at \in Nat /\ g.at <= lastCall[g.node]
        BY <1>0, <3>2, SlotTypes DEF SlotInv
      <4>2. lastCall[g.node] <= now /\ lastCall[g.node] \in Nat
        BY <1>0, <4>1 DEF SlotInv
      <4> QED BY <1>0, <2>3, <4>1, <4>2
    <3> QED BY <2>1, <3>1, <3>2
  <2>5. \A n \in Nodes : lastCall'[n] # 0 => \E g \in grants' : g.node = n /\ g.at = lastCall'[n]
    <3> SUFFICES ASSUME NEW n \in Nodes, lastCall'[n] # 0
                 PROVE  \E g \in grants' : g.node = n /\ g.at = lastCall'[n]
      OBVIOUS
    <3>1. CASE n = node
      BY <2>1, <2>2, <2>3, <3>1
    <3>2. CASE n # node
      BY <2>1, <2>3, <3>2 DEF SlotInv
    <3> QED BY <3>1, <3>2
  <2>6. \A n \in Nodes : lastCall'[n] <= now'
    BY <1>0, <2>1, <2>3 DEF SlotInv
  <2>7. \E g \in grants' : g.id = cur'[AutoCaller]
    BY <2>1, <2>2, <2>3
  <2> QED BY <2>1, <2>3, <2>4, <2>5, <2>6, <2>7 DEF SlotInv
<1>8. CASE Rested
  <2>1. now' \in Nat
    BY DEF TypeOK
  <2> QED BY <1>2, <1>8, <2>1 DEF Rested, limitVars, callVars
<1> QED BY <1>1, <1>3, <1>4, <1>5, <1>6, <1>7, <1>8 DEF Kind

-----------------------------------------------------------------------------
(* Paid calls and refusals. *)

PaidHaveSlots ==
  \A id \in DOMAIN diag :
    diag[id].by = AutoCaller /\ diag[id].status = "completed" /\ diag[id].model = "llm" =>
      \E g \in grants : g.id = id

SlotsSpaced ==
  \A g, h \in grants :
    g.node = h.node /\ g # h =>
      g.at - h.at >= RateCooldown \/ h.at - g.at >= RateCooldown

LEMMA GrantsGrow ==
  ASSUME Kind
  PROVE  grants \subseteq grants'
BY Zenon DEF Kind, Entered, Finished, LookupHit, AddDiagnosis, IndexFingerprint, Granted, Moved,
             Rested, limitVars

LEMMA PaidStep ==
  ASSUME CacheInv, SlotInv, PaidHaveSlots, Kind
  PROVE  PaidHaveSlots'
<1>0. Settles /\ grants \subseteq grants' /\ TypeOK
  BY KindSettles, GrantsGrow DEF CacheInv
<1>1. ASSUME \A id \in DOMAIN diag' :
               \/ id \in DOMAIN diag /\ diag'[id].by = diag[id].by
                    /\ diag'[id].status = diag[id].status /\ diag'[id].model = diag[id].model
               \/ diag'[id].by # AutoCaller \/ diag'[id].status # "completed"
               \/ diag'[id].model # "llm" \/ \E g \in grants : g.id = id
      PROVE  PaidHaveSlots'
  BY <1>0, <1>1 DEF PaidHaveSlots
<1>2. ASSUME NEW c \in Callers, NEW a \in Alerts, Entered(c, a) PROVE PaidHaveSlots'
  BY <1>1, <1>2, EnteredFacts
<1>3. ASSUME NEW c \in Callers, NEW s \in Made, NEW f \in Confs, NEW m \in Models,
             Finished(c, s, f, m)
      PROVE  PaidHaveSlots'
  <2>1. s = "completed" /\ m = "llm" /\ c = AutoCaller => \E g \in grants : g.id = cur[c]
    BY <1>3 DEF Finished, SlotInv
  <2> QED BY <1>1, <1>3, <2>1, FinishedFacts
<1>4. ASSUME NEW c \in Callers, LookupHit(c) PROVE PaidHaveSlots'
  BY <1>1, <1>4, ChosenFacts
<1>5. CASE diag' = diag
  BY <1>1, <1>5
<1> QED BY <1>2, <1>3, <1>4, <1>5
        DEF Kind, AddDiagnosis, IndexFingerprint, Granted, Moved, Rested, storeVars

LEMMA SlotsStep ==
  ASSUME CacheInv, Phased, SlotInv, SlotsSpaced, Kind
  PROVE  SlotsSpaced'
<1>0. TypeOK /\ now \in Nat /\ lastCall \in [Nodes -> Nat] /\ RateCooldown \in Nat
  BY ParameterAssumption DEF CacheInv, TypeOK
<1>1. ASSUME NEW c \in Callers, Granted(c) PROVE SlotsSpaced'
  <2> DEFINE node == NodeOf[diag[cur[c]].alert]
             slot == [id |-> cur[c], node |-> node, at |-> now]
  <2>1. /\ node \in Nodes /\ now - lastCall[node] >= RateCooldown
        /\ grants' = grants \cup {slot}
    BY <1>1, GrantedFacts
  <2>2. slot.node = node /\ slot.at = now
    OBVIOUS
  <2> HIDE DEF slot, node
  <2>3. ASSUME NEW g \in grants, g.node = node PROVE slot.at - g.at >= RateCooldown
    <3>1. g.at \in Nat /\ g.at <= lastCall[node]
      BY <1>0, <2>3, SlotTypes DEF SlotInv
    <3>2. lastCall[node] \in Nat
      BY <1>0, <2>1
    <3> QED BY <1>0, <2>1, <2>2, <3>1, <3>2
  <2> QED BY <2>1, <2>2, <2>3 DEF SlotsSpaced
<1>2. CASE grants' = grants
  BY <1>2 DEF SlotsSpaced
<1> QED BY <1>1, <1>2
        DEF Kind, Entered, Finished, LookupHit, AddDiagnosis, IndexFingerprint, Moved, Rested,
            limitVars

LEMMA RefusalStep ==
  ASSUME CacheInv, Phased, SlotInv, RefusalsJustified, Kind
  PROVE  RefusalsJustified'
<1>0. /\ Settles /\ grants \subseteq grants' /\ TypeOK /\ now \in Nat
      /\ lastCall \in [Nodes -> Nat] /\ AutoCaller \in Callers
  BY KindSettles, GrantsGrow, AutoIsCaller DEF CacheInv, TypeOK
<1> DEFINE Justified(id) ==
      /\ diag[id].by = AutoCaller
      /\ diag[id].ts < RateCooldown \/ HasSlotBefore(id)
<1>1. ASSUME \A id \in DOMAIN diag' :
               \/ id \in DOMAIN diag /\ diag'[id].status = diag[id].status
               \/ diag'[id].status # "rate_limited" \/ Justified(id)'
      PROVE  RefusalsJustified'
  <2>1. ASSUME NEW id \in DOMAIN diag, diag[id].status = "rate_limited" PROVE Justified(id)'
    <3>1. Justified(id)
      BY <2>1, Zenon DEF RefusalsJustified
    <3>2. diag'[id] = diag[id]
      BY <1>0, <2>1 DEF Settles
    <3>3. HasSlotBefore(id) => HasSlotBefore(id)'
      BY <1>0, <3>2 DEF HasSlotBefore
    <3> QED BY <3>1, <3>2, <3>3
  <2> QED BY <1>1, <2>1, Zenon DEF RefusalsJustified
<1>2. ASSUME NEW c \in Callers, NEW a \in Alerts, Entered(c, a) PROVE RefusalsJustified'
  <2> HIDE DEF Justified
  <2>1. "pending" # "rate_limited"
    OBVIOUS
  <2> QED BY <1>1, <1>2, <2>1, EnteredFacts
<1>3. ASSUME NEW c \in Callers, NEW s \in Made, NEW f \in Confs, NEW m \in Models,
             Finished(c, s, f, m)
      PROVE  RefusalsJustified'
  <2>1. /\ cur[c] \in DOMAIN diag /\ diag[cur[c]].by = c
        /\ DOMAIN diag' = DOMAIN diag
        /\ \A id \in DOMAIN diag : id # cur[c] => diag'[id] = diag[id]
        /\ diag'[cur[c]].alert = diag[cur[c]].alert /\ diag'[cur[c]].by = c
        /\ diag'[cur[c]].status = s /\ diag'[cur[c]].ts = now
        /\ grants' = grants
    BY <1>3, FinishedFacts
  <2>2. ASSUME NEW id, id = cur[c], s = "rate_limited" PROVE Justified(id)'
    <3> DEFINE node == NodeOf[diag[id].alert]
    <3>1. pc[c] = "acquire" /\ ~MayAcquire(node) /\ c = AutoCaller
      BY <1>3, <2>2 DEF Finished, Phased
    <3>2. node \in Nodes
      BY <1>0, <2>1, <2>2, AlertOfRecord, AlertAssumption
    <3>3. now - lastCall[node] < RateCooldown /\ lastCall[node] \in Nat /\ RateCooldown \in Nat
      BY <1>0, <3>1, <3>2, ParameterAssumption DEF MayAcquire
    <3>4. diag'[id].by = AutoCaller /\ diag'[id].alert = diag[id].alert /\ diag'[id].ts = now
      BY <2>1, <2>2, <3>1
    <3>5. CASE lastCall[node] = 0
      BY <1>0, <3>3, <3>4, <3>5
    <3>6. CASE lastCall[node] # 0
      <4>1. PICK g \in grants : g.node = node /\ g.at = lastCall[node]
        BY <3>2, <3>6 DEF SlotInv
      <4>2. g.id < cur[c] /\ g.at <= now
        BY <3>1, <3>2, <4>1 DEF SlotInv
      <4>3. HasSlotBefore(id)'
        BY <2>1, <2>2, <3>3, <3>4, <4>1, <4>2 DEF HasSlotBefore
      <4> QED BY <3>4, <4>3
    <3> QED BY <3>5, <3>6
  <2> HIDE DEF Justified
  <2>3. \A id \in DOMAIN diag' : \/ id \in DOMAIN diag /\ diag'[id].status = diag[id].status
                                 \/ diag'[id].status # "rate_limited" \/ Justified(id)'
    BY <2>1, <2>2
  <2> QED BY <1>1, <2>3
<1>4. ASSUME NEW c \in Callers, LookupHit(c) PROVE RefusalsJustified'
  BY <1>1, <1>4, ChosenFacts
<1>5. CASE diag' = diag
  BY <1>1, <1>5
<1> QED BY <1>2, <1>3, <1>4, <1>5
        DEF Kind, AddDiagnosis, IndexFingerprint, Granted, Moved, Rested, storeVars

-----------------------------------------------------------------------------
(* The index and the ring. *)

\* A completed result of the LLM in the ring is indexed, or about to be.
Indexed(id) ==
  \/ id \in DOMAIN fingerprints
  \/ \E c \in Callers : pc[c] = "index" /\ cur[c] = id

RingIndexed ==
  \A id \in LiveIds : diag[id].status = "completed" /\ diag[id].model = "llm" => Indexed(id)

IndexSmall ==
  IsFiniteSet(DOMAIN fingerprints) /\ Cardinality(DOMAIN fingerprints) <= MaxDiagnoses + 1

\* The ring holds at most MaxDiagnoses ids, those of results that were stored.
LEMMA RingFacts ==
  ASSUME TypeOK
  PROVE  /\ LiveIds \subseteq DOMAIN diag
         /\ IsFiniteSet(LiveIds) /\ Cardinality(LiveIds) <= MaxDiagnoses
<1> DEFINE n == Len(diagnoses)
           low == IF n <= MaxDiagnoses THEN 1 ELSE n - MaxDiagnoses + 1
<1>1. n \in Nat /\ DOMAIN diagnoses = 1..n /\ MaxDiagnoses \in Nat \ {0}
      /\ diagnoses \in [1..n -> DOMAIN diag]
  BY ParameterAssumption, SMTT(30) DEF TypeOK
<1>2. StoredDiagnoses = low..n
  BY <1>1 DEF StoredDiagnoses
<1>3. low \in Int /\ n \in Int /\ n - low + 1 <= MaxDiagnoses /\ (low > n => n = 0)
  BY <1>1
<1>4. IsFiniteSet(StoredDiagnoses) /\ Cardinality(StoredDiagnoses) <= MaxDiagnoses
  <2> HIDE DEF n, low
  <2>1. IsFiniteSet(low..n) /\ Cardinality(low..n) = IF low > n THEN 0 ELSE n - low + 1
    BY <1>3, FS_Interval
  <2> QED BY <1>1, <1>2, <1>3, <2>1
<1>5. IsFiniteSet(LiveIds) /\ Cardinality(LiveIds) <= Cardinality(StoredDiagnoses)
  <2> DEFINE f == [i \in StoredDiagnoses |-> diagnoses[i]]
  <2>1. f \in Surjection(StoredDiagnoses, LiveIds)
    BY DEF LiveIds, Surjection
  <2> QED BY <1>4, <2>1, FS_Surjection
<1>6. LiveIds \subseteq DOMAIN diag
  BY <1>1 DEF LiveIds, StoredDiagnoses
<1>7. Cardinality(LiveIds) \in Nat /\ Cardinality(StoredDiagnoses) \in Nat
  BY <1>4, <1>5, FS_CardinalityType
<1> QED BY <1>1, <1>4, <1>5, <1>6, <1>7

LEMMA PrunedFacts ==
  ASSUME TypeOK, NEW id, NEW fp
  PROVE  /\ DOMAIN Pruned(fingerprints, id, fp) = (DOMAIN fingerprints \cap LiveIds) \cup {id}
         /\ IsFiniteSet(DOMAIN Pruned(fingerprints, id, fp))
         /\ Cardinality(DOMAIN Pruned(fingerprints, id, fp)) <= MaxDiagnoses + 1
<1> DEFINE kept == DOMAIN fingerprints \cap LiveIds
<1>1. DOMAIN Pruned(fingerprints, id, fp) = kept \cup {id}
  BY DEF Pruned
<1>2. IsFiniteSet(LiveIds) /\ Cardinality(LiveIds) <= MaxDiagnoses /\ kept \in SUBSET LiveIds
  BY RingFacts
<1> HIDE DEF kept
<1>3. IsFiniteSet(kept) /\ Cardinality(kept) <= Cardinality(LiveIds)
  BY <1>2, FS_Subset
<1>4. /\ IsFiniteSet(kept \cup {id})
      /\ Cardinality(kept \cup {id}) = IF id \in kept THEN Cardinality(kept) ELSE Cardinality(kept) + 1
  BY <1>3, FS_AddElement
<1>5. Cardinality(kept) \in Nat /\ Cardinality(LiveIds) \in Nat /\ MaxDiagnoses \in Nat
  BY <1>2, <1>3, FS_CardinalityType, ParameterAssumption
<1> QED BY <1>1, <1>2, <1>3, <1>4, <1>5 DEF kept

LEMMA SmallStep ==
  ASSUME TypeOK, IndexSmall, Kind
  PROVE  IndexSmall'
<1>1. ASSUME NEW c \in Callers, IndexFingerprint(c) PROVE IndexSmall'
  BY <1>1, PrunedFacts DEF IndexFingerprint, IndexSmall
<1>2. CASE fingerprints' = fingerprints
  BY <1>2 DEF IndexSmall
<1> QED BY <1>1, <1>2
        DEF Kind, Entered, Finished, LookupHit, AddDiagnosis, Granted, Moved, Rested, storeVars

\* A record that the ring holds is stored, so its call is finished.
LEMMA RingIsStored ==
  ASSUME TypeOK, StoredInv, NEW id \in LiveIds
  PROVE  id \in DOMAIN diag /\ ~Unstored(id)
<1>1. PICK i \in StoredDiagnoses : diagnoses[i] = id
  BY DEF LiveIds
<1>2. i \in StoredAt(id) /\ id \in DOMAIN diag
  BY <1>1, RingFacts DEF StoredDiagnoses, StoredAt
<1> QED BY <1>2 DEF StoredInv

LEMMA RingStep ==
  ASSUME CacheInv, StoredInv, RingIndexed, Kind
  PROVE  RingIndexed'
<1>0. TypeOK
  BY DEF CacheInv
<1>1. ASSUME diagnoses' = diagnoses,
             \A id \in LiveIds : diag'[id].status = diag[id].status /\ diag'[id].model = diag[id].model,
             \A id \in LiveIds : Indexed(id) => Indexed(id)'
      PROVE  RingIndexed'
  <2>1. LiveIds' = LiveIds
    BY <1>1 DEF LiveIds, StoredDiagnoses
  <2> QED BY <1>1, <2>1 DEF RingIndexed
<1>2. ASSUME NEW c \in Callers, NEW a \in Alerts, Entered(c, a) PROVE RingIndexed'
  <2>1. \A id \in LiveIds : id \in DOMAIN diag
    BY <1>0, RingFacts
  <2>2. /\ pc[c] = "idle" /\ pc' = [pc EXCEPT ![c] = "lookup"]
        /\ cur' = [cur EXCEPT ![c] = Len(diag) + 1]
        /\ \A id \in DOMAIN diag : diag'[id] = diag[id]
        /\ diagnoses' = diagnoses /\ fingerprints' = fingerprints
    BY <1>2, EnteredFacts
  <2>3. \A id \in LiveIds : Indexed(id) => Indexed(id)'
    BY <1>0, <2>2 DEF Indexed, TypeOK
  <2> QED BY <1>1, <2>1, <2>2, <2>3
<1>3. ASSUME NEW c \in Callers, NEW s \in Made, NEW f \in Confs, NEW m \in Models,
             Finished(c, s, f, m)
      PROVE  RingIndexed'
  <2>1. /\ cur[c] \in DOMAIN diag /\ diag[cur[c]].status = "pending"
        /\ pc[c] \in {"clone", "acquire", "llm"} /\ pc' = [pc EXCEPT ![c] = "add"] /\ cur' = cur
        /\ \A id \in DOMAIN diag : id # cur[c] => diag'[id] = diag[id]
        /\ diagnoses' = diagnoses /\ fingerprints' = fingerprints
    BY <1>3, FinishedFacts
  <2>2. \A id \in LiveIds : id \in DOMAIN diag /\ id # cur[c]
    BY <1>0, <2>1, RingIsStored DEF Unstored
  <2>3. \A id \in LiveIds : Indexed(id) => Indexed(id)'
    BY <1>0, <2>1 DEF Indexed, TypeOK
  <2> QED BY <1>1, <2>1, <2>2, <2>3
<1>4. ASSUME NEW c \in Callers, LookupHit(c) PROVE RingIndexed'
  <2>1. \A id \in LiveIds : id \in DOMAIN diag
    BY <1>0, RingFacts
  <2>2. /\ pc[c] = "lookup" /\ pc' = [pc EXCEPT ![c] = "clone"] /\ cur' = cur
        /\ \A id \in DOMAIN diag : diag'[id].status = diag[id].status /\ diag'[id].model = diag[id].model
        /\ diagnoses' = diagnoses /\ fingerprints' = fingerprints
    BY <1>4, ChosenFacts
  <2>3. \A id \in LiveIds : Indexed(id) => Indexed(id)'
    BY <1>0, <2>2 DEF Indexed, TypeOK
  <2> QED BY <1>1, <2>1, <2>2, <2>3
<1>5. ASSUME NEW c \in Callers, AddDiagnosis(c) PROVE RingIndexed'
  <2>1. /\ pc[c] = "add" /\ diagnoses' = Append(diagnoses, cur[c]) /\ diag' = diag /\ cur' = cur
        /\ fingerprints' = fingerprints
        /\ pc' = [pc EXCEPT ![c] = IF diag[cur[c]].status = "completed" /\ diag[cur[c]].model = "llm"
                                     THEN "index" ELSE "done"]
    BY <1>5 DEF AddDiagnosis
  <2>2. cur[c] \in DOMAIN diag
    BY <1>0, <2>1 DEF TypeOK
  <2>3. /\ Len(diagnoses') = Len(diagnoses) + 1
        /\ DOMAIN diagnoses' = DOMAIN diagnoses \cup {Len(diagnoses) + 1}
        /\ \A i \in DOMAIN diagnoses : diagnoses'[i] = diagnoses[i]
        /\ diagnoses'[Len(diagnoses) + 1] = cur[c]
    BY <1>0, <2>1, <2>2, AppendProperties DEF TypeOK
  <2>4. LiveIds' \subseteq LiveIds \cup {cur[c]}
    <3>0. diagnoses \in Seq(DOMAIN diag) /\ MaxDiagnoses \in Nat
      BY <1>0, ParameterAssumption DEF TypeOK
    <3>1. Len(diagnoses) \in Nat /\ MaxDiagnoses \in Nat /\ DOMAIN diagnoses = 1..Len(diagnoses)
      BY <3>0
    <3>2. \A i \in StoredDiagnoses' : i \in StoredDiagnoses \/ i = Len(diagnoses) + 1
      BY <2>3, <3>1 DEF StoredDiagnoses
    <3>3. \A i \in StoredDiagnoses' : diagnoses'[i] \in LiveIds \cup {cur[c]}
      BY <2>3, <3>2 DEF LiveIds, StoredDiagnoses
    <3> QED BY <3>3 DEF LiveIds
  <2>5. \A id : Indexed(id) => Indexed(id)'
    BY <1>0, <2>1 DEF Indexed, TypeOK
  <2>6. diag[cur[c]].status = "completed" /\ diag[cur[c]].model = "llm" =>
          pc'[c] = "index" /\ cur'[c] = cur[c]
    BY <1>0, <2>1 DEF TypeOK
  <2> SUFFICES ASSUME NEW id \in LiveIds', diag'[id].status = "completed", diag'[id].model = "llm"
               PROVE  Indexed(id)'
    BY DEF RingIndexed
  <2>7. CASE id \in LiveIds
    BY <2>1, <2>5, <2>7 DEF RingIndexed
  <2>8. CASE id = cur[c]
    BY <2>1, <2>6, <2>8 DEF Indexed
  <2> QED BY <2>4, <2>7, <2>8
<1>6. ASSUME NEW c \in Callers, IndexFingerprint(c) PROVE RingIndexed'
  <2>1. /\ pc[c] = "index" /\ pc' = [pc EXCEPT ![c] = "done"] /\ cur' = cur
        /\ diag' = diag /\ diagnoses' = diagnoses
        /\ DOMAIN fingerprints' = (DOMAIN fingerprints \cap LiveIds) \cup {cur[c]}
    BY <1>0, <1>6, PrunedFacts DEF IndexFingerprint
  <2>2. \A id \in LiveIds : Indexed(id) => Indexed(id)'
    BY <1>0, <2>1 DEF Indexed, TypeOK
  <2> QED BY <1>1, <2>1, <2>2
<1>7. ASSUME NEW c \in Callers, Granted(c) \/ \E ph \in Phases : Moved(c, ph)
      PROVE  RingIndexed'
  <2>1. diag' = diag /\ diagnoses' = diagnoses /\ fingerprints' = fingerprints
    BY <1>7 DEF Granted, Moved, storeVars
  <2>2. \A id \in LiveIds : Indexed(id) => Indexed(id)'
    BY <1>0, <1>7, <2>1 DEF Granted, Moved, Indexed, TypeOK
  <2> QED BY <1>1, <2>1, <2>2
<1>8. CASE Rested
  <2>1. /\ diag' = diag /\ diagnoses' = diagnoses /\ fingerprints' = fingerprints
        /\ pc' = pc /\ cur' = cur
    BY <1>8 DEF Rested, callVars
  <2>2. \A id \in LiveIds : Indexed(id) => Indexed(id)'
    BY <2>1 DEF Indexed
  <2> QED BY <1>1, <2>1, <2>2
<1> QED BY <1>2, <1>3, <1>4, <1>5, <1>6, <1>7, <1>8 DEF Kind

-----------------------------------------------------------------------------
(* All of it together. *)

CallInv ==
  /\ CacheInv /\ Phased /\ StoredInv /\ SlotInv
  /\ PaidHaveSlots /\ SlotsSpaced /\ RefusalsJustified
  /\ RingIndexed /\ IndexSmall

LEMMA CallStart == Init => CallInv
<1> SUFFICES ASSUME Init PROVE CallInv
  OBVIOUS
<1>1. CacheInv
  BY CacheInit
<1>2. Phased /\ StoredInv /\ PaidHaveSlots /\ SlotsSpaced /\ RefusalsJustified
  BY DEF Init, Phased, StoredInv, PaidHaveSlots, SlotsSpaced, RefusalsJustified
<1>3. SlotInv
  BY AutoIsCaller, ParameterAssumption DEF Init, SlotInv
<1>4. RingIndexed
  BY DEF Init, RingIndexed, LiveIds, StoredDiagnoses
<1>5. IndexSmall
  <2>1. DOMAIN fingerprints = {}
    BY DEF Init
  <2> QED BY <2>1, FS_EmptySet, ParameterAssumption DEF IndexSmall
<1> QED BY <1>1, <1>2, <1>3, <1>4, <1>5 DEF CallInv

LEMMA CallStep == CallInv /\ [Next]_vars => CallInv'
<1> SUFFICES ASSUME CallInv, [Next]_vars PROVE CallInv'
  OBVIOUS
<1>1. CacheInv /\ TypeOK /\ CacheInv' /\ TypeOK'
  BY CacheStep DEF CallInv, CacheInv
<1>2. Kind
  BY <1>1, StepKind
<1>3. Phased' /\ StoredInv' /\ SlotInv'
  BY <1>1, <1>2, PhasedStep, StoredStep, SlotStep DEF CallInv
<1>4. PaidHaveSlots' /\ SlotsSpaced' /\ RefusalsJustified'
  BY <1>1, <1>2, PaidStep, SlotsStep, RefusalStep DEF CallInv
<1>5. RingIndexed' /\ IndexSmall'
  BY <1>1, <1>2, RingStep, SmallStep DEF CallInv
<1> QED BY <1>1, <1>3, <1>4, <1>5 DEF CallInv

LEMMA CallInvariant == Spec => []CallInv
BY CallStart, CallStep, PTL DEF Spec

\* Whatever exit a call takes, and whatever other calls do meanwhile, its result is added
\* to the store exactly once, and never before it is made (agent.py, every store.add).
THEOREM AlwaysStoredOnce == Spec => []StoredOnce
<1>1. CallInv => StoredOnce
  BY StoredMeansOnce DEF CallInv
<1> QED BY <1>1, CallInvariant, PTL

\* The automatic loop never pays for two diagnoses of a node within the cooldown: each
\* paid call holds a slot of its own, and slots are spaced (rate_limiter.py try_acquire).
THEOREM PaidAlwaysSpaced == Spec => []PaidCallsSpaced
<1>1. CallInv => PaidCallsSpaced
  BY DEF CallInv, PaidHaveSlots, SlotsSpaced, PaidCallsSpaced
<1> QED BY <1>1, CallInvariant, PTL

\* Behind every refusal is an earlier call of the automatic loop that took the node's slot
\* less than the cooldown before, or a monotonic clock that has not reached the cooldown yet
\* (rate_limiter.py:25): no failure, request or interleaving adds another reason.
THEOREM AlwaysJustified == Spec => []RefusalsJustified
<1>1. CallInv => RefusalsJustified
  BY DEF CallInv
<1> QED BY <1>1, CallInvariant, PTL

\* The ring and the index agree at every point between their two critical sections, and
\* the index stays within one entry of the ring's size (store.py index_fingerprint).
THEOREM IndexAlwaysAgrees == Spec => []IndexAgrees
<1>1. CallInv => IndexAgrees
  BY DEF CallInv, CacheInv, RingIndexed, Indexed, IndexSmall, IndexAgrees
<1> QED BY <1>1, CallInvariant, PTL

-----------------------------------------------------------------------------
(* Retries of the automatic loop. *)

\* The alert that the loop has handed over has no fresh result of the loop: it was judged by
\* the clock of the pass, which is not ahead of the real one.
RetryInv ==
  /\ passNow <= now
  /\ asked[AutoCaller] # 0 =>
       /\ pc[AutoCaller] = "idle" /\ loop = "pass"
       /\ \A x \in DOMAIN diag :
            /\ diag[x].by = AutoCaller /\ diag[x].alert = reported[asked[AutoCaller]]
            /\ diag[x].status # "pending"
            => MayRetry(x, passNow)
  /\ Busy(AutoCaller) => \A x \in DOMAIN diag : diag[x].by = AutoCaller => x <= cur[AutoCaller]
  /\ RetriesSpaced

\* The calls of the loop that are over.
Past(x) ==
  x \in DOMAIN diag /\ diag[x].by = AutoCaller /\ ~(Busy(AutoCaller) /\ cur[AutoCaller] = x)

LEMMA RingGrows ==
  ASSUME TypeOK, NEW id \in DOMAIN diag, diagnoses' = Append(diagnoses, id)
  PROVE  /\ DOMAIN diagnoses \subseteq DOMAIN diagnoses'
         /\ \A i \in DOMAIN diagnoses : diagnoses'[i] = diagnoses[i]
         /\ LiveIds' \subseteq LiveIds \cup {id}
<1>1. /\ DOMAIN diagnoses' = DOMAIN diagnoses \cup {Len(diagnoses) + 1}
      /\ Len(diagnoses') = Len(diagnoses) + 1
      /\ \A i \in DOMAIN diagnoses : diagnoses'[i] = diagnoses[i]
      /\ diagnoses'[Len(diagnoses) + 1] = id
  BY AppendProperties DEF TypeOK
<1>2. /\ Len(diagnoses) \in Nat /\ MaxDiagnoses \in Nat /\ DOMAIN diagnoses = 1..Len(diagnoses)
  BY ParameterAssumption DEF TypeOK
<1>3. \A i \in StoredDiagnoses' : i \in StoredDiagnoses \/ i = Len(diagnoses) + 1
  BY <1>1, <1>2 DEF StoredDiagnoses
<1>4. \A i \in StoredDiagnoses' : diagnoses'[i] \in LiveIds \cup {id}
  BY <1>1, <1>3 DEF LiveIds, StoredDiagnoses
<1> QED BY <1>1, <1>4 DEF LiveIds

\* What allowed a retry still does when the ring has grown, unless it is its first result
\* that grows the ring.
LEMMA MayRetryStays ==
  ASSUME TypeOK, Settles, NEW x \in DOMAIN diag, NEW t, MayRetry(x, t), x \in LiveIds' => x \in LiveIds,
         DOMAIN diagnoses \subseteq DOMAIN diagnoses',
         \A i \in DOMAIN diagnoses : diagnoses'[i] = diagnoses[i]
  PROVE  MayRetry(x, t)'
<1> SUFFICES ASSUME x \in LiveIds'
             PROVE  \E i, j \in DOMAIN diagnoses' : IsFailedSince(x, i, j, t)'
  BY DEF MayRetry
<1>1. PICK i \in DOMAIN diagnoses, j \in DOMAIN diagnoses : IsFailedSince(x, i, j, t)
  BY DEF MayRetry
<1>2. diagnoses[j] \in DOMAIN diag /\ diag[diagnoses[j]].status = "failed"
  BY <1>1 DEF TypeOK, IsFailedSince
<1>3. diag'[diagnoses[j]] = diag[diagnoses[j]] /\ diag'[x].alert = diag[x].alert
  BY <1>2 DEF Settles
<1>4. diagnoses'[i] = diagnoses[i] /\ diagnoses'[j] = diagnoses[j]
  BY <1>1
<1>5. IsFailedSince(x, i, j, t)'
  BY <1>1, <1>3, <1>4 DEF IsFailedSince
<1> QED BY <1>1, <1>5

\* No step changes a call of the loop that is over, nor what it allows.
LEMMA PastStays ==
  ASSUME CacheInv, Kind, NEW x, Past(x)
  PROVE  /\ diag'[x].status = diag[x].status
         /\ \A t : MayRetry(x, t) => MayRetry(x, t)'
<1>0. TypeOK /\ Settles /\ x \in DOMAIN diag /\ AutoCaller \in Callers
  BY KindSettles, AutoIsCaller DEF CacheInv, Past
<1>1. ASSUME NEW c \in Callers, Busy(c) PROVE x # cur[c]
  BY <1>1 DEF Past, Busy, CacheInv, Mine
<1>2. diag'[x].status = diag[x].status
  <2>1. ASSUME NEW c \in Callers, NEW a \in Alerts, Entered(c, a)
        PROVE  diag'[x].status = diag[x].status
    BY <1>0, <2>1, EnteredFacts
  <2>2. ASSUME NEW c \in Callers, NEW s \in Made, NEW f \in Confs, NEW m \in Models,
               Finished(c, s, f, m)
        PROVE  diag'[x].status = diag[x].status
    BY <1>0, <1>1, <2>2, FinishedFacts DEF Busy
  <2>3. ASSUME NEW c \in Callers, LookupHit(c) PROVE diag'[x].status = diag[x].status
    BY <1>0, <2>3, ChosenFacts
  <2>4. CASE diag' = diag
    BY <2>4
  <2> QED BY <2>1, <2>2, <2>3, <2>4
          DEF Kind, AddDiagnosis, IndexFingerprint, Granted, Moved, Rested, storeVars
<1>3. CASE \E c \in Callers : AddDiagnosis(c)
  <2>1. PICK c \in Callers : AddDiagnosis(c)
    BY <1>3
  <2>2. pc[c] = "add" /\ diagnoses' = Append(diagnoses, cur[c]) /\ Busy(c)
    BY <2>1 DEF AddDiagnosis, Busy
  <2>3. cur[c] \in DOMAIN diag /\ x # cur[c]
    BY <1>0, <1>1, <2>2 DEF TypeOK
  <2>4. /\ DOMAIN diagnoses \subseteq DOMAIN diagnoses'
        /\ \A i \in DOMAIN diagnoses : diagnoses'[i] = diagnoses[i]
        /\ LiveIds' \subseteq LiveIds \cup {cur[c]}
    BY <1>0, <2>2, <2>3, RingGrows
  <2>5. x \in LiveIds' => x \in LiveIds
    BY <2>3, <2>4
  <2> QED BY <1>0, <1>2, <2>4, <2>5, MayRetryStays
<1>4. CASE diagnoses' = diagnoses
  <2>1. LiveIds' = LiveIds
    BY <1>4 DEF LiveIds, StoredDiagnoses
  <2> QED BY <1>0, <1>2, <1>4, <2>1, MayRetryStays
<1> QED BY <1>3, <1>4
        DEF Kind, Entered, Finished, LookupHit, IndexFingerprint, Granted, Moved, Rested, storeVars

\* What the loop has found for an alert it hands over: its own last call for it is not in the
\* ring any more, or a failed result at least as new as that is old enough.
LEMMA VisitChecks ==
  ASSUME CallInv, NEW a \in Alerts, ~Skips(a), NEW x \in DOMAIN diag, diag[x].alert = a
  PROVE  MayRetry(x, passNow)
<1>0. TypeOK /\ StoredInv
  BY DEF CallInv, CacheInv
<1> SUFFICES ASSUME x \in LiveIds
             PROVE  \E i, j \in DOMAIN diagnoses : IsFailedSince(x, i, j, passNow)
  BY DEF MayRetry
<1>1. PICK i \in StoredDiagnoses : diagnoses[i] = x
  BY DEF LiveIds
<1> DEFINE S == {k \in StoredDiagnoses : diag[diagnoses[k]].alert = a}
<1>2. S \subseteq 1..Len(diagnoses) /\ Len(diagnoses) \in Nat /\ i \in S
  BY <1>0, <1>1 DEF TypeOK, StoredDiagnoses
<1>3. PICK j \in S : \A k \in S : k <= j
  BY <1>2, LastPlace
<1>4. IsNewestFor(a, j)
  BY <1>3 DEF IsNewestFor
<1>5. diagnoses[j] \in LiveIds /\ i \in DOMAIN diagnoses /\ j \in DOMAIN diagnoses
  BY <1>1, <1>3 DEF LiveIds, StoredDiagnoses
<1>6. diagnoses[j] \in DOMAIN diag /\ diag[diagnoses[j]].status # "pending"
  BY <1>0, <1>5, RingIsStored DEF Unstored
<1>7. diag[diagnoses[j]].status \in Statuses /\ diag[diagnoses[j]].ts \in Nat
  BY <1>0, <1>6, AlertOfRecord DEF Diagnosis
<1>8. /\ diag[diagnoses[j]].status \notin {"completed", "cached", "rate_limited"}
      /\ ~(/\ diag[diagnoses[j]].status = "failed"
           /\ passNow - diag[diagnoses[j]].ts < FailedRetryCooldown)
  BY <1>3, <1>4 DEF Skips
<1>9. diag[diagnoses[j]].status = "failed"
  BY <1>6, <1>7, <1>8 DEF Statuses
<1>10. passNow - diag[diagnoses[j]].ts >= FailedRetryCooldown
  <2>1. passNow \in Nat /\ FailedRetryCooldown \in Nat
    BY <1>0, ParameterAssumption DEF TypeOK
  <2>2. ~(passNow - diag[diagnoses[j]].ts < FailedRetryCooldown)
    BY <1>8, <1>9
  <2>3. diag[diagnoses[j]].ts \in Nat
    BY <1>7
  <2> QED BY <2>1, <2>2, <2>3
<1>11. IsFailedSince(x, i, j, passNow)
  BY <1>1, <1>2, <1>3, <1>9, <1>10 DEF IsFailedSince
<1> QED BY <1>5, <1>11

\* Time only adds to what allows a retry.
LEMMA MayRetryLater ==
  ASSUME TypeOK, NEW x, NEW t \in Nat, NEW u \in Nat, t <= u, MayRetry(x, t)
  PROVE  MayRetry(x, u)
<1> SUFFICES ASSUME x \in LiveIds
             PROVE  \E i, j \in DOMAIN diagnoses : IsFailedSince(x, i, j, u)
  BY DEF MayRetry
<1>1. PICK i \in DOMAIN diagnoses, j \in DOMAIN diagnoses : IsFailedSince(x, i, j, t)
  BY DEF MayRetry
<1>2. diagnoses[j] \in DOMAIN diag
  BY <1>1 DEF TypeOK
<1>3. diag[diagnoses[j]].ts \in Nat /\ FailedRetryCooldown \in Nat
  BY <1>2, AlertOfRecord, ParameterAssumption DEF Diagnosis
<1>4. IsFailedSince(x, i, j, u)
  BY <1>1, <1>3 DEF IsFailedSince
<1> QED BY <1>1, <1>4

\* What a step does to the alert handed over by the loop.
LEMMA HandOver ==
  ASSUME TypeOK, RetryInv, [Next]_vars, ~Enter(AutoCaller), ~AutoVisit
  PROVE  \/ asked'[AutoCaller] = 0
         \/ /\ asked[AutoCaller] # 0 /\ asked'[AutoCaller] = asked[AutoCaller]
            /\ pc'[AutoCaller] = pc[AutoCaller] /\ loop' = loop /\ passNow' = passNow
            /\ reported'[asked[AutoCaller]] = reported[asked[AutoCaller]]
<1>0. AutoCaller \in Callers /\ asked \in [Callers -> Nat] /\ pc \in [Callers -> Phases]
  BY AutoIsCaller DEF TypeOK
<1> SUFFICES ASSUME asked'[AutoCaller] # 0
             PROVE  /\ asked[AutoCaller] # 0 /\ asked'[AutoCaller] = asked[AutoCaller]
                    /\ pc'[AutoCaller] = pc[AutoCaller] /\ loop' = loop /\ passNow' = passNow
                    /\ reported'[asked[AutoCaller]] = reported[asked[AutoCaller]]
  OBVIOUS
<1>1. asked[AutoCaller] # 0 => pc[AutoCaller] = "idle" /\ loop = "pass"
  BY DEF RetryInv
<1>2. ASSUME NEW c \in Callers, Step(c)
      PROVE  pc[c] # "idle" /\ (\E ph : pc' = [pc EXCEPT ![c] = ph]) /\ UNCHANGED <<loopVars, reported>>
  <2>1. ASSUME MakeLlmUnavailableResult(c, "failed") \/ MakeLlmUnavailableResult(c, "rate_limited")
               \/ MakeFailedResult(c, "failed")
               \/ \E s, f, m : Finish(c, s, f, m)
        PROVE  pc' = [pc EXCEPT ![c] = "add"]
    BY <2>1 DEF MakeLlmUnavailableResult, MakeLocalFallbackResult, MakeFailedResult, Finish
  <2>2. CASE CloneCached(c) \/ FailCall(c) \/ LlmError(c) \/ LlmCompletes(c)
    BY <2>1, <2>2 DEF CloneCached, FailCall, LlmError, LlmCompletes
  <2>3. CASE TryAcquire(c)
    BY <2>1, <2>3 DEF TryAcquire
  <2>4. CASE LookupHit(c) \/ LookupMiss(c) \/ LlmInvalid(c) \/ AddDiagnosis(c) \/ IndexFingerprint(c)
    BY <2>4 DEF LookupHit, LookupMiss, LlmInvalid, AddDiagnosis, IndexFingerprint, storeVars
  <2> QED BY <1>2, <2>2, <2>3, <2>4 DEF Step
<1>3. CASE \E c \in Callers : Step(c)
  BY <1>0, <1>1, <1>2, <1>3 DEF loopVars
<1>4. ASSUME NEW c \in Callers, Enter(c) PROVE c # AutoCaller /\ \E ph : pc' = [pc EXCEPT ![c] = ph]
  BY <1>4 DEF Enter, Diagnose
<1>5. CASE \E c \in Callers : Enter(c)
  BY <1>0, <1>4, <1>5 DEF Enter
<1>6. CASE \E r \in Requests : CreateDiagnosis(r) \/ Respond(r)
  BY <1>0, <1>6, CallersAssumption DEF CreateDiagnosis, Respond, callVars, storeVars, loopVars
<1>7. CASE AutoWake \/ AutoResume \/ AutoPassEnds \/ AutoPassAborts
  BY <1>0, <1>1, <1>7 DEF AutoWake, AutoResume, AutoPassEnds, AutoPassAborts, Free, loopVars
<1>8. CASE \E a \in Alerts : ReportAlert(a)
  <2>1. PICK a \in Alerts : ReportAlert(a)
    BY <1>8
  <2>2. asked[AutoCaller] \in DOMAIN reported /\ reported' = Append(reported, a)
        /\ UNCHANGED <<callVars, loopVars>>
    BY <1>0, <2>1 DEF ReportAlert, loopVars, TypeOK
  <2>3. reported'[asked[AutoCaller]] = reported[asked[AutoCaller]]
    BY <2>2, AppendProperties DEF TypeOK
  <2> QED BY <2>2, <2>3 DEF callVars, loopVars
<1>9. CASE Tick \/ UNCHANGED vars
  BY <1>9 DEF Tick, vars, storeVars, callVars, loopVars
<1> QED BY <1>3, <1>5, <1>6, <1>7, <1>8, <1>9 DEF Next, AutoLoop

\* Records are numbered from one on.
LEMMA RecordIds ==
  ASSUME TypeOK
  PROVE  /\ Len(diag) \in Nat /\ DOMAIN diag = 1..Len(diag)
         /\ \A id \in DOMAIN diag : id \in Nat /\ id < Len(diag) + 1
<1>1. diag \in Seq(Diagnosis)
  BY DEF TypeOK
<1> QED BY <1>1

\* Only the entry of the loop's thread makes a record for it.
LEMMA OnlyEntryAdds ==
  ASSUME TypeOK, [Next]_vars, ~Enter(AutoCaller), NEW y \in DOMAIN diag', diag'[y].by = AutoCaller
  PROVE  y \in DOMAIN diag
<1>1. CASE \E c \in Callers : Step(c)
  <2>1. PICK c \in Callers : Step(c)
    BY <1>1
  <2>2. diag' = diag \/ \E d : diag' = [diag EXCEPT ![cur[c]] = d]
    BY <2>1 DEF Step, LookupHit, LookupMiss, CloneCached, TryAcquire, FailCall, LlmError,
           LlmCompletes, LlmInvalid, AddDiagnosis, IndexFingerprint, storeVars,
           MakeLlmUnavailableResult, MakeLocalFallbackResult, MakeFailedResult, Finish
  <2> QED BY <2>2
<1>2. CASE \E c \in Callers : Enter(c)
  <2>1. PICK c \in Callers : Enter(c)
    BY <1>2
  <2>0. PICK a : a = reported[asked[c]]
    OBVIOUS
  <2>2. c # AutoCaller /\ Diagnose(c, a) /\ a \in Alerts
    <3>1. c # AutoCaller
      BY <2>1
    <3>2. Diagnose(c, a) /\ asked[c] # 0
      BY <2>0, <2>1 DEF Enter
    <3>3. a \in Alerts
      BY <2>0, <3>2 DEF TypeOK
    <3> QED BY <3>1, <3>2, <3>3
  <2>3. CASE a \in Unhashable
    BY <2>2, <2>3 DEF Diagnose, AlertFingerprintRaises
  <2>4. CASE a \notin Unhashable
    <3>1. /\ DOMAIN diag' = DOMAIN diag \cup {Len(diag) + 1}
          /\ diag'[Len(diag) + 1] =
               [alert |-> a, by |-> c, start |-> now, ts |-> now, status |-> "pending",
                conf |-> "none", model |-> "none", from |-> 0]
      BY <2>2, <2>4, DiagnoseTable
    <3> QED BY <2>2, <3>1
  <2> QED BY <2>3, <2>4
<1>3. CASE diag' = diag
  BY <1>3
<1> QED BY <1>1, <1>2, <1>3
        DEF Next, CreateDiagnosis, Respond, AutoLoop, AutoWake, AutoVisit, AutoResume, AutoPassEnds,
            AutoPassAborts, ReportAlert, Tick, vars, storeVars

\* The call of the loop under way is its newest.
LEMMA NewestStep ==
  ASSUME CallInv, RetryInv, Kind, TypeOK', Busy(AutoCaller)',
         NEW x \in DOMAIN diag', diag'[x].by = AutoCaller
  PROVE  x <= cur'[AutoCaller]
<1>0. /\ TypeOK /\ CacheInv /\ Settles /\ AutoCaller \in Callers
      /\ pc \in [Callers -> Phases] /\ cur \in [Callers -> Nat]
  BY KindSettles, AutoIsCaller DEF CallInv, CacheInv, TypeOK
<1>1. ASSUME Busy(AutoCaller), cur'[AutoCaller] = cur[AutoCaller], x \in DOMAIN diag
      PROVE  x <= cur'[AutoCaller]
  BY <1>0, <1>1 DEF RetryInv, Settles
<1>2. ASSUME NEW c \in Callers, NEW a \in Alerts, Entered(c, a) PROVE x <= cur'[AutoCaller]
  <2>1. /\ pc' = [pc EXCEPT ![c] = "lookup"] /\ cur' = [cur EXCEPT ![c] = Len(diag) + 1]
        /\ DOMAIN diag' = DOMAIN diag \cup {Len(diag) + 1}
        /\ \A id \in DOMAIN diag : diag'[id] = diag[id] /\ id < Len(diag) + 1
        /\ diag'[Len(diag) + 1].by = c
    BY <1>0, <1>2, EnteredFacts
  <2>2. CASE c = AutoCaller
    <3>1. cur'[AutoCaller] = Len(diag) + 1
      BY <1>0, <2>1, <2>2
    <3>2. x \in DOMAIN diag => x < Len(diag) + 1
      BY <2>1
    <3>3. Len(diag) \in Nat /\ (x \in DOMAIN diag => x \in Nat)
      BY <1>0, RecordIds
    <3> QED BY <2>1, <3>1, <3>2, <3>3
  <2>3. CASE c # AutoCaller
    BY <1>0, <1>1, <2>1, <2>3 DEF Busy
  <2> QED BY <2>2, <2>3
<1>3. ASSUME NEW c \in Callers, NEW s \in Made, NEW f \in Confs, NEW m \in Models,
             Finished(c, s, f, m)
      PROVE  x <= cur'[AutoCaller]
  BY <1>0, <1>1, <1>3, FinishedFacts DEF Busy
<1>4. ASSUME NEW c \in Callers, LookupHit(c) PROVE x <= cur'[AutoCaller]
  BY <1>0, <1>1, <1>4, ChosenFacts DEF Busy
<1>5. ASSUME NEW c \in Callers, AddDiagnosis(c) \/ IndexFingerprint(c) \/ Granted(c)
      PROVE  x <= cur'[AutoCaller]
  BY <1>0, <1>1, <1>5 DEF Busy, AddDiagnosis, IndexFingerprint, Granted, storeVars
<1>6. ASSUME NEW c \in Callers, NEW ph \in Phases, Moved(c, ph) PROVE x <= cur'[AutoCaller]
  BY <1>0, <1>1, <1>6 DEF Busy, Moved
<1>7. CASE Rested
  BY <1>1, <1>7 DEF Busy, Rested, callVars
<1> QED BY <1>2, <1>3, <1>4, <1>5, <1>6, <1>7 DEF Kind

LEMMA ClockStep ==
  ASSUME TypeOK, passNow <= now, [Next]_vars
  PROVE  passNow' <= now'
<1>1. now \in Nat /\ passNow \in Nat
  BY DEF TypeOK
<1>2. ASSUME now' = now, passNow' \in {passNow, now, 0} PROVE passNow' <= now'
  BY <1>1, <1>2
<1>3. CASE \E c \in Callers : Step(c)
  <2>1. now' = now /\ passNow' = passNow
    BY <1>3 DEF Step, LookupHit, LookupMiss, CloneCached, TryAcquire, FailCall, LlmError,
                LlmCompletes, LlmInvalid, AddDiagnosis, IndexFingerprint, loopVars
  <2> QED BY <1>2, <2>1
<1>4. CASE \/ \E c \in Callers : Enter(c)
           \/ \E r \in Requests : CreateDiagnosis(r) \/ Respond(r)
  BY <1>2, <1>4 DEF Enter, CreateDiagnosis, Respond, loopVars
<1>5. CASE AutoLoop
  BY <1>2, <1>5 DEF AutoLoop, AutoWake, AutoVisit, AutoResume, AutoPassEnds, AutoPassAborts,
                    Sleep, loopVars
<1>6. CASE Tick
  BY <1>1, <1>6 DEF Tick, loopVars
<1>7. CASE UNCHANGED vars \/ \E a \in Alerts : ReportAlert(a)
  BY <1>2, <1>7 DEF vars, ReportAlert, loopVars
<1> QED BY <1>3, <1>4, <1>5, <1>6, <1>7 DEF Next

\* The calls that were there before the step are still spaced.
LEMMA OldSpaced ==
  ASSUME CallInv, RetryInv, Kind,
         NEW x \in DOMAIN diag, NEW y \in DOMAIN diag, x < y,
         diag'[x].alert = diag'[y].alert, diag'[x].by = AutoCaller, diag'[y].by = AutoCaller,
         diag'[x].status # "pending"
  PROVE  MayRetry(x, diag[y].start)'
<1>0. CacheInv /\ TypeOK /\ Settles
  BY KindSettles DEF CallInv, CacheInv
<1>1. /\ diag[x].alert = diag[y].alert /\ diag[x].by = AutoCaller /\ diag[y].by = AutoCaller
      /\ diag'[y].start = diag[y].start
  BY <1>0 DEF Settles
<1>2. Past(x)
  <2> SUFFICES ASSUME Busy(AutoCaller), cur[AutoCaller] = x PROVE FALSE
    BY <1>1 DEF Past
  <2>1. y <= x
    BY <1>1 DEF RetryInv
  <2>2. x \in Int /\ y \in Int
    BY <1>0 DEF TypeOK
  <2> QED BY <2>1, <2>2
<1>3. diag[x].status # "pending" /\ \A t : MayRetry(x, t) => MayRetry(x, t)'
  BY <1>0, <1>2, PastStays
<1>4. MayRetry(x, diag[y].start)
  BY <1>1, <1>3 DEF RetryInv, RetriesSpaced
<1>5. PICK t : t = diag[y].start
  OBVIOUS
<1>6. MayRetry(x, t)'
  BY <1>3, <1>4, <1>5
<1> QED BY <1>1, <1>5, <1>6 DEF MayRetry, IsFailedSince

LEMMA RetryStep ==
  ASSUME CallInv, CallInv', RetryInv, [Next]_vars
  PROVE  RetryInv'
<1>0. /\ TypeOK /\ TypeOK' /\ CacheInv /\ AutoCaller \in Callers
      /\ pc \in [Callers -> Phases] /\ cur \in [Callers -> Nat] /\ asked \in [Callers -> Nat]
  BY AutoIsCaller DEF CallInv, CacheInv, TypeOK
<1>1. Kind /\ Settles
  BY <1>0, StepKind, KindSettles
<1>2. passNow' <= now'
  BY <1>0, ClockStep DEF RetryInv
<1>3. Busy(AutoCaller)' => \A x \in DOMAIN diag' : diag'[x].by = AutoCaller => x <= cur'[AutoCaller]
  BY <1>0, <1>1, NewestStep
<1>4. asked'[AutoCaller] # 0 =>
        /\ pc'[AutoCaller] = "idle" /\ loop' = "pass"
        /\ \A x \in DOMAIN diag' :
             /\ diag'[x].by = AutoCaller /\ diag'[x].alert = reported'[asked'[AutoCaller]]
             /\ diag'[x].status # "pending"
             => MayRetry(x, passNow)'
  <2> SUFFICES ASSUME asked'[AutoCaller] # 0
               PROVE  /\ pc'[AutoCaller] = "idle" /\ loop' = "pass"
                      /\ \A x \in DOMAIN diag' :
                           /\ diag'[x].by = AutoCaller
                           /\ diag'[x].alert = reported'[asked'[AutoCaller]]
                           /\ diag'[x].status # "pending"
                           => MayRetry(x, passNow)'
    OBVIOUS
  <2>1. ~Enter(AutoCaller)
    BY <1>0 DEF Enter
  <2>2. CASE AutoVisit
    <3>1. PICK i \in scan :
            asked' = [asked EXCEPT ![AutoCaller] = IF Skips(reported[i]) THEN 0 ELSE i]
      BY <2>2 DEF AutoVisit
    <3>2. asked'[AutoCaller] = i /\ ~Skips(reported[i])
      BY <1>0, <3>1
    <3>3. reported[i] \in Alerts
      <4>1. reported \in Seq(Alerts) /\ i \in DOMAIN reported
        BY <1>0, <3>1 DEF TypeOK
      <4> QED BY <4>1
    <3>4. /\ pc' = pc /\ loop' = "pass" /\ passNow' = passNow /\ diag' = diag
          /\ diagnoses' = diagnoses /\ reported' = reported /\ pc[AutoCaller] = "idle"
      BY <2>2 DEF AutoVisit, Free, storeVars, callVars
    <3>5. ASSUME NEW x \in DOMAIN diag, diag[x].alert = reported[i] PROVE MayRetry(x, passNow)'
      <4>1. MayRetry(x, passNow)
        BY <3>2, <3>3, <3>5, VisitChecks
      <4> QED BY <3>4, <4>1 DEF MayRetry, IsFailedSince, LiveIds, StoredDiagnoses
    <3> QED BY <3>2, <3>4, <3>5
  <2>3. CASE ~AutoVisit
    <3>1. /\ asked[AutoCaller] # 0 /\ asked'[AutoCaller] = asked[AutoCaller]
          /\ pc'[AutoCaller] = pc[AutoCaller] /\ loop' = loop /\ passNow' = passNow
          /\ reported'[asked[AutoCaller]] = reported[asked[AutoCaller]]
      BY <1>0, <2>1, <2>3, HandOver
    <3>2. pc[AutoCaller] = "idle" /\ loop = "pass"
      BY <3>1 DEF RetryInv
    <3>3. ASSUME NEW x \in DOMAIN diag', diag'[x].by = AutoCaller,
                 diag'[x].alert = reported'[asked'[AutoCaller]], diag'[x].status # "pending"
          PROVE  MayRetry(x, passNow)'
      <4>1. x \in DOMAIN diag
        BY <1>0, <2>1, <3>3, OnlyEntryAdds
      <4>2. diag[x].by = AutoCaller /\ diag[x].alert = reported[asked[AutoCaller]]
        BY <1>1, <3>1, <3>3, <4>1 DEF Settles
      <4>3. Past(x)
        BY <3>2, <4>1, <4>2 DEF Past, Busy
      <4>4. diag[x].status # "pending" /\ \A t : MayRetry(x, t) => MayRetry(x, t)'
        BY <1>0, <1>1, <3>3, <4>3, PastStays
      <4>5. MayRetry(x, passNow)
        BY <3>1, <4>1, <4>2, <4>4 DEF RetryInv
      <4>6. PICK t : t = passNow
        OBVIOUS
      <4>7. MayRetry(x, t)'
        BY <4>4, <4>5, <4>6
      <4> QED BY <3>1, <4>6, <4>7 DEF MayRetry, IsFailedSince
    <3> QED BY <3>1, <3>2, <3>3
  <2> QED BY <2>2, <2>3
<1>5. RetriesSpaced'
  <2> SUFFICES ASSUME NEW x \in DOMAIN diag', NEW y \in DOMAIN diag', x < y,
                      diag'[x].alert = diag'[y].alert, diag'[x].by = AutoCaller,
                      diag'[y].by = AutoCaller, diag'[x].status # "pending"
               PROVE  MayRetry(x, diag[y].start)'
    BY DEF RetriesSpaced
  <2>1. CASE ~Enter(AutoCaller)
    <3>1. x \in DOMAIN diag /\ y \in DOMAIN diag
      BY <1>0, <2>1, OnlyEntryAdds
    <3> QED BY <1>1, <3>1, OldSpaced
  <2>2. CASE Enter(AutoCaller)
    <3>0. PICK a : a = reported[asked[AutoCaller]]
      OBVIOUS
    <3>1. a \in Alerts /\ Diagnose(AutoCaller, a) /\ asked[AutoCaller] # 0
          /\ diagnoses' = diagnoses
      BY <1>0, <2>2, <3>0 DEF Enter, TypeOK
    <3>2. CASE a \in Unhashable
      <4>1. diag' = diag
        BY <3>1, <3>2 DEF Diagnose, AlertFingerprintRaises
      <4> QED BY <1>1, <4>1, OldSpaced
    <3>3. CASE a \notin Unhashable
      <4>1. /\ DOMAIN diag' = DOMAIN diag \cup {Len(diag) + 1}
            /\ \A id \in DOMAIN diag : diag'[id] = diag[id]
            /\ diag'[Len(diag) + 1] =
                 [alert |-> a, by |-> AutoCaller, start |-> now, ts |-> now, status |-> "pending",
                  conf |-> "none", model |-> "none", from |-> 0]
        BY <1>0, <3>1, <3>3, DiagnoseTable
      <4>2. Len(diag) \in Nat /\ \A id \in DOMAIN diag : id \in Nat /\ id < Len(diag) + 1
        BY <1>0, RecordIds
      <4>3. CASE y \in DOMAIN diag
        <5>1. x \in DOMAIN diag
          BY <1>0, <4>1, <4>2, <4>3 DEF TypeOK
        <5> QED BY <1>1, <4>3, <5>1, OldSpaced
      <4>4. CASE y = Len(diag) + 1
        <5>1. x \in DOMAIN diag
          BY <4>1, <4>4
        <5>2. diag[x].by = AutoCaller /\ diag[x].alert = a /\ diag[x].status # "pending"
              /\ diag'[y].start = now
          BY <4>1, <4>4, <5>1
        <5>3. MayRetry(x, passNow)
          BY <3>0, <3>1, <5>1, <5>2 DEF RetryInv
        <5>4. now \in Nat /\ passNow \in Nat /\ passNow <= now
          BY <1>0 DEF TypeOK, RetryInv
        <5>5. MayRetry(x, now)
          BY <1>0, <5>3, <5>4, MayRetryLater
        <5>6. PICK t : t = now
          OBVIOUS
        <5>7. LiveIds' = LiveIds
          BY <3>1 DEF LiveIds, StoredDiagnoses
        <5>8. MayRetry(x, t)'
          BY <1>0, <1>1, <3>1, <5>1, <5>5, <5>6, <5>7, MayRetryStays
        <5> QED BY <5>2, <5>6, <5>8 DEF MayRetry, IsFailedSince
      <4> QED BY <4>1, <4>3, <4>4
    <3> QED BY <3>2, <3>3
  <2> QED BY <2>1, <2>2
<1> QED BY <1>2, <1>3, <1>4, <1>5 DEF RetryInv

\* Each further call of the automatic loop for an alert begins when a failed result of that
\* alert, its own last one or a newer one, is FailedRetryCooldown old by the real clock,
\* although the loop has decided before the await, by a clock read before the pass, and
\* requests store results meanwhile (main.py:188).
THEOREM RetriesAlwaysSpaced == Spec => []RetriesSpaced
<1>1. Init => RetryInv
  <2> SUFFICES ASSUME Init PROVE RetryInv
    OBVIOUS
  <2>1. /\ passNow = 0 /\ now \in Nat /\ asked[AutoCaller] = 0 /\ pc[AutoCaller] = "idle"
        /\ DOMAIN diag = {}
    BY AutoIsCaller, ParameterAssumption DEF Init
  <2> QED BY <2>1 DEF RetryInv, Busy, RetriesSpaced
<1>2. CallInv /\ CallInv' /\ RetryInv /\ [Next]_vars => RetryInv'
  BY RetryStep
<1>3. RetryInv => RetriesSpaced
  BY DEF RetryInv
<1> QED BY <1>1, <1>2, <1>3, CallInvariant, PTL DEF Spec
=============================================================================
