--------------------------- MODULE StallDetection ---------------------------
(***************************************************************************)
(* The training_stalled detector over the metrics store and the registry   *)
(* of jobs.                                                                *)
(*                                                                         *)
(* A pass of the detector runs on the event loop without an await, so no   *)
(* REST handler runs during a pass; but gRPC threads do, and the pass reads*)
(* the history, the job and the freshness of a node under three separate   *)
(* acquisitions of a lock.                                                 *)
(*                                                                         *)
(* Of a node's history the detector uses the latest sample and the suffix  *)
(* of samples that have its step: the buffer below is that suffix (BOUND:  *)
(* shorter than the 900 samples that get_training_history returns). The    *)
(* code only compares differences of times, so a time is written as its    *)
(* age, which Tick increases up to the point where it tells nothing more.  *)
(***************************************************************************)
EXTENDS JobRegistry

CONSTANTS
  Nodes,          \* node identifiers
  Steps,          \* BOUND: training steps
  SampleJobs,     \* BOUND: the job_ids samples carry
  MaxDelay,       \* BOUND: age of a training sample on arrival
  MinSamples,     \* stalled_min_samples
  WarnAfter,      \* stalled_warn_seconds
  Cooldown,       \* stalled_dedup_cooldown_seconds
  NodeFresh       \* stalled_node_fresh_seconds

ASSUME StallAssumption ==
  /\ {MaxDelay, WarnAfter, Cooldown, NodeFresh} \subseteq Nat
  /\ MinSamples \in Nat \ {0}
  /\ SampleJobs \subseteq Jobs \cup {NoJob}
  /\ Steps # {}

VARIABLES
  buf,          \* per node: last_seen_ms and the trailing same-step samples
  pass,         \* the detector: where it is in a pass
  todo,         \* the nodes still to visit
  node,         \* the node being visited
  hist,         \* its buffer as read
  lastAlerted,  \* _last_alerted
  recent,       \* history: the alerts raised within the cooldown, by key
  due           \* history: nodes stalled when the pass began and silent since

passVars == <<pass, todo, node, hist>>
alertVars == <<lastAlerted, recent>>
vars == <<jobVars, buf, passVars, alertVars, due>>

\* BOUNDS: beyond these ages every comparison has the same outcome.
SampleCap == WarnAfter + MaxDelay
SeenCap   == NodeFresh + 1
AlertCap  == 2 * Cooldown + 1

Modes  == {"no_fresh_training_sample", "repeated_same_step"}
Buffer == [known: BOOLEAN, seen: 0..SeenCap, count: 0..MinSamples,
           last: 0..SampleCap,            \* age of the latest sample
           span: -MaxDelay..SampleCap,    \* from the first same-step sample to it
           step: Steps, job: Jobs \cup {NoJob}]
Keys   == [node: Nodes, step: Steps, mode: Modes]
Alert  == [job: Jobs, age: 0..AlertCap, gap: Int]  \* gap: to the alert before it

Min2(a, b) == IF a <= b THEN a ELSE b

NoBuffer == [known |-> FALSE, seen |-> SeenCap, count |-> 0, last |-> SampleCap, span |-> 0,
             step |-> CHOOSE s \in Steps : TRUE, job |-> NoJob]
AnyNode == CHOOSE n \in Nodes : TRUE

\* The function f with key k set to v.
With(f, k, v) == [x \in DOMAIN f \cup {k} |-> IF x = k THEN v ELSE f[x]]

EventLoopFree == pass = "idle"

-----------------------------------------------------------------------------
(* MetricsStore.ingest_batch. *)

Seen(b, age) == [b EXCEPT !.known = TRUE, !.seen = Min2(b.seen, age)]

\* A training sample joins the trailing window if it has its step.
Trained(b, age, step, job) ==
  LET joins == b.count > 0 /\ b.step = step IN
    [Seen(b, age) EXCEPT
       !.count = IF joins THEN Min2(b.count + 1, MinSamples) ELSE 1,
       !.span = IF joins THEN Min2(b.span + b.last - age, SampleCap) ELSE 0,
       !.last = age, !.step = step, !.job = job]

\* A batch has GPU samples (fresh), a training sample, a DiLoCo sample, or several of
\* these. trainedJob and dilocoJob are the jobs to mark, NoJob without such a sample.
Ingest(n, trainedJob, dilocoJob) ==
  \/ /\ trainedJob = NoJob
     /\ \E age \in 0..MaxDelay : buf' = [buf EXCEPT ![n] = Seen(@, age)]
  \/ \E age \in 0..MaxDelay, seen \in 0..MaxDelay, step \in Steps :
       /\ trainedJob # NoJob \/ NoJob \in SampleJobs
       /\ buf' = [buf EXCEPT ![n] = Seen(Trained(@, age, step, trainedJob), seen)]

\* A batch on a stream of the gRPC server.
StreamMetrics(n) ==
  /\ MetricsLockFree
  /\ \E j, then \in SampleJobs \cup {NoJob} : Ingest(n, j, then) /\ MarkRead(j, then)
  /\ due' = due \ {n}
  /\ UNCHANGED <<passVars, alertVars>>

MarkSteps ==
  /\ MarkWrite \/ MarkThen
  /\ UNCHANGED <<buf, passVars, alertVars, due>>

-----------------------------------------------------------------------------
(* The REST handlers. *)

\* One batch of the request; a request of several is several of these.
PostMetricsBatches(n) ==
  /\ EventLoopFree /\ MetricsLockFree
  /\ \E j, then \in SampleJobs \cup {NoJob} : Ingest(n, j, then) /\ MarkProgress(j, then)
  /\ due' = due \ {n}
  /\ UNCHANGED <<passVars, alertVars>>

\* MUTANT: the pass runs on a thread of its own, so handlers interleave with it.
HandlersAnyTime ==
  /\ \/ \E j \in Jobs : Register(j)
     \/ \E p \in Patches : PatchJobStatus(p[1], p[2])
  /\ UNCHANGED <<buf, passVars, alertVars, due>>

JobHandlers ==
  /\ EventLoopFree
  /\ \/ \E j \in Jobs : Register(j)
     \/ \E p \in Patches : PatchJobStatus(p[1], p[2])
  /\ UNCHANGED <<buf, passVars, alertVars, due>>

-----------------------------------------------------------------------------
(* run_training_stalled_detection. *)

\* A hard stall: the node reports, its training does not.
MissingSample(b, seen) == seen <= NodeFresh /\ b.last >= WarnAfter

\* The training reports, but always the same step.
SameStep(b) == b.count >= MinSamples /\ b.span >= WarnAfter

Raise(key) ==
  /\ lastAlerted' = With(lastAlerted, key, 0)
  /\ recent' = With(recent, key,
       [job |-> hist.job, age |-> 0,
        gap |-> IF key \in DOMAIN recent THEN recent[key].age ELSE Cooldown])

\* MUTANT: the comparison with the cooldown is off by one.
EmitLate(mode) ==
  LET key == [node |-> node, step |-> hist.step, mode |-> mode] IN
  IF key \in DOMAIN lastAlerted /\ lastAlerted[key] <= Cooldown
    THEN UNCHANGED alertVars
    ELSE Raise(key)

\* An alert, unless one with its key was raised less than Cooldown ago.
Emit(mode) ==
  LET key == [node |-> node, step |-> hist.step, mode |-> mode] IN
  IF key \in DOMAIN lastAlerted /\ lastAlerted[key] < Cooldown
    THEN UNCHANGED alertVars
    ELSE Raise(key)

\* The clock is read, before any lock is taken.
StartPass ==
  /\ pass = "idle"
  /\ pass' = "start"
  /\ due' = {n \in Nodes : /\ buf[n].count > 0 /\ IsRunning(buf[n].job)
                           /\ MissingSample(buf[n], buf[n].seen) \/ SameStep(buf[n])}
  /\ UNCHANGED <<jobVars, buf, todo, node, hist, alertVars>>

ListNodes ==
  /\ pass = "start" /\ MetricsLockFree
  /\ pass' = "next"
  /\ todo' = {n \in Nodes : buf[n].known}
  /\ UNCHANGED <<jobVars, buf, node, hist, alertVars, due>>

\* The visit of a node is over.
NextNode == pass' = "next" /\ node' = AnyNode /\ hist' = NoBuffer

ReadHistory ==
  /\ pass = "next" /\ MetricsLockFree
  /\ \E n \in todo :
       /\ todo' = todo \ {n}
       /\ \/ (buf[n].count = 0 \/ buf[n].job = NoJob) /\ NextNode
          \/ /\ buf[n].count > 0 /\ buf[n].job # NoJob
             /\ pass' = "job" /\ node' = n /\ hist' = buf[n]
  /\ UNCHANGED <<jobVars, buf, alertVars, due>>

\* _job_is_running
CheckJob ==
  /\ pass = "job"
  /\ \/ IsRunning(hist.job) /\ pass' = "fresh" /\ UNCHANGED <<node, hist>>
     \/ ~IsRunning(hist.job) /\ NextNode
  /\ UNCHANGED <<jobVars, buf, todo, alertVars, due>>

\* _node_is_fresh reads the node's last_seen_ms anew.
CheckStall ==
  /\ pass = "fresh" /\ MetricsLockFree
  /\ LET missing == MissingSample(hist, buf[node].seen) IN
       \/ missing /\ Emit("no_fresh_training_sample")
       \/ ~missing /\ SameStep(hist) /\ Emit("repeated_same_step")
       \/ ~missing /\ ~SameStep(hist) /\ UNCHANGED alertVars
  /\ NextNode
  /\ UNCHANGED <<jobVars, buf, todo, due>>

\* MUTANT: the eviction drops entries whose cooldown has not passed.
FreshKeysSoon == {k \in DOMAIN lastAlerted : lastAlerted[k] < 0}

\* The entries of the deduplication that survive the end of a pass.
FreshKeys == {k \in DOMAIN lastAlerted : lastAlerted[k] <= 2 * Cooldown}

EndPass ==
  /\ pass = "next" /\ todo = {}
  /\ lastAlerted' = [k \in FreshKeys |-> lastAlerted[k]]
  /\ pass' = "idle"
  /\ due' = {}
  /\ UNCHANGED <<jobVars, buf, todo, node, hist, recent>>

-----------------------------------------------------------------------------

Older(b) == [b EXCEPT !.seen = Min2(@ + 1, SeenCap), !.last = Min2(@ + 1, SampleCap)]

\* BOUND: a pass of the detector takes less than a unit of time.
Tick ==
  /\ pass = "idle"
  /\ buf' = [n \in Nodes |-> Older(buf[n])]
  /\ lastAlerted' = [k \in DOMAIN lastAlerted |-> Min2(lastAlerted[k] + 1, AlertCap)]
  /\ recent' = [k \in {x \in DOMAIN recent : recent[x].age + 1 < Cooldown} |->
                  [recent[k] EXCEPT !.age = @ + 1]]
  /\ UNCHANGED <<jobVars, passVars, due>>

Init ==
  /\ JobInit
  /\ buf = [n \in Nodes |-> NoBuffer]
  /\ pass = "idle"
  /\ todo = {} /\ due = {}
  /\ node = AnyNode /\ hist = NoBuffer
  /\ lastAlerted = <<>> /\ recent = <<>>

Pass == StartPass \/ ListNodes \/ ReadHistory \/ CheckJob \/ CheckStall \/ EndPass

Next ==
  \/ \E n \in Nodes : StreamMetrics(n) \/ PostMetricsBatches(n)
  \/ MarkSteps
  \/ JobHandlers
  \/ Pass
  \/ Tick

Spec == Init /\ [][Next]_vars

-----------------------------------------------------------------------------
(* Properties. *)

\* Two alerts for the same node, step and mode are a cooldown apart, although the
\* deduplication forgets old entries at the end of each pass (training_stalled.py,
\* "so a steady stall does not spam").
AlertsSpaced == \A k \in DOMAIN recent : recent[k].gap >= Cooldown

\* A pass leaves no stall unreported: a node of a running job that was stalled when the
\* pass began, and from which nothing came during the pass, has an alert for its step
\* no older than the cooldown, whichever mode the pass saw.
StallNotMissed ==
  pass = "next" /\ todo = {} =>
    \A n \in due : \E k \in DOMAIN recent :
      /\ k.node = n /\ k.step = buf[n].step
      /\ recent[k].age < Cooldown \/ recent[k].age = 0

\* The job of an alert is running at the moment the alert is raised, although it was
\* checked earlier in the pass: the pass keeps the handlers out, and telemetry only
\* ever makes a job running.
Raised == lastAlerted' # lastAlerted /\ pass = "fresh" /\ pass' = "next"

AlertsWhileRunning == [][Raised => IsRunning(hist.job)]_vars

\* The detector is for "each node with a `running` job" (training_stalled.py:3): no stall
\* is raised for a job whose owner last declared it completed or failed.
FinishedJobsSilent == [][Raised => declared[hist.job] \notin Finished]_vars
=============================================================================
