---------------------------- MODULE JobRegistry ----------------------------
(***************************************************************************)
(* The registry of training jobs of the backend (JobStore), with its three *)
(* writers: POST /jobs, PATCH /jobs/{id}/status and the telemetry that     *)
(* starts or touches a job (MetricsStore._mark_job_progress).              *)
(*                                                                         *)
(* The REST handlers run on the event loop without an await, so each is    *)
(* one action. Telemetry arrives on gRPC threads: such a thread holds the  *)
(* lock of the metrics store, but takes the lock of the job store once to  *)
(* read the status and once to write it, and a handler may run in between. *)
(*                                                                         *)
(* The OrderedDict is a sequence of entries, least recently registered     *)
(* first. The times of an entry are left out: they only reach the summary  *)
(* of a job. StallDetection extends this module.                           *)
(***************************************************************************)
EXTENDS Integers, Sequences

Seqs == INSTANCE SequencesExt

CONSTANTS
  Jobs,      \* job identifiers
  NoJob,     \* the empty job_id of a sample without one
  MaxJobs,   \* _MAX_JOBS
  Patches    \* BOUND: the PATCH requests that may come, as <<job, status>>

JobStatuses == {"registered", "running", "completed", "failed"}
Finished    == {"completed", "failed"}

ASSUME JobAssumption ==
  /\ NoJob \notin Jobs
  /\ MaxJobs \in Nat \ {0}
  /\ Patches \subseteq Jobs \X JobStatuses

VARIABLES
  jobs,      \* JobStore._jobs
  mark,      \* the gRPC thread inside _mark_job_progress: the job, what it read, and
             \* the job of the batch's DiLoCo sample, still to come
  recency,   \* history: every job ever registered, by its last registration
  declared   \* history: what the job's owner last said of it

jobVars == <<jobs, mark, recency, declared>>

Entry == [id: Jobs, status: JobStatuses]
Mark == [job: Jobs, seen: JobStatuses \cup {"unknown", "written"}, then: Jobs \cup {NoJob}]
NoMark == [job |-> NoJob, seen |-> "none", then |-> NoJob]

JobTypeOK ==
  /\ jobs \in Seq(Entry)
  /\ mark \in Mark \cup {NoMark}
  /\ recency \in Seq(Jobs)
  /\ declared \in [Jobs -> JobStatuses]

JobIds == {jobs[i].id : i \in DOMAIN jobs}
Known(j) == j \in JobIds

\* job_store.get: the status of the entry, or no entry.
StatusOf(j) ==
  IF Known(j) THEN jobs[CHOOSE i \in DOMAIN jobs : jobs[i].id = j].status ELSE "unknown"

IsRunning(j) == StatusOf(j) = "running"

\* The thread inside _mark_job_progress holds the lock of the metrics store.
MetricsLockFree == mark = NoMark

-----------------------------------------------------------------------------
(* JobStore. *)

\* MUTANT: a re-registration keeps the job's place in the order.
RegisterAgainInPlace(j) == UNCHANGED jobs

MoveToEnd(seq, i) == Append(Seqs!RemoveAt(seq, i), seq[i])

\* move_to_end: a known job keeps its status, which the reply does not say.
RegisterAgain(j) == \E i \in DOMAIN jobs : jobs[i].id = j /\ jobs' = MoveToEnd(jobs, i)

RegisterNew(j) ==
  LET all == Append(jobs, [id |-> j, status |-> "registered"])
  IN jobs' = IF Len(all) > MaxJobs THEN Tail(all) ELSE all

\* POST /jobs.
Register(j) ==
  /\ \/ Known(j) /\ RegisterAgain(j)
     \/ ~Known(j) /\ RegisterNew(j)
  /\ \/ \E i \in DOMAIN recency : recency[i] = j /\ recency' = MoveToEnd(recency, i)
     \/ j \notin {recency[i] : i \in DOMAIN recency} /\ recency' = Append(recency, j)
  /\ declared' = [declared EXCEPT ![j] = "registered"]
  /\ UNCHANGED mark

\* Nothing happens if the job is no longer there.
UpdateStatus(j, s) ==
  jobs' = [i \in DOMAIN jobs |-> IF jobs[i].id = j THEN [jobs[i] EXCEPT !.status = s]
                                                   ELSE jobs[i]]

\* PATCH /jobs/{id}/status: any status may follow any other; 404 for an unknown job.
PatchJobStatus(j, s) ==
  /\ Known(j)
  /\ UpdateStatus(j, s)
  /\ declared' = [declared EXCEPT ![j] = s]
  /\ UNCHANGED <<mark, recency>>

-----------------------------------------------------------------------------
(* MetricsStore._mark_job_progress. *)

\* A job read as registered is started, any other is touched.
MarkAs(j, seen) ==
  IF seen = "registered" THEN UpdateStatus(j, "running") ELSE UNCHANGED jobs

\* On a gRPC thread, for the job of a training and of a DiLoCo sample (or NoJob):
\* the read, with the metrics lock held from here on ...
StartMark(j, then) ==
  LET first  == IF j = NoJob THEN then ELSE j
      second == IF j = NoJob THEN NoJob ELSE then
  IN mark' = IF first = NoJob THEN NoMark
             ELSE [job |-> first, seen |-> StatusOf(first), then |-> second]

MarkRead(j, then) ==
  /\ StartMark(j, then)
  /\ UNCHANGED <<jobs, recency, declared>>

\* ... the write, whatever became of the job since ...
MarkWrite ==
  /\ mark # NoMark /\ mark.seen # "written"
  /\ MarkAs(mark.job, mark.seen)
  /\ mark' = IF mark.then = NoJob THEN NoMark ELSE [mark EXCEPT !.seen = "written"]
  /\ UNCHANGED <<recency, declared>>

\* ... and the read for the DiLoCo sample, if there is one; then the lock is released.
MarkThen ==
  /\ mark.seen = "written"
  /\ MarkRead(mark.then, NoJob)

\* In the handler of POST /metrics/batches no job can change in between.
MarkProgress(j, then) ==
  /\ jobs' = [i \in DOMAIN jobs |->
                IF jobs[i].id \in {j, then} /\ jobs[i].status = "registered"
                  THEN [jobs[i] EXCEPT !.status = "running"] ELSE jobs[i]]
  /\ UNCHANGED <<mark, recency, declared>>

JobInit ==
  /\ jobs = <<>>
  /\ mark = NoMark
  /\ recency = <<>>
  /\ declared = [j \in Jobs |-> "registered"]

JobNext ==
  \/ \E j \in Jobs : Register(j)
  \/ \E p \in Patches : PatchJobStatus(p[1], p[2])
  \/ MetricsLockFree /\ \E j \in Jobs, then \in Jobs \cup {NoJob} :
                           MarkRead(j, then) \/ MarkProgress(j, then)
  \/ MarkWrite
  \/ MarkThen

JobSpec == JobInit /\ [][JobNext]_jobVars

-----------------------------------------------------------------------------
(* Properties. *)

\* The registry holds exactly the jobs registered most recently, whatever was patched
\* or touched since, and in that order: a full registry evicts the one whose last
\* registration lies furthest back (stores.py JobStore, "evicts oldest when full").
KeepsNewest ==
  LET kept == IF Len(recency) > MaxJobs THEN MaxJobs ELSE Len(recency) IN
    /\ Len(jobs) = kept
    /\ \A i \in 1..kept : jobs[i].id = recency[Len(recency) - kept + i]
=============================================================================
