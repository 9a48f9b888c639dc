# SolProbe: formal specification

TLA+ modules for SolProbe, a fault detector for distributed GPU training: a Rust
sidecar on every GPU node sends metrics and alerts to a Python backend, the backend
detects anomalies, asks an LLM to diagnose CRITICAL alerts and pushes everything to a
dashboard; four Solana programs keep escrow, stakes, reputation and attestations.

1. [Inventory](#1-inventory)
2. [Modules](#2-modules)
3. [Diagnosis](#3-diagnosis)
4. [Job registry and stalls](#4-job-registry-and-stalls)
5. [Policies](#5-policies)
6. [Alerts and the WebSocket hub](#6-alerts-and-the-websocket-hub)
7. [The other detectors](#7-the-other-detectors)
8. [Sidecar and shared page](#8-sidecar-and-shared-page)
9. [Dashboard](#9-dashboard)
10. [Solana programs](#10-solana-programs)
11. [Runs](#11-runs)
12. [Findings](#12-findings)
13. [Proofs](#13-proofs)
14. [Not modelled](#14-not-modelled)

Paths are relative to `src/`. All the TLA+ is in this directory; `tlc -workers 2 -config
X.cfg M` runs a configuration and `tlapm M.tla` checks the proofs of a module.

## 1. Inventory

### How the parts fit

```
training callback --mmap file--> sidecar --gRPC stream--> backend stores <--REST-- dashboard
                                    |                        ^    |                   ^
                                    +--gRPC ReportAlert------+    +--WebSocket--------+
                                                             |
                               detector loops, policy loop, automatic diagnosis loop
```

The backend is one process. Its asyncio event loop runs the REST handlers, eight
detector loops, the automatic diagnosis loop and the WebSocket hub; a handler or a
detector without `await` is atomic with respect to everything else on that loop. Real
parallelism comes from two places only: the ten worker threads of the gRPC server, and
`asyncio.to_thread(agent.diagnose, ...)`. Every store has a lock of its own and no
operation holds two of them, except `MetricsStore.ingest_batch`, which takes the job
store's lock while it holds its own. Nothing is persisted: a restart starts empty.

### Components

**AI diagnosis** (`backend/app/diagnosis/`, `main.py:188-222`, `api/routes.py:469-490`).
State: the ring of results, the fingerprint index, the last paid call of each node, the
backoff counter of the loop. Operations: `diagnose` with nine exits, `add`,
`index_fingerprint`, `find_cached_match`, `try_acquire`, the automatic loop, `POST
/diagnoses`. Hard: up to N + 1 threads run `diagnose` at the same time and each result
is stored and indexed in separate critical sections; the loop compares a clock read
before its awaits with timestamps written during them, and requests answer alerts between
its check and the call the check leads to; one exception ends a whole pass.
Correct means: a reused answer really comes from a recent, confident LLM answer to an
alert that looks the same; each call is recorded once; paid calls of a node are spaced,
and none is refused without a reason; failed alerts are retried, but not early; a CRITICAL
alert is attempted in the end.

**Job registry and ingestion** (`stores.py:56-371`, `api/routes.py:112-128, 343-442`,
`grpc_server.py:193-220`). State: an ordered dictionary of jobs with status, creation and
update times, and per-node metric rings. Operations: register (evicts the oldest), PATCH
status, telemetry that starts or touches a job, summary. Hard: telemetry arrives on gRPC
threads while the event loop changes statuses; the read of the status and its update are
two critical sections of the job store. Correct means: only telemetry of a registered job
starts it, the job evicted is the one whose registration lies furthest back, a job its
owner has ended stays ended.

**Statistical detectors** (`detectors/*.py`). State: per-key dedup times and sets, and
the outer steps seen. Operations: one synchronous pass per loop tick. Hard: the metrics a
pass reads come from several critical sections, so threads store samples between its
reads; dedup entries are evicted while the condition persists; the detectors read the
ring of alerts they write. Correct means: an alert per condition and cooldown, none for a
job that has ended, one in the end for a condition that persists.

**Policy engine** (`detectors/policy_evaluator.py`, `stores.py:445-640`,
`api/routes.py:507-587`). State: policies, cooldowns per (policy, node, job), the rings of
custom samples. How long a condition has held is read from the metric rings in each pass.
Operations: create, patch, toggle, delete, post custom metrics, one evaluation pass. Hard:
a policy is edited, disabled or deleted and created again while a cooldown runs; samples
arrive late, out of order and in the middle of a pass. Correct means: a policy fires when,
and only when, its condition held for its duration, at most once per cooldown and key.

**Alert pipeline and WebSocket hub** (`main.py:101-124`, `ws/websocket.py`,
`grpc_server.py:222-280`, `stores.py:225-295`). State: the alert and anomaly
rings, the list of connections with their filters, the hub's asyncio
lock. Operations: connect, disconnect, set filter, broadcast, report. Hard: the lock is
held over the awaits of all sends; a send fails in the middle of a broadcast; a detector
loop that fails at one broadcast drops the rest of its findings. Correct means: each open
connection gets each matching message once and in order, dead ones leave the list, the
lock is always released.

**Sidecar** (`sidecar/src/`). State: the transport (client or none, time of the last
connection attempt) behind an asynchronous mutex, the tasks that wait for it, the watch
channel of the shutdown; the threshold detector has no state. Operations: each second
collect, check, spawn one task per alert and one per batch; connect, at most every five
seconds; shut down on a signal. Hard: the tasks of several ticks queue without a bound
and each is sent, or dropped, on its own; a failed call, an error status of a live backend
included, resets the client; the shutdown does not wait for the tasks. Correct means:
connection attempts are spaced, messages are lost only at a fault and shortly after it,
the connection comes back.

**Shared-memory metric channel** (`training/callback.py`, `training/diloco_callback.py`,
`sidecar/src/collectors/{training,diloco}.rs`). State: one mapped file with a valid flag,
the time, the step and the values, without a sequence counter. Operations: write, read,
end of training, close, `log_metric`. Hard: the reader may copy the file at any moment of
a write; a restarted training truncates it. Correct means: the reader never reports what
was overwritten before it looked, nor anything of a training that has fallen silent.

**Solana programs** (`solana/programs/*/src/lib.rs`). State: job, node stake, reputation
and attestation accounts with their lamports. Operations: create, release, slash and
close a job; initialise and update the configuration, stake, slash, unstake; update a
reputation; record an attestation. Hard: any legal sequence of signed instructions,
repeated workers, lamports sent unasked. Correct means: lamports are conserved, a share is
settled once, slashing cannot exceed the stake, no stake is stranded.

**Dashboard state** (`dashboard/src/lib/`, `dashboard/src/hooks/`). State: the socket
with its retry timer, the key it was opened for, the selected alert and the active job
with the requests about them, the lists merged with live messages. Operations: sign in and
out, the socket's handlers, effects and their cleanups, polls, clicks. Hard: a socket
replaced while the old one or its timer is still to end; answers about what is no longer
shown; messages that race a fetch. Correct means: one socket or one timer that will open
it, an outage ends, a late answer does not turn a pane back.

## 2. Modules

| Module | Models | Uses | Status |
|---|---|---|---|
| Diagnosis, MCDiagnosis | diagnosis pipeline | | checked |
| DiagnosisProofs | its types, cache, storage, limiter and retries | Diagnosis | proved |
| JobRegistry | job store, REST jobs, telemetry threads | | checked |
| StallDetection, MCStallDetection | training_stalled over the registry | JobRegistry | checked |
| StallDetectionProofs | the order of the registry, stall alerts | StallDetection | proved |
| Policy, MCPolicy | policy store, custom metrics, evaluator | Ranking | checked |
| PolicyProofs | types, cooldowns, what is reported and what fires | Policy, RankingProofs | proved |
| Ranking | sorting a finite set by rank | | |
| RankingProofs | that it sorts | Ranking | proved |
| WsHub, MCWsHub | servicer, loops, hub | Feed | checked |
| WsHubProofs | types, delivery, the refinement of Feed | WsHub | proved |
| Feed | abstract: one order of all messages | | |
| Throttle | abstract: a key at most once per period | | |
| Detectors | z-score, loss plateau, throughput regression | Throttle | checked |
| Instability, Correlation, DiLoCo | the detectors of these names | Ranking (DiLoCo) | checked |
| MCBackend | instance of the registry and the detectors | the five modules | checked |
| DetectorsProofs | deduplication, the refinement of Throttle, instability, correlation, DiLoCo, the types of all | MCBackend, RankingProofs | proved |
| Channel | shared page, both callbacks and readers | | checked |
| Sidecar | collection loop, transport, shutdown | Throttle | checked |
| DashSocket | the dashboard's WebSocket provider | | checked |
| Panes | job summary, alert panel | | checked |
| ClientsProofs | outages, attempts to connect, regular samples; one socket or one timer, late answers; the types of all | MCOutside | proved |
| Escrow | solprobe-escrow | Settlement | checked |
| Settlement | abstract: each share is paid or returned once | | |
| Staking | solprobe-staking | | checked |
| MCOutside | instance of what lies outside of the backend | Channel, Sidecar, DashSocket, Panes, Escrow, Staking | checked |
| SolanaProofs | solvency of both, the refinement of Settlement | Escrow, Staking | proved |

MCBackend and MCOutside each hold modules that share no state. A variable
`focus`, chosen by the initial state, says which of them a behaviour runs, and the others
stay at their initial states: the run checks each module alone, not their product.

## 3. Diagnosis

One action is one critical section, or one stretch between two of them. `diagnose` runs
on worker thread `c`; `pc[c]` says where it is and `cur[c]` is the result being built.

| TLA+ | Code |
|---|---|
| `reported`, `StoredAlerts`, `CriticalWindow` | `AlertStore._alerts`, its last 1000, `query(severity="CRITICAL", limit=20)` |
| `diag` | every `DiagnosisResult` made; the record number is its `diagnosis_id` |
| `diagnoses`, `LiveIds` | `DiagnosisStore._diagnoses`, as the log of all ids ever added; its last `MaxDiagnoses` are the deque |
| `fingerprints` | `DiagnosisStore._fingerprints` |
| `lastCall` / `grants` | `DiagnosisRateLimiter._last_call`, 0.0 for a node not in it / history of the slots granted |
| `asked` | the alert the event loop has handed to `asyncio.to_thread`, until the thread begins with it |
| `loop, scan, passNow, failures, wakeAt` | locals of `_auto_diagnosis_loop` |
| `Enter`, `Diagnose` | the thread begins: `diagnose` up to the lookup (id, start time, fingerprint) |
| `LookupHit`, `LookupMiss`, `CloneCached` | `find_cached_match` and the clone returned on a hit |
| `TryAcquire` | `try_acquire` and the rate-limited exit |
| `FailCall`, `LlmError`, `LlmCompletes`, `LlmInvalid` | the exits of the API call: failed result, fallback, completed, exception of the result's own validation |
| `AddDiagnosis`, `IndexFingerprint` | the two critical sections that store a result |
| `AutoWake` ... `AutoPassAborts` | the loop, one action per await; `AutoVisit` checks an alert and hands it over |
| `CreateDiagnosis`, `Respond` | `POST /diagnoses`, which hands its alert over, and its reply |

The check of an alert and the call it leads to are two steps, on two threads: a request
may store a result for the same alert between `AutoVisit` and `Enter`.

Abstractions. A confidence is "high" when it reaches `_RESULT_CACHE_MIN_CONFIDENCE`.
A fingerprint is a value per alert, and an alert in `Unhashable` is one on which
`alert_fingerprint` raises. The wall clock and the monotonic clock are one clock, which
starts anywhere, below the cooldown too; a call of `diagnose` may take any time. Prompt,
evidence and actions are left out. The lookup's
cutoff uses the clock read at the entry, as the code computes both before the lock.

Bounds. `MaxTime` stops the clock; `MaxCalls` and `MaxManual` bound the calls of
`diagnose`, `MaxInvalid` those that end in an invalid response; `FailureCap` stops the
counter where the backoff is flat anyway. `Elapsed` lets sleeps end when the clock has
reached its bound, so that the loop keeps running.

Fairness, used for `RecentAttempted` and for `CriticalAttempted` (section 12): a worker
thread that can step does, the event loop runs its next turn, time passes. Alerts and
requests need not come. `RecentAttempted` asks for a result, of whatever status, and
only for an alert that the query of the loop still returns. `MaxInvalid` is part of what
it assumes: an LLM whose every response fails validation (`LlmInvalid`) could keep the
passes from ever getting to the second alert.

## 4. Job registry and stalls

`JobRegistry` is the job store with its writers. The REST handlers do not await, so each
is one action. A gRPC thread in `_mark_job_progress` holds the lock of the metrics store
(`MetricsLockFree` is false) but takes the job store's lock once to read the status and
once to write it: `MarkRead` and `MarkWrite`, and `MarkThen` for the DiLoCo sample of the
same batch. `POST /metrics/batches` does both in one action, `MarkProgress`.

`StallDetection` extends it with the buffers of the nodes and a detector pass.

| TLA+ | Code |
|---|---|
| `jobs` | `JobStore._jobs`, least recently registered first |
| `mark` | the thread inside `_mark_job_progress` |
| `recency`, `declared` | history: registrations by recency, what the owner last said |
| `buf` | `_NodeBuffer`: `last_seen_ms` and the same-step suffix of the training ring |
| `pass, todo, node, hist` | locals of `run_training_stalled_detection` |
| `lastAlerted` | `_last_alerted` |
| `recent`, `due` | history: alerts within the cooldown; nodes stalled since the pass began |
| `StreamMetrics`, `MarkSteps` | a batch on a gRPC stream |
| `PostMetricsBatches`, `JobHandlers` | the REST handlers, never during a pass |
| `StartPass` ... `EndPass` | the pass, one action per acquisition of a lock |

Abstractions. Names, configuration and times of a job are left out, as is the severity of
an alert. Times are ages, as the code only compares differences; an age stops growing
where no comparison can tell it apart. `Tick` only runs between passes: a pass takes less
than a unit of time. The suffix is assumed to be shorter than the 900 samples that
`get_training_history` returns for 15 minutes; beyond that the code misses the stall.

## 5. Policies

`Policy` is the policy store with its handlers, the stores of samples, and the pass of
the evaluator. The pass does not await: no handler runs during it (`EventLoopFree`), but
gRPC threads store samples between any two of its reads.

| TLA+ | Code |
|---|---|
| `log` | every sample stored, in order of arrival; the rings are its ends per source and node |
| `History`, `CustomHistory` | `get_*_history` of the metrics store; `CustomMetricsStore.query` and its reversal by `_custom_reader` |
| `policies`, `cooldowns` | `PolicyStore._policies`, `_cooldowns` |
| `listed`, `current`, `todo`, `passNow` | locals of `run_policy_evaluation` |
| `raised`, `begin` | history: the last alert of each key; the length of the log as the pass began |
| `CreatePolicy`, `UpdatePolicy`, `DeletePolicy` | the handlers and the store's methods |
| `IngestBatch`, `PostCustomMetrics` | a batch on a stream; `POST /metrics/custom` |
| `StartPass` ... `EndPass` | the pass, one action per store it reads |
| `Violated`, `InCooldown`, `Fire` | `_sustained_violation` and `_stale_for`; `is_in_cooldown`; `mark_triggered` with the alert |

A reading is the places of its samples in the log, oldest first: the end of a set of places
in an order, sorted by `Ranking` (telemetry in the order of arrival, custom samples by their
times, and of equal times the one stored first last). `Scoped` filters it by job.

Both properties that speak of lasting conditions are about the samples that are held: a
ring or a custom buffer that is full has lost some. `SpannedReported` says of a violation
that it is reported if none of its samples has been lost and they come at most once a
second (`Spanned`), which is what a window counted in samples can keep; policy_window
checks the promise without this condition. `FiresSustained` says of an alert that all held
samples of the policy's scope bear it out. It does not ask about a custom sample that was
evicted, nor about a second sample of the time at which the condition began: of either the
evaluator may know nothing, and no text of the repository promises otherwise.

Abstractions. A sample says whether it violates the threshold, which stands for all the
numeric operators. A pass visits the listed policies in any order, as their keys differ.
`None` is no node, no job or no time.

## 6. Alerts and the WebSocket hub

`WsHub` follows a message from where it arises to the connections. The gRPC servicer
stores alerts on threads and schedules their broadcast with `call_soon_threadsafe`
(`soon`); the detector loops broadcast their findings one after the other (`rest`), as do
the loops for diagnoses and summaries. The hub's `asyncio.Lock` is first come first
served, so it is the queue `lockq` of the tasks that asked for it, and its holder is the
head. A broadcast sends to one connection after the other, one action per send.

`Feed` is what the hub promises: one order of all messages (`published`), of which each
client receives a subsequence (`got`), in order. `ImplementsFeed` is the refinement.

Faults: a peer dies at any time (`Die`), and is noticed by a failed send, by its own
endpoint, or by both; at most `MaxFaults` other exceptions end a broadcast
(`SendRaises`), and with it the rest of a loop's findings.

Fairness (`LiveSpec`): the event loop runs its callbacks, its tasks and the endpoints; a
send to a peer that does not read ends at the latest when the server's ping times out.
Nothing is assumed about alerts, loops or clients.

## 7. The other detectors

`Detectors` holds the three detectors over the training history of a node; they differ
in their reads and tests only, so a behaviour follows one of them (`kind`). A pass is
`StartDetection`, one `Check` per read (the cursor `dpass` says which is next: a node is
read once per z-score window and field, or once), and `EndDetection`, which evicts.
Tests on means, slopes and medians are cross-multiplied over small integers. `Throttle` is
the abstract deduplication: a key is raised at most once per period. Sidecar implements
it too, with attempts to connect as its only key.

`Instability` has the bounded set of emitted (node, step) pairs, of which eviction drops
arbitrary ones. `Correlation` has the ring of alerts that the cross-node detector both
reads and writes, with late and out-of-order alerts of the agents. `DiLoCo` has the
histories by outer step, the step last seen of each worker, and a read per check, between
which samples arrive. A sample may be of any outer step: batches that were lost skip some,
a restart goes back. A z-score of a pseudo-gradient norm is compared exactly, but one that
equals the threshold may go either way (`AtThreshold`), as the code's floating-point mean
and deviation may round it up or down. `outlying` is the history of the workers whose norm
is far from those of all the others.

Times are ages that stop growing where no comparison tells them apart.

## 8. Sidecar and shared page

`Channel` is the page with both sides. The writer copies the fields of a record in any
order, one action each, as neither side may assume an order; the reader reads the flag,
the time, and then the others one at a time. A field holds the number of the write it is
from, so a mixed sample is visible. The training process may end, close, crash and
restart at any point, and truncates the file when it restarts. `log_metric` posts from
its own threads. `CloseInvalidates` tells the two callbacks apart.

`Sidecar` is the loop that spawns a task per message and the tasks that queue for the one
transport. `Throttle`, `StartConnect`, `Connected`/`ConnectFails`, `StartCall`,
`BackendProcesses`, `CallReturns`/`CallFails` are the stretches of `send` between awaits.
The backend goes down and comes up at any point. A call ends in an error
(`CallEndsInError`) when the connection is gone or when a live backend answers with an
error status, processed or not, and each such end drops the client. Both are faults;
`faultAge` is the time since the last one. `Shutdown` ends the runtime with its tasks.

Fairness (`SideFairSpec`): the runtime runs its tasks, and the loop ticks, so time passes.
A tick need not have a batch: the default collector fails each time, and the loop goes on
without one. `Reconnects` therefore assumes that messages keep coming
(`[]<>(holder # None)`), and that faults end. That a call ends is assumed of the backend
and the network, as the code sets no deadline.

## 9. Dashboard

`DashSocket` is `useWebSocketInternal` with the key of `useAuth`. `StoreKey` changes the
key in the browser's storage; `AuthEffect` runs later, cleans up what the run before it
left, and connects; `SocketOpens`, `SocketCloses` and `RetryTimer` are the handlers, which
do nothing once the run they belong to is `unmounted`. `connect` tests the key of its own
run but puts the stored one into the URL. `onerror` does nothing, as `onclose` follows.

`Panes` is two panes whose subject changes while requests are under way:
`useActiveJob` with `useJobSummary`, and the alerts page with `AlertDetail`. A request
carries the flag of the run that sent it (`signal.aborted`, `cancelled`). A click runs the
effects it causes at once; after an answer or a message, other events may come before
`JobEffect` and `PanelEffect`. The panel's own "Request diagnosis" is not an action: its
button waits for an error whose message contains "404" (`alert-detail.tsx:61`), and the
messages of `apiFetch` never do (`api.ts:25`), so the code cannot reach it.

What `PanesKeepSubject` leaves out, because the code does not ensure it: a diagnosis that
the page hands over is matched with the alert selected at the last effect, and the answer
to a lifecycle change is shown by whatever panel is open when it comes. After a sign-out
the dashboard goes on saying that it is connected, as the cleanup silences `onclose`.

Fairness (`WsFairness`): React runs the effects of what it has rendered, and the browser
its timers and the events of its sockets.

## 10. Solana programs

An instruction either takes effect as a whole or, when a check of it fails, not at all:
each is one action. `Escrow` has the four instructions that move lamports, with lists of
workers in which one may occur twice, and transfers to the vault that nobody asked for.
`Settlement` is its promise: each share of a funded job is paid to its worker or returned
to the creator, once, and the job closes when none is owed. `Staking` has
`update_config`, `stake`, `slash` and `unstake`, and time.

Wallets and rent are left out, so a deposit never fails; a deposit that fails changes
nothing.

## 11. Runs

| Run | Instance | Shows |
|---|---|---|
| diag_safety | 2 CRITICAL alerts of one node, the loop and one request, rings of 1 and 2, 3 calls, the clock from 0 to 2 | `TypeOK`, `CacheSound`, `StoredOnce`, `PaidCallsSpaced`, `RefusalsJustified`, `IndexAgrees`, `RetriesSpaced` |
| diag_live | 3 CRITICAL alerts on 2 nodes, two of them alike, a query of 2, no requests | `RecentAttempted` under `FairSpec` |
| diag_blocked | as diag_live, a query of 3, the fingerprint of one alert raises | `CriticalAttempted` is violated |
| stall | 1 node, 2 jobs, a registry of 1, 2 steps, samples without delay | `AlertsSpaced`, `StallNotMissed`, `AlertsWhileRunning` |
| stall_revived | as stall | `FinishedJobsSilent` is violated |
| policy | 1 policy id, 3 bodies, 2 patches, 1 node, 2 jobs, rings of 2, 3 samples of 3 sources, 2 of a time | `TypeOK`, `FiringsSpaced`, `CooldownsAgree`, `SpannedReported`, `FiresSustained` |
| policy_window | a duration as long as the ring reaches back | `SustainedReported` is violated |
| hub | 2 connections, 2 alerts, 2 broadcasts, 1 exception | `TypeOK`, `NothingMissed`, `ImplementsFeed`, `AlertsFlushed`, `DeadLeave` |
| backend | 3 jobs in a registry of 2; histories and rings of 4, a set of 2, 2 nodes | `TypesOK`, `KeepsNewest`, `ImplementsThrottle`, `NotSilenced`, `BrokenReportedOnce`, `CorrelationExact`, `AlertedOnce`, `DivergenceGenuine` |
| diloco_norms | 3 workers, norms of 10, 11 and 99 | `DeviantsReported` is violated |
| outside | a record of 2 values, 3 writes; 3 messages, attempts 2 units apart; 2 keys, 3 sockets; 2 jobs, 2 alerts; a job of up to 4 entries for 2 workers, 2 stakers, amounts up to 2 | `TypesOK`, `SampleRegular`, `OutageBounded`, `AttemptsSpaced`, `OneSocket`, `PanesKeepSubject`, `MCReconnects`, `MCSocketReturns`, `EscrowSolvent`, `ImplementsSettlement`, `StakesBacked` |
| channel_truncated | as the page of outside | `ReaderSurvives` is violated |

Why the bounds are enough. The interleavings of interest need two actors on one object:
two alerts, jobs, connections, workers or nodes. Rings and sets of one to four entries make
eviction the common case; cooldowns and windows of one or two units make both sides of each
comparison reachable.

- diag_safety: an alert ring of one, so an alert leaves it before its diagnosis ends;
  two alerts of one node compete for its slot; the TTL and cooldowns are one unit, so two
  units let each expire, and a clock that starts at 0 is below the cooldown at first. The
  sleep of the loop is as short as a step, which allows every spacing of its passes, and
  leaves the backoff without effect (`FailureCap` 0; diag_live has it). The third of three
  calls evicts the first result from its ring.
- diag_live: a query of two of three alerts, so the newest two can hide one.
- policy: the three bodies take a scope by job, a scope by node and an immediate
  condition; a third sample evicts one from a ring or a buffer of two; two samples may
  have one time, and a custom sample may be one unit late. One policy suffices, as the
  keys of two never meet.
- hub: a connection can join, die or leave before, during and after each of the two
  broadcasts, of which one may end in an exception.
- backend: the two windows of the z-score find the same anomaly twice; a cooldown of two
  units expires, and entries are evicted, while an anomaly lasts. Four alerts and a query
  of three make the correlation miss the oldest; the set of two pairs overflows with four.
- outside: with three writes a restart truncates only a page that has no real record
  behind it; that the later ones change nothing is left to the theorem
  `SampleAlwaysRegular`. Three messages are one that holds the transport and two that
  wait; two units between attempts leave room for throttled tasks. Three sockets are the
  live one and two that still close; one of the two keys is refused. Four entries for two
  workers name each worker twice, or one four times.

`CHECK_DEADLOCK FALSE` is there where a bounded clock, a bounded number of calls, writes
or messages, or a completed escrow really ends a behaviour.

## 12. Findings

**diag_blocked.** `alert_fingerprint` raises `OverflowError` on an evidence
value of infinity (`fingerprint.py:31-38`, the `except ValueError` at line 60 does not
catch it), which `numeric_instability` alerts carry. The pass of the automatic loop ends
there each time, and CRITICAL alerts older than that one are never attempted, although
`main.py:192` promises to diagnose them. The counterexample is a cycle of aborted passes.

**stall_revived.** A thread reads a job as registered, its owner declares it
completed, the thread writes running (`stores.py:74-75`). The finished job then stays
running and, as nothing more is trained, is reported as stalled;
`backend/tests/test_training_stalled.py:174` expects no finding for a completed job.

**policy_window.** The window of a policy is a number of samples, and the rings hold 1800
of them. A `for_seconds` of 1800 or more, which `models/policies.py:66` accepts, never
fires at one sample per second, although `policy_evaluator.py:217` says the window is
"long enough to span for_seconds plus headroom".

**diloco_norms.** `diloco.py:104` says that a worker whose pseudo-gradient norm deviates
from the cluster is reported, and the guards at lines 108 and 120 ask for two workers only.
But the worker is part of the mean and of the deviation it is compared with, so its z-score
is at most the root of n - 1: below ten workers it never exceeds the threshold of 3.

**channel_truncated.** A callback opens its page with `"wb"` (`callback.py:128`), which
truncates the file that the sidecar has mapped. A read between the truncation and the
refill is beyond the end of the file and kills the sidecar, which the comment at
`training.rs:50` does not consider.

Three more are part of what a property of diag_live or diag_safety allows, without a run
of their own.

- `RecentAttempted` asks nothing for an alert that is behind the window. A pass asks for
  the 20 newest CRITICAL alerts (`main.py:203`) and then skips those that are answered:
  once 20 newer ones exist, answered or not, an alert without a diagnosis is never looked
  at again, although `main.py:192` promises it.
- `RefusalsJustified` allows a refusal while the monotonic clock is below the cooldown.
  `try_acquire` takes 0.0 for the last call of a node it has not seen
  (`rate_limiter.py:24-28`), so within 30 seconds of boot the first call of each node is
  refused, "cooldown period active for this node" (`agent.py:114`), and the refusal is
  terminal for the loop. `backend/tests/test_diagnosis_rate_limiter.py:12` expects a first
  call to pass.
- `RetriesSpaced` allows a retry after any newer failed result. `main.py:194` says that the
  loop skips an alert that already has a terminal diagnosis, but it looks at the newest
  result only (`diagnosis/store.py:38`): a request that began earlier may store a failed
  one after the loop's terminal one, and the alert is diagnosed again.

## 13. Proofs

All theorems hold for every value of the constants that satisfies the named assumptions
of the modules. Each safety theorem is `Spec => []Inv` from an inductive invariant, with
one lemma per action (or per kind of action) and PTL for the temporal step; an action
property follows from the invariant and the step, a refinement from the invariant and a
case per step of the model.

**DiagnosisProofs**: `TypeCorrect`, `CacheIsSound`, `IndexStaysTrue`. `CacheSound` is not
inductive: it says nothing of a clone that is still being made, nor of
the entries a lookup may find. The invariant `CacheInv` adds

- `Mine`, `Working`: two busy threads build different results, and the result a thread
  builds has the status its `pc` allows, so a step of one thread leaves what the others
  rely on;
- `Indexing`, `IndexIsTrue`: what is in the index, and what is on its way there, is a
  completed LLM result under its own fingerprint;
- `Cloning`: a thread about to clone holds a source that still satisfies `IsSource`.

Finished results never change, so a source stays a source.

`AlwaysStoredOnce`, `PaidAlwaysSpaced`, `AlwaysJustified` and `IndexAlwaysAgrees` share
`CallInv`. The twenty actions are first sorted into the few `Kind`s a call can take
(entered, finished, granted a slot, moved on, stored, indexed), and each part of the
invariant is then shown for a kind: `StoredInv` (the log has a finished id once, an
unfinished one not yet), `SlotInv` (the limiter's entry of a node is its last slot, and no
slot is later), `PaidHaveSlots` and `RingIndexed` (a completed result in the ring is
indexed, or its thread is about to index it). `AlwaysJustified` assumes nothing of the
start of the clock: a refusal has a slot behind it, or a clock still below the cooldown.

`RetriesAlwaysSpaced` needs `RetryInv`, as the loop decides in one step and calls in
another. While an alert is handed over (`asked`), each earlier call of the loop for it has
a failed result, its own or a newer one, that was a cooldown old by the clock of the pass,
unless the ring has lost it. The clock of the pass is never ahead of the real one, finished
results do not change and the log only grows, so this still holds when the call begins,
whatever requests have stored meanwhile.

**StallDetectionProofs**: `NewestAlwaysKept` from `JobInv`, in which the history of
registrations has no job twice, so that evicting the first of the registry and moving a
job to its end are the same operation on both. `AlertsAlwaysSpaced`, `StallNeverMissed`
and `AlertsAlwaysWhileRunning` from `StallInv`: the alerts of the last cooldown are just
the dedup entries that would suppress them, whatever eviction forgets; and a node that is
due is still to be visited, is being visited and has its buffer as it was read, or has its
alert.

**PolicyProofs**: `PolicyInvariant`, `FiringsAlwaysSpaced`, `CooldownsAlwaysAgree`.
`PolicyInv` adds to the two properties that the copies a pass works on are of policies
that still exist, which holds because no handler runs during a pass, and that no cooldown
is later than the clock of the pass. Without the first, `mark_triggered` could leave the
cooldown of a deleted policy behind; without the second, a gap could be negative.

The other four theorems are about what a pass reads. Each reading is `Ranked`: it is the
end, in a strict order, of a set of places of the log (`ReadForIs`, from **RankingProofs**:
ranks in a strict order of a finite set are a bijection to its size, so sorting by them is
an enumeration, in that order). `PolicyTypeInvariant` follows, and two facts on a
`Violated` scope, that its trailing run has a start and agrees (`StartIs`, `ViolatedIs`).
`ReachedAlwaysReported`: what is `Due`, judged by the samples that the window reaches, has
been told by the end of the pass. `VisitInv` says it for the policies and nodes visited so
far: a sample that the window still reaches it also reached at the visit, so what arrives
meanwhile hides nothing.

`SpannedAlwaysReported` derives from it what a reader of the configuration wants to know,
without mention of the window. A reading that asks for enough samples reaches any sample
that few enough others follow (`ReadByTime`, `EndReaches`), and `WindowMinutes` turns a
duration in seconds into a window of at least as many samples and a minute more
(`WindowIsWide`), so a violation that is `Spanned` is `Due` (`SpannedRead`).
`FiresAlwaysSustained` holds in every behaviour. The trailing run that fires is the end of
what was read, so in a held sample that is later than its start there is nothing to
contradict it, whether the window, the filter by job or an eviction cut the reading.

**WsHubProofs**: `HubInvariant`, `HubTypeCorrect`, `NothingEverMissed`,
`HubImplementsFeed`. `HubInv` has five parts. `ConnInv` and `QueueInv` say who is listed
and who waits for the lock, a connection at most once, and that only the first task has
begun to send. `FeedInv` is what the refinement needs: the messages of the running
broadcast are the end of the feed, and each place of its loop that is still to be visited
is later in the feed than all that its connection has received. `OwedInv` is what
`NothingMissed` needs: an alert owed to a connection was received, waits on its way to the
lock, or is ahead of the running broadcast. The hard steps are those that change the list
under a running broadcast, where a connection's places must keep their order.

**DetectorsProofs**: `DedupInvariant`, `NeverSilenced`, `DetectorsImplementThrottle`. The
properties speak of `since`, a history of what was really raised, and the code only has
`_last_alerted`, from which it also drops entries. `Dedup` ties the two: an entry is as
old as the last alert of its key, up to the cooldown, and a key without an entry has been
quiet for a cooldown. The second half is what makes eviction harmless, and holds because
entries are dropped at more than twice the cooldown. The refinement follows step by step:
a read that emits is a `Raise`, the clock a `Tick`, everything else a stutter.

`BrokenAlwaysReportedOnce`: `InstabilityInv` relates the set to what was alerted, in one
direction always, in the other until it was once full. `AlwaysAlertedOnce`: `IncrementInv`
orders the step a worker last spoke of before the step recorded while its checks run.
`CorrelationAlwaysExact`: `RingInv` places the latest alert of each node's agent in the
ring by the number of alerts stored since, so that a query that reaches back that far finds
it. `NormsAlwaysSilent` backs the finding diloco_norms: up to the squared threshold of workers
the comparison raises nothing, whatever the norms. A value is at most the root of n - 1
deviations from the mean of the n values it is one of (`Samuelson`), by expanding a sum of
squares over a finite set. With one worker more the extreme case equals the threshold, and
rounding decides.

`DivergenceAlwaysGenuine`: the code takes the largest outer steps of a dictionary by step,
the property the last `Divergence + 1` final samples of a history that never goes back. The
two agree because both are upwards closed: `LastSteps` is the only up-closed set of steps of
its size, and the final samples of an ordered history are ordered as their steps are.
`BackendTypesAlways` collects `JobInv`, `Dedup`, `InstabilityInv`, `RingInv` and
`IncrementInv`. What they lack is small, but for the steps of a training history, which are
kept relative to the first one of the buffer: `Close` says that neighbours are at most one
step apart, so that moving the origin never leaves a step below it.

**ClientsProofs**. `TransportTypeCorrect`, `OutageAlwaysBounded` and
`AttemptsAlwaysSpaced` from `TransportInv`: without a connection, there has been a
fault since the last attempt began, however the connection was lost (`FaultSinceAttempt`).
`SampleAlwaysRegular` from `WriteInv` (a field of the page is at least as new as every
completed write, and what the current write has copied is of that write) and `ReadInv`
(what a read has found is no older than its start; past the check of the time, some
training has written lately).

`AlwaysOneSocket`: `SocketInv` says that a signed-in run of the
effect has a timer and no live socket, or no timer and a set of live sockets that is a
singleton, which counts them without arithmetic until the last step. `ConnectServes` is
the one lemma for both callers of `connect`: where nothing was live, one socket is.
`SubjectsAlwaysKept`: `PaneInv` says that a request that is not aborted is
about the present subject; the effects re-establish it by aborting everything first.
`ClientsTypesAlways` adds what the types need beside these invariants: that a file is made
anew only while there is a number left for the write that fills it (`PageRest`), that a
timer needs a socket that closed (`SocketRest`), that requests are about subjects
(`PaneRest`). A step of one module leaves the invariants of the others alone.

**SolanaProofs**: `EscrowAlwaysSolvent`, `StakesAlwaysBacked`,
`EscrowImplementsSettlement`. In `EscrowInv` the vault is
the share times the number of unsettled entries; `OneJob` reduces each instruction to the
account it writes, and settling an entry takes one element off a finite set. In
`StakingInv` an account that is not open has nothing staked, so it can be opened again
over a vault that holds only what was sent to it. The refinement divides what was received
and returned by the share; `SharesInv` says that the division leaves no rest, and
settling entry by entry is then a `Pay` or a `Return` of the abstract job.

Two proofs made an assumption explicit that small instances hide. `BrokenReportedOnce`
needs a bound of at least two on the emitted set (`MaxEmitted`): eviction drops half of it,
which is nothing when the bound is one. `CorrelationExact` needs the query to ask for no
more alerts than the ring holds (`QueryCap <= RingCap`): a query that wants more is cut by
the ring, which the property does not allow for. The code has 4096, and 200 of 1000.

Facts about recursive functions and finite sets (sums, removals from a list) are proved
without an induction rule: the set of counterexamples is a set of natural numbers (or of
sizes), and has a least element (`Least`, `Smallest`).

Only model-checked:

- The liveness properties (`RecentAttempted`, `AlertsFlushed`, `DeadLeave`,
  `MCReconnects`, `MCSocketReturns`): fairness is outside the reach of the proof system.
- `FinishedJobsSilent`, `ReaderSurvives` and the other findings of section 12, which the
  code violates.

## 14. Not modelled

- Of the dashboard, the lists of alerts and diagnoses: an answer replaces what a message
  has prepended, and a message repeats what an answer has brought, so they promise nothing
  that could be checked; the theme and the layout.
- Reputation and attestation: each instruction writes one record of its own, with no
  other state to agree with. The wallets and the rent of the other two programs.
- The GPU collectors and the threshold detector: what they find is left open in Sidecar;
  the fields of the GPU metrics are judged like those of the training metrics.
- `training/simulate.py`, `diagnosis/prompts.py`, the notebooks, the landing page and the
  deployment files: random data, text and configuration, without a state that has to
  agree with anything.
- incident.io export, Prometheus gauges, authentication and the notes of an alert's
  lifecycle: output only, or one dictionary that nothing else reads.
- Memory limits and crashes of the backend (nothing survives one), and a wall clock that
  is set back.
