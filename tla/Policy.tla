------------------------------- MODULE Policy -------------------------------
(***************************************************************************)
(* The policy engine: the store of user-defined policies and of their      *)
(* cooldowns (stores.py), the REST handlers that edit it (routes.py), the  *)
(* samples it judges (telemetry rings and custom metrics) and the pass of  *)
(* the evaluator (policy_evaluator.py).                                    *)
(*                                                                         *)
(* A pass runs on the event loop without an await: no REST handler runs    *)
(* during a pass, but gRPC threads store samples at any point of it. A     *)
(* sample says whether it violates its threshold: every numeric operator   *)
(* is that test; stale_for compares values instead, of which two are kept. *)
(* Every policy of a source watches one field.                             *)
(***************************************************************************)
EXTENDS Integers, Sequences, FiniteSets, Ranking

CONSTANTS
  PolicyIds,      \* the ids that requests use
  Nodes, Jobs,    \* identifiers
  None,           \* no job, no node, no policy
  Configs,        \* BOUND: the bodies of POST /policies
  Patches,        \* BOUND: the bodies of PATCH, records of some of the fields
  Sources,        \* BOUND: the sources that deliver samples
  RingSize,       \* _RING_BUFFER_SIZE, in samples
  CustomCap,      \* _CUSTOM_METRIC_BUFFER_CAP, in samples
  Minute,         \* the 60 that makes samples, or seconds, of a minute
  DefaultMinutes, \* _DEFAULT_WINDOW_MINUTES
  MaxDelay,       \* BOUND: how old a custom sample can be on arrival
  SampleRate,     \* BOUND: samples of a node per unit of time
  MaxSamples,     \* BOUND: samples in all
  MaxTime         \* BOUND: the clock

\* The body of a policy, as far as the evaluation reads it: a patch has some of its fields.
Fields == [enabled |-> BOOLEAN, source |-> {"gpu", "training", "diloco", "custom"},
           stale |-> BOOLEAN, node |-> Nodes \cup {None}, job |-> Jobs \cup {None},
           for |-> Nat, cooldown |-> Nat]
HasFields(c) == DOMAIN c \subseteq DOMAIN Fields /\ \A f \in DOMAIN c : c[f] \in Fields[f]

ASSUME PolicyAssumption ==
  /\ Sources \subseteq Fields.source
  /\ \A c \in Configs : HasFields(c) /\ DOMAIN c = DOMAIN Fields
  /\ \A p \in Patches : HasFields(p)
  /\ None \notin PolicyIds \cup Nodes \cup Jobs /\ None \notin Nat
  /\ {RingSize, CustomCap, Minute} \subseteq Nat \ {0}
  /\ {DefaultMinutes, MaxDelay, SampleRate, MaxSamples, MaxTime} \subseteq Nat

VARIABLES
  now,        \* the clock
  log,        \* every sample stored, in order of arrival: the rings are its ends
  policies,   \* _policies
  cooldowns,  \* _cooldowns: <<policy, node, job>> -> time of the last trigger
  pass,       \* "idle", or "run" between the start and the end of a pass
  passNow,    \* the clock as the pass read it
  listed,     \* list_enabled(): the copies the pass has still to evaluate
  current,    \* the policy being evaluated, or None
  todo,       \* the nodes still to visit for it
  raised,     \* history: the last alert of each key of a policy
  begin       \* history: the length of the log, and the policies, as the pass began

storeVars == <<policies, cooldowns, raised>>
passVars  == <<pass, passNow, listed, current, todo, begin>>
vars      == <<now, log, storeVars, passVars>>

Keys   == PolicyIds \X Nodes \X (Jobs \cup {None})
Sample == [source : Sources, node : Nodes, job : Jobs \cup {None}, ts : Nat, bad : BOOLEAN]

TypeOK ==
  /\ now \in Nat /\ passNow \in Nat
  /\ log \in Seq(Sample)
  /\ DOMAIN policies \subseteq PolicyIds
  /\ DOMAIN cooldowns \subseteq Keys
  /\ \A k \in DOMAIN cooldowns : cooldowns[k] \in 0..now
  /\ pass \in {"idle", "run"}
  /\ DOMAIN listed \subseteq PolicyIds
  /\ current \in PolicyIds \cup {None}
  /\ todo \subseteq Nodes
  /\ pass = "idle" => listed = <<>> /\ current = None /\ todo = {}

Max2(a, b) == IF a >= b THEN a ELSE b
Min2(a, b) == IF a <= b THEN a ELSE b

\* The function f with key k set to v.
With(f, k, v) == [x \in DOMAIN f \cup {k} |-> IF x = k THEN v ELSE f[x]]

\* The last k elements of s.
Last(s, k) == SubSeq(s, Max2(1, Len(s) - k + 1), Len(s))

\* MUTANT: the pass runs on a thread of its own, so handlers interleave with it.
NoEventLoop == TRUE

EventLoopFree == pass = "idle"

-----------------------------------------------------------------------------
(* Samples. *)

\* A sample of telemetry is stamped by its node as it is taken; one of a custom metric
\* carries the time its client chose.
Store(s, free) ==
  /\ free
  /\ Len(log) < MaxSamples
  /\ Cardinality({i \in DOMAIN log : log[i].ts = s.ts /\ log[i].node = s.node}) < SampleRate
  /\ log' = Append(log, s)
  /\ UNCHANGED <<now, storeVars, passVars>>

\* A batch on a stream of the gRPC server, at any time.
IngestBatch ==
  \E source \in Sources \ {"custom"}, n \in Nodes, bad \in BOOLEAN, j \in Jobs \cup {None} :
    /\ source = "gpu" => j = None
    /\ Store([source |-> source, node |-> n, job |-> j, ts |-> now, bad |-> bad], TRUE)

PostCustomMetrics ==
  /\ "custom" \in Sources
  /\ \E n \in Nodes, j \in Jobs, bad \in BOOLEAN, age \in 0..Min2(MaxDelay, now) :
       Store([source |-> "custom", node |-> n, job |-> j, ts |-> now - age, bad |-> bad],
             EventLoopFree)

\* get_node_ids: only telemetry makes a node known.
KnownNodes(samples) == {s.node : s \in {samples[i] : i \in {k \in DOMAIN samples :
                                                            samples[k].source # "custom"}}}

\* A history is the places of its samples in the log, oldest first.

\* _NodeBuffer: the ring of a source and node, and its end that spans a window.
History(samples, source, n, window) ==
  LET Of(s) == s.source = source /\ s.node = n IN
    Last(Ascending({i \in DOMAIN samples : Of(samples[i])}), Min2(RingSize, window * Minute))

\* CustomMetricsStore: a sample is held while it is among the last of its job.
IsHeld(samples, i) ==
  /\ samples[i].source = "custom"
  /\ Cardinality({k \in i..Len(samples) :
                   samples[k].source = "custom" /\ samples[k].job = samples[i].job}) <= CustomCap

\* MUTANT: the samples stay in the order in which they arrived.
CustomHistoryByArrival(samples, n, window) ==
  LET IsOf(i) == IsHeld(samples, i) /\ samples[i].node = n
      held[k \in 0..Len(samples)] ==
        IF k = 0 THEN <<>> ELSE IF IsOf(k) THEN Append(held[k - 1], k) ELSE held[k - 1]
  IN Last(held[Len(samples)], Max2(1, window * Minute))

\* query and the reversal by _custom_reader: oldest first, of equal times the one stored
\* first comes last.
CustomHistory(samples, n, window) ==
  LET held == {i \in DOMAIN samples : IsHeld(samples, i) /\ samples[i].node = n}
      Opened(i) == {k \in 1..i : samples[k].source = "custom" /\ samples[k].job = samples[i].job}
      First(i) == CHOOSE k \in Opened(i) : \A x \in Opened(i) : k <= x   \* order of the buffers
      Before(a, b) == \/ samples[a].ts < samples[b].ts
                      \/ samples[a].ts = samples[b].ts /\ First(a) > First(b)
                      \/ samples[a].ts = samples[b].ts /\ First(a) = First(b) /\ a > b
      rank == [i \in held |-> Cardinality({k \in held : k = i \/ Before(k, i)})]
  IN Last(ByRank(rank), Max2(1, window * Minute))

Read(samples, source, n, window) ==
  IF source = "custom" THEN CustomHistory(samples, n, window)
                       ELSE History(samples, source, n, window)

-----------------------------------------------------------------------------
(* PolicyStore and its REST handlers. *)

CreatePolicy(p) ==
  /\ EventLoopFree
  /\ p \notin DOMAIN policies
  /\ \E c \in Configs : policies' = With(policies, p, [lastTriggered |-> None, config |-> c])
  /\ UNCHANGED <<now, log, cooldowns, raised, passVars>>

Patched(c, patch) == [f \in DOMAIN c |-> IF f \in DOMAIN patch THEN patch[f] ELSE c[f]]

\* PATCH, and the toggle.
UpdatePolicy(p) ==
  /\ EventLoopFree
  /\ p \in DOMAIN policies
  /\ \/ \E patch \in Patches : policies' = [policies EXCEPT ![p].config = Patched(@, patch)]
     \/ policies' = [policies EXCEPT ![p].config.enabled = ~@]
  /\ UNCHANGED <<now, log, cooldowns, raised, passVars>>

Without(f, p) == [k \in {x \in DOMAIN f : x[1] # p} |-> f[k]]

\* A new policy of the same id starts with no cooldown, and so does its history.
DeletePolicy(p) ==
  /\ EventLoopFree
  /\ p \in DOMAIN policies
  /\ policies' = [q \in DOMAIN policies \ {p} |-> policies[q]]
  /\ cooldowns' = Without(cooldowns, p)
  /\ raised' = Without(raised, p)
  /\ UNCHANGED <<now, log, passVars>>

InCooldown(key, seconds) ==
  /\ seconds > 0
  /\ key \in DOMAIN cooldowns
  /\ passNow - cooldowns[key] < seconds

\* MUTANT: the trigger is recorded for the node, without the job.
MarkTriggeredNode(key) ==
  /\ cooldowns' = With(cooldowns, <<key[1], key[2], None>>, passNow)
  /\ policies' = [policies EXCEPT ![key[1]].lastTriggered = passNow]

\* MUTANT: the time recorded is when the cooldown ends.
MarkTriggeredUntil(key) ==
  /\ cooldowns' = With(cooldowns, key, passNow + listed[current].cooldown)
  /\ policies' = [policies EXCEPT ![key[1]].lastTriggered = passNow]

MarkTriggered(key) ==
  /\ cooldowns' = With(cooldowns, key, passNow)
  /\ policies' = [p \in DOMAIN policies |->
                    IF p = key[1] THEN [policies[p] EXCEPT !.lastTriggered = passNow]
                                  ELSE policies[p]]

-----------------------------------------------------------------------------
(* run_policy_evaluation. *)

InScope(s, c) == c.job = None \/ s.job = c.job

\* The samples at some places that are in the scope of a policy.
Scoped(samples, places, c) ==
  LET fits == Ascending({p \in DOMAIN places : InScope(samples[places[p]], c)})
  IN [q \in DOMAIN fits |-> samples[places[fits[q]]]]

\* _sustained_violation and _stale_for: the trailing samples that agree span the duration.
Violated(samples, c) ==
  /\ samples # <<>>
  /\ LET last == samples[Len(samples)]
         Agrees(i) == IF c.stale THEN samples[i].bad = last.bad ELSE samples[i].bad
         start == CHOOSE i \in DOMAIN samples : /\ \A k \in i..Len(samples) : Agrees(k)
                                                /\ i = 1 \/ ~Agrees(i - 1)
     IN /\ Agrees(Len(samples))
        /\ last.ts - samples[start].ts >= c.for \/ (~c.stale /\ c.for = 0)

\* MUTANT: no headroom.
WindowMinutesTight(c) == Max2(DefaultMinutes, c.for \div Minute)

\* Enough minutes to span the duration, and some more.
WindowMinutes(c) == Max2(DefaultMinutes, c.for \div Minute + 2)

StartPass ==
  /\ pass = "idle"
  /\ pass' = "run"
  /\ passNow' = now
  /\ listed' = [p \in {q \in DOMAIN policies : policies[q].config.enabled} |->
                  policies[p].config]
  /\ begin' = Len(log)
  /\ UNCHANGED <<now, log, storeVars, current, todo>>

\* The keys of two policies differ, so their order does not matter.
NextPolicy ==
  /\ pass = "run" /\ current = None
  /\ \E p \in DOMAIN listed :
       /\ current' = p
       /\ todo' = IF listed[p].node = None THEN KnownNodes(log) ELSE {listed[p].node}
  /\ UNCHANGED <<now, log, storeVars, pass, passNow, listed, begin>>

\* The cooldown is kept for the job of the scope, else of the latest sample.
KeyOf(p, n, samples) ==
  <<p, n, IF listed[p].job # None THEN listed[p].job ELSE samples[Len(samples)].job>>

Fire(key, seconds) ==
  /\ MarkTriggered(key)
  /\ raised' = With(raised, key,
       [at |-> passNow, cooldown |-> seconds,
        gap |-> IF key \in DOMAIN raised THEN passNow - raised[key].at ELSE seconds])

\* _evaluate_one for one node: the samples are read under the lock of their store.
EvaluateNode ==
  /\ pass = "run" /\ current # None
  /\ \E n \in todo :
       LET c == listed[current]
           samples == Scoped(log, Read(log, c.source, n, WindowMinutes(c)), c)
       IN /\ todo' = todo \ {n}
          /\ IF /\ Violated(samples, c)
                /\ ~InCooldown(KeyOf(current, n, samples), c.cooldown)
               THEN Fire(KeyOf(current, n, samples), c.cooldown)
               ELSE UNCHANGED storeVars
  /\ UNCHANGED <<now, log, pass, passNow, listed, current, begin>>

PolicyDone ==
  /\ current # None /\ todo = {}
  /\ listed' = [p \in DOMAIN listed \ {current} |-> listed[p]]
  /\ current' = None
  /\ UNCHANGED <<now, log, storeVars, pass, passNow, todo, begin>>

Evaluated == pass = "run" /\ DOMAIN listed = {}

EndPass ==
  /\ Evaluated
  /\ pass' = "idle"
  /\ passNow' = 0 /\ begin' = 0     \* locals of the pass: gone
  /\ UNCHANGED <<now, log, storeVars, listed, current, todo>>

Tick ==
  /\ now < MaxTime
  /\ now' = now + 1
  /\ UNCHANGED <<log, storeVars, passVars>>

-----------------------------------------------------------------------------

Init ==
  /\ now = 0 /\ log = <<>>
  /\ policies = <<>> /\ cooldowns = <<>> /\ raised = <<>>
  /\ pass = "idle" /\ passNow = 0 /\ listed = <<>> /\ current = None /\ todo = {}
  /\ begin = 0

Handlers == \E p \in PolicyIds : CreatePolicy(p) \/ UpdatePolicy(p) \/ DeletePolicy(p)

Pass == StartPass \/ NextPolicy \/ EvaluateNode \/ PolicyDone \/ EndPass

Next == IngestBatch \/ PostCustomMetrics \/ Handlers \/ Pass \/ Tick

Spec == Init /\ [][Next]_vars

-----------------------------------------------------------------------------
(* Properties. *)

\* Two alerts of one policy for one node and job are at least the cooldown apart that
\* the policy had when the second was raised, whatever edits, toggles and late samples
\* came between (policy_evaluator.py:5, "Cooldown ... prevents spam").
FiringsSpaced == \A k \in DOMAIN raised : raised[k].gap >= raised[k].cooldown

\* The cooldowns, the triggers that the policies show and the alerts raised agree: a
\* deleted policy leaves nothing that would silence a later policy of its id, and no
\* pass writes the cooldown of a policy that is gone.
CooldownsAgree ==
  /\ DOMAIN cooldowns = DOMAIN raised
  /\ \A k \in DOMAIN cooldowns :
       /\ k[1] \in DOMAIN policies
       /\ cooldowns[k] = raised[k].at
       /\ policies[k[1]].lastTriggered # None
       /\ policies[k[1]].lastTriggered >= cooldowns[k]
  /\ \A p \in DOMAIN policies :
       policies[p].lastTriggered # None => \E k \in DOMAIN cooldowns :
          k[1] = p /\ cooldowns[k] = policies[p].lastTriggered

\* The samples a policy is about, whether still held or not, and of all samples of its
\* source and node those that no custom metric has evicted.
About(c, n, length) ==
  {i \in 1..length : log[i].source = c.source /\ log[i].node = n /\ InScope(log[i], c)}
Retained(c, n) ==
  {i \in 1..Len(log) : /\ log[i].source = c.source /\ log[i].node = n
                       /\ c.source = "custom" => IsHeld(log, i)}

\* Some sample at least the duration before the latest agrees with it, as do all later ones.
Sustained(idx, c) ==
  \E a, z \in idx :
    /\ \A b \in idx : log[b].ts <= log[z].ts
    /\ log[z].ts - log[a].ts >= c.for
    /\ \A b \in idx : b = a \/ log[b].ts > log[a].ts =>
         IF c.stale THEN log[b].bad = log[z].bad ELSE log[b].bad

\* An alert is raised only for a condition that the samples of the policy's node and job
\* bear out, all of those stored or, of a custom metric, all still held: neither the end of
\* the window, nor the filter by job, nor late samples make one look sustained that was
\* not (policy_evaluator.py, _sustained_violation and _stale_for). What a sample of the
\* same time as the first, or an evicted one, says is not asked.
FiresSustained ==
  [][\A n \in todo : raised' # raised /\ n \notin todo' =>
       LET c == listed[current] IN
         Sustained(About(c, n, Len(log)) \cap Retained(c, n), c)]_vars

\* The samples from which a violation had lasted its duration when the pass began, and was
\* not broken during it.
Lasting(c, n) ==
  {a \in About(c, n, begin) :
     /\ \E z \in About(c, n, begin) : log[z].ts - log[a].ts >= c.for
     /\ \A b \in About(c, n, Len(log)) : log[b].ts >= log[a].ts => log[b].bad}

\* An alert of this pass, or of one within the cooldown before.
Told(p, n) ==
  \E k \in DOMAIN raised :
    /\ k[1] = p /\ k[2] = n
    /\ raised[k].at = passNow \/ passNow - raised[k].at < policies[p].config.cooldown

Untold(p, n) ==
  LET c == policies[p].config IN
    /\ c.enabled /\ ~c.stale
    /\ c.node = n \/ (c.node = None /\ n \in KnownNodes(SubSeq(log, 1, begin)))
    /\ ~Told(p, n)

\* "Window length: long enough to span for_seconds plus headroom"
\* (policy_evaluator.py:217): a violation that had been sustained when the pass began is
\* reported by its end, or was within the cooldown before.
SustainedReported ==
  Evaluated => \A p \in DOMAIN policies, n \in Nodes :
                 Untold(p, n) => Lasting(policies[p].config, n) = {}

\* The samples of the source and node since a are no more than one a second, with a minute
\* of headroom, fit the ring, and span the duration.
Spanned(c, n, a) ==
  LET since == {i \in Retained(c, n) : log[i].ts >= log[a].ts} IN
    /\ \E z \in since \cap About(c, n, begin) : log[z].ts - log[a].ts >= c.for
    /\ a \in since
    /\ Cardinality(since) <= c.for + Minute
    /\ c.source # "custom" => Cardinality(since) <= RingSize

\* What of SustainedReported the window keeps: a violation is reported if its samples come
\* at most once a second and no ring or buffer has lost them, whatever is stored meanwhile
\* (policy_evaluator.py:218; stores.py, which counts a minute as 60 samples).
SpannedReported ==
  Evaluated => \A p \in DOMAIN policies, n \in Nodes :
                 LET c == policies[p].config IN
                   Untold(p, n) => \A a \in Lasting(c, n) : ~Spanned(c, n, a)
=============================================================================
