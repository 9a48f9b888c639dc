------------------------------- MODULE DiLoCo -------------------------------
(***************************************************************************)
(* The DiLoCo detector: checks of a worker's outer steps, made when a pass *)
(* sees its outer step increase, and a comparison of the pseudo-gradients  *)
(* of all workers at the end of each pass.                                 *)
(*                                                                         *)
(* A pass runs on the event loop, but reads the history of a worker anew   *)
(* for each check: samples arrive in between. Its outer step is what the   *)
(* training says: lost batches skip steps, and a restart goes back.        *)
(***************************************************************************)
EXTENDS Integers, Sequences, FiniteSets, Ranking

CONSTANTS
  Workers,      \* node identifiers
  Reporting,    \* BOUND: the workers whose histories are followed
  DiReadings,     \* BOUND: what a sample may say: inner, outer loss and sync duration
  MaxOuter,     \* BOUND: outer steps
  DiBuffer,     \* the samples of 30 minutes
  Divergence,   \* diloco_divergence_outer_steps
  MinSyncs,     \* the 5 durations that the spike check asks for
  SpikeFactor,  \* diloco_sync_spike_factor
  Norms,        \* BOUND: mean pseudo-gradient norms
  DiThreshold   \* diloco_zscore_threshold

ASSUME DiLoCoAssumption ==
  /\ IsFiniteSet(Workers) /\ Reporting \subseteq Workers /\ Reporting # {}
  /\ \A r \in DiReadings : DOMAIN r = {"inner", "outer", "sync"} /\ r.sync \in Nat
  /\ {MaxOuter, SpikeFactor, DiThreshold} \subseteq Nat
  /\ {DiBuffer, Divergence, MinSyncs} \subseteq Nat \ {0}
  /\ Norms \subseteq Nat \ {0}

VARIABLES
  diloco,     \* diloco_metrics of each reporting worker, oldest first
  lastOuter,  \* _last_outer_step, -1 for none
  todo,       \* the workers the pass has still to visit
  doing,      \* "idle", "outer", or the check to make of the worker: "divergence", "sync"
  worker,     \* that worker
  deviant,    \* history: the pseudo-gradient alerts of the last pass
  outlying,   \* history: the workers whose norms, as that pass read them, were far from all others
  spoke,      \* history: by kind of check, the increment that last raised an alert since
              \* a restart was seen, or -1
  again       \* history: an increment raised two alerts of a kind

diVars == <<diloco, lastOuter, todo, doing, worker, deviant, outlying, spoke, again>>

DiSample == [step : 0..MaxOuter, val : DiReadings]
Checks == {"divergence", "sync"}
AnyWorker == CHOOSE n \in Reporting : TRUE

DiTypeOK ==
  /\ diloco \in [Reporting -> Seq(DiSample)]
  /\ \A n \in Reporting : Len(diloco[n]) <= DiBuffer
  /\ lastOuter \in [Reporting -> -1..MaxOuter]
  /\ todo \subseteq Reporting /\ worker \in Reporting
  /\ doing \in {"idle", "outer"} \cup Checks
  /\ deviant \subseteq Workers /\ outlying \subseteq Workers
  /\ spoke \in [Checks -> [Reporting -> -1..MaxOuter]]

-----------------------------------------------------------------------------
(* Samples. *)

IngestDiLoCo ==
  \E n \in Reporting, v \in DiReadings, s \in 0..MaxOuter :
    LET all == Append(diloco[n], [step |-> s, val |-> v])
    IN /\ diloco' = [diloco EXCEPT ![n] = IF Len(all) > DiBuffer THEN Tail(all) ELSE all]
       /\ UNCHANGED <<lastOuter, todo, doing, worker, deviant, outlying, spoke, again>>

-----------------------------------------------------------------------------
(* The checks. *)

\* MUTANT: the first sample of each step.
ByStepFirst(h, s) == h[CHOOSE i \in DOMAIN h : /\ h[i].step = s
                                               /\ \A k \in 1..(i - 1) : h[k].step # s]

\* by_step: the latest sample of each step.
ByStep(h, s) == h[CHOOSE i \in DOMAIN h : /\ h[i].step = s
                                          /\ \A k \in (i + 1)..Len(h) : h[k].step # s]

\* The last steps in the order of their numbers, of old runs too.
RecentSteps(h) ==
  LET steps == {h[i].step : i \in DOMAIN h}
      Rank(s) == Cardinality({t \in steps : t >= s})
  IN Ascending({s \in steps : Rank(s) <= Divergence + 1})

Diverges(a, b) == b.val.inner < a.val.inner /\ b.val.outer > a.val.outer

Divergent(h) ==
  LET recent == RecentSteps(h) IN
    /\ Len(recent) = Divergence + 1
    /\ \A i \in 1..Divergence : Diverges(ByStep(h, recent[i]), ByStep(h, recent[i + 1]))

SumTo(f, k) == LET sum[i \in 0..k] == IF i = 0 THEN 0 ELSE sum[i - 1] + f[i] IN sum[k]

\* The latest duration against the mean of those before it.
Spikes(h) ==
  LET Synced(m) == m.val.sync > 0
      synced == SelectSeq(h, Synced)
      d == [i \in DOMAIN synced |-> synced[i].val.sync]
      n == Len(d)
  IN n >= MinSyncs /\ (n - 1) * d[n] > SpikeFactor * SumTo(d, n - 1)

Fails(check, h) ==
  \/ check = "divergence" /\ Divergent(h)
  \/ check = "sync" /\ Spikes(h)

SumOver(S, f) ==
  LET sum[s \in SUBSET S] ==
        IF s = {} THEN 0 ELSE LET n == CHOOSE x \in s : TRUE IN f[n] + sum[s \ {n}]
  IN sum[S]

\* How far a norm is from the mean of some norms, and how they spread: the square of the
\* distance and of the deviation, both times the square of their number.
Distance(v, norm) ==
  LET d == Cardinality(DOMAIN norm) * v - SumOver(DOMAIN norm, norm) IN d * d
Spread(norm) ==
  LET S == DOMAIN norm
      sum == SumOver(S, norm)
  IN Cardinality(S) * SumOver(S, [x \in S |-> norm[x] * norm[x]]) - sum * sum

\* |z| of a worker's norm against all workers, itself included, exceeds the threshold, or
\* is equal to it: in floating point the comparison may then go either way.
Deviates(n, norm) ==
  /\ Spread(norm) > 0
  /\ Distance(norm[n], norm) > DiThreshold * DiThreshold * Spread(norm)
AtThreshold(n, norm) ==
  /\ Spread(norm) > 0
  /\ Distance(norm[n], norm) = DiThreshold * DiThreshold * Spread(norm)

\* _detect_pseudo_grad_divergence: the sets of workers it may raise alerts for.
Deviants(norm) ==
  IF Cardinality(DOMAIN norm) < 2 THEN {{}}
  ELSE {{n \in DOMAIN norm : Deviates(n, norm)} \cup rounded :
          rounded \in SUBSET {n \in DOMAIN norm : AtThreshold(n, norm)}}

\* A worker is more than the threshold away from the others, which differ less.
Outlies(n, norm) ==
  LET others == [x \in DOMAIN norm \ {n} |-> norm[x]] IN
    /\ Spread(others) > 0
    /\ Distance(norm[n], others) > DiThreshold * DiThreshold * Spread(others)

-----------------------------------------------------------------------------
(* run_diloco_detection. *)

StartDiLoCo ==
  /\ doing = "idle"
  /\ doing' = "outer" /\ todo' = Reporting
  /\ deviant' = {} /\ outlying' = {}
  /\ UNCHANGED <<diloco, lastOuter, worker, spoke, again>>

\* MUTANT: the step is compared as if each pass were an increment.
NotBehind(n, current) == current >= lastOuter[n]

Increment(n, current) == current > lastOuter[n]

\* A smaller step is taken for a restart: it is only recorded.
SeeRestart(n, current) ==
  /\ lastOuter' = [lastOuter EXCEPT ![n] = current]
  /\ spoke' = [c \in Checks |-> [spoke[c] EXCEPT ![n] = -1]]
  /\ UNCHANGED <<doing, worker>>

SeeIncrement(n, current) ==
  /\ lastOuter' = [lastOuter EXCEPT ![n] = current]
  /\ doing' = "divergence" /\ worker' = n
  /\ UNCHANGED spoke

ReadOuter ==
  /\ doing = "outer"
  /\ \E n \in todo :
       LET h == diloco[n]
           current == IF h = <<>> THEN lastOuter[n] ELSE h[Len(h)].step
       IN /\ todo' = todo \ {n}
          /\ \/ current < lastOuter[n] /\ SeeRestart(n, current)
             \/ Increment(n, current) /\ SeeIncrement(n, current)
             \/ /\ current >= lastOuter[n] /\ ~Increment(n, current)
                /\ UNCHANGED <<lastOuter, doing, worker, spoke>>
  /\ UNCHANGED <<diloco, deviant, outlying, again>>

\* One of the two checks, on the history as it now is.
CheckWorker(check) ==
  /\ doing = check
  /\ doing' = IF check = "divergence" THEN "sync" ELSE "outer"
  /\ IF Fails(check, diloco[worker])
       THEN /\ spoke' = [spoke EXCEPT ![check][worker] = lastOuter[worker]]
            /\ again' = (again \/ spoke[check][worker] >= lastOuter[worker])
       ELSE UNCHANGED <<spoke, again>>
  /\ UNCHANGED <<diloco, lastOuter, todo, worker, deviant, outlying>>

\* The means of the norms are left open: any may be read.
ComparePseudoGradients ==
  /\ doing = "outer" /\ todo = {}
  /\ \E known \in SUBSET Workers : \E norm \in [known -> Norms] :
       /\ deviant' \in Deviants(norm)
       /\ outlying' = {n \in known : Outlies(n, norm)}
  /\ doing' = "idle"
  /\ UNCHANGED <<diloco, lastOuter, todo, worker, spoke, again>>

DiInit ==
  /\ diloco = [n \in Reporting |-> <<>>]
  /\ lastOuter = [n \in Reporting |-> -1]
  /\ todo = {} /\ doing = "idle" /\ worker = AnyWorker
  /\ deviant = {} /\ outlying = {}
  /\ spoke = [c \in Checks |-> [n \in Reporting |-> -1]]
  /\ again = FALSE

DiNext ==
  \/ IngestDiLoCo
  \/ StartDiLoCo \/ ReadOuter \/ (\E c \in Checks : CheckWorker(c)) \/ ComparePseudoGradients

DiSpec == DiInit /\ [][DiNext]_diVars

-----------------------------------------------------------------------------
(* Properties. *)

\* One increment of a worker's outer step raises at most one alert of each kind, however
\* often its samples repeat the step and although each check reads the history anew
\* (diloco.py:8, "Runs every time an outer_step increment is detected").
AlertedOnce == ~again

\* On a history without a restart the check raises an alert exactly when, between the
\* final samples of the last consecutive steps, the inner loss has fallen and the outer
\* loss has risen each time (diloco.py, _detect_inner_outer_divergence): samples that
\* repeat a step, and those that arrive during the pass, do not deceive it.
OneRun(h) == \A i \in 1..(Len(h) - 1) : h[i].step <= h[i + 1].step
IsFinal(h, i) == i = Len(h) \/ h[i + 1].step # h[i].step
Follows(h, i, j) == i < j /\ IsFinal(h, j) /\ \A k \in (i + 1)..(j - 1) : ~IsFinal(h, k)

TailDiverges(h) ==
  \E tail \in SUBSET {i \in DOMAIN h : IsFinal(h, i)} :
    /\ Cardinality(tail) = Divergence + 1 /\ Len(h) \in tail
    /\ \A i \in tail \ {Len(h)} :
         \E j \in tail : Follows(h, i, j) /\ Diverges(h[i], h[j])

DivergenceGenuine ==
  [][LET h == diloco[worker] IN
       doing = "divergence" /\ doing' = "sync" /\ OneRun(h) =>
         (spoke'["divergence"][worker] = lastOuter[worker] <=> TailDiverges(h))]_diVars

\* When a pass ends, a worker whose norm is far from those of all others has been reported
\* (diloco.py:5, "Pseudo-gradient norm drift across workers", and the guard that asks for
\* two workers).
DeviantsReported == doing = "idle" => outlying \subseteq deviant
=============================================================================
