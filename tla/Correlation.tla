---------------------------- MODULE Correlation -----------------------------
(***************************************************************************)
(* The cross-node detector over the ring of alerts: stragglers, and nodes  *)
(* that fail together. Its own alerts, and those of the other detectors,   *)
(* go to the ring it reads.                                                *)
(*                                                                         *)
(* A pass runs on the event loop; the alerts of the agents arrive on gRPC  *)
(* threads, stamped by the clock of their node. A time is an age, up to    *)
(* the first that is outside the window of the correlation.                *)
(***************************************************************************)
EXTENDS Integers, Sequences, FiniteSets

CONSTANTS
  CoNodes,      \* node identifiers
  RingCap,      \* _MAX_ALERTS
  QueryCap,     \* the limit of 200 of _detect_correlated_failures
  Window,       \* correlation_window_ms
  CoMaxDelay,   \* BOUND: the age of an agent's alert on arrival
  MeanTps,      \* BOUND: mean throughputs of a node
  Straggling    \* straggler_ratio, in hundredths

\* The query asks for no more than the ring holds.
ASSUME CorrelationAssumption ==
  /\ IsFiniteSet(CoNodes)
  /\ {RingCap, QueryCap} \subseteq Nat \ {0} /\ QueryCap <= RingCap
  /\ {Window, CoMaxDelay, Straggling} \subseteq Nat
  /\ MeanTps \subseteq Nat

VARIABLES
  ring,        \* the alerts, newest first
  cpass,       \* "idle", or "correlate" between the two parts of a pass
  failing,     \* history: the nodes of the last correlated failure
  agentAge,    \* history: the age of the latest alert of each node's agent
  behind       \* history: the number of alerts stored since that one

coVars == <<ring, cpass, failing, agentAge, behind>>

Ages == 0..Window + 1
StoredAlert == [node : CoNodes, agent : BOOLEAN, age : Ages]
Cap(x, m) == IF x > m THEN m ELSE x

CoTypeOK ==
  /\ ring \in Seq(StoredAlert) /\ Len(ring) <= RingCap
  /\ cpass \in {"idle", "correlate"}
  /\ failing \subseteq CoNodes
  /\ agentAge \in [CoNodes -> Ages]
  /\ behind \in [CoNodes -> 0..RingCap]

\* MUTANT: the oldest alerts.
QueryOldest(limit) == SubSeq(ring, Len(ring) - Cap(limit, Len(ring)) + 1, Len(ring))

\* AlertStore.query without a filter: the newest alerts.
Query(limit) == SubSeq(ring, 1, Cap(limit, Len(ring)))

Latest == Query(QueryCap)

\* MUTANT: the deque has no maxlen.
TrimNot(all) == all

\* A full deque forgets its oldest alerts.
Trim(all) == SubSeq(all, 1, Cap(RingCap, Len(all)))

\* AlertStore.add, for the alerts of a set of nodes, in any order.
AddAll(nodes, agent, age) ==
  /\ \E order \in [1..Cardinality(nodes) -> nodes] :
       /\ {order[i] : i \in DOMAIN order} = nodes
       /\ LET new == [i \in DOMAIN order |-> [node |-> order[i], agent |-> agent, age |-> age]]
              all == new \o ring
          IN ring' = Trim(all)
  /\ LET n == Cardinality(nodes) IN
       behind' = [x \in CoNodes |-> IF agent /\ x \in nodes /\ age <= agentAge[x]
                                      THEN 0 ELSE Cap(behind[x] + n, RingCap)]
  /\ agentAge' = [x \in CoNodes |-> IF agent /\ x \in nodes THEN Cap(age, agentAge[x])
                                                            ELSE agentAge[x]]

-----------------------------------------------------------------------------

ReportAlert ==
  /\ \E n \in CoNodes, age \in 0..CoMaxDelay : AddAll({n}, TRUE, Cap(age, Window + 1))
  /\ UNCHANGED <<cpass, failing>>

\* Another detector of the event loop.
CentralAlert ==
  /\ cpass = "idle"
  /\ \E n \in CoNodes : AddAll({n}, FALSE, 0)
  /\ UNCHANGED <<cpass, failing>>

\* _detect_stragglers: the nodes below a part of the mean over the nodes with samples.
Stragglers(mean) ==
  LET withData == DOMAIN mean
      total[s \in SUBSET withData] ==
        IF s = {} THEN 0 ELSE LET n == CHOOSE x \in s : TRUE IN mean[n] + total[s \ {n}]
  IN IF Cardinality(withData) < 2 \/ total[withData] = 0 THEN {}
     ELSE {n \in withData :
             100 * mean[n] * Cardinality(withData) < Straggling * total[withData]}

\* The samples are left open: any means may be read. No cooldown holds stragglers back.
DetectStragglers ==
  /\ cpass = "idle"
  /\ \E data \in SUBSET CoNodes : \E mean \in [data -> MeanTps] :
       AddAll(Stragglers(mean), FALSE, 0)
  /\ cpass' = "correlate"
  /\ failing' = {}

Counts(a) == a.age <= Window /\ a.agent

\* _detect_correlated_failures
Correlate ==
  /\ cpass = "correlate"
  /\ LET nodes == {Latest[i].node : i \in {k \in DOMAIN Latest : Counts(Latest[k])}}
         found == IF Cardinality(nodes) >= 2 THEN nodes ELSE {}
     IN AddAll(found, FALSE, 0) /\ failing' = found
  /\ cpass' = "idle"

\* BOUND: a pass takes less than a unit of time.
CoTick ==
  /\ cpass = "idle"
  /\ ring' = [i \in DOMAIN ring |-> [ring[i] EXCEPT !.age = Cap(@ + 1, Window + 1)]]
  /\ agentAge' = [n \in CoNodes |-> Cap(agentAge[n] + 1, Window + 1)]
  /\ failing' = {}
  /\ UNCHANGED <<cpass, behind>>

CoInit ==
  /\ ring = <<>> /\ cpass = "idle" /\ failing = {}
  /\ agentAge = [n \in CoNodes |-> Window + 1]
  /\ behind = [n \in CoNodes |-> RingCap]

CoNext == ReportAlert \/ CentralAlert \/ DetectStragglers \/ Correlate \/ CoTick

CoSpec == CoInit /\ [][CoNext]_coVars

-----------------------------------------------------------------------------
(* Properties. *)

\* A correlated failure is about two nodes or more, each reported by its own agent within
\* the window: what the detectors store keeps no correlation alive. And none is overlooked:
\* the nodes whose agents reported within the window, and behind whose alerts fewer than
\* the limit of the query were stored, are all named (cross_node.py, "2+ nodes with alerts
\* within 30 seconds").
Recent == {n \in CoNodes : agentAge[n] <= Window /\ behind[n] < QueryCap}

CorrelationExact ==
  [][cpass = "correlate" /\ cpass' = "idle" =>
       /\ Cardinality(failing') # 1
       /\ \A n \in failing' : agentAge[n] <= Window
       /\ Cardinality(Recent) >= 2 => Recent \subseteq failing']_coVars
=============================================================================
