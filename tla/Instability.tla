---------------------------- MODULE Instability -----------------------------
(***************************************************************************)
(* The numeric instability detector: an alert when the latest training     *)
(* sample of a node has a non-finite field, deduplicated by node and step  *)
(* in a set that is bounded by dropping arbitrary elements of it.          *)
(*                                                                         *)
(* A pass runs on the event loop; samples arrive between its reads.        *)
(***************************************************************************)
EXTENDS Integers, FiniteSets

CONSTANTS
  InNodes,     \* node identifiers
  InSteps,     \* BOUND: training steps
  MaxEmitted   \* _MAX_EMITTED_STEPS

\* The bound is 4096: at one, half of it is nothing and the set would outgrow it.
ASSUME InstabilityAssumption == MaxEmitted \in Nat \ {0, 1} /\ InSteps # {}

VARIABLES
  head,     \* per node: the latest training sample
  itodo,    \* the nodes the pass has still to visit
  ipass,    \* whether a pass is running
  emitted,  \* _emitted_steps
  times,    \* history: how often each pair was alerted, up to 2
  evicted,  \* history: whether the set was ever full
  visited   \* history: the broken pairs this pass has come across

inVars == <<head, itodo, ipass, emitted, times, evicted, visited>>

Pairs == InNodes \X InSteps
NoSample == [step |-> CHOOSE s \in InSteps : TRUE, bad |-> FALSE]

InTypeOK ==
  /\ head \in [InNodes -> [step : InSteps, bad : BOOLEAN]]
  /\ itodo \subseteq InNodes /\ (~ipass => itodo = {})
  /\ {ipass, evicted} \subseteq BOOLEAN
  /\ emitted \subseteq Pairs /\ visited \subseteq Pairs
  /\ times \in [Pairs -> 0..2]

\* Steps repeat and, after a restart, start over.
IngestSample ==
  \E n \in InNodes, s \in InSteps, bad \in BOOLEAN :
    /\ head' = [head EXCEPT ![n] = [step |-> s, bad |-> bad]]
    /\ UNCHANGED <<itodo, ipass, emitted, times, evicted, visited>>

StartScan ==
  /\ ~ipass
  /\ ipass' = TRUE
  /\ itodo' = InNodes
  /\ visited' = {}
  /\ UNCHANGED <<head, emitted, times, evicted>>

Full(s) == Cardinality(s) > MaxEmitted

\* _evict_if_full: Set.pop takes an arbitrary element, the new one included.
EvictIfFull(s) ==
  IF Full(s)
    THEN {t \in SUBSET s : Cardinality(t) = Cardinality(s) - MaxEmitted \div 2}
    ELSE {s}

EmitPair(pair) ==
  /\ emitted' \in EvictIfFull(emitted \cup {pair})
  /\ times' = [times EXCEPT ![pair] = IF @ < 2 THEN @ + 1 ELSE 2]
  /\ evicted' = (evicted \/ Full(emitted \cup {pair}))

\* MUTANT: one alert per node and pass suffices.
NewOncePerNode(pair) == \A s \in InSteps : <<pair[1], s>> \notin emitted

New(pair) == pair \notin emitted

Scan ==
  /\ ipass
  /\ \E n \in itodo :
       LET pair == <<n, head[n].step>> IN
         /\ itodo' = itodo \ {n}
         /\ IF head[n].bad
              THEN /\ visited' = visited \cup {pair}
                   /\ IF New(pair) THEN EmitPair(pair) ELSE UNCHANGED <<emitted, times, evicted>>
              ELSE UNCHANGED <<visited, emitted, times, evicted>>
  /\ UNCHANGED <<head, ipass>>

EndScan ==
  /\ ipass /\ itodo = {}
  /\ ipass' = FALSE
  /\ UNCHANGED <<head, itodo, emitted, times, evicted, visited>>

InInit ==
  /\ head = [n \in InNodes |-> NoSample]
  /\ itodo = {} /\ ipass = FALSE
  /\ emitted = {} /\ visited = {}
  /\ times = [p \in Pairs |-> 0]
  /\ evicted = FALSE

InNext == IngestSample \/ StartScan \/ Scan \/ EndScan

InSpec == InInit /\ [][InNext]_inVars

-----------------------------------------------------------------------------
(* Properties. *)

\* "Each (node_id, step) pair is only emitted once" (numeric_instability.py:4) as long as
\* the set has never been full, and when it overflows or drops entries, still no broken
\* sample that a pass comes across goes without an alert for its step.
BrokenReportedOnce ==
  /\ \A p \in visited : times[p] > 0
  /\ Cardinality(emitted) <= MaxEmitted
  /\ ~evicted => \A p \in Pairs : times[p] <= 1
=============================================================================
