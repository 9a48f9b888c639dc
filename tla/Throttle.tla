------------------------------ MODULE Throttle ------------------------------
(***************************************************************************)
(* What a deduplicated detector promises: whatever it finds, and however   *)
(* often, each key is raised at most once per period. Detectors is shown   *)
(* to implement it.                                                        *)
(***************************************************************************)
EXTENDS Integers

CONSTANTS
  Keys,    \* what is raised
  Period   \* the least time between two raises of a key

VARIABLE quiet   \* per key, the time since it was last raised, Period if that long

\* Some keys are raised; each has been quiet for a period.
Raise(K) ==
  /\ \A k \in K : quiet[k] = Period
  /\ quiet' = [k \in Keys |-> IF k \in K THEN 0 ELSE quiet[k]]

Tick == quiet' = [k \in Keys |-> IF quiet[k] < Period THEN quiet[k] + 1 ELSE Period]

Init == quiet = [k \in Keys |-> Period]

Next == Tick \/ \E K \in SUBSET Keys : Raise(K)

Spec == Init /\ [][Next]_quiet
=============================================================================
