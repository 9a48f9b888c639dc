---------------------------- MODULE MCBackend ------------------------------
(* Small instances of the job registry and the detectors for TLC. They share no *)
(* state, so a behaviour runs one of the modules and leaves the others. *)
EXTENDS JobRegistry, Detectors, Instability, Correlation, DiLoCo

CONSTANTS n1, n2, j1, j2, j3

VARIABLE focus

allVars == <<focus, jobVars, detVars, inVars, coVars, diVars>>

\* The owners declare the end of two of the jobs, and one takes it back.
MCPatches == {<<j1, "completed">>, <<j2, "failed">>, <<j1, "running">>}

MCZWindows == <<3, 4>>

\* What the test of each detector tells apart.
MCReadings ==
  [zscore     |-> [loss : {0, 1, 2}, tps : {1, 2}, ahead : {1}],
   plateau    |-> [loss : {0, 1}, tps : {0, 1}, ahead : {0, 1}],
   regression |-> [loss : {0}, tps : {0, 1, 2}, ahead : {0, 1}]]

\* Towards the last the two losses move apart; one sync is long, one is not reported.
MCDiReadings == {[inner |-> 2, outer |-> 0, sync |-> 1], [inner |-> 1, outer |-> 1, sync |-> 0],
                 [inner |-> 0, outer |-> 2, sync |-> 4]}

MCInit ==
  /\ focus \in {"jobs", "history", "instability", "correlation", "diloco"}
  /\ JobInit /\ DetInit /\ InInit /\ CoInit /\ DiInit
  /\ focus # "history" => kind = "zscore"

MCNext ==
  /\ UNCHANGED focus
  /\ \/ focus = "jobs" /\ JobNext /\ UNCHANGED <<detVars, inVars, coVars, diVars>>
     \/ focus = "history" /\ DetNext /\ UNCHANGED <<jobVars, inVars, coVars, diVars>>
     \/ focus = "instability" /\ InNext /\ UNCHANGED <<jobVars, detVars, coVars, diVars>>
     \/ focus = "correlation" /\ CoNext /\ UNCHANGED <<jobVars, detVars, inVars, diVars>>
     \/ focus = "diloco" /\ DiNext /\ UNCHANGED <<jobVars, detVars, inVars, coVars>>

MCSpec == MCInit /\ [][MCNext]_allVars

\* Every module keeps its types: no registry, ring, history or clock leaves its bounds.
TypesOK == JobTypeOK /\ DetTypeOK /\ InTypeOK /\ CoTypeOK /\ DiTypeOK
=============================================================================
