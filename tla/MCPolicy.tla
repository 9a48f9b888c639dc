------------------------------ MODULE MCPolicy ------------------------------
(* Small instances of Policy for TLC. *)
EXTENDS Policy

CONSTANTS p1, n1, n2, j1, j2

Body(source, stale, node, job, for, cooldown) ==
  [enabled |-> TRUE, source |-> source, stale |-> stale, node |-> node, job |-> job,
   for |-> for, cooldown |-> cooldown]

MCConfigs == {Body("training", FALSE, None, j1, 1, 2), Body("custom", FALSE, n1, None, 1, 1),
              Body("gpu", FALSE, None, None, 0, 1)}
MCPatches == {[cooldown |-> 1], [job |-> None, stale |-> TRUE]}

\* A violation that must hold for as long as the ring reaches back.
MCLongConfigs == {Body("training", FALSE, n1, None, 3, 0)}
=============================================================================
