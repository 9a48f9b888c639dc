-------------------------- MODULE MCStallDetection --------------------------
(* Small instances of StallDetection for TLC. *)
EXTENDS StallDetection

CONSTANTS n1, j1, j2

\* The owner of job j1 declares it completed; j2 only competes for the registry.
MCPatches == {<<j1, "completed">>}
=============================================================================
