---------------------------- MODULE MCDiagnosis ----------------------------
(* Small instances of Diagnosis for TLC. *)
EXTENDS Diagnosis, TLC

CONSTANTS a1, a2, a3, a4, n1, n2, f1, f2, f3, r1

\* Alerts a1, a2 and a3 share a node, a1 and a3 also a fingerprint.
AllNodeOf        == (a1 :> n1) @@ (a2 :> n1) @@ (a3 :> n1) @@ (a4 :> n2)
AllFingerprintOf == (a1 :> f1) @@ (a2 :> f2) @@ (a3 :> f1) @@ (a4 :> f3)

MCNodeOf        == [a \in Alerts |-> AllNodeOf[a]]
MCFingerprintOf == [a \in Alerts |-> AllFingerprintOf[a]]
MCFallbackConf  == [a \in FallbackAlerts |-> "high"]
=============================================================================
