------------------------------ MODULE MCWsHub -------------------------------
(* Small instances of WsHub for TLC. *)
EXTENDS WsHub

CONSTANTS a1, a2, n1, n2, c1, c2

MCNodeOf == [a \in Alerts |-> n1]
MCSeverityOf == [a \in Alerts |-> IF a = a1 THEN "CRITICAL" ELSE "WARNING"]
\* Of the filters, one lets the diagnosis of a1 through, but not the alert a1.
MCFilters == {[nodes |-> {n1}, severity |-> "WARNING"]}
=============================================================================
