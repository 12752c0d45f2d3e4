--------------------------- MODULE MCRequestPath ---------------------------
(* Instances of the default request path for TLC.                           *)
EXTENDS RequestPath

CONSTANTS r1, r2, s1, k1

MCBudgets == {[limit |-> 3, window |-> "total", policy |-> p] : p \in {"block", "warn"}}
MCScopeOf == [r \in Requests |-> s1]
MCCeilingOf == [r \in Requests |-> 2]
MCKeyOf == [r \in Requests |-> k1]
=============================================================================
