-------------------------- MODULE MCEvidenceLedger --------------------------
(* Instances of the tracked-execution ledger for TLC.                       *)
EXTENDS EvidenceLedger

MCBudgets == {[limit |-> 2, window |-> "total", policy |-> "block"]}
U(c, b, n) == [completeness |-> c, basis |-> b, tokens |-> n]
MCUsages == {U("final", "provider_reported", 2), U("partial", "provider_reported", 1),
             U("unavailable", "estimated", 0)}
=============================================================================
