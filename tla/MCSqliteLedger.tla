--------------------------- MODULE MCSqliteLedger ---------------------------
(* Properties of the durable ledger, and the instance TLC checks them on.   *)
EXTENDS SqliteLedger

Budget(l, w, p) == [limit |-> l, window |-> w, policy |-> p]
MCBudgets == {Budget(2, "daily", "block"), Budget(3, "monthly", "block"),
              Budget(2, "total", "warn")}

-----------------------------------------------------------------------------
(* Rows keep their type and an id that AUTOINCREMENT issued, whatever        *)
(* reserve, settle and the two reclaim statements do.                        *)
LedgerTypeOK ==
  /\ now \in 0..MaxNow
  /\ budgets \in [Scopes -> Budgets \cup {NoBudget}]
  /\ last_id \in 0..MaxRows
  /\ DOMAIN rows \subseteq 1..last_id
  /\ \A i \in DOMAIN rows : rows[i] \in Row
  /\ tracked \subseteq 1..last_id
  /\ dedup = << >>

(* A settled row is history: whatever reserve, settle, the reclaim sweep or  *)
(* a change of cap does later, it is neither deleted nor charged again.      *)
SettledForever ==
  [][\A i \in DOMAIN rows : rows[i].settled => i \in DOMAIN rows' /\ rows'[i] = rows[i]]_ledgerVars

\* By how much the calls settled in the current window exceeded their ceilings.
Overshoot(s) ==
  MapThenSumSet(LAMBDA i : IF rows[i].actual > rows[i].ceiling
                           THEN rows[i].actual - rows[i].ceiling ELSE 0,
                SpentRows(rows, s))
Exposure(s) == Spent(rows, s) + Reserved(rows, s) - Overshoot(s)

(* While the budget of a hard-capped scope stays as it is, spend plus held   *)
(* ceilings never grow past the cap except by what calls admitted earlier    *)
(* settled above their own ceiling: not by two reservations in any order,    *)
(* a window that rolls over under an in-flight lease, or a late settlement.  *)
CapHoldsUpToOvershoot ==
  [][\A s \in Scopes :
       (budgets'[s] = budgets[s] /\ budgets[s].limit # NoLimit
          /\ budgets[s].policy = "block")
       => Exposure(s)' <= budgets[s].limit \/ Exposure(s)' <= Exposure(s)]_ledgerVars

(* An expired lease whose scope goes quiet is given back by the timer sweep. *)
ExpiredLeaseReleased ==
  \A i \in 1..MaxRows :
    (i \in DOMAIN rows /\ ~rows[i].settled /\ rows[i].expires_at <= Secs(now))
      ~> (i \notin DOMAIN rows \/ rows[i].settled)

(* The durable rows implement the contract of the EnforcementLedger trait:   *)
(* a `Warn` cap is no cap, spend is the windowed sum, leases are the         *)
(* unsettled rows.                                                           *)
Contract == INSTANCE EnforcementContract WITH
  now <- Secs(now),
  limit <- [s \in Scopes |->
              IF budgets[s].policy = "block" THEN budgets[s].limit ELSE NoLimit],
  spent <- [s \in Scopes |-> Spent(rows, s)],
  leases <- [i \in {j \in DOMAIN rows : ~rows[j].settled} |->
               [scope |-> rows[i].scope, ceiling |-> rows[i].ceiling,
                expires_at |-> rows[i].expires_at]],
  next_id <- last_id + 1
ImplementsContract == Contract!Spec
=============================================================================
