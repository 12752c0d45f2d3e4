-------------------------- MODULE MCInMemoryLedger --------------------------
(* The in-memory ledger with a cap the operator set before traffic began.   *)
EXTENDS InMemoryLedger

CappedInit == /\ now = 0 /\ leases = << >> /\ next_id = 0
              /\ spent = [s \in Scopes |-> 0] /\ reserved = [s \in Scopes |-> 0]
              /\ limits \in [Scopes -> Limits]

CappedNext ==
  \/ \E s \in Scopes, c \in Ceilings, t \in Ttls : Reserve(s, c, t)
  \/ \E i \in 0..MaxLeases, a \in Actuals : Settle(i, a)
  \/ ReclaimExpired
  \/ Tick

CappedSpec == CappedInit /\ [][CappedNext]_vars

(* The trait's comment on settle: "spend may land above the cap by at most   *)
(* one call's overshoot".  The largest overshoot of one call is the largest  *)
(* actual over the smallest ceiling.                                         *)
OneCallOvershoot ==
  \A s \in Scopes : limits[s] # NoLimit =>
    spent[s] <= limits[s] + Max(Actuals) - Min(Ceilings)
=============================================================================
