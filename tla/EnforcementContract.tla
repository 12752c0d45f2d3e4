------------------------- MODULE EnforcementContract -------------------------
(***************************************************************************)
(* What a backend promises through the `EnforcementLedger` trait of         *)
(* sandhi-core (ADR-0005): a ceiling is held before a call is dispatched,   *)
(* a lease is settled at most once, and an expired lease gives its ceiling  *)
(* back without recording spend.  Both backends, `InMemoryLedger` and       *)
(* `SqliteLedger`, are shown to implement this module.                      *)
(***************************************************************************)
EXTENDS Integers, FiniteSetsExt

CONSTANTS Scopes, NoLimit

VARIABLES
  now,      \* unix seconds, read by the caller of every operation
  limit,    \* hard cap of a scope, NoLimit when there is none
  spent,    \* settled billable tokens of a scope in its current window
  leases,   \* reservation id -> [scope, ceiling, expires_at]
  next_id   \* every id below it has been issued

vars == <<now, limit, spent, leases, next_id>>

Lease == [scope : Scopes, ceiling : Nat, expires_at : Nat]

\* Tokens held by the in-flight leases L of scope s.
Held(L, s) ==
  MapThenSumSet(LAMBDA i : L[i].ceiling, {i \in DOMAIN L : L[i].scope = s})

Drop(L, ids) == [i \in DOMAIN L \ ids |-> L[i]]

ExpiredLeases == {i \in DOMAIN leases : leases[i].expires_at <= now}

\* The check of `reserve`: a scope with no cap always admits.
Fits(L, s, ceiling) ==
  limit[s] # NoLimit => spent[s] + Held(L, s) + ceiling <= limit[s]

-----------------------------------------------------------------------------
Init ==
  /\ now \in Nat
  /\ limit = [s \in Scopes |-> NoLimit]
  /\ spent = [s \in Scopes |-> 0]
  /\ leases = << >>
  /\ next_id \in Nat

\* The cap may come with another window, so settled spend is measured anew.
SetLimit(s) ==
  /\ limit' \in [Scopes -> Nat \cup {NoLimit}]
  /\ spent' \in [Scopes -> Nat]
  /\ \A t \in Scopes \ {s} : limit'[t] = limit[t] /\ spent'[t] = spent[t]
  /\ UNCHANGED <<now, leases, next_id>>

\* A backend may drop expired leases of the scope before it measures.  The
\* admitted lease expires in the future.
Reserve(s) ==
  \E gone \in SUBSET {i \in ExpiredLeases : leases[i].scope = s} :
    /\ DOMAIN leases' = (DOMAIN leases \ gone) \cup {next_id}
    /\ \A i \in DOMAIN leases \ gone : leases'[i] = leases[i]
    /\ leases'[next_id].scope = s
    /\ leases'[next_id].expires_at > now
    /\ Fits(Drop(leases, gone), s, leases'[next_id].ceiling)
    /\ next_id' = next_id + 1
    /\ UNCHANGED <<now, limit, spent>>

\* Only a held lease can be settled; `actual` may exceed its ceiling.
Settle(i) ==
  /\ leases' = Drop(leases, {i})
  /\ spent'[leases[i].scope] >= spent[leases[i].scope]
  /\ spent' = [spent EXCEPT ![leases[i].scope] = spent'[leases[i].scope]]
  /\ UNCHANGED <<now, limit, next_id>>

ReclaimExpired ==
  /\ leases' = Drop(leases, ExpiredLeases)
  /\ UNCHANGED <<now, limit, spent, next_id>>

\* The clock moves; a window that rolls over forgets settled spend.
Advance ==
  /\ now' \in Nat /\ now' > now
  /\ spent' \in [Scopes -> Nat]
  /\ \A s \in Scopes : spent'[s] <= spent[s]
  /\ UNCHANGED <<limit, leases, next_id>>

Next ==
  \/ \E s \in Scopes : SetLimit(s) \/ Reserve(s)
  \/ \E i \in DOMAIN leases : Settle(i)
  \/ ReclaimExpired
  \/ Advance

Spec == Init /\ [][Next]_vars
=============================================================================
