---------------------------- MODULE SqliteLedger ----------------------------
(***************************************************************************)
(* The durable enforcement ledger of sandhi-store: caps, reservations and   *)
(* idempotency rows in one SQLite file.  Every public operation is one      *)
(* IMMEDIATE transaction (or one autocommitted statement), so an action     *)
(* here is one operation.  `spent` and `reserved` are not stored: they are  *)
(* sums over the reservation rows, taken when an admission is decided.      *)
(*                                                                         *)
(* A refused or failed operation rolls back and changes nothing; modules    *)
(* whose callers react to the refusal model it there.                       *)
(***************************************************************************)
EXTENDS Integers, FiniteSetsExt

CONSTANTS
  Scopes, NoLimit,
  SecondTicks,         \* clock ticks in one second; timestamps are stored in seconds
  DayTicks, MonthTicks, \* calendar windows, aligned
  Ttl,                 \* RESERVATION_TTL_SECS, in ticks
  I64Max,              \* 2^63 - 1 in the code: SQLite INTEGER is signed
  Ceilings, Actuals, Budgets, \* arguments the callers pass
  MaxNow, MaxRows      \* bounds of the instance

ASSUME ClockAssumption ==
  /\ SecondTicks \in Nat \ {0} /\ Ttl \in Nat \ {0} /\ MaxNow \in Nat
  /\ DayTicks \in Nat \ {0} /\ MonthTicks \in Nat \ {0}
  /\ SecondTicks <= Ttl
ASSUME ArgumentAssumption ==
  /\ I64Max \in Nat /\ MaxRows \in Nat /\ NoLimit \notin Nat
  /\ Ceilings \subseteq 0..I64Max /\ Actuals \subseteq Nat
  /\ Budgets \subseteq [limit : 0..I64Max \cup {NoLimit},
                        window : {"total", "daily", "monthly"},
                        policy : {"block", "warn"}]

VARIABLES
  now,       \* the wall clock, in ticks
  budgets,   \* budget_limit: scope -> [limit, window, policy]
  rows,      \* budget_reservation: id -> row
  last_id,   \* AUTOINCREMENT: the last id issued, never reused
  tracked,   \* reservation ids named by a budget_execution_intent row
  dedup      \* idempotency_dedup: key -> [reservation, actual, expires_at]

ledgerVars == <<now, budgets, rows, last_id, tracked, dedup>>

Secs(t) == t \div SecondTicks

Row == [scope : Scopes, ceiling : 0..I64Max, actual : Int, settled : BOOLEAN,
        settled_at : Nat, expires_at : Nat]

\* `actual as i64`: the two's-complement reinterpretation of a u64.
AsI64(a) == IF a <= I64Max THEN a ELSE a - 2 * (I64Max + 1)

WindowStart(window) ==
  CASE window = "total" -> 0
    [] window = "daily" -> Secs((now \div DayTicks) * DayTicks)
    [] window = "monthly" -> Secs((now \div MonthTicks) * MonthTicks)

\* SUM(actual) over the scope's settled rows of its current window.
SpentRows(R, s) ==
  {i \in DOMAIN R : /\ R[i].scope = s /\ R[i].settled
                    /\ R[i].settled_at >= WindowStart(budgets[s].window)}
Spent(R, s) == MapThenSumSet(LAMBDA i : R[i].actual, SpentRows(R, s))

\* SUM(ceiling) over the scope's unsettled rows, expired ones included.
Reserved(R, s) ==
  MapThenSumSet(LAMBDA i : R[i].ceiling, {i \in DOMAIN R : R[i].scope = s /\ ~R[i].settled})

-----------------------------------------------------------------------------
Without(R, ids) == [i \in DOMAIN R \ ids |-> R[i]]

\* The rows both reclaim statements delete: unsettled, expired, not tracked.
ReapableUnexpired(R) == {i \in DOMAIN R : ~R[i].settled /\ i \notin tracked}
ReapableStrict(R) ==
  {i \in DOMAIN R : ~R[i].settled /\ R[i].expires_at < Secs(now) /\ i \notin tracked}
Reapable(R) ==
  {i \in DOMAIN R : ~R[i].settled /\ R[i].expires_at <= Secs(now) /\ i \notin tracked}

\* What the transaction sees after the scope's opportunistic reclaim.
AfterReclaim(s) == Without(rows, {i \in Reapable(rows) : rows[i].scope = s})

\* Only a `Block` cap can refuse; `Warn` and an absent limit admit.
AdmitsOnSpendAlone(R, s, ceiling) ==
  (budgets[s].limit # NoLimit /\ budgets[s].policy = "block") =>
    Spent(R, s) + ceiling <= budgets[s].limit
Admits(R, s, ceiling) ==
  (budgets[s].limit # NoLimit /\ budgets[s].policy = "block") =>
    Spent(R, s) + Reserved(R, s) + ceiling <= budgets[s].limit

NewRow(s, ceiling) ==
  [scope |-> s, ceiling |-> ceiling, actual |-> 0, settled |-> FALSE,
   settled_at |-> 0, expires_at |-> Secs(now + Ttl)]

\* reserve_in_transaction: reclaim, measure, insert.  A denial rolls the
\* reclaim back with the rest.
ReserveReusingId(s, ceiling) ==
  /\ Admits(AfterReclaim(s), s, ceiling) /\ last_id < MaxRows
  /\ rows' = [i \in DOMAIN AfterReclaim(s) \cup {last_id + 1} |->
                IF i = last_id + 1 THEN NewRow(s, ceiling) ELSE rows[i]]
  /\ UNCHANGED last_id
ReserveInTransaction(s, ceiling) ==
  /\ Admits(AfterReclaim(s), s, ceiling)
  /\ last_id < MaxRows
  /\ last_id' = last_id + 1
  /\ rows' = [i \in DOMAIN AfterReclaim(s) \cup {last_id + 1} |->
                IF i = last_id + 1 THEN NewRow(s, ceiling) ELSE rows[i]]

Reserve(s, ceiling) ==
  /\ ReserveInTransaction(s, ceiling)
  /\ UNCHANGED <<now, budgets, tracked, dedup>>

SettledRow(r, charge) ==
  [r EXCEPT !.actual = charge, !.settled = TRUE, !.settled_at = Secs(now)]

\* UPDATE ... WHERE id = ? AND settled = 0, refused for a tracked row.
SettleRowAgain(i, actual) ==
  /\ i \in DOMAIN rows /\ i \notin tracked
  /\ rows' = [rows EXCEPT ![i] = SettledRow(@, AsI64(actual))]
SettleRow(i, actual) ==
  /\ i \in DOMAIN rows /\ i \notin tracked
  /\ ~rows[i].settled
  /\ rows' = [rows EXCEPT ![i] = SettledRow(@, AsI64(actual))]

Settle(i, actual) ==
  /\ SettleRow(i, actual)
  /\ UNCHANGED <<now, budgets, last_id, tracked, dedup>>

\* Two autocommitted deletes: the second may fail after the first committed.
ReclaimExpired ==
  /\ rows' = Without(rows, Reapable(rows))
  /\ \E stale \in {{}, {k \in DOMAIN dedup : dedup[k].expires_at <= Secs(now)}} :
       dedup' = Without(dedup, stale)
  /\ UNCHANGED <<now, budgets, last_id, tracked>>

SetLimit(s, b) ==
  /\ budgets' = [budgets EXCEPT ![s] = b]
  /\ UNCHANGED <<now, rows, last_id, tracked, dedup>>

Tick ==
  /\ now < MaxNow
  /\ now' = now + 1
  /\ UNCHANGED <<budgets, rows, last_id, tracked, dedup>>

\* seen_durable and record_durable, called by the request path under the
\* ledger lock.  A row past its window counts as unseen.
Seen(k) == k \in DOMAIN dedup /\ dedup[k].expires_at > Secs(now)
Recorded(k, reservation, actual) ==
  [j \in DOMAIN dedup \cup {k} |->
     IF j = k THEN [reservation |-> reservation, actual |-> AsI64(actual),
                    expires_at |-> Secs(now + Ttl)]
     ELSE dedup[j]]

-----------------------------------------------------------------------------
NoBudget == [limit |-> NoLimit, window |-> "total", policy |-> "block"]

LedgerInit ==
  /\ now = 0
  /\ budgets = [s \in Scopes |-> NoBudget]
  /\ rows = << >>
  /\ last_id = 0
  /\ tracked = {}
  /\ dedup = << >>

LedgerNext ==
  \/ \E s \in Scopes : \/ \E b \in Budgets : SetLimit(s, b)
                       \/ \E c \in Ceilings : Reserve(s, c)
  \/ \E i \in 1..MaxRows, a \in Actuals : Settle(i, a)
  \/ ReclaimExpired
  \/ Tick

\* The binary runs the reclaim sweep on a 60 second timer.
LedgerSpec == LedgerInit /\ [][LedgerNext]_ledgerVars /\ WF_ledgerVars(ReclaimExpired)
=============================================================================
