--------------------------- MODULE InMemoryLedger ---------------------------
(***************************************************************************)
(* The volatile reference ledger of sandhi-core: running totals `spent` and *)
(* `reserved` per scope beside the map of held leases.  `reserved` is kept  *)
(* incrementally in u64 arithmetic: additions wrap in a release build, the  *)
(* admission check and the release of a ceiling saturate.                   *)
(***************************************************************************)
EXTENDS Integers, FiniteSetsExt

CONSTANTS
  Scopes, NoLimit,
  U64Max,                   \* 2^64 - 1 in the code
  Ceilings, Actuals, Limits, Ttls,   \* arguments the callers pass
  MaxNow, MaxLeases         \* bounds of the instance

ASSUME U64MaxPositive == U64Max \in Nat \ {0}
ASSUME ArgumentsFitU64 ==
  /\ Ceilings \subseteq 0..U64Max /\ Actuals \subseteq 0..U64Max
  /\ Limits \subseteq 0..U64Max \cup {NoLimit} /\ NoLimit \notin Nat
  /\ Ttls \subseteq Nat \ {0} /\ MaxNow \in Nat /\ MaxLeases \in Nat

VARIABLES now, limits, spent, reserved, leases, next_id

vars == <<now, limits, spent, reserved, leases, next_id>>

Lease == [scope : Scopes, ceiling : 0..U64Max, expires_at : Nat]

SaturatingAdd(a, b) == IF a + b > U64Max THEN U64Max ELSE a + b
SwappedSub(a, b) == b - a
SaturatingSub(a, b) == IF a < b THEN 0 ELSE a - b
WrappingAdd(a, b) == (a + b) % (U64Max + 1)

Without(ids) == [i \in DOMAIN leases \ ids |-> leases[i]]
HeldBy(ids, s) ==
  MapThenSumSet(LAMBDA i : leases[i].ceiling, {i \in ids : leases[i].scope = s})

-----------------------------------------------------------------------------
Init ==
  /\ now = 0
  /\ limits = [s \in Scopes |-> NoLimit]
  /\ spent = [s \in Scopes |-> 0]
  /\ reserved = [s \in Scopes |-> 0]
  /\ leases = << >>
  /\ next_id = 0

SetLimit(s, l) ==
  /\ limits' = [limits EXCEPT ![s] = l]
  /\ UNCHANGED <<now, spent, reserved, leases, next_id>>

AdmitsIgnoringLeases(s, ceiling) ==
  limits[s] # NoLimit => SaturatingAdd(spent[s], ceiling) <= limits[s]
Admits(s, ceiling) ==
  limits[s] # NoLimit =>
    SaturatingAdd(SaturatingAdd(spent[s], reserved[s]), ceiling) <= limits[s]

Reserve(s, ceiling, ttl) ==
  /\ Admits(s, ceiling)
  /\ next_id < MaxLeases
  /\ leases' = [i \in DOMAIN leases \cup {next_id} |->
                  IF i = next_id
                  THEN [scope |-> s, ceiling |-> ceiling, expires_at |-> now + ttl]
                  ELSE leases[i]]
  /\ next_id' = next_id + 1
  /\ reserved' = [reserved EXCEPT ![s] = WrappingAdd(@, ceiling)]
  /\ UNCHANGED <<now, limits, spent>>

\* An unknown id (settled before, or reclaimed) changes nothing.
SettleKeepingHold(i, actual) ==
  /\ i \in DOMAIN leases
  /\ spent' = [spent EXCEPT ![leases[i].scope] = WrappingAdd(@, actual)]
  /\ leases' = Without({i})
  /\ UNCHANGED <<now, limits, reserved, next_id>>
Settle(i, actual) ==
  /\ i \in DOMAIN leases
  /\ LET l == leases[i] IN
     /\ reserved' = [reserved EXCEPT ![l.scope] = SaturatingSub(@, l.ceiling)]
     /\ spent' = [spent EXCEPT ![l.scope] = WrappingAdd(@, actual)]
  /\ leases' = Without({i})
  /\ UNCHANGED <<now, limits, next_id>>

Expired == {i \in DOMAIN leases : leases[i].expires_at <= now}

\* One saturating subtraction per expired lease.
ReclaimExpired ==
  /\ leases' = Without(Expired)
  /\ reserved' = [s \in Scopes |-> SaturatingSub(reserved[s], HeldBy(Expired, s))]
  /\ UNCHANGED <<now, limits, spent, next_id>>

Tick ==
  /\ now < MaxNow
  /\ now' = now + 1
  /\ UNCHANGED <<limits, spent, reserved, leases, next_id>>

Next ==
  \/ \E s \in Scopes : \/ \E l \in Limits : SetLimit(s, l)
                       \/ \E c \in Ceilings, t \in Ttls : Reserve(s, c, t)
  \/ \E i \in 0..MaxLeases, a \in Actuals : Settle(i, a)
  \/ ReclaimExpired
  \/ Tick

Spec == Init /\ [][Next]_vars

-----------------------------------------------------------------------------
(* The totals stay in the range of u64 whatever reserve, settle and reclaim  *)
(* do, and every lease has an id that was issued.                            *)
TypeOK ==
  /\ now \in 0..MaxNow
  /\ limits \in [Scopes -> 0..U64Max \cup {NoLimit}]
  /\ spent \in [Scopes -> 0..U64Max]
  /\ reserved \in [Scopes -> 0..U64Max]
  /\ DOMAIN leases \subseteq 0..(next_id - 1)
  /\ \A i \in DOMAIN leases : leases[i] \in Lease
  /\ next_id \in 0..MaxLeases

(* `reserved(scope)` is documented as "Tokens held by in-flight leases": the *)
(* running counter that reserve, settle and reclaim_expired keep by hand     *)
(* always equals the sum of the ceilings of the leases in the map.           *)
ReservedIsHeld == \A s \in Scopes : reserved[s] = HeldBy(DOMAIN leases, s)

(* The trait's contract, with the counters read as the code reports them:    *)
(* no admission over a cap, no second settlement of a lease, nothing reclaimed *)
(* before it expires.                                                        *)
Contract == INSTANCE EnforcementContract WITH limit <- limits
ImplementsContract == Contract!Spec
=============================================================================
