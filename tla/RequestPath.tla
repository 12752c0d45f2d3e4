---------------------------- MODULE RequestPath ----------------------------
(***************************************************************************)
(* The default request path of sandhi-proxy over the durable ledger: a      *)
(* request reserves on a blocking worker, is authorized against the         *)
(* shutdown cutoff, calls its upstream, and settles in a finalizer that     *)
(* also runs when its HTTP future or streaming body is dropped.             *)
(*                                                                         *)
(* One action is one critical section: the worker's and the finalizer's     *)
(* ledger lock, the lifecycle lock, the sink.  The caller may vanish at     *)
(* every await, any SQLite call may fail, and the process may crash between *)
(* any two steps, which keeps the ledger file and loses everything else.    *)
(***************************************************************************)
EXTENDS SqliteLedger, Lifecycle, FiniteSets

CONSTANTS
  Requests,
  ScopeOf, CeilingOf,  \* per request: budget scope and reservation ceiling
  KeyOf, NoKey,        \* (virtual key, idempotency-key), or NoKey
  Bounded,             \* the requests with a buffered deadline
  Deadline, Headroom,  \* that deadline, and SETTLEMENT_HEADROOM_MS, in ticks
  Tokens,              \* billable amounts an upstream may report
  MaxCrashes           \* bound of the instance

ASSUME RequestAssumption ==
  /\ ScopeOf \in [Requests -> Scopes] /\ CeilingOf \in [Requests -> Ceilings]
  /\ DOMAIN KeyOf = Requests /\ Bounded \subseteq Requests
  /\ Deadline \in Nat \ {0} /\ Headroom \in Nat \ {0}
  /\ Tokens \subseteq Nat /\ MaxCrashes \in Nat

VARIABLES
  req,       \* request -> [pc, admission, lease, expires, started, usage]
  emitted,   \* requests whose usage event reached the sink
  counted,   \* history: dedup windows opened by a finalizer, [key, at, until]
  stranded,  \* history: leases whose owner crashed or whose settle failed
  crashes

requestVars == <<req, emitted, counted, stranded, crashes>>
vars == <<ledgerVars, lifecycleVars, requestVars>>

NoLease == 0
Unmeasured == -1
Fresh == [pc |-> "new", admission |-> "none", lease |-> NoLease,
          expires |-> 0, started |-> 0, usage |-> Unmeasured]

Step(r, pc) == req' = [req EXCEPT ![r].pc = pc]

-----------------------------------------------------------------------------
\* handle..., reserve_budget: the guard moves into the blocking worker.
Arrive(r) ==
  /\ req[r].pc = "new"
  /\ TryOperation
  /\ Step(r, "reserving")
  /\ UNCHANGED <<ledgerVars, emitted, counted, stranded, crashes>>

\* The worker's result goes to the caller, or is dropped if there is none.
Deliver(r, admission, lease) ==
  req' = [req EXCEPT ![r] = [@ EXCEPT !.pc = IF @ = "reserving" THEN "pending" ELSE "rollback",
                                      !.admission = admission, !.lease = lease,
                                      !.expires = now + Ttl]]

ReserveWorker(r) ==
  LET s == ScopeOf[r]  c == CeilingOf[r] IN
  /\ req[r].pc \in {"reserving", "abandoned"}
  /\ \/ /\ phase = "running"
        /\ ReserveInTransaction(s, c)
        /\ Deliver(r, "leased", last_id + 1)
     \/ /\ phase # "running" \/ ~Admits(AfterReclaim(s), s, c)
        /\ Deliver(r, "denied", NoLease)
        /\ UNCHANGED <<rows, last_id>>
     \/ /\ phase = "running"   \* the backend failed: Warn fails open, Block closed
        /\ Deliver(r, IF budgets[s].policy = "warn" THEN "unmetered" ELSE "denied", NoLease)
        /\ UNCHANGED <<rows, last_id>>
  /\ UNCHANGED <<now, budgets, tracked, dedup, lifecycleVars>>
  /\ UNCHANGED <<emitted, counted, stranded, crashes>>

CallerLeaves(r) ==
  /\ \/ req[r].pc = "reserving" /\ Step(r, "abandoned")
     \/ req[r].pc = "pending" /\ Step(r, "rollback")
  /\ UNCHANGED <<ledgerVars, lifecycleVars, emitted, counted, stranded, crashes>>

FitsLease(r) == Secs(req[r].expires) * SecondTicks - now >= Deadline + Headroom

\* The caller resumes: lifetime check, second authorization, dispatch.  The
\* second guard is taken before the pending one is dropped.
Proceed(r) ==
  /\ req[r].pc = "pending"
  /\ LET refused == \/ phase # "running"
                    \/ r \in Bounded /\ req[r].admission = "leased" /\ ~FitsLease(r)
     IN \/ refused /\ Step(r, "rollback") /\ UNCHANGED lifecycleVars
        \/ /\ ~refused /\ req[r].admission = "denied"
           /\ Step(r, "done") /\ DropGuard
        \/ /\ ~refused /\ req[r].admission # "denied"
           /\ req' = [req EXCEPT ![r].pc = "calling", ![r].started = now]
           /\ UNCHANGED lifecycleVars
  /\ UNCHANGED <<ledgerVars, emitted, counted, stranded, crashes>>

-----------------------------------------------------------------------------
\* settle by lease id; a row already settled or reclaimed makes it a no-op.
SettleLease(r, actual) ==
  LET i == req[r].lease IN
  \/ /\ IF i \in DOMAIN rows /\ ~rows[i].settled THEN SettleRow(i, actual) ELSE UNCHANGED rows
     /\ UNCHANGED stranded
  \/ /\ i # NoLease   \* SQLite refused: logged, the lease waits for its TTL
     /\ stranded' = stranded \cup {i}
     /\ UNCHANGED rows

\* PendingAdmission::drop: no upstream call was made, so nothing is charged.
RollbackKeepingLease(r) ==
  /\ req[r].pc = "rollback"
  /\ Step(r, "done") /\ DropGuard
  /\ UNCHANGED <<ledgerVars, stranded, emitted, counted, crashes>>
Rollback(r) ==
  /\ req[r].pc = "rollback"
  /\ SettleLease(r, 0)
  /\ Step(r, "done")
  /\ DropGuard
  /\ UNCHANGED <<now, budgets, last_id, tracked, dedup, emitted, counted, crashes>>

\* Usage frames: a running partial, replaced until the terminal one.
Observe(r, u) ==
  /\ req[r].pc = "calling" /\ req[r].usage # u
  /\ r \in Bounded => now < req[r].started + Deadline
  /\ req' = [req EXCEPT ![r].usage = u]
  /\ UNCHANGED <<ledgerVars, lifecycleVars, emitted, counted, stranded, crashes>>

Billed(r) == IF req[r].usage = Unmeasured THEN 0 ELSE req[r].usage

\* seen-then-record.  An unreadable row counts the call, a failed insert leaves
\* the call to be counted again.
DedupWithoutRecord(r, reused) ==
  /\ reused = (KeyOf[r] # NoKey /\ Seen(KeyOf[r]))
  /\ counted' = IF reused \/ KeyOf[r] = NoKey THEN counted
                ELSE counted \cup {[key |-> KeyOf[r], at |-> Secs(now), until |-> Secs(now + Ttl)]}
  /\ UNCHANGED dedup
Dedup(r, reused) ==
  LET k == KeyOf[r]
      pruned == IF k \in DOMAIN dedup /\ ~Seen(k) THEN Without(dedup, {k}) ELSE dedup
  IN
  \/ /\ k = NoKey /\ ~reused
     /\ UNCHANGED <<dedup, counted>>
  \/ /\ k # NoKey /\ Seen(k) /\ reused
     /\ UNCHANGED <<dedup, counted>>
  \/ /\ k # NoKey /\ ~Seen(k) /\ ~reused
     /\ dedup' = Recorded(k, req[r].lease, Billed(r))
     /\ counted' = counted \cup {[key |-> k, at |-> Secs(now), until |-> Secs(now + Ttl)]}
  \/ /\ k # NoKey /\ ~reused
     /\ dedup' \in {dedup, pruned, Recorded(k, req[r].lease, Billed(r))}
     /\ UNCHANGED counted

\* RequestAccounting::finalize up to the end of the locked section; it runs on
\* completion, on an upstream error and from Drop.  A repeat stops here.
Finalize(r) ==
  /\ req[r].pc = "calling"
  /\ SettleLease(r, Billed(r))
  /\ \E reused \in BOOLEAN :
       /\ Dedup(r, reused)
       /\ \/ reused /\ Step(r, "dropped") /\ DropGuard
          \/ ~reused /\ Step(r, "emitting") /\ UNCHANGED lifecycleVars
  /\ UNCHANGED <<now, budgets, last_id, tracked, emitted, crashes>>

\* emit_usage, outside the lock; the guard goes last.
EmitKeepingGuard(r) ==
  /\ req[r].pc = "emitting"
  /\ emitted' = emitted \cup {r}
  /\ Step(r, "done")
  /\ UNCHANGED <<ledgerVars, lifecycleVars, counted, stranded, crashes>>
Emit(r) ==
  /\ req[r].pc = "emitting"
  /\ emitted' = emitted \cup {r}
  /\ Step(r, "done")
  /\ DropGuard
  /\ UNCHANGED <<ledgerVars, counted, stranded, crashes>>

-----------------------------------------------------------------------------
Finished == {"new", "done", "dropped", "lost"}
InFlight == {r \in Requests : req[r].pc \notin Finished}

\* The process dies (or is ended at its grace deadline) and is started again.
Crash ==
  /\ crashes < MaxCrashes
  /\ crashes' = crashes + 1
  /\ req' = [r \in Requests |-> IF r \in InFlight THEN [req[r] EXCEPT !.pc = "lost"] ELSE req[r]]
  /\ stranded' = stranded \cup ({req[r].lease : r \in InFlight} \ {NoLease})
  /\ phase' = "running" /\ active' = 0
  /\ UNCHANGED <<ledgerVars, emitted, counted>>

\* The timer sweep, on its own task.
Sweep == ReclaimExpired /\ UNCHANGED <<lifecycleVars, requestVars>>

\* A bounded call is over at its deadline, and its finalizer runs within the
\* settlement headroom.
ClockTick ==
  /\ \A r \in Bounded : req[r].pc = "calling" => now < req[r].started + Deadline + Headroom - 1
  /\ Tick
  /\ UNCHANGED <<lifecycleVars, requestVars>>

\* The signal handler, then the coordinator of main.rs: drain, wait until
\* idle, stop.  Missing its deadline ends the process, which is a Crash.
Shutdown == BeginQuiesce /\ UNCHANGED <<ledgerVars, requestVars>>
Cleanup == (StartDraining \/ Stop) /\ UNCHANGED <<ledgerVars, requestVars>>

Init ==
  /\ now = 0 /\ rows = << >> /\ last_id = 0 /\ tracked = {} /\ dedup = << >>
  /\ budgets \in [Scopes -> Budgets]   \* caps the operator set before
  /\ LifecycleInit
  /\ req = [r \in Requests |-> Fresh]
  /\ emitted = {} /\ counted = {} /\ stranded = {} /\ crashes = 0

Next ==
  \/ \E r \in Requests :
       \/ Arrive(r) \/ ReserveWorker(r) \/ CallerLeaves(r) \/ Proceed(r) \/ Rollback(r)
       \/ \E u \in Tokens : Observe(r, u)
       \/ Finalize(r) \/ Emit(r)
  \/ Crash \/ Sweep \/ ClockTick \/ Shutdown \/ Cleanup

Spec == Init /\ [][Next]_vars

\* The runtime keeps running ready tasks; a dispatched call ends by an answer,
\* a transport error or the abort of its connection when the drain times out.
FairSpec ==
  /\ Spec
  /\ WF_vars(Cleanup)
  /\ \A r \in Requests : /\ WF_vars(ReserveWorker(r)) /\ WF_vars(Proceed(r))
                          /\ WF_vars(Rollback(r)) /\ WF_vars(Finalize(r)) /\ WF_vars(Emit(r))

-----------------------------------------------------------------------------
(* Requests keep their type, and the operation count of the lifecycle never  *)
(* runs below zero or above the requests there are, whoever drops a guard.   *)
TypeOK ==
  /\ phase \in Phase /\ active \in 0..Cardinality(Requests)
  /\ req \in [Requests ->
       [pc : Finished \cup {"reserving", "abandoned", "pending", "rollback", "calling", "emitting"},
        admission : {"none", "leased", "denied", "unmetered"},
        lease : 0..last_id, expires : Nat, started : Nat, usage : Tokens \cup {Unmeasured}]]
  /\ emitted \subseteq Requests /\ stranded \subseteq 1..last_id
  /\ \A k \in DOMAIN dedup : dedup[k].reservation \in 0..last_id

(* Whoever gives up, in whatever order (caller gone while the worker still   *)
(* waits for SQLite, cutoff between reservation and dispatch, lifetime       *)
(* refused, stream dropped), the lease is settled by exactly one owner: an   *)
(* unsettled row belongs to a request that will still settle it, or to one   *)
(* that crashed or whose settlement SQLite refused.                          *)
NoLeaseLeaks ==
  \A i \in DOMAIN rows : ~rows[i].settled =>
    \/ i \in stranded
    \/ \E r \in Requests : req[r].lease = i /\ req[r].pc \in {"pending", "rollback", "calling"}

(* `stop` marks completed cleanup: no detached worker, finalizer or streamed *)
(* body can write to the ledger or the sink once the process is stopped.     *)
StoppedIsQuiet == phase = "stopped" => InFlight = {}

(* The meter counts a logical call once: the windows in which finalizers     *)
(* counted one idempotency key never overlap, however retries interleave     *)
(* and across restarts, as long as the dedup row could be read and written.  *)
OneEventPerWindow ==
  \A a, b \in counted : (a.key = b.key /\ a # b) => a.until <= b.at \/ b.until <= a.at


(* After the cutoff the in-flight work drains and the process stops, unless  *)
(* it dies first.                                                            *)
ShutdownCompletes == phase # "running" ~> phase \in {"stopped", "running"}

(* A dropped repeat is a duplicate: "the original event stands", so some     *)
(* call with its key has emitted, or is about to emit, its usage event.      *)
OriginalEventStands ==
  \A r \in Requests : req[r].pc = "dropped" =>
    \E q \in Requests : /\ KeyOf[q] = KeyOf[r] /\ q # r
                        /\ q \in emitted \/ req[q].pc = "emitting"
=============================================================================
