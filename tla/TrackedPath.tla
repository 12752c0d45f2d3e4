---------------------------- MODULE TrackedPath ----------------------------
(***************************************************************************)
(* The opt-in tracked request path (settlement/buffered.rs): HTTP requests  *)
(* that own an obligation in the settlement registry, the blocking workers  *)
(* that run its work on the evidence ledger, the recovery thread, and the   *)
(* final inventory of shutdown.  A request is identified with the execution *)
(* id its admission mints.                                                  *)
(*                                                                         *)
(* One action is one critical section: the registry lock, one committed     *)
(* transaction under the ledger mutex, the lifecycle lock.  Waits time out, *)
(* ledger calls fail (the mutex is busy, SQLite refuses), workers panic,    *)
(* and a crash keeps only the ledger file.                                  *)
(***************************************************************************)
EXTENDS SettlementJobs, EvidenceLedger, Sequences

CONSTANTS
  ScopeOrder,          \* Scopes in string order
  CacheReadWeight,     \* the operator's weight in this process
  PageSize, Slices,    \* 32 entries of a recovery page, 8 slices of a sweep
  MaxFaults, MaxCrashes \* bounds of the instance

ASSUME RecoveryAssumption ==
  /\ ScopeOrder \in Seq(Scopes) /\ PageSize \in Nat \ {0} /\ Slices \in Nat \ {0}
  /\ CacheReadWeight \in Weights
  /\ MaxFaults \in Nat /\ MaxCrashes \in Nat

VARIABLES
  http,      \* execution -> [pc, slot, usage]
  sent,      \* history: upstream calls made per execution
  recovery,  \* the recovery thread and the cursor it keeps between sweeps
  verdict,   \* what finish_shutdown returned
  poisoned,  \* the ledger mutex
  faults, crashes

pathVars == <<http, sent, recovery, verdict, poisoned, faults, crashes>>
trackedVars == <<jobsVars, lifecycleVars, ledgerVars, evidenceVars, pathVars>>

NoSlot == -1
NoUsage == [completeness |-> "none"]
NoPage == [after |-> 0, through |-> 0]

Goto(e, pc) == http' = [http EXCEPT ![e].pc = pc]
OnlyHttp == UNCHANGED <<ledgerVars, evidenceVars, sent, recovery, verdict, poisoned, faults, crashes>>

-----------------------------------------------------------------------------
\* handle: capacity first, then a spawned task that outlives its client.
Begin(e) ==
  /\ http[e].pc = "new"
  /\ Obligation
  /\ http' = [http EXCEPT ![e].pc = "begun", ![e].slot = next]
  /\ OnlyHttp

Admit(e) ==
  /\ http[e].pc = "begun"
  /\ \/ Submit(http[e].slot, "admission") /\ Goto(e, "admitting")
     \/ Refuse(http[e].slot, "admission") /\ Goto(e, "leaving")
  /\ OnlyHttp

\* A refused authorization proves that nothing was sent: close instead.
AuthorizeOrClose(e) ==
  LET id == http[e].slot IN
  /\ http[e].pc = "prepared"
  /\ \/ Submit(id, "authorize") /\ Goto(e, "authorizing")
     \/ /\ CutOff("authorize")
        /\ \/ Submit(id, "close") /\ Goto(e, "closing")
           \/ Refuse(id, "close") /\ Goto(e, "leaving")
  /\ OnlyHttp

Waiting == {"admitting", "authorizing", "closing", "settling"}

\* Ticket::wait under accounting_wait; a ready outcome wins over the timeout.
WaitTimesOut(e) ==
  /\ http[e].pc \in Waiting
  /\ slots[http[e].slot].outcome = NoOutcome
  /\ Goto(e, "leaving")
  /\ UNCHANGED <<jobsVars, lifecycleVars>> /\ OnlyHttp

TakeAnyAuthorization(e) ==
  /\ http[e].pc \in Waiting
  /\ Take(http[e].slot)
  /\ LET result == slots[http[e].slot].outcome.result IN
     Goto(e, IF result = "prepared" THEN "prepared"
             ELSE IF http[e].pc = "authorizing" THEN "permitted" ELSE "leaving")
  /\ OnlyHttp
TakeOutcome(e) ==
  LET result == slots[http[e].slot].outcome.result IN
  /\ http[e].pc \in Waiting
  /\ Take(http[e].slot)
  /\ Goto(e, IF result = "prepared" THEN "prepared"
             ELSE IF result = "authorized" THEN "permitted" ELSE "leaving")
  /\ OnlyHttp

\* A permit that arrives after the cutoff is not used.
Dispatch(e) ==
  /\ http[e].pc = "permitted"
  /\ \/ TryOperation /\ sent' = [sent EXCEPT ![e] = @ + 1] /\ Goto(e, "calling")
     \/ phase # "running" /\ Goto(e, "leaving") /\ UNCHANGED <<lifecycleVars, sent>>
  /\ UNCHANGED <<jobsVars, ledgerVars, evidenceVars, recovery, verdict, poisoned, faults, crashes>>

\* finalize_owned: the terminal usage is submitted before the event is emitted.
Answer(e, u) ==
  /\ http[e].pc = "calling"
  /\ \/ /\ Submit(http[e].slot, "settle")
        /\ http' = [http EXCEPT ![e].pc = "settling", ![e].usage = u]
     \/ /\ Refuse(http[e].slot, "settle")
        /\ http' = [http EXCEPT ![e].pc = "leaving", ![e].usage = u]
  /\ UNCHANGED <<ledgerVars, evidenceVars, sent, recovery, verdict, poisoned, faults, crashes>>

\* The task panics during the call: Drop settles nothing.
AbandonCall(e) ==
  /\ http[e].pc = "calling" /\ faults < MaxFaults
  /\ faults' = faults + 1
  /\ Goto(e, "leaving")
  /\ UNCHANGED <<jobsVars, lifecycleVars, ledgerVars, evidenceVars>>
  /\ UNCHANGED <<sent, recovery, verdict, poisoned, crashes>>

\* The task ends: its obligation goes first, the dispatch guard last.
LeaveGuarded(e) ==
  /\ http[e].pc = "leaving"
  /\ DropObligation(http[e].slot)
  /\ Goto(e, "guarded")
  /\ OnlyHttp
Leave(e) ==
  /\ http[e].pc = "leaving"
  /\ DropObligation(http[e].slot)
  /\ Goto(e, IF sent[e] = 1 THEN "guarded" ELSE "done")
  /\ OnlyHttp
ReleaseGuard(e) ==
  /\ http[e].pc = "guarded"
  /\ DropGuard
  /\ Goto(e, "done")
  /\ UNCHANGED jobsVars /\ OnlyHttp

-----------------------------------------------------------------------------
Owner(w) == CHOOSE e \in Executions : http[e].slot = w.id

Advance(w, stage, result) ==
  /\ workers' = (workers \ {w}) \cup {[w EXCEPT !.stage = stage, !.result = result]}
  /\ UNCHANGED <<slots, next, closed, retained_after, lifecycleVars>>
Ran(w, result) == Advance(w, "ran", result) /\ UNCHANGED pathVars
Failure(w) == IF w.input = "admission" THEN "failed" ELSE "unresolved"
LedgerUntouched == UNCHANGED <<ledgerVars, evidenceVars>>

\* The ledger mutex is only tried.  Its holder keeps it over several commits
\* while it settles a terminal observation or a page of recovery.
LedgerFree == /\ ~poisoned /\ recovery.pc # "settle"
              /\ \A v \in workers : v.stage # "recorded"

\* Typed refusals of the ledger: full, expired before dispatch, out of range.
LedgerTakes(w) ==
  LET e == Owner(w) IN
  /\ LedgerFree
  /\ w.input = "admission" => Cardinality(DOMAIN intents) < RetainedLimit
  /\ w.input = "authorize" => RowOf(e).expires_at > Secs(now)
  /\ w.input = "settle" /\ e \notin DOMAIN observed =>
       FrozenCharge(http[e].usage, CacheReadWeight) <= I64Max

RunRefused(w) ==
  /\ w.stage = "queued" /\ ~LedgerTakes(w)
  /\ Ran(w, Failure(w)) /\ LedgerUntouched

\* PreparedAdmission::run looks at the cutoff once it has the ledger.
RunAdmission(w) ==
  /\ w.input = "admission" /\ w.stage = "queued" /\ LedgerTakes(w)
  /\ \/ phase # "running" /\ Ran(w, "cutoff") /\ LedgerUntouched
     \/ /\ phase = "running"
        /\ \E s \in Scopes, c \in Ceilings :
             \/ ReserveIntent(Owner(w), s, c, TRUE) /\ Ran(w, "prepared")
             \/ ~Admits(AfterReclaim(s), s, c) /\ Ran(w, "denied") /\ LedgerUntouched

\* The worker is the caller that receives the permit.
RunAuthorize(w) ==
  LET e == Owner(w) IN
  /\ w.input = "authorize" /\ w.stage = "queued" /\ LedgerTakes(w)
  /\ Authorize(e) /\ permits'[e] = permits[e] + 1
  /\ Ran(w, "authorized")

RunClose(w) ==
  /\ w.input = "close" /\ w.stage = "queued" /\ LedgerTakes(w)
  /\ CloseBeforeDispatch(Owner(w)) /\ Ran(w, "closed")

\* try_commit: record the usage (an equal replay succeeds), then settle it.
RunRecord(w) ==
  LET e == Owner(w) IN
  /\ w.input = "settle" /\ w.stage = "queued" /\ LedgerTakes(w)
  /\ \/ RecordTerminal(e, http[e].usage, CacheReadWeight)
     \/ e \in DOMAIN observed /\ observed[e].usage = http[e].usage /\ LedgerUntouched
  /\ Advance(w, "recorded", None) /\ UNCHANGED pathVars
RunSettle(w) ==
  LET e == Owner(w) IN
  /\ w.stage = "recorded"
  /\ \/ SettleTerminal(e) /\ Ran(w, "committed")
     \/ RowOf(e).settled /\ Ran(w, "committed") /\ LedgerUntouched
     \/ ~Chargeable(e) /\ Ran(w, "unresolved") /\ LedgerUntouched

\* A storage error.  It does not prove that nothing was committed.
RunFails(w) ==
  /\ faults < MaxFaults /\ faults' = faults + 1
  /\ Advance(w, "ran", Failure(w)) /\ LedgerUntouched
  /\ UNCHANGED <<http, sent, recovery, verdict, crashes, poisoned>>

\* A panic, or a queued task that is dropped.  Inside the ledger it poisons.
Panic(w) ==
  /\ faults < MaxFaults /\ faults' = faults + 1
  /\ Interrupt(w)
  /\ \E inside \in BOOLEAN : /\ inside => w.stage # "ran"
                             /\ w.stage = "recorded" => inside
                             /\ poisoned' = (poisoned \/ inside)
  /\ UNCHANGED <<http, sent, recovery, verdict, crashes>> /\ LedgerUntouched

PublishOutcome(w) == Publish(w) /\ UNCHANGED pathVars /\ LedgerUntouched

-----------------------------------------------------------------------------
OnlyRecovery == UNCHANGED <<http, sent, verdict, faults, crashes, poisoned>>

\* Recovery::default
FreshRecovery == [pc |-> "idle", shutdown |-> FALSE, left |-> 0, scopes |-> NoPage,
                  current |-> 0, page |-> NoPage, following |-> NoPage, entries |-> {},
                  complete |-> FALSE, unresolved |-> FALSE]

\* recover, every second: a bounded part of a sweep, authorized like a request.
StartRecovery ==
  /\ recovery.pc = "idle"
  /\ TryOperation
  /\ recovery' = [recovery EXCEPT
       !.pc = "retry", !.left = Slices, !.complete = FALSE,
       !.unresolved = @ /\ ~(recovery.current = 0 /\ recovery.scopes = NoPage)]
  /\ UNCHANGED jobsVars /\ OnlyRecovery /\ LedgerUntouched

\* finish_shutdown: a sweep from the beginning, once everything has drained.
StartInventory ==
  /\ recovery.pc = "idle" /\ phase = "quiescing" /\ active = 0 /\ verdict = "none"
  /\ recovery' = [FreshRecovery EXCEPT !.pc = "retry", !.shutdown = TRUE, !.left = Slices]
  /\ retained_after' = NoCursor
  /\ UNCHANGED <<slots, next, closed, workers, lifecycleVars>>
  /\ OnlyRecovery /\ LedgerUntouched

\* Its waiter gives up at the shutdown deadline; the thread goes on.
InventoryTimesOut ==
  /\ recovery.shutdown /\ recovery.pc # "idle" /\ verdict = "none"
  /\ verdict' = "failed"
  /\ UNCHANGED <<jobsVars, lifecycleVars, http, sent, recovery, faults, crashes, poisoned>>
  /\ LedgerUntouched

\* What the thread returns, and to whom.
EndRecovery(answer) ==
  /\ recovery' = [recovery EXCEPT !.pc = "idle", !.entries = {}, !.following = NoPage]
  /\ verdict' = IF recovery.shutdown /\ verdict = "none" THEN answer ELSE verdict
  /\ IF recovery.shutdown THEN UNCHANGED lifecycleVars ELSE DropGuard
  /\ UNCHANGED <<jobsVars, http, sent, crashes, poisoned>> /\ LedgerUntouched

\* The loop ends when complete, out of slices or of time, or at the cutoff.
StopSweep ==
  /\ recovery.pc = "retry"
  /\ phase = "running" => recovery.left < Slices
  /\ EndRecovery(IF recovery.complete /\ ~recovery.unresolved /\ DOMAIN slots = {}
                 THEN "clean" ELSE "incomplete")
  /\ UNCHANGED faults

\* retry_terminal, on this thread.
RecoverRetry ==
  /\ recovery.pc = "retry" /\ recovery.left > 0 /\ ~recovery.complete
  /\ ~recovery.shutdown => phase = "running"
  /\ RetryTerminal
  /\ recovery' = [recovery EXCEPT !.pc = IF workers' = workers THEN "page" ELSE "await",
                                  !.left = @ - 1]
  /\ OnlyRecovery /\ LedgerUntouched
RecoverForget ==
  /\ recovery.pc = "await" /\ RetryWorker = {}
  /\ IF slots[retained_after].releasable
     THEN RetryForget(retained_after) ELSE UNCHANGED <<jobsVars, lifecycleVars>>
  /\ recovery' = [recovery EXCEPT !.pc = "page"]
  /\ OnlyRecovery /\ LedgerUntouched

IntentsOf(s, after, through) ==
  {e \in DOMAIN intents : RowOf(e).scope = s /\ intents[e] > after /\ intents[e] <= through}
LastIntent(E) == IF E = {} THEN 0 ELSE Max({intents[e] : e \in E})

\* recovery_scopes_durable with limit 1: the scope to visit, and the cursor.
NextScope ==
  LET through == IF recovery.scopes = NoPage THEN LastIntent(DOMAIN intents)
                 ELSE recovery.scopes.through
      later == {i \in DOMAIN ScopeOrder : /\ i > recovery.scopes.after
                                          /\ IntentsOf(ScopeOrder[i], 0, through) # {}}
  IN IF recovery.current # 0 THEN [scope |-> recovery.current, cursor |-> recovery.scopes]
     ELSE IF later = {} THEN [scope |-> 0, cursor |-> NoPage]
     ELSE [scope |-> Min(later), cursor |-> [after |-> Min(later), through |-> through]]

\* recovery_page_durable: the next entries of the scope up to a frozen bound.
PageOf(s) ==
  LET through == IF recovery.page = NoPage THEN LastIntent(IntentsOf(s, 0, last_id))
                 ELSE recovery.page.through
      left == IntentsOf(s, recovery.page.after, through)
      entries == {e \in left : Cardinality({d \in left : intents[d] < intents[e]}) < PageSize}
  IN [entries |-> entries,
      next |-> IF entries = left THEN NoPage
               ELSE [after |-> LastIntent(entries), through |-> through]]

RecoverPage ==
  /\ recovery.pc = "page" /\ LedgerFree
  /\ \E found \in {NextScope} :
       LET visited == [recovery EXCEPT !.scopes = found.cursor, !.current = found.scope] IN
       IF found.scope = 0
       THEN recovery' = [visited EXCEPT !.pc = "retry", !.complete = TRUE]
       ELSE \E page \in {PageOf(ScopeOrder[found.scope])} :
              recovery' = [visited EXCEPT !.pc = "settle", !.entries = page.entries,
                                          !.following = page.next]
  /\ UNCHANGED <<jobsVars, lifecycleVars>> /\ OnlyRecovery /\ LedgerUntouched

\* The RecoveryState of an entry.
ReadyToSettle(e) == Observable(e) /\ Chargeable(e) /\ ~RowOf(e).settled
UnresolvedIfObserved(e) == ~RowOf(e).settled /\ ~ReadyToSettle(e) /\ e \in DOMAIN observed
Unresolved(e) == ~RowOf(e).settled /\ ~ReadyToSettle(e)

RecoverEntry ==
  \E e \in recovery.entries :
    /\ \A d \in recovery.entries : intents[e] <= intents[d]
    /\ IF ReadyToSettle(e) THEN SettleTerminal(e) ELSE LedgerUntouched
    /\ recovery' = [recovery EXCEPT !.entries = @ \ {e}, !.unresolved = @ \/ Unresolved(e)]
    /\ UNCHANGED <<jobsVars, lifecycleVars>> /\ OnlyRecovery

\* The cursor moves only when the whole page went through.
RecoverNextScope ==
  /\ recovery.pc = "settle" /\ recovery.entries = {}
  /\ recovery' = [recovery EXCEPT !.pc = "retry", !.page = NoPage, !.following = NoPage,
                                  !.current = 0]
  /\ UNCHANGED <<jobsVars, lifecycleVars>> /\ OnlyRecovery /\ LedgerUntouched
RecoverNextFirstPage ==
  /\ recovery.pc = "settle" /\ recovery.entries = {}
  /\ recovery' = [recovery EXCEPT !.pc = "retry", !.following = NoPage,
                                  !.current = IF recovery.following = NoPage THEN 0 ELSE @]
  /\ UNCHANGED <<jobsVars, lifecycleVars>> /\ OnlyRecovery /\ LedgerUntouched
RecoverNext ==
  /\ recovery.pc = "settle" /\ recovery.entries = {}
  /\ recovery' = [recovery EXCEPT !.pc = "retry", !.page = recovery.following,
                                  !.following = NoPage,
                                  !.current = IF recovery.following = NoPage THEN 0 ELSE @]
  /\ UNCHANGED <<jobsVars, lifecycleVars>> /\ OnlyRecovery /\ LedgerUntouched

\* The ledger is busy, poisoned or fails.
RecoverBusy ==
  /\ recovery.pc = "page" /\ ~LedgerFree
  /\ EndRecovery("failed") /\ UNCHANGED faults
RecoverFails ==
  /\ recovery.pc \in {"page", "settle"} /\ faults < MaxFaults
  /\ faults' = faults + 1
  /\ EndRecovery("failed")

-----------------------------------------------------------------------------
Idle == [pc |-> "new", slot |-> NoSlot, usage |-> NoUsage]

\* Only the ledger file survives; whoever was served is not served again.
Crash ==
  /\ crashes < MaxCrashes /\ crashes' = crashes + 1
  /\ http' = [e \in Executions |->
                IF http[e].pc = "new" THEN Idle ELSE [Idle EXCEPT !.pc = "lost"]]
  /\ slots' = << >> /\ next' = 0 /\ closed' = FALSE /\ workers' = {}
  /\ retained_after' = NoCursor /\ phase' = "running" /\ active' = 0
  /\ recovery' = FreshRecovery /\ verdict' = "none" /\ poisoned' = FALSE
  /\ UNCHANGED <<ledgerVars, evidenceVars, sent, faults>>

\* The process: the clock, the operator's caps, the signal, the last line of main.
Process ==
  /\ \/ Tick /\ UNCHANGED lifecycleVars
     \/ /\ \E s \in Scopes, b \in Budgets : SetLimit(s, b)
        /\ UNCHANGED lifecycleVars
     \/ BeginQuiesce /\ UNCHANGED ledgerVars
     \/ verdict # "none" /\ Stop /\ UNCHANGED ledgerVars
  /\ UNCHANGED <<evidenceVars, jobsVars, pathVars>>

TrackedInit ==
  /\ JobsInit /\ Init
  /\ http = [e \in Executions |-> Idle] /\ sent = [e \in Executions |-> 0]
  /\ recovery = FreshRecovery /\ verdict = "none" /\ poisoned = FALSE
  /\ faults = 0 /\ crashes = 0

Returns(e) == TakeOutcome(e) \/ WaitTimesOut(e) \/ Leave(e) \/ ReleaseGuard(e)
Serve(e) == \/ Begin(e) \/ Admit(e) \/ AuthorizeOrClose(e) \/ Dispatch(e)
            \/ \E u \in Usages : Answer(e, u)
            \/ AbandonCall(e)
Work(w) == \/ RunRefused(w) \/ RunAdmission(w) \/ RunAuthorize(w) \/ RunClose(w)
           \/ RunRecord(w) \/ RunSettle(w) \/ PublishOutcome(w)
Recover == \/ StopSweep \/ RecoverRetry \/ RecoverForget \/ RecoverPage \/ RecoverEntry
           \/ RecoverNext \/ RecoverBusy

TrackedNext ==
  \/ \E e \in Executions : Serve(e) \/ Returns(e)
  \/ \E w \in workers : Work(w) \/ RunFails(w) \/ Panic(w)
  \/ StartRecovery \/ StartInventory \/ InventoryTimesOut \/ Recover \/ RecoverFails
  \/ Process \/ Crash

TrackedSpec == TrackedInit /\ [][TrackedNext]_trackedVars

\* Spawned tasks and the blocking pool run on, waits time out, and the recovery
\* timer keeps ticking.  Nothing is promised about clients, providers or faults.
TrackedFairSpec ==
  /\ TrackedSpec
  /\ \A e \in Executions : WF_trackedVars(Returns(e))
  /\ \A id \in 0..U64Max : WF_trackedVars(\E w \in workers : w.id = id /\ Work(w))
  /\ WF_trackedVars(StartRecovery) /\ WF_trackedVars(Recover)

-----------------------------------------------------------------------------
HttpPc == {"new", "begun", "prepared", "permitted", "calling", "leaving", "guarded", "done",
           "lost"} \cup Waiting
(* The composed state keeps its type; recovery only works on executions of   *)
(* the ledger, and no guard of a request or worker is dropped twice.         *)
TrackedTypeOK ==
  /\ JobsTypeOK
  /\ http \in [Executions -> [pc : HttpPc, slot : {NoSlot} \cup 0..U64Max,
                              usage : Usages \cup {NoUsage}]]
  /\ sent \in [Executions -> Nat]
  /\ recovery.pc \in {"idle", "retry", "await", "page", "settle"}
  /\ recovery.current \in {0} \cup DOMAIN ScopeOrder
  /\ recovery.entries \subseteq DOMAIN intents
  /\ verdict \in {"none", "clean", "incomplete", "failed"}

(* However waits time out, workers fail or panic after their commit, and the *)
(* process restarts, the provider is called at most once for an execution,   *)
(* and only when the ledger durably says that it may have been.              *)
SentOnlyOnPermit ==
  \A e \in Executions :
    /\ sent[e] <= 1
    /\ sent[e] = 1 => e \in DOMAIN fence /\ fence[e].phase = "authorized"

(* Until it is settled, a reservation that this process admitted keeps a     *)
(* slot of the registry: no timeout, panic, refused submission or retry      *)
(* leaves a durable liability that nobody in the process accounts for.       *)
LiabilityHasOwner ==
  \A e \in DOMAIN intents :
    (~RowOf(e).settled /\ http[e].pc # "lost") => http[e].slot \in DOMAIN slots

(* Usage the provider reported stays in the registry, ready to be retried,   *)
(* until the ledger has settled it.                                          *)
UsageNotLost ==
  \A e \in Executions :
    (http[e].usage # NoUsage /\ ~RowOf(e).settled) =>
      /\ http[e].slot \in DOMAIN slots
      /\ Evidence(slots[http[e].slot]) /\ ~slots[http[e].slot].releasable

(* When the lifecycle reports that every operation drained, no request and   *)
(* no worker can reach the ledger any more, so the final inventory that      *)
(* shutdown takes then is not overtaken by a late commit.                    *)
DrainedIsQuiet ==
  (phase # "running" /\ active = 0) =>
    /\ \A e \in Executions : http[e].pc \in {"new", "done", "lost"}
    /\ workers \subseteq RetryWorker
    /\ recovery.pc # "idle" => recovery.shutdown

(* finish_shutdown answers Ok(true) only when it is so: nothing retained in  *)
(* memory, and every execution in the ledger, those of earlier processes     *)
(* included, settled or closed.                                              *)
CleanShutdownIsResolved ==
  verdict = "clean" =>
    DOMAIN slots = {} /\ \A e \in DOMAIN intents : RowOf(e).settled

Settleable(u) == /\ u # NoUsage /\ u.completeness = "final" /\ u.basis = "provider_reported"
                 /\ FrozenCharge(u, CacheReadWeight) <= I64Max

(* Final usage, once captured, is eventually settled in the ledger while the *)
(* process serves and its ledger is sound, although the request's own        *)
(* settlement may time out, find the ledger busy or fail.                    *)
CapturedUsageSettles ==
  \A e \in Executions :
    Settleable(http[e].usage) ~>
      ((e \in DOMAIN intents /\ RowOf(e).settled) \/ phase # "running" \/ poisoned)

(* After a restart every execution whose final usage an earlier process      *)
(* recorded is eventually settled by the timer's sweeps, a page at a time    *)
(* across scopes, whatever unresolved executions lie before it.              *)
ReadyIsSettled ==
  \A e \in Executions :
    (e \in DOMAIN intents /\ ReadyToSettle(e)) ~>
      (RowOf(e).settled \/ phase # "running" \/ poisoned)
=============================================================================
