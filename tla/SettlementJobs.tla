--------------------------- MODULE SettlementJobs ---------------------------
(***************************************************************************)
(* settlement/jobs.rs: the bounded, process-local registry that owns the    *)
(* blocking accounting work of tracked executions.  A slot holds an inert   *)
(* snapshot of its work and the work's unclaimed outcome.  A slot belongs   *)
(* to an Obligation (an HTTP request, `held`) or to nobody.                 *)
(*                                                                         *)
(* Four kinds of actors share it under one lock: obligations submit and     *)
(* take, workers on the blocking pool publish, consumers collect abandoned  *)
(* outcomes, and the recovery thread retries abandoned terminal evidence.   *)
(* The identity bound to a slot (request, intent, usage) never changes here, *)
(* so a snapshot is represented by the kind of work it describes.           *)
(***************************************************************************)
EXTENDS Integers, Lifecycle, FiniteSets

CONSTANTS Capacity,
          U64Max      \* of slot ids and epochs, which are never reused

ASSUME RegistryAssumption == Capacity \in Nat /\ U64Max \in Nat

VARIABLES
  slots,           \* id -> Slot
  next,            \* the id of the next slot
  closed,          \* the registry takes no new admission or authorization
  workers,         \* blocking tasks that have not published yet
  retained_after   \* where retry_terminal continues; NoCursor at the start

jobsVars == <<slots, next, closed, workers, retained_after>>

Inputs == {"admission", "authorize", "close", "settle"}
None == "none"
NoCursor == -1

\* What a finished worker may report, per kind of work.
ResultsOf == [admission |-> {"prepared", "denied", "cutoff", "failed"},
              authorize |-> {"authorized", "closed", "may_have_dispatched", "unresolved"},
              close |-> {"closed", "may_have_dispatched", "unresolved"},
              settle |-> {"committed", "unresolved"}]
Results == UNION {ResultsOf[i] : i \in Inputs} \cup {"interrupted"}

Outcome == [of : Inputs \cup {None}, result : Results \cup {None}]
NoOutcome == [of |-> None, result |-> None]

Phases == {"empty", "admitting", "prepared", "authorizing", "authorized", "closing",
           "terminal", "resolved", "uncertain"}
Slot == [snapshot : Inputs \cup {None}, outcome : Outcome, held : BOOLEAN,
         running : BOOLEAN, epoch : 0..U64Max, releasable : BOOLEAN,
         consumed : BOOLEAN, phase : Phases]
Worker == [id : Nat, epoch : 0..U64Max, input : Inputs, retry : BOOLEAN,
           stage : {"queued", "recorded", "ran"}, result : Results \cup {None}]

EmptySlot == [snapshot |-> None, outcome |-> NoOutcome, held |-> TRUE, running |-> FALSE,
              epoch |-> 0, releasable |-> FALSE, consumed |-> FALSE, phase |-> "empty"]

Queued(id, epoch, input, retry) ==
  [id |-> id, epoch |-> epoch, input |-> input, retry |-> retry,
   stage |-> "queued", result |-> None]

Removed(id) == [i \in DOMAIN slots \ {id} |-> slots[i]]
Inserted(slot) == [i \in DOMAIN slots \cup {next} |-> IF i = next THEN slot ELSE slots[i]]

-----------------------------------------------------------------------------
\* The bounds every new slot passes, under the registry lock.
HasRoom == /\ ~closed /\ next < U64Max
           /\ Cardinality(DOMAIN slots) < Capacity

\* Jobs::obligation: capacity is held before the first await of a request.
Obligation ==
  /\ HasRoom
  /\ TryOperation
  /\ slots' = Inserted(EmptySlot)
  /\ next' = next + 1
  /\ UNCHANGED <<closed, workers, retained_after>>

\* Jobs::submit and submit_admission: a slot with no obligation.
SubmitUnheld(input) ==
  /\ HasRoom
  /\ TryOperation
  /\ slots' = Inserted([EmptySlot EXCEPT !.snapshot = input, !.held = FALSE, !.running = TRUE])
  /\ workers' = workers \cup {Queued(next, 0, input, FALSE)}
  /\ next' = next + 1
  /\ UNCHANGED <<closed, retained_after>>

\* One admission, then one of authorize and close, then terminal evidence.
Legal(p, input) == \/ input = "admission" /\ p = "empty"
                   \/ input \in {"authorize", "close"} /\ p = "prepared"
                   \/ input = "settle" /\ p \in {"authorized", "terminal"}
Entered == [admission |-> "admitting", authorize |-> "authorizing",
            close |-> "closing", settle |-> "terminal"]

AcceptsWhileRunning(id, input) ==
  /\ id \in DOMAIN slots /\ slots[id].held /\ slots[id].outcome = NoOutcome
  /\ Legal(slots[id].phase, input)
Accepts(id, input) ==
  /\ id \in DOMAIN slots /\ slots[id].held
  /\ ~slots[id].running /\ slots[id].outcome = NoOutcome
  /\ Legal(slots[id].phase, input)

CutOff(input) == input \in {"admission", "authorize"} /\ (closed \/ phase # "running")

\* Obligation::submit_input, scheduled.
SubmitAnyEpoch(id, input) ==
  /\ Accepts(id, input) /\ ~CutOff(input)
  /\ slots' = [slots EXCEPT ![id] =
       [@ EXCEPT !.phase = Entered[input], !.snapshot = input, !.epoch = @ + 1,
                 !.consumed = FALSE, !.running = TRUE]]
  /\ workers' = workers \cup {Queued(id, slots[id].epoch + 1, input, FALSE)}
  /\ UNCHANGED <<next, closed, retained_after, lifecycleVars>>
Submit(id, input) ==
  /\ Accepts(id, input) /\ ~CutOff(input) /\ slots[id].epoch < U64Max
  /\ slots' = [slots EXCEPT ![id] =
       [@ EXCEPT !.phase = Entered[input], !.snapshot = input, !.releasable = FALSE,
                 !.epoch = @ + 1, !.consumed = FALSE, !.running = TRUE]]
  /\ workers' = workers \cup {Queued(id, slots[id].epoch + 1, input, FALSE)}
  /\ UNCHANGED <<next, closed, retained_after, lifecycleVars>>

\* ... refused at the cutoff, at the drain deadline (some time after the cutoff)
\* or at the last epoch.  Terminal evidence is captured all the same.
RefuseUncaptured(id, input) ==
  /\ Accepts(id, input)
  /\ CutOff(input) \/ phase # "running" \/ slots[id].epoch = U64Max
  /\ UNCHANGED <<jobsVars, lifecycleVars>>
Refuse(id, input) ==
  /\ Accepts(id, input)
  /\ CutOff(input) \/ phase # "running" \/ slots[id].epoch = U64Max
  /\ slots' = IF input = "settle"
              THEN [slots EXCEPT ![id] = [@ EXCEPT !.phase = "terminal", !.snapshot = "settle",
                                                   !.releasable = FALSE]]
              ELSE slots
  /\ UNCHANGED <<next, closed, workers, retained_after, lifecycleVars>>

-----------------------------------------------------------------------------
Releasing == {"denied", "cutoff", "committed", "closed"}

PhaseAfter(slot, result) ==
  IF ~slot.held THEN slot.phase
  ELSE IF result \in {"prepared", "authorized"} THEN result
  ELSE IF result \in Releasing THEN "resolved"
  ELSE IF slot.phase = "terminal" THEN "terminal" ELSE "uncertain"

\* The slot a worker leaves behind.  An interrupted one publishes its snapshot.
PublishedEmpty(slot, input, result) ==
  [slot EXCEPT !.running = FALSE, !.phase = PhaseAfter(slot, result),
               !.releasable = result \in Releasing, !.snapshot = None,
               !.outcome = IF result = "interrupted" THEN NoOutcome
                           ELSE [of |-> input, result |-> result]]
Published(slot, input, result) ==
  [slot EXCEPT
     !.running = FALSE,
     !.phase = PhaseAfter(slot, result),
     !.releasable = result \in Releasing,
     !.snapshot = IF ~slot.held THEN None
                  ELSE IF result = "prepared" THEN "close" ELSE @,
     !.outcome = [of |-> IF result = "interrupted" THEN slot.snapshot ELSE input,
                  result |-> result]]

\* Inner::finish.  A worker without its running slot would close the registry.
FindsSlot(w) == /\ w.id \in DOMAIN slots
                /\ slots[w.id].running /\ slots[w.id].epoch = w.epoch

FinishDroppingGuard(w, result) ==
  /\ slots' = [slots EXCEPT ![w.id] = Published(@, w.input, result)]
  /\ closed' = (closed \/ result = "interrupted")
  /\ workers' = workers \ {w}
  /\ IF ~w.retry THEN DropGuard ELSE UNCHANGED lifecycleVars
  /\ UNCHANGED <<next, retained_after>>
Finish(w, result) ==
  /\ slots' = IF FindsSlot(w)
              THEN [slots EXCEPT ![w.id] = Published(@, w.input, result)] ELSE slots
  /\ closed' = (closed \/ result = "interrupted" \/ ~FindsSlot(w))
  /\ workers' = workers \ {w}
  /\ IF ~w.retry /\ FindsSlot(w) /\ ~slots[w.id].held
     THEN DropGuard ELSE UNCHANGED lifecycleVars   \* the last owner of the guard
  /\ UNCHANGED <<next, retained_after>>

\* Worker::finish, and Worker::drop after a panic or an aborted task.
Publish(w) == w.stage = "ran" /\ Finish(w, w.result)
Interrupt(w) == Finish(w, "interrupted")

\* Ticket::take with the current epoch (an older one gets nothing).
Take(id) ==
  /\ id \in DOMAIN slots /\ ~slots[id].consumed /\ slots[id].outcome # NoOutcome
  /\ slots' = IF slots[id].held
              THEN [slots EXCEPT ![id] = [@ EXCEPT !.consumed = TRUE, !.outcome = NoOutcome]]
              ELSE Removed(id)
  /\ UNCHANGED <<next, closed, workers, retained_after, lifecycleVars>>

\* Jobs::take_ready and take_admission_ready: the oldest abandoned outcome.
Ready(admission) ==
  {id \in DOMAIN slots : /\ ~slots[id].held /\ slots[id].outcome # NoOutcome
                         /\ (slots[id].outcome.of = "admission") = admission}
First(S) == CHOOSE id \in S : \A j \in S : id <= j
TakeReady(admission) ==
  /\ Ready(admission) # {}
  /\ slots' = Removed(First(Ready(admission)))
  /\ UNCHANGED <<next, closed, workers, retained_after, lifecycleVars>>

\* Obligation::drop: unresolved evidence stays, as an uncertain outcome.
DropForgetting(id) ==
  /\ id \in DOMAIN slots /\ slots[id].held
  /\ slots' = IF slots[id].running \/ slots[id].outcome # NoOutcome
              THEN [slots EXCEPT ![id].held = FALSE] ELSE Removed(id)
  /\ IF slots[id].running THEN UNCHANGED lifecycleVars ELSE DropGuard
  /\ UNCHANGED <<next, closed, workers, retained_after>>
DropReleasingGuard(id) ==
  /\ id \in DOMAIN slots /\ slots[id].held
  /\ slots' = IF slots[id].running \/ slots[id].outcome # NoOutcome
              THEN [slots EXCEPT ![id].held = FALSE] ELSE Removed(id)
  /\ DropGuard
  /\ UNCHANGED <<next, closed, workers, retained_after>>
DropObligation(id) ==
  /\ id \in DOMAIN slots /\ slots[id].held
  /\ LET slot == slots[id]
         idle == ~slot.running /\ slot.outcome = NoOutcome
     IN slots' =
          IF idle /\ (slot.releasable \/ slot.snapshot = None) THEN Removed(id)
          ELSE [slots EXCEPT ![id] =
                 [@ EXCEPT !.held = FALSE,
                           !.snapshot = IF idle THEN None ELSE @,
                           !.outcome = IF idle THEN [of |-> slot.snapshot, result |-> "interrupted"]
                                       ELSE @]]
  /\ IF slots[id].running THEN UNCHANGED lifecycleVars ELSE DropGuard
  /\ UNCHANGED <<next, closed, workers, retained_after>>

-----------------------------------------------------------------------------
\* retry_terminal: the next slot after the cursor that nobody holds or runs.
Candidates == {id \in DOMAIN slots : id > retained_after /\ ~slots[id].held /\ ~slots[id].running}
Terminal(slot) == \/ slot.snapshot = "settle"
                  \/ slot.outcome.of = "settle" /\ slot.outcome.result \in {"unresolved", "interrupted"}

RetryWorker == {w \in workers : w.retry}

Retryable(slot) == Terminal(slot) /\ slot.epoch < U64Max

RetryTerminal ==
  LET id == First(Candidates)
      slot == slots[id]
  IN
  /\ RetryWorker = {}
  /\ IF Candidates = {}
     THEN /\ retained_after' = NoCursor
          /\ UNCHANGED <<slots, workers>>
     ELSE /\ retained_after' = id
          /\ IF slot.releasable THEN slots' = Removed(id) /\ UNCHANGED workers
             ELSE IF ~Retryable(slot) THEN UNCHANGED <<slots, workers>>
             ELSE /\ slots' = [slots EXCEPT ![id] =
                       [@ EXCEPT !.epoch = @ + 1, !.running = TRUE, !.snapshot = "settle",
                                 !.outcome = NoOutcome]]
                  /\ workers' = workers \cup {Queued(id, slot.epoch + 1, "settle", TRUE)}
  /\ UNCHANGED <<next, closed, lifecycleVars>>

\* ... and its last lock section, which drops a slot that is now settled.
RetryForget(id) ==
  /\ id \in DOMAIN slots
  /\ ~slots[id].held /\ ~slots[id].running /\ slots[id].releasable
  /\ slots' = Removed(id)
  /\ UNCHANGED <<next, closed, workers, retained_after, lifecycleVars>>

-----------------------------------------------------------------------------
JobsInit ==
  /\ LifecycleInit
  /\ slots = << >> /\ next = 0 /\ closed = FALSE /\ workers = {} /\ retained_after = NoCursor

\* The registry by itself: the ledger may answer anything the work allows.
RunWorker(w) ==
  /\ w.stage = "queued"
  /\ \E result \in ResultsOf[w.input] :
       workers' = (workers \ {w}) \cup {[w EXCEPT !.stage = "ran", !.result = result]}
  /\ UNCHANGED <<slots, next, closed, retained_after, lifecycleVars>>

JobsNext ==
  \/ Obligation
  \/ \E input \in Inputs : SubmitUnheld(input)
  \/ \E id \in DOMAIN slots, input \in Inputs : Submit(id, input) \/ Refuse(id, input)
  \/ \E id \in DOMAIN slots : Take(id) \/ DropObligation(id) \/ RetryForget(id)
  \/ \E w \in workers : RunWorker(w) \/ Publish(w) \/ Interrupt(w)
  \/ \E admission \in BOOLEAN : TakeReady(admission)
  \/ RetryTerminal
  \/ BeginQuiesce /\ UNCHANGED jobsVars

JobsSpec == JobsInit /\ [][JobsNext]_<<jobsVars, lifecycleVars>>

-----------------------------------------------------------------------------
(* The registry keeps its type: slots below the next id, epochs that do not  *)
(* wrap, an operation count that is never dropped twice.                     *)
JobsTypeOK ==
  /\ phase \in Phase /\ active \in Nat
  /\ next \in 0..U64Max /\ closed \in BOOLEAN
  /\ DOMAIN slots \subseteq 0..(next - 1)
  /\ \A id \in DOMAIN slots : slots[id] \in Slot
  /\ workers \subseteq Worker
  /\ retained_after \in Nat \cup {NoCursor}

(* However submissions, timeouts, dropped obligations, collected outcomes   *)
(* and terminal retries interleave, a slot that runs has exactly one worker *)
(* and each worker finds its own slot, at its own epoch, when it publishes: *)
(* no outcome is lost, none lands on later work, and the fail-closed branch *)
(* of Inner::finish for a missing slot is never taken.                      *)
WorkersOwnSlots ==
  /\ \A w \in workers : FindsSlot(w)
  /\ \A v, w \in workers : v.id = w.id => v = w
  /\ \A id \in DOMAIN slots : slots[id].running => \E w \in workers : w.id = id

(* The lifecycle counts an obligation until both its request and its        *)
(* worker are done with it, once: an idle lifecycle means that no worker    *)
(* outside recovery can still commit, and a busy one that somebody will.    *)
GuardsCounted ==
  active = Cardinality({id \in DOMAIN slots : slots[id].held}
                       \cup {w.id : w \in workers \ RetryWorker})

Evidence(slot) == slot.snapshot = "settle" \/ slot.outcome.of = "settle"

(* Terminal usage stays in the registry until its settlement committed or a *)
(* consumer took it: neither a refused submission, a panicking worker, a    *)
(* dropped obligation nor a failed retry lets go of the only copy.          *)
EvidenceRetained ==
  [][\A id \in DOMAIN slots : Evidence(slots[id]) =>
       \/ id \in DOMAIN slots' /\ (Evidence(slots'[id]) \/ slots'[id].releasable)
       \/ slots[id].releasable
       \/ slots[id].outcome # NoOutcome /\ ~slots[id].held /\ (Take(id) \/ TakeReady(FALSE))
    ]_<<jobsVars, lifecycleVars>>
=============================================================================
