--------------------------- MODULE EvidenceLedger ---------------------------
(***************************************************************************)
(* Tracked executions over the durable ledger (ledger/evidence.rs and       *)
(* ledger/evidence/dispatch.rs).  A tracked admission commits its intent    *)
(* with its reservation.  Before the provider may be called the intent's    *)
(* dispatch fence is moved from Prepared to Authorized, once; an admission  *)
(* that never got that far is closed instead.  A terminal observation       *)
(* freezes the charge, settlement writes that charge and an outbox receipt, *)
(* and receipts are handed to exporters under expiring claims.              *)
(*                                                                         *)
(* Each action is one committed IMMEDIATE transaction.  Replays and refused *)
(* calls (wrong scope, unknown id, conflicting usage) change nothing.       *)
(***************************************************************************)
EXTENDS SqliteLedger, FiniteSets

CONSTANTS
  Executions,      \* ledger-generated execution ids
  RetainedLimit,   \* intents kept, settled ones included
  Usages,          \* terminal usage a caller may report
  Weights,         \* operator cache-read weights in force when it is recorded
  ClaimLimit, ClaimSeconds, \* arguments of claim_settlements_durable
  MaxTokens        \* bound of the instance: claim tokens issued

Usage == [completeness : {"final", "partial", "unavailable"},
          basis : {"provider_reported", "estimated"}, tokens : Nat]

ASSUME EvidenceAssumption ==
  /\ RetainedLimit \in Nat /\ MaxTokens \in Nat
  /\ ClaimLimit \in Nat \ {0} /\ ClaimSeconds \in Nat \ {0}
  /\ Usages \subseteq Usage /\ Weights \subseteq Nat
ASSUME FiniteArguments == IsFiniteSet(Executions)

VARIABLES
  intents,     \* budget_execution_intent: execution -> reservation id
  fence,       \* budget_dispatch_fence: execution -> [phase, at]
  observed,    \* budget_terminal_observation: execution -> [usage, charge]
  outbox,      \* budget_settlement_outbox: reservation id -> receipt
  permits,     \* history: permits handed to a caller, per execution
  claims,      \* history: claims handed to exporters
  last_token   \* claim tokens are fresh

evidenceVars == <<intents, fence, observed, outbox, permits, claims, last_token>>
vars == <<ledgerVars, evidenceVars>>

Receipt == [charge : 0..I64Max, settled_at : Nat, token : Nat, claim_until : Nat,
            acknowledged : BOOLEAN]
NoToken == 0
Unpriced == -1   \* the frozen charge of an unavailable observation is NULL

Extend(f, k, v) == [x \in DOMAIN f \cup {k} |-> IF x = k THEN v ELSE f[x]]

RowOf(e) == rows[intents[e]]

-----------------------------------------------------------------------------
\* terminal_charge: only final, provider-reported usage may settle.
Chargeable(e) ==
  /\ e \in DOMAIN observed
  /\ observed[e].usage.completeness = "final"
  /\ observed[e].usage.basis = "provider_reported"

\* checked_terminal_receipt
ReceiptConsistent(e) ==
  LET id == intents[e] IN
  IF RowOf(e).settled
  THEN /\ id \in DOMAIN outbox /\ Chargeable(e)
       /\ observed[e].charge = RowOf(e).actual
       /\ outbox[id].charge = RowOf(e).actual
       /\ outbox[id].settled_at = RowOf(e).settled_at
  ELSE id \notin DOMAIN outbox /\ RowOf(e).actual = 0

\* checked_fence: the evidence each phase must come with.
FenceConsistent(e) ==
  LET bare == e \notin DOMAIN observed /\ intents[e] \notin DOMAIN outbox IN
  /\ fence[e].phase = "prepared" => ~RowOf(e).settled /\ RowOf(e).actual = 0 /\ bare
  /\ fence[e].phase = "authorized" => ReceiptConsistent(e)
  /\ fence[e].phase = "closed" => /\ RowOf(e).settled /\ RowOf(e).actual = 0
                                  /\ RowOf(e).settled_at = fence[e].at /\ bare

Fence(e, phase) == /\ e \in DOMAIN intents /\ e \in DOMAIN fence
                   /\ fence[e].phase = phase /\ FenceConsistent(e)

\* require_observable: usage of a prepared or closed execution is refused.
ObservableAlways(e) == e \in DOMAIN intents
Observable(e) == e \in DOMAIN intents /\ (e \in DOMAIN fence => Fence(e, "authorized"))

-----------------------------------------------------------------------------
\* reserve_intent: capacity, admission, intent and fence in one transaction.
ReserveIntentUntracked(e, s, ceiling, prepared) ==
  /\ e \notin DOMAIN intents /\ Cardinality(DOMAIN intents) < RetainedLimit
  /\ ReserveInTransaction(s, ceiling)
  /\ intents' = Extend(intents, e, last_id + 1)
  /\ fence' = IF prepared THEN Extend(fence, e, [phase |-> "prepared", at |-> 0]) ELSE fence
  /\ UNCHANGED <<now, budgets, tracked, dedup, observed, outbox, permits, claims, last_token>>
ReserveIntentReplacing(e, s, ceiling, prepared) ==
  /\ ReserveInTransaction(s, ceiling)
  /\ intents' = Extend(intents, e, last_id + 1)
  /\ tracked' = {intents'[d] : d \in DOMAIN intents'}
  /\ fence' = IF prepared THEN Extend(fence, e, [phase |-> "prepared", at |-> 0]) ELSE fence
  /\ UNCHANGED <<now, budgets, dedup, observed, outbox, permits, claims, last_token>>
ReserveIntent(e, s, ceiling, prepared) ==
  /\ e \notin DOMAIN intents
  /\ Cardinality(DOMAIN intents) < RetainedLimit
  /\ ReserveInTransaction(s, ceiling)
  /\ intents' = Extend(intents, e, last_id + 1)
  /\ tracked' = tracked \cup {last_id + 1}
  /\ fence' = IF prepared THEN Extend(fence, e, [phase |-> "prepared", at |-> 0]) ELSE fence
  /\ UNCHANGED <<now, budgets, dedup, observed, outbox, permits, claims, last_token>>

\* authorize_dispatch_durable.  Only the committing call gets the permit, and
\* a caller that dies after the commit never sees it.
AuthorizeReplay(e) ==
  /\ e \in DOMAIN fence /\ fence[e].phase \in {"prepared", "authorized"}
  /\ fence' = [fence EXCEPT ![e] = [phase |-> "authorized", at |-> Secs(now)]]
  /\ \E delivered \in {0, 1} : permits' = [permits EXCEPT ![e] = @ + delivered]
  /\ UNCHANGED <<ledgerVars, intents, observed, outbox, claims, last_token>>
Authorize(e) ==
  /\ Fence(e, "prepared")
  /\ RowOf(e).expires_at > Secs(now)
  /\ fence' = [fence EXCEPT ![e] = [phase |-> "authorized", at |-> Secs(now)]]
  /\ \E delivered \in {0, 1} : permits' = [permits EXCEPT ![e] = @ + delivered]
  /\ UNCHANGED <<ledgerVars, intents, observed, outbox, claims, last_token>>

\* close_before_dispatch_durable: the row is settled at zero in the same commit.
CloseAnyPhase(e) ==
  /\ e \in DOMAIN fence /\ ~RowOf(e).settled
  /\ fence' = [fence EXCEPT ![e] = [phase |-> "closed", at |-> Secs(now)]]
  /\ rows' = [rows EXCEPT ![intents[e]] = SettledRow(@, 0)]
  /\ UNCHANGED <<now, budgets, last_id, tracked, dedup>>
  /\ UNCHANGED <<intents, observed, outbox, permits, claims, last_token>>
CloseBeforeDispatch(e) ==
  /\ Fence(e, "prepared")
  /\ fence' = [fence EXCEPT ![e] = [phase |-> "closed", at |-> Secs(now)]]
  /\ rows' = [rows EXCEPT ![intents[e]] = SettledRow(@, 0)]
  /\ UNCHANGED <<now, budgets, last_id, tracked, dedup>>
  /\ UNCHANGED <<intents, observed, outbox, permits, claims, last_token>>

\* record_terminal_durable: the first observation freezes the charge at the
\* weight in force; an equal replay keeps it, a different one is refused.
FrozenCharge(u, w) == IF u.completeness = "unavailable" THEN Unpriced ELSE u.tokens * w
RecordTerminalUnchecked(e, u, w) ==
  /\ Observable(e) /\ e \notin DOMAIN observed /\ ~RowOf(e).settled
  /\ observed' = Extend(observed, e, [usage |-> u, charge |-> FrozenCharge(u, w)])
  /\ UNCHANGED <<ledgerVars, intents, fence, outbox, permits, claims, last_token>>
RecordTerminalAgain(e, u, w) ==
  /\ Observable(e) /\ ~RowOf(e).settled /\ FrozenCharge(u, w) <= I64Max
  /\ observed' = Extend(observed, e, [usage |-> u, charge |-> FrozenCharge(u, w)])
  /\ UNCHANGED <<ledgerVars, intents, fence, outbox, permits, claims, last_token>>
RecordTerminal(e, u, w) ==
  /\ Observable(e)
  /\ e \notin DOMAIN observed
  /\ ~RowOf(e).settled
  /\ FrozenCharge(u, w) <= I64Max
  /\ observed' = Extend(observed, e, [usage |-> u, charge |-> FrozenCharge(u, w)])
  /\ UNCHANGED <<ledgerVars, intents, fence, outbox, permits, claims, last_token>>

\* settle_receipt: the row and its receipt in one commit.
SettleReceipt(id, charge) ==
  /\ id \notin DOMAIN outbox
  /\ id \in DOMAIN rows /\ ~rows[id].settled
  /\ rows' = [rows EXCEPT ![id] = SettledRow(@, charge)]
  /\ outbox' = Extend(outbox, id, [charge |-> charge, settled_at |-> Secs(now),
                                   token |-> NoToken, claim_until |-> 0,
                                   acknowledged |-> FALSE])
  /\ UNCHANGED <<now, budgets, last_id, tracked, dedup>>
  /\ UNCHANGED <<intents, fence, observed, permits, claims, last_token>>

\* settle_terminal_durable
SettleTerminalUnchecked(e) ==
  /\ Observable(e) /\ e \in DOMAIN observed /\ observed[e].charge # Unpriced
  /\ SettleReceipt(intents[e], observed[e].charge)
SettleTerminal(e) ==
  /\ Observable(e)
  /\ Chargeable(e)
  /\ ReceiptConsistent(e)
  /\ SettleReceipt(intents[e], observed[e].charge)

\* settle_with_evidence_durable: the caller's charge, untracked rows only.
SettleWithEvidenceAny(id, charge) == charge <= I64Max /\ SettleReceipt(id, charge)
SettleWithEvidence(id, charge) ==
  /\ id \notin tracked
  /\ charge <= I64Max
  /\ SettleReceipt(id, charge)

-----------------------------------------------------------------------------
\* Receipts a claim may take: never claimed, or their claim has lapsed.
PendingIncludingClaimed == {id \in DOMAIN outbox : ~outbox[id].acknowledged}
Pending ==
  {id \in DOMAIN outbox : ~outbox[id].acknowledged /\ outbox[id].claim_until <= Secs(now)}

\* claim_settlements_durable, one transaction: the oldest pending receipts,
\* ties by opaque receipt id.
ClaimBatch(S) ==
  /\ S \subseteq Pending /\ S # {}
  /\ Cardinality(S) <= ClaimLimit
  /\ Cardinality(S) < ClaimLimit => S = Pending
  /\ \A i \in S, j \in Pending \ S : outbox[i].settled_at <= outbox[j].settled_at
ClaimSettlements(S) ==
  /\ ClaimBatch(S)
  /\ last_token + Cardinality(S) <= MaxTokens
  /\ \E token \in [S -> last_token + 1 .. last_token + Cardinality(S)] :
       /\ \A i, j \in S : i # j => token[i] # token[j]
       /\ outbox' = [id \in DOMAIN outbox |->
            IF id \in S THEN [outbox[id] EXCEPT !.token = token[id],
                                                !.claim_until = Secs(now) + ClaimSeconds]
            ELSE outbox[id]]
       /\ claims' = claims \cup {[id |-> id, token |-> token[id],
                                  until |-> Secs(now) + ClaimSeconds] : id \in S}
  /\ last_token' = last_token + Cardinality(S)
  /\ UNCHANGED <<ledgerVars, intents, fence, observed, permits>>

Acknowledge(c) ==
  /\ c.id \in DOMAIN outbox
  /\ outbox[c.id].token = c.token
  /\ outbox[c.id].claim_until > Secs(now)
  /\ ~outbox[c.id].acknowledged
  /\ outbox' = [outbox EXCEPT ![c.id].acknowledged = TRUE]
  /\ UNCHANGED <<ledgerVars, intents, fence, observed, permits, claims, last_token>>

-----------------------------------------------------------------------------
Init ==
  /\ LedgerInit
  /\ intents = << >> /\ fence = << >> /\ observed = << >> /\ outbox = << >>
  /\ permits = [e \in Executions |-> 0]
  /\ claims = {} /\ last_token = NoToken

\* Untracked traffic on the same ledger.
LedgerStep == LedgerNext /\ UNCHANGED evidenceVars

Next ==
  \/ LedgerStep
  \/ \E e \in Executions, s \in Scopes, c \in Ceilings, prepared \in BOOLEAN :
       ReserveIntent(e, s, c, prepared)
  \/ \E e \in Executions : Authorize(e) \/ CloseBeforeDispatch(e) \/ SettleTerminal(e)
  \/ \E e \in Executions, u \in Usages, w \in Weights : RecordTerminal(e, u, w)
  \/ \E id \in 1..MaxRows, charge \in Actuals : SettleWithEvidence(id, charge)
  \/ \E S \in SUBSET DOMAIN outbox : ClaimSettlements(S)
  \/ \E c \in claims : Acknowledge(c)

Spec == Init /\ [][Next]_vars

-----------------------------------------------------------------------------
(* The tables refer to each other: fences and observations to intents,       *)
(* intents and receipts to reservations, claims to receipts; frozen charges  *)
(* fit the signed column of record_terminal_durable.                         *)
TypeOK ==
  /\ now \in Nat /\ last_id \in Nat
  /\ DOMAIN rows \subseteq 1..last_id
  /\ \A i \in DOMAIN rows : rows[i] \in Row
  /\ DOMAIN intents \subseteq Executions
  /\ \A e \in DOMAIN intents : intents[e] \in 1..last_id
  /\ DOMAIN fence \subseteq DOMAIN intents
  /\ \A e \in DOMAIN fence :
       fence[e] \in [phase : {"prepared", "authorized", "closed"}, at : Nat]
  /\ DOMAIN observed \subseteq DOMAIN intents
  /\ \A e \in DOMAIN observed :
       /\ observed[e] \in [usage : Usages, charge : 0..I64Max \cup {Unpriced}]
       /\ observed[e].charge = Unpriced => observed[e].usage.completeness = "unavailable"
  /\ DOMAIN outbox \subseteq DOMAIN rows
  /\ \A i \in DOMAIN outbox : outbox[i] \in Receipt
  /\ permits \in [Executions -> Nat]
  /\ \A c \in claims : c \in [id : DOMAIN outbox, token : 1..last_token, until : Nat]
  /\ last_token \in Nat

(* Recovery and settlement read several tables and fail closed when they     *)
(* disagree (InconsistentDispatch, InconsistentSettlement, LegacySettlement, *)
(* CorruptObservation).  However authorization, closure, observation,        *)
(* settlement, plain traffic and the reclaim sweep interleave, the ledger    *)
(* never puts an execution of its own into such a state.                     *)
EvidenceConsistent ==
  \A e \in DOMAIN intents :
    /\ intents[e] \in DOMAIN rows
    /\ IF e \in DOMAIN fence THEN FenceConsistent(e) ELSE ReceiptConsistent(e)

(* Two intents never share a reservation, and exactly the reservations of    *)
(* intents are exempt from legacy settlement and from reclaim.               *)
IntentsOwnReservations ==
  /\ tracked = {intents[e] : e \in DOMAIN intents}
  /\ \A d, e \in DOMAIN intents : intents[d] = intents[e] => d = e

(* At most one dispatch permit is ever handed out for an execution, whatever *)
(* is replayed or lost after the commit, and none for an execution that was  *)
(* or will be closed before dispatch: at most one call reaches the provider. *)
PermitOnce ==
  \A e \in Executions :
    /\ permits[e] <= 1
    /\ permits[e] = 1 => e \in DOMAIN fence /\ fence[e].phase = "authorized"

\* How a step may treat the reservation of a tracked execution.
LiabilityKept ==
  \A e \in DOMAIN intents :
    LET id == intents[e] IN
    /\ e \in DOMAIN intents' /\ intents'[e] = id /\ id \in DOMAIN rows'
    /\ rows'[id] # rows[id] =>
         /\ ~rows[id].settled
         /\ \/ /\ e \in DOMAIN fence' /\ fence'[e].phase = "closed"
               /\ permits[e] = 0 /\ rows'[id].actual = 0
            \/ Chargeable(e) /\ rows'[id].actual = observed[e].charge

(* A tracked reservation outlives its TTL.  Its row never disappears, and it *)
(* is released only by a closure before dispatch, at zero, or at exactly the *)
(* charge frozen from final provider-reported usage.                         *)
LiabilityRetained == [][LiabilityKept]_vars

\* How a step may treat frozen charges and receipts.
ChargesKept ==
  /\ \A e \in DOMAIN observed : e \in DOMAIN observed' /\ observed'[e] = observed[e]
  /\ \A i \in DOMAIN outbox :
       /\ i \in DOMAIN outbox'
       /\ outbox'[i].charge = outbox[i].charge
       /\ outbox'[i].settled_at = outbox[i].settled_at
       /\ outbox[i].acknowledged => outbox'[i] = outbox[i]

(* A frozen charge is never revised: not by a replay after the operator's    *)
(* cache-read weight changed, and not by settlement or acknowledgement.  The *)
(* receipt an exporter sees carries that same charge for ever, and an        *)
(* acknowledged receipt stays acknowledged.                                  *)
ChargeImmutable == [][ChargesKept]_vars

(* Reissuing a claim fences the previous exporter: of the claims ever handed *)
(* out for a receipt at most one is unexpired, and it is the one recorded.   *)
OneLiveClaim ==
  \A c \in claims :
    /\ outbox[c.id].token >= c.token
    /\ outbox[c.id].token = c.token => outbox[c.id].claim_until = c.until
    /\ c.until > Secs(now) => outbox[c.id].token = c.token


-----------------------------------------------------------------------------
\* Every outbox receipt belongs to a settled row.
OutboxSettled ==
  \A i \in DOMAIN outbox : /\ rows[i].settled /\ rows[i].actual = outbox[i].charge
                           /\ rows[i].settled_at = outbox[i].settled_at

\* The inductive invariant behind the theorems of EvidenceLedger_proofs.
IInv ==
  /\ TypeOK
  /\ IntentsOwnReservations
  /\ EvidenceConsistent
  /\ OutboxSettled
  /\ PermitOnce
  /\ OneLiveClaim
=============================================================================
