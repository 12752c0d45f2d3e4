------------------------ MODULE EvidenceLedger_proofs ------------------------
(***************************************************************************)
(* TLAPS proofs about tracked executions, for every number of executions,   *)
(* scopes and rows, every TTL and claim length.  The sums an admission is   *)
(* decided on play no part: an admission is any step that inserts a row.    *)
(***************************************************************************)
EXTENDS EvidenceLedger, FiniteSetTheorems, TLAPS

(* Timestamps are stored in whole seconds: truncation keeps the clock a      *)
(* natural number and keeps its order.                                       *)
LEMMA SecsNat == ASSUME NEW t \in Nat PROVE Secs(t) \in Nat
  BY ClockAssumption DEF Secs

(* A later clock reads no earlier second, so an expired claim stays expired. *)
LEMMA SecsMonotone == ASSUME NEW t \in Nat PROVE Secs(t + 1) >= Secs(t)
  BY ClockAssumption DEF Secs

(* The empty ledger satisfies the inductive invariant.                       *)
LEMMA InitIInv == Init => IInv
  BY DEF Init, LedgerInit, IInv, TypeOK, IntentsOwnReservations, EvidenceConsistent,
         OutboxSettled, PermitOnce, OneLiveClaim, NoToken

-----------------------------------------------------------------------------
(* What every operation of the plain ledger does to the reservation table:   *)
(* rows that are settled or tracked stay exactly as they are.                *)
KeepsEvidenceRows ==
  /\ last_id' \in Nat /\ last_id' >= last_id
  /\ DOMAIN rows' \subseteq 1..last_id'
  /\ \A i \in DOMAIN rows' : rows'[i] \in Row
  /\ \A i \in DOMAIN rows : (i \in tracked \/ rows[i].settled) =>
       i \in DOMAIN rows' /\ rows'[i] = rows[i]

(* An admission reclaims only expired untracked leases and inserts one row   *)
(* under a fresh id.                                                         *)
LEMMA ReserveKeeps ==
  ASSUME TypeOK, NEW s \in Scopes, NEW c \in Ceilings, ReserveInTransaction(s, c)
  PROVE  /\ KeepsEvidenceRows
         /\ last_id' = last_id + 1
         /\ last_id + 1 \in DOMAIN rows'
         /\ rows'[last_id + 1] = NewRow(s, c)
         /\ \A i \in DOMAIN rows' : i # last_id + 1 => i \in DOMAIN rows
  <1>1. NewRow(s, c) \in Row
    <2>1. Secs(now + Ttl) \in Nat
      BY ClockAssumption, SecsNat DEF TypeOK
    <2> QED BY <2>1, ArgumentAssumption DEF NewRow, Row
  <1>2. DOMAIN AfterReclaim(s) = DOMAIN rows \ {i \in Reapable(rows) : rows[i].scope = s}
    BY DEF AfterReclaim, Without
  <1> QED BY <1>1, <1>2 DEF ReserveInTransaction, KeepsEvidenceRows, TypeOK, Reapable

(* The row that settlement or closure writes is a row of the table.          *)
LEMMA SettledRowType ==
  ASSUME TypeOK, NEW i \in DOMAIN rows, NEW charge \in Int
  PROVE  SettledRow(rows[i], charge) \in Row
  <1>1. rows[i] \in Row /\ Secs(now) \in Nat
    BY SecsNat DEF TypeOK
  <1> QED BY <1>1 DEF SettledRow, Row

(* reserve, settle, the sweep, a change of cap and the clock all keep the    *)
(* rows evidence depends on.                                                 *)
LEMMA LedgerNextKeeps ==
  ASSUME TypeOK, LedgerNext
  PROVE  KeepsEvidenceRows /\ tracked' = tracked /\ now' \in Nat /\ (now' = now \/ now' = now + 1)
  <1>1. ASSUME NEW s \in Scopes, NEW c \in Ceilings, Reserve(s, c)
        PROVE  KeepsEvidenceRows /\ UNCHANGED <<tracked, now>>
    BY <1>1, ReserveKeeps DEF Reserve
  <1>2. ASSUME NEW i \in 1..MaxRows, NEW a \in Actuals, Settle(i, a)
        PROVE  KeepsEvidenceRows /\ UNCHANGED <<tracked, now>>
    <2>1. AsI64(a) \in Int
      BY ArgumentAssumption DEF AsI64
    <2> QED BY <1>2, <2>1, SettledRowType
            DEF Settle, SettleRow, KeepsEvidenceRows, TypeOK
  <1>3. ASSUME ReclaimExpired PROVE KeepsEvidenceRows /\ UNCHANGED <<tracked, now>>
    BY <1>3 DEF ReclaimExpired, KeepsEvidenceRows, TypeOK, Without, Reapable
  <1>4. ASSUME NEW s \in Scopes, NEW b \in Budgets, SetLimit(s, b)
        PROVE  KeepsEvidenceRows /\ UNCHANGED <<tracked, now>>
    BY <1>4 DEF SetLimit, KeepsEvidenceRows, TypeOK
  <1>5. ASSUME Tick
        PROVE  KeepsEvidenceRows /\ tracked' = tracked /\ now' = now + 1
    BY <1>5 DEF Tick, KeepsEvidenceRows, TypeOK
  <1> QED BY <1>1, <1>2, <1>3, <1>4, <1>5 DEF LedgerNext, TypeOK

-----------------------------------------------------------------------------
(* The consistency of one execution, and the step that leaves everything it  *)
(* is made of alone.                                                         *)
Consistent(d) ==
  /\ intents[d] \in DOMAIN rows
  /\ IF d \in DOMAIN fence THEN FenceConsistent(d) ELSE ReceiptConsistent(d)
SameEvidence(d) ==
  /\ d \in DOMAIN intents /\ intents'[d] = intents[d]
  /\ intents[d] \in DOMAIN rows' /\ rows'[intents[d]] = rows[intents[d]]
  /\ d \in DOMAIN fence' <=> d \in DOMAIN fence
  /\ d \in DOMAIN fence => fence'[d] = fence[d]
  /\ d \in DOMAIN observed' <=> d \in DOMAIN observed
  /\ d \in DOMAIN observed => observed'[d] = observed[d]
  /\ intents[d] \in DOMAIN outbox' <=> intents[d] \in DOMAIN outbox
  /\ intents[d] \in DOMAIN outbox =>
       /\ outbox'[intents[d]].charge = outbox[intents[d]].charge
       /\ outbox'[intents[d]].settled_at = outbox[intents[d]].settled_at

(* Evidence is consistent when that of each execution is.                    *)
LEMMA EachConsistent ==
  ASSUME \A d \in DOMAIN intents' : Consistent(d)' PROVE EvidenceConsistent'
  BY DEF EvidenceConsistent, Consistent

(* An execution whose evidence a step leaves alone stays consistent.         *)
LEMMA EvidenceFrame ==
  ASSUME EvidenceConsistent, NEW d, SameEvidence(d) PROVE Consistent(d)'
  <1>1. Consistent(d)
    BY DEF EvidenceConsistent, SameEvidence, Consistent
  <1>2. ReceiptConsistent(d) => ReceiptConsistent(d)'
    BY DEF SameEvidence, ReceiptConsistent, Chargeable, RowOf
  <1>3. ASSUME d \in DOMAIN fence, FenceConsistent(d) PROVE FenceConsistent(d)'
    <2>1. fence'[d] = fence[d] /\ RowOf(d)' = RowOf(d)
      BY <1>3 DEF SameEvidence, RowOf
    <2>2. /\ d \in DOMAIN observed' <=> d \in DOMAIN observed
          /\ intents'[d] \in DOMAIN outbox' <=> intents[d] \in DOMAIN outbox
      BY DEF SameEvidence
    <2> QED BY <1>2, <1>3, <2>1, <2>2 DEF FenceConsistent
  <1> QED BY <1>1, <1>2, <1>3 DEF Consistent, SameEvidence

-----------------------------------------------------------------------------
(* Plain traffic on the same file never disturbs tracked evidence.           *)
LEMMA LedgerStepIInv == ASSUME IInv, LedgerStep PROVE IInv'
  <1> USE DEF IInv
  <1>1. KeepsEvidenceRows /\ tracked' = tracked /\ now' \in Nat /\ (now' = now \/ now' = now + 1)
    BY LedgerNextKeeps DEF LedgerStep
  <1>2. UNCHANGED evidenceVars
    BY DEF LedgerStep
  <1>3. \A e \in DOMAIN intents : /\ intents[e] \in DOMAIN rows'
                                  /\ rows'[intents[e]] = rows[intents[e]]
    BY <1>1 DEF KeepsEvidenceRows, IntentsOwnReservations, EvidenceConsistent
  <1>4. \A i \in DOMAIN outbox : i \in DOMAIN rows' /\ rows'[i] = rows[i]
    BY <1>1 DEF KeepsEvidenceRows, OutboxSettled, TypeOK
  <1>5. Secs(now') >= Secs(now) /\ Secs(now) \in Int /\ Secs(now') \in Int
    BY <1>1, SecsNat, SecsMonotone DEF TypeOK
  <1>6. TypeOK'
    BY <1>1, <1>2, <1>4 DEF TypeOK, KeepsEvidenceRows, evidenceVars
  <1>7. IntentsOwnReservations'
    BY <1>1, <1>2 DEF IntentsOwnReservations, evidenceVars
  <1>8. EvidenceConsistent'
    <2>1. \A d \in DOMAIN intents : SameEvidence(d)
      BY <1>2, <1>3 DEF SameEvidence, evidenceVars
    <2> QED BY <1>2, <2>1, EvidenceFrame, EachConsistent DEF evidenceVars
  <1>9. OutboxSettled'
    BY <1>2, <1>4 DEF OutboxSettled, evidenceVars
  <1>10. PermitOnce'
    BY <1>2 DEF PermitOnce, evidenceVars
  <1>11. OneLiveClaim'
    BY <1>2, <1>5 DEF OneLiveClaim, TypeOK, evidenceVars
  <1> QED BY <1>6, <1>7, <1>8, <1>9, <1>10, <1>11

(* A tracked admission binds a fresh execution to a fresh row.              *)
LEMMA ReserveIntentIInv ==
  ASSUME IInv, NEW e \in Executions, NEW s \in Scopes, NEW c \in Ceilings,
         NEW prepared \in BOOLEAN, ReserveIntent(e, s, c, prepared)
  PROVE  IInv'
  <1> USE DEF IInv
  <1> DEFINE id == last_id + 1
  <1>1. /\ KeepsEvidenceRows /\ last_id' = id
        /\ id \in DOMAIN rows' /\ rows'[id] = NewRow(s, c)
    BY ReserveKeeps DEF ReserveIntent
  <1>2. /\ e \notin DOMAIN intents
        /\ DOMAIN intents' = DOMAIN intents \cup {e}
        /\ intents'[e] = id
        /\ \A d \in DOMAIN intents : intents'[d] = intents[d]
        /\ tracked' = tracked \cup {id}
        /\ UNCHANGED <<now, observed, outbox, permits, claims, last_token>>
    BY DEF ReserveIntent, Extend
  <1>3. /\ DOMAIN fence' = IF prepared THEN DOMAIN fence \cup {e} ELSE DOMAIN fence
        /\ prepared => fence'[e] = [phase |-> "prepared", at |-> 0]
        /\ \A d \in DOMAIN fence : fence'[d] = fence[d]
        /\ e \notin DOMAIN fence /\ e \notin DOMAIN observed
    BY <1>2 DEF ReserveIntent, Extend, TypeOK
  <1>4. \A d \in DOMAIN intents : /\ intents[d] \in DOMAIN rows'
                                  /\ rows'[intents[d]] = rows[intents[d]]
    BY <1>1 DEF KeepsEvidenceRows, IntentsOwnReservations, EvidenceConsistent
  <1>5. \A i \in DOMAIN outbox : i \in DOMAIN rows' /\ rows'[i] = rows[i] /\ i # id
    BY <1>1 DEF KeepsEvidenceRows, OutboxSettled, TypeOK
  <1>6. TypeOK'
    BY <1>1, <1>2, <1>3, <1>5 DEF TypeOK, KeepsEvidenceRows
  <1>7. IntentsOwnReservations'
    BY <1>2 DEF IntentsOwnReservations, TypeOK
  <1>8. EvidenceConsistent'
    <2>1. Consistent(e)'
      <3>1. rows'[id].settled = FALSE /\ rows'[id].actual = 0
        BY <1>1 DEF NewRow
      <3>2. id \notin DOMAIN outbox' /\ e \notin DOMAIN observed'
        BY <1>2, <1>3, <1>5
      <3>3. ReceiptConsistent(e)'
        BY <1>2, <3>1, <3>2 DEF ReceiptConsistent, RowOf
      <3>4. e \in DOMAIN fence' => FenceConsistent(e)'
        BY <1>2, <1>3, <3>1, <3>2 DEF FenceConsistent, RowOf
      <3> QED BY <1>1, <1>2, <3>3, <3>4 DEF Consistent
    <2>2. \A d \in DOMAIN intents : SameEvidence(d)
      BY <1>2, <1>3, <1>4 DEF SameEvidence
    <2> QED BY <1>2, <2>1, <2>2, EvidenceFrame, EachConsistent
  <1>9. OutboxSettled'
    BY <1>2, <1>5 DEF OutboxSettled
  <1>10. PermitOnce'
    BY <1>2, <1>3 DEF PermitOnce
  <1>11. OneLiveClaim'
    BY <1>2 DEF OneLiveClaim
  <1> QED BY <1>6, <1>7, <1>8, <1>9, <1>10, <1>11

(* Authorization moves a prepared fence on and hands out its only permit.   *)
LEMMA AuthorizeIInv ==
  ASSUME IInv, NEW e \in Executions, Authorize(e)
  PROVE  IInv'
  <1> USE DEF IInv
  <1>1. /\ e \in DOMAIN intents /\ e \in DOMAIN fence
        /\ fence[e].phase = "prepared" /\ FenceConsistent(e)
        /\ fence' = [fence EXCEPT ![e] = [phase |-> "authorized", at |-> Secs(now)]]
        /\ UNCHANGED <<ledgerVars, intents, observed, outbox, claims, last_token>>
    BY DEF Authorize, Fence
  <1>2. Secs(now) \in Nat
    BY SecsNat DEF TypeOK
  <1>3. PICK delivered \in {0, 1} : permits' = [permits EXCEPT ![e] = @ + delivered]
    BY DEF Authorize
  <1>4. permits[e] = 0
    <2>1. permits[e] \in Nat BY DEF TypeOK
    <2>2. permits[e] <= 1 /\ permits[e] # 1
      BY <1>1 DEF PermitOnce
    <2> QED BY <2>1, <2>2
  <1>5. TypeOK'
    BY <1>1, <1>2, <1>3 DEF TypeOK, ledgerVars
  <1>6. EvidenceConsistent'
    <2>1. Consistent(e)'
      <3>1. intents[e] \in DOMAIN rows /\ ~RowOf(e).settled /\ RowOf(e).actual = 0
            /\ intents[e] \notin DOMAIN outbox
        BY <1>1 DEF EvidenceConsistent, FenceConsistent
      <3>2. ReceiptConsistent(e)'
        BY <1>1, <3>1 DEF ReceiptConsistent, RowOf, ledgerVars
      <3>3. e \in DOMAIN fence' /\ fence'[e].phase = "authorized"
        BY <1>1
      <3> QED BY <1>1, <3>1, <3>2, <3>3 DEF Consistent, FenceConsistent, ledgerVars
    <2>2. \A d \in DOMAIN intents : d # e => SameEvidence(d)
      BY <1>1 DEF SameEvidence, EvidenceConsistent, ledgerVars
    <2> QED BY <1>1, <2>1, <2>2, EvidenceFrame, EachConsistent
  <1>7. PermitOnce'
    BY <1>1, <1>3, <1>4 DEF PermitOnce, TypeOK
  <1>8. IntentsOwnReservations' /\ OutboxSettled' /\ OneLiveClaim'
    BY <1>1 DEF IntentsOwnReservations, OutboxSettled, OneLiveClaim, ledgerVars
  <1> QED BY <1>5, <1>6, <1>7, <1>8

(* Closure settles the row of a prepared execution at zero.                 *)
LEMMA CloseIInv ==
  ASSUME IInv, NEW e \in Executions, CloseBeforeDispatch(e)
  PROVE  IInv'
  <1> USE DEF IInv
  <1> DEFINE id == intents[e]
  <1>1. /\ e \in DOMAIN intents /\ e \in DOMAIN fence
        /\ fence[e].phase = "prepared" /\ FenceConsistent(e)
        /\ fence' = [fence EXCEPT ![e] = [phase |-> "closed", at |-> Secs(now)]]
        /\ rows' = [rows EXCEPT ![id] = SettledRow(@, 0)]
        /\ UNCHANGED <<now, last_id, tracked, intents, observed, outbox, permits, claims, last_token>>
    BY DEF CloseBeforeDispatch, Fence
  <1>2. Secs(now) \in Nat
    BY SecsNat DEF TypeOK
  <1>3. id \in DOMAIN rows /\ rows[id] \in Row /\ SettledRow(rows[id], 0) \in Row
    <2>1. id \in DOMAIN rows BY <1>1 DEF EvidenceConsistent
    <2>2. rows[id] \in Row BY <2>1 DEF TypeOK
    <2>3. SettledRow(rows[id], 0) \in Row BY <2>1, SettledRowType
    <2> QED BY <2>1, <2>2, <2>3
  <1>4. /\ DOMAIN rows' = DOMAIN rows
        /\ rows'[id] = SettledRow(rows[id], 0)
        /\ \A i \in DOMAIN rows : i # id => rows'[i] = rows[i]
        /\ DOMAIN fence' = DOMAIN fence
        /\ fence'[e] = [phase |-> "closed", at |-> Secs(now)]
        /\ \A d \in DOMAIN fence : d # e => fence'[d] = fence[d]
    BY <1>1, <1>3
  <1>5. id \notin DOMAIN outbox /\ e \notin DOMAIN observed /\ ~rows[id].settled
    BY <1>1 DEF FenceConsistent, RowOf
  <1>6. /\ rows'[id].settled /\ rows'[id].actual = 0 /\ rows'[id].settled_at = Secs(now)
    BY <1>3, <1>4 DEF SettledRow, Row
  <1>7. TypeOK'
    BY <1>1, <1>2, <1>3, <1>4 DEF TypeOK
  <1>8. EvidenceConsistent'
    <2>1. Consistent(e)'
      BY <1>1, <1>3, <1>4, <1>5, <1>6 DEF Consistent, FenceConsistent, RowOf
    <2>2. ASSUME NEW d \in DOMAIN intents, d # e PROVE SameEvidence(d)
      <3>1. intents[d] # id /\ intents[d] \in DOMAIN rows
        BY <1>1, <2>2 DEF IntentsOwnReservations, EvidenceConsistent
      <3> QED BY <1>1, <1>4, <2>2, <3>1 DEF SameEvidence
    <2> QED BY <1>1, <2>1, <2>2, EvidenceFrame, EachConsistent
  <1>9. OutboxSettled'
    BY <1>1, <1>4, <1>5 DEF OutboxSettled, TypeOK
  <1>10. PermitOnce'
    BY <1>1, <1>4 DEF PermitOnce
  <1>11. IntentsOwnReservations' /\ OneLiveClaim'
    BY <1>1 DEF IntentsOwnReservations, OneLiveClaim
  <1> QED BY <1>7, <1>8, <1>9, <1>10, <1>11

(* The first terminal observation freezes a charge that fits the column.    *)
LEMMA RecordIInv ==
  ASSUME IInv, NEW e \in Executions, NEW u \in Usages, NEW w \in Weights,
         RecordTerminal(e, u, w)
  PROVE  IInv'
  <1> USE DEF IInv
  <1>1. /\ e \in DOMAIN intents /\ (e \in DOMAIN fence => fence[e].phase = "authorized")
        /\ e \notin DOMAIN observed /\ ~RowOf(e).settled
        /\ UNCHANGED <<ledgerVars, intents, fence, outbox, permits, claims, last_token>>
    BY DEF RecordTerminal, Observable, Fence
  <1>2. /\ DOMAIN observed' = DOMAIN observed \cup {e}
        /\ observed'[e] = [usage |-> u, charge |-> FrozenCharge(u, w)]
        /\ \A d \in DOMAIN observed : observed'[d] = observed[d]
    BY <1>1 DEF RecordTerminal, Extend
  <1>3. /\ FrozenCharge(u, w) \in 0..I64Max \cup {Unpriced}
        /\ FrozenCharge(u, w) = Unpriced => u.completeness = "unavailable"
    <2>1. u.tokens \in Nat /\ w \in Nat
      BY EvidenceAssumption DEF Usage
    <2>2. u.tokens * w \in Nat
      BY <2>1
    <2>3. FrozenCharge(u, w) <= I64Max /\ I64Max \in Nat
      BY ArgumentAssumption DEF RecordTerminal
    <2> QED BY <2>2, <2>3 DEF FrozenCharge, Unpriced
  <1>4. TypeOK'
    <2>1. \A d \in DOMAIN observed' :
            /\ observed'[d] \in [usage : Usages, charge : 0..I64Max \cup {Unpriced}]
            /\ observed'[d].charge = Unpriced => observed'[d].usage.completeness = "unavailable"
      <3>1. [usage |-> u, charge |-> FrozenCharge(u, w)]
              \in [usage : Usages, charge : 0..I64Max \cup {Unpriced}]
        BY <1>3
      <3>2. \A d \in DOMAIN observed' : d = e \/ (d \in DOMAIN observed /\ observed'[d] = observed[d])
        BY <1>2
      <3>3. \A d \in DOMAIN observed :
              /\ observed[d] \in [usage : Usages, charge : 0..I64Max \cup {Unpriced}]
              /\ observed[d].charge = Unpriced => observed[d].usage.completeness = "unavailable"
        BY DEF TypeOK
      <3>4. observed'[e].charge = FrozenCharge(u, w) /\ observed'[e].usage = u
        BY <1>2
      <3>5. observed'[e] \in [usage : Usages, charge : 0..I64Max \cup {Unpriced}]
        BY <1>2, <3>1
      <3>6. observed'[e].charge = Unpriced => observed'[e].usage.completeness = "unavailable"
        BY <1>3, <3>4
      <3> QED BY <3>2, <3>3, <3>5, <3>6
    <2>2. DOMAIN observed' \subseteq DOMAIN intents'
      BY <1>1, <1>2 DEF TypeOK
    <2> QED BY <1>1, <2>1, <2>2 DEF TypeOK, ledgerVars
  <1>5. EvidenceConsistent'
    <2>1. Consistent(e)'
      <3>1. intents[e] \in DOMAIN rows /\ ReceiptConsistent(e)
        BY <1>1 DEF EvidenceConsistent, FenceConsistent
      <3>2. ReceiptConsistent(e)'
        BY <1>1, <3>1 DEF ReceiptConsistent, RowOf, ledgerVars
      <3> QED BY <1>1, <3>1, <3>2 DEF Consistent, FenceConsistent, ledgerVars
    <2>2. \A d \in DOMAIN intents : d # e => SameEvidence(d)
      BY <1>1, <1>2 DEF SameEvidence, EvidenceConsistent, ledgerVars
    <2> QED BY <1>1, <2>1, <2>2, EvidenceFrame, EachConsistent
  <1>6. IntentsOwnReservations'
    BY <1>1 DEF IntentsOwnReservations, ledgerVars
  <1>7. OutboxSettled'
    BY <1>1 DEF OutboxSettled, ledgerVars
  <1>8. PermitOnce'
    BY <1>1 DEF PermitOnce
  <1>9. OneLiveClaim'
    BY <1>1 DEF OneLiveClaim, ledgerVars
  <1> QED BY <1>4, <1>5, <1>6, <1>7, <1>8, <1>9

(* What settle_receipt does to one row and the outbox, and nothing else.    *)
ReceiptSettled(id, charge) ==
  /\ id \in DOMAIN rows /\ ~rows[id].settled /\ id \notin DOMAIN outbox
  /\ DOMAIN rows' = DOMAIN rows
  /\ rows'[id].settled /\ rows'[id].actual = charge /\ rows'[id].settled_at = Secs(now)
  /\ \A i \in DOMAIN rows : i # id => rows'[i] = rows[i]
  /\ DOMAIN outbox' = DOMAIN outbox \cup {id}
  /\ outbox'[id].charge = charge /\ outbox'[id].settled_at = Secs(now)
  /\ \A i \in DOMAIN outbox : outbox'[i] = outbox[i]
  /\ UNCHANGED <<intents, fence, observed, permits, claims, now>>

(* Writing a receipt disturbs only the evidence of its own row.             *)
LEMMA SettleReceiptEffect ==
  ASSUME IInv, NEW id, NEW charge \in 0..I64Max, SettleReceipt(id, charge)
  PROVE  /\ ReceiptSettled(id, charge)
         /\ TypeOK' /\ OutboxSettled' /\ OneLiveClaim' /\ PermitOnce'
         /\ IntentsOwnReservations'
  <1> USE DEF IInv
  <1>1. /\ id \in DOMAIN rows /\ ~rows[id].settled /\ id \notin DOMAIN outbox
        /\ rows' = [rows EXCEPT ![id] = SettledRow(@, charge)]
        /\ UNCHANGED <<now, last_id, tracked, intents, fence, observed, permits, claims,
                       last_token>>
    BY DEF SettleReceipt
  <1>2. rows[id] \in Row /\ SettledRow(rows[id], charge) \in Row
    <2>1. charge \in Int BY ArgumentAssumption
    <2>2. rows[id] \in Row BY <1>1 DEF TypeOK
    <2>3. SettledRow(rows[id], charge) \in Row BY <1>1, <2>1, SettledRowType
    <2> QED BY <2>2, <2>3
  <1>3. /\ DOMAIN rows' = DOMAIN rows /\ rows'[id] = SettledRow(rows[id], charge)
        /\ \A i \in DOMAIN rows : i # id => rows'[i] = rows[i]
    BY <1>1
  <1>4. rows'[id].settled /\ rows'[id].actual = charge /\ rows'[id].settled_at = Secs(now)
    BY <1>2, <1>3 DEF SettledRow, Row
  <1>5. /\ DOMAIN outbox' = DOMAIN outbox \cup {id}
        /\ outbox'[id] = [charge |-> charge, settled_at |-> Secs(now), token |-> NoToken,
                          claim_until |-> 0, acknowledged |-> FALSE]
        /\ \A i \in DOMAIN outbox : outbox'[i] = outbox[i]
    BY <1>1 DEF SettleReceipt, Extend
  <1>6. Secs(now) \in Nat
    BY SecsNat DEF TypeOK
  <1>7. outbox'[id] \in Receipt
    <2>1. /\ charge \in 0..I64Max /\ Secs(now) \in Nat /\ NoToken \in Nat
          /\ 0 \in Nat /\ FALSE \in BOOLEAN
      BY <1>6 DEF NoToken
    <2> QED BY <1>5, <2>1 DEF Receipt
  <1>8. TypeOK'
    BY <1>1, <1>2, <1>3, <1>5, <1>7 DEF TypeOK
  <1>9. OutboxSettled'
    <2>1. \A i \in DOMAIN outbox :
            /\ rows'[i] = rows[i] /\ outbox'[i] = outbox[i]
            /\ rows[i].settled /\ rows[i].actual = outbox[i].charge
            /\ rows[i].settled_at = outbox[i].settled_at
      BY <1>1, <1>3, <1>5 DEF OutboxSettled, TypeOK
    <2>2. /\ rows'[id].settled /\ rows'[id].actual = outbox'[id].charge
          /\ rows'[id].settled_at = outbox'[id].settled_at
      <3>1. outbox'[id].charge = charge /\ outbox'[id].settled_at = Secs(now)
        BY <1>5
      <3> QED BY <1>4, <3>1
    <2> QED BY <1>5, <2>1, <2>2 DEF OutboxSettled
  <1>10. OneLiveClaim'
    BY <1>1, <1>5 DEF OneLiveClaim, TypeOK
  <1>11. PermitOnce' /\ IntentsOwnReservations'
    BY <1>1 DEF PermitOnce, IntentsOwnReservations
  <1>12. ReceiptSettled(id, charge)
    BY <1>1, <1>3, <1>4, <1>5 DEF ReceiptSettled
  <1> QED BY <1>8, <1>9, <1>10, <1>11, <1>12

(* A terminal settlement writes the frozen charge of its own row.           *)
LEMMA SettleTerminalIInv ==
  ASSUME IInv, NEW e \in Executions, SettleTerminal(e)
  PROVE  IInv'
  <1> USE DEF IInv
  <1> DEFINE id == intents[e]  charge == observed[e].charge
  <1>1. /\ e \in DOMAIN intents /\ (e \in DOMAIN fence => fence[e].phase = "authorized")
        /\ Chargeable(e) /\ e \in DOMAIN observed /\ SettleReceipt(id, charge)
    BY DEF SettleTerminal, Observable, Fence, Chargeable
  <1>2. charge \in 0..I64Max
    BY <1>1 DEF Chargeable, TypeOK
  <1>3. /\ ReceiptSettled(id, charge)
        /\ TypeOK' /\ OutboxSettled' /\ OneLiveClaim' /\ PermitOnce'
        /\ IntentsOwnReservations'
    BY <1>1, <1>2, SettleReceiptEffect
  <1>4. EvidenceConsistent'
    <2>1. Consistent(e)'
      <3>1. ReceiptConsistent(e)'
        BY <1>1, <1>3 DEF ReceiptSettled, ReceiptConsistent, Chargeable, RowOf
      <3> QED BY <1>1, <1>3, <3>1 DEF ReceiptSettled, Consistent, FenceConsistent
    <2>2. ASSUME NEW d \in DOMAIN intents, d # e PROVE SameEvidence(d)
      <3>1. intents[d] # id /\ intents[d] \in DOMAIN rows
        BY <1>1, <2>2 DEF IntentsOwnReservations, EvidenceConsistent
      <3> QED BY <1>3, <3>1 DEF ReceiptSettled, SameEvidence
    <2> QED BY <1>3, <2>1, <2>2, EvidenceFrame, EachConsistent DEF ReceiptSettled
  <1> QED BY <1>3, <1>4

(* A caller-priced receipt is only written for a row no intent owns.        *)
LEMMA SettleWithEvidenceIInv ==
  ASSUME IInv, NEW id, NEW charge \in Actuals, SettleWithEvidence(id, charge)
  PROVE  IInv'
  <1> USE DEF IInv
  <1>1. id \notin tracked /\ SettleReceipt(id, charge) /\ charge \in 0..I64Max
    BY ArgumentAssumption DEF SettleWithEvidence
  <1>2. \A d \in DOMAIN intents : intents[d] # id
    BY <1>1 DEF IntentsOwnReservations
  <1>3. /\ ReceiptSettled(id, charge)
        /\ TypeOK' /\ OutboxSettled' /\ OneLiveClaim' /\ PermitOnce'
        /\ IntentsOwnReservations'
    BY <1>1, SettleReceiptEffect
  <1>4. EvidenceConsistent'
    <2>1. \A d \in DOMAIN intents : SameEvidence(d)
      BY <1>2, <1>3 DEF ReceiptSettled, SameEvidence, EvidenceConsistent
    <2> QED BY <1>3, <2>1, EvidenceFrame, EachConsistent DEF ReceiptSettled
  <1> QED BY <1>3, <1>4

-----------------------------------------------------------------------------
(* Claiming and acknowledging touch only a receipt's claim fields.          *)
LEMMA OutboxFrame ==
  ASSUME IInv, UNCHANGED <<ledgerVars, intents, fence, observed, permits>>,
         DOMAIN outbox' = DOMAIN outbox,
         \A i \in DOMAIN outbox : /\ outbox'[i].charge = outbox[i].charge
                                  /\ outbox'[i].settled_at = outbox[i].settled_at
  PROVE  IntentsOwnReservations' /\ EvidenceConsistent' /\ OutboxSettled' /\ PermitOnce'
  <1> USE DEF IInv
  <1>1. IntentsOwnReservations' /\ PermitOnce'
    BY DEF IntentsOwnReservations, PermitOnce, ledgerVars
  <1>2. OutboxSettled'
    BY DEF OutboxSettled, ledgerVars
  <1>3. EvidenceConsistent'
    <2>1. \A d \in DOMAIN intents : SameEvidence(d)
      BY DEF SameEvidence, EvidenceConsistent, ledgerVars
    <2> QED BY <2>1, EvidenceFrame, EachConsistent
  <1> QED BY <1>1, <1>2, <1>3

(* A claim takes receipts nobody holds and gives them fresh tokens.         *)
LEMMA ClaimIInv ==
  ASSUME IInv, NEW S \in SUBSET DOMAIN outbox, ClaimSettlements(S)
  PROVE  IInv'
  <1> USE DEF IInv
  <1> DEFINE until == Secs(now) + ClaimSeconds
  <1>1. IsFiniteSet(S) /\ Cardinality(S) \in Nat
    <2>1. S \subseteq 1..last_id /\ last_id \in Int
      BY DEF TypeOK
    <2>2. IsFiniteSet(1..last_id)
      BY <2>1, FS_Interval
    <2> QED BY <2>1, <2>2, FS_Subset, FS_CardinalityType
  <1>2. /\ \A i \in S : outbox[i].claim_until <= Secs(now)
        /\ last_token' = last_token + Cardinality(S)
        /\ UNCHANGED <<ledgerVars, intents, fence, observed, permits>>
    BY DEF ClaimSettlements, ClaimBatch, Pending
  <1>3. PICK token \in [S -> last_token + 1 .. last_token + Cardinality(S)] :
          /\ outbox' = [id \in DOMAIN outbox |->
               IF id \in S THEN [outbox[id] EXCEPT !.token = token[id], !.claim_until = until]
               ELSE outbox[id]]
          /\ claims' = claims \cup {[id |-> id, token |-> token[id], until |-> until] : id \in S}
    BY DEF ClaimSettlements
  <1>4. Secs(now) \in Nat /\ until \in Nat /\ last_token \in Nat /\ last_token' \in Nat
    BY <1>1, <1>2, SecsNat, EvidenceAssumption DEF TypeOK
  <1>5. \A i \in S : /\ token[i] \in Nat /\ token[i] > last_token
                     /\ token[i] \in 1..last_token'
    BY <1>1, <1>2, <1>4
  <1>6. /\ DOMAIN outbox' = DOMAIN outbox
        /\ \A i \in DOMAIN outbox \ S : outbox'[i] = outbox[i]
        /\ \A i \in S : outbox'[i] = [outbox[i] EXCEPT !.token = token[i], !.claim_until = until]
    BY <1>3
  <1>7. \A i \in S : /\ outbox'[i] \in Receipt
                     /\ outbox'[i].token = token[i] /\ outbox'[i].claim_until = until
                     /\ outbox'[i].charge = outbox[i].charge
                     /\ outbox'[i].settled_at = outbox[i].settled_at
    <2> SUFFICES ASSUME NEW i \in S
                 PROVE  /\ outbox'[i] \in Receipt
                        /\ outbox'[i].token = token[i] /\ outbox'[i].claim_until = until
                        /\ outbox'[i].charge = outbox[i].charge
                        /\ outbox'[i].settled_at = outbox[i].settled_at
      OBVIOUS
    <2>1. outbox[i] \in Receipt
      BY DEF TypeOK
    <2>2. outbox'[i] = [outbox[i] EXCEPT !.token = token[i], !.claim_until = until]
      BY <1>6
    <2>3. token[i] \in Nat /\ until \in Nat
      BY <1>4, <1>5
    <2> HIDE DEF until
    <2> QED BY <2>1, <2>2, <2>3 DEF Receipt
  <1>8. TypeOK'
    <2>1. \A i \in DOMAIN outbox' : outbox'[i] \in Receipt
      BY <1>6, <1>7 DEF TypeOK
    <2>2. \A c \in claims' : c \in [id : DOMAIN outbox', token : 1..last_token', until : Nat]
      <3>1. ASSUME NEW c \in claims
            PROVE  c \in [id : DOMAIN outbox', token : 1..last_token', until : Nat]
        <4>1. c \in [id : DOMAIN outbox, token : 1..last_token, until : Nat]
          BY DEF TypeOK
        <4>2. 1..last_token \subseteq 1..last_token'
          BY <1>1, <1>2, <1>4
        <4> QED BY <1>6, <4>1, <4>2
      <3>2. ASSUME NEW i \in S
            PROVE  [id |-> i, token |-> token[i], until |-> until]
                     \in [id : DOMAIN outbox', token : 1..last_token', until : Nat]
        BY <1>4, <1>5, <1>6
      <3> QED BY <1>3, <3>1, <3>2
    <2> QED BY <1>2, <1>4, <1>6, <2>1, <2>2 DEF TypeOK, ledgerVars
  <1>9. OneLiveClaim'
    <2> SUFFICES ASSUME NEW c \in claims'
                 PROVE  /\ outbox'[c.id].token >= c.token
                        /\ outbox'[c.id].token = c.token => outbox'[c.id].claim_until = c.until
                        /\ c.until > Secs(now) => outbox'[c.id].token = c.token
      BY <1>2 DEF OneLiveClaim, ledgerVars
    <2>1. CASE c \in claims /\ c.id \notin S
      <3>1. c.id \in DOMAIN outbox
        BY <2>1 DEF TypeOK
      <3>2. outbox'[c.id] = outbox[c.id]
        BY <1>6, <2>1, <3>1
      <3> QED BY <2>1, <3>2 DEF OneLiveClaim
    <2>2. CASE c \in claims /\ c.id \in S
      <3>1. /\ c.token \in 1..last_token /\ c.until \in Nat
            /\ outbox[c.id].token = c.token => outbox[c.id].claim_until = c.until
            /\ c.until > Secs(now) => outbox[c.id].token = c.token
        BY <2>2 DEF OneLiveClaim, TypeOK
      <3>2. outbox[c.id].claim_until <= Secs(now)
        BY <1>2, <2>2
      <3>3. outbox'[c.id].token > c.token
        <4>1. outbox'[c.id].token = token[c.id] /\ token[c.id] \in Nat /\ token[c.id] > last_token
          BY <1>5, <1>7, <2>2
        <4> QED BY <1>4, <3>1, <4>1
      <3>4. ~(c.until > Secs(now))
        BY <1>4, <3>1, <3>2
      <3>5. outbox'[c.id].token \in Nat /\ c.token \in Nat
        BY <1>4, <1>5, <1>7, <2>2, <3>1
      <3> QED BY <3>3, <3>4, <3>5
    <2>3. CASE c \notin claims
      <3>1. PICK i \in S : c = [id |-> i, token |-> token[i], until |-> until]
        BY <1>3, <2>3
      <3>2. c.id = i /\ c.token = token[i] /\ c.until = until
        BY <3>1
      <3>3. outbox'[i].token = token[i] /\ outbox'[i].claim_until = until /\ token[i] \in Nat
        BY <1>5, <1>7
      <3> HIDE DEF until
      <3> QED BY <3>2, <3>3
    <2> QED BY <2>1, <2>2, <2>3
  <1> QED BY <1>2, <1>6, <1>7, <1>8, <1>9, OutboxFrame

(* An acknowledgement changes one flag of one receipt.                      *)
LEMMA AcknowledgeIInv ==
  ASSUME IInv, NEW c \in claims, Acknowledge(c)
  PROVE  IInv'
  <1> USE DEF IInv
  <1>1. /\ c.id \in DOMAIN outbox
        /\ outbox' = [outbox EXCEPT ![c.id].acknowledged = TRUE]
        /\ UNCHANGED <<ledgerVars, intents, fence, observed, permits, claims, last_token>>
    BY DEF Acknowledge
  <1>2. /\ DOMAIN outbox' = DOMAIN outbox
        /\ outbox'[c.id] = [outbox[c.id] EXCEPT !.acknowledged = TRUE]
        /\ \A i \in DOMAIN outbox : i # c.id => outbox'[i] = outbox[i]
    BY <1>1
  <1>3. outbox[c.id] \in Receipt
    BY <1>1 DEF TypeOK
  <1>4. /\ outbox'[c.id] \in Receipt
        /\ outbox'[c.id].charge = outbox[c.id].charge
        /\ outbox'[c.id].settled_at = outbox[c.id].settled_at
        /\ outbox'[c.id].token = outbox[c.id].token
        /\ outbox'[c.id].claim_until = outbox[c.id].claim_until
    BY <1>2, <1>3 DEF Receipt
  <1>5. TypeOK'
    BY <1>1, <1>2, <1>4 DEF TypeOK, ledgerVars
  <1>6. OneLiveClaim'
    BY <1>1, <1>2, <1>4 DEF OneLiveClaim, TypeOK, ledgerVars
  <1> QED BY <1>1, <1>2, <1>4, <1>5, <1>6, OutboxFrame

-----------------------------------------------------------------------------
(* Every step of the ledger keeps the inductive invariant.                  *)
LEMMA StepIInv == IInv /\ [Next]_vars => IInv'
  <1> SUFFICES ASSUME IInv, [Next]_vars PROVE IInv'
    OBVIOUS
  <1>1. CASE LedgerStep
    BY <1>1, LedgerStepIInv
  <1>2. ASSUME NEW e \in Executions, NEW s \in Scopes, NEW c \in Ceilings,
               NEW prepared \in BOOLEAN, ReserveIntent(e, s, c, prepared)
        PROVE  IInv'
    BY <1>2, ReserveIntentIInv
  <1>3. ASSUME NEW e \in Executions, Authorize(e) PROVE IInv'
    BY <1>3, AuthorizeIInv
  <1>4. ASSUME NEW e \in Executions, CloseBeforeDispatch(e) PROVE IInv'
    BY <1>4, CloseIInv
  <1>5. ASSUME NEW e \in Executions, SettleTerminal(e) PROVE IInv'
    BY <1>5, SettleTerminalIInv
  <1>6. ASSUME NEW e \in Executions, NEW u \in Usages, NEW w \in Weights,
               RecordTerminal(e, u, w)
        PROVE  IInv'
    BY <1>6, RecordIInv
  <1>7. ASSUME NEW id \in 1..MaxRows, NEW charge \in Actuals, SettleWithEvidence(id, charge)
        PROVE  IInv'
    BY <1>7, SettleWithEvidenceIInv
  <1>8. ASSUME NEW S \in SUBSET DOMAIN outbox, ClaimSettlements(S) PROVE IInv'
    BY <1>8, ClaimIInv
  <1>9. ASSUME NEW c \in claims, Acknowledge(c) PROVE IInv'
    BY <1>9, AcknowledgeIInv
  <1>10. CASE UNCHANGED vars
    <2> USE <1>10 DEF vars, ledgerVars, evidenceVars, IInv
    <2>1. TypeOK' BY DEF TypeOK
    <2>2. IntentsOwnReservations' BY DEF IntentsOwnReservations
    <2>3. EvidenceConsistent'
      <3>1. \A d \in DOMAIN intents : SameEvidence(d)
        BY DEF SameEvidence, EvidenceConsistent
      <3> QED BY <3>1, EvidenceFrame, EachConsistent
    <2>4. OutboxSettled' BY DEF OutboxSettled
    <2>5. PermitOnce' BY DEF PermitOnce
    <2>6. OneLiveClaim' BY DEF OneLiveClaim, Secs
    <2> QED BY <2>1, <2>2, <2>3, <2>4, <2>5, <2>6
  <1> QED
    BY <1>1, <1>2, <1>3, <1>4, <1>5, <1>6, <1>7, <1>8, <1>9, <1>10 DEF Next

(* The inductive invariant holds in every reachable state, whatever the     *)
(* number of executions, scopes, rows and claims.                           *)
THEOREM Invariance == Spec => []IInv
  BY InitIInv, StepIInv, PTL DEF Spec

(* Every table of the evidence ledger keeps its type: no charge that does   *)
(* not fit the column, no evidence row without its intent or its row.       *)
THEOREM TypeCorrect == Spec => []TypeOK
  <1>1. IInv => TypeOK BY DEF IInv
  <1> QED BY <1>1, Invariance, PTL

(* The consistency checks of settlement and recovery never fail on a ledger *)
(* written by this code.                                                    *)
THEOREM EvidenceAlwaysConsistent == Spec => []EvidenceConsistent
  <1>1. IInv => EvidenceConsistent BY DEF IInv
  <1> QED BY <1>1, Invariance, PTL

(* No execution is ever given two dispatch permits, or one after a closure. *)
THEOREM AtMostOnePermit == Spec => []PermitOnce
  <1>1. IInv => PermitOnce BY DEF IInv
  <1> QED BY <1>1, Invariance, PTL

(* No receipt is ever under two running claims.                             *)
THEOREM AtMostOneLiveClaim == Spec => []OneLiveClaim
  <1>1. IInv => OneLiveClaim BY DEF IInv
  <1> QED BY <1>1, Invariance, PTL

-----------------------------------------------------------------------------
(* A step that keeps the rows of evidence keeps every liability.            *)
LEMMA LiabilityFrame ==
  ASSUME IInv, KeepsEvidenceRows,
         \A e \in DOMAIN intents : e \in DOMAIN intents' /\ intents'[e] = intents[e]
  PROVE  LiabilityKept
  BY DEF IInv, LiabilityKept, KeepsEvidenceRows, IntentsOwnReservations, EvidenceConsistent

(* Each step treats tracked reservations as LiabilityKept allows.           *)
LEMMA StepLiability == IInv /\ [Next]_vars => LiabilityKept
  <1> SUFFICES ASSUME IInv, [Next]_vars PROVE LiabilityKept
    OBVIOUS
  <1>a. TypeOK /\ IntentsOwnReservations /\ EvidenceConsistent
    BY DEF IInv
  <1>b. ASSUME UNCHANGED <<rows, intents>> PROVE LiabilityKept
    BY <1>a, <1>b DEF LiabilityKept, EvidenceConsistent
  <1>1. CASE LedgerStep
    <2>1. KeepsEvidenceRows /\ UNCHANGED intents
      BY <1>1, <1>a, LedgerNextKeeps DEF LedgerStep, evidenceVars
    <2> QED BY <2>1, LiabilityFrame
  <1>2. ASSUME NEW e \in Executions, NEW s \in Scopes, NEW c \in Ceilings,
               NEW prepared \in BOOLEAN, ReserveIntent(e, s, c, prepared)
        PROVE  LiabilityKept
    <2>1. KeepsEvidenceRows
      BY <1>2, <1>a, ReserveKeeps DEF ReserveIntent
    <2>2. \A d \in DOMAIN intents : d \in DOMAIN intents' /\ intents'[d] = intents[d]
      BY <1>2 DEF ReserveIntent, Extend
    <2> QED BY <2>1, <2>2, LiabilityFrame
  <1>3. ASSUME NEW e \in Executions, Authorize(e) PROVE LiabilityKept
    BY <1>3, <1>b DEF Authorize, ledgerVars
  <1>4. ASSUME NEW e \in Executions, CloseBeforeDispatch(e) PROVE LiabilityKept
    <2>1. /\ e \in DOMAIN intents /\ e \in DOMAIN fence /\ fence[e].phase = "prepared"
          /\ ~rows[intents[e]].settled
          /\ fence' = [fence EXCEPT ![e] = [phase |-> "closed", at |-> Secs(now)]]
          /\ rows' = [rows EXCEPT ![intents[e]] = SettledRow(@, 0)]
          /\ UNCHANGED intents
      BY <1>4 DEF CloseBeforeDispatch, Fence, FenceConsistent, RowOf
    <2>2. intents[e] \in DOMAIN rows /\ rows[intents[e]] \in Row
      BY <2>1, <1>a DEF EvidenceConsistent, TypeOK
    <2>3. SettledRow(rows[intents[e]], 0).actual = 0
      BY <2>2 DEF SettledRow, Row
    <2>4. permits[e] = 0
      <3>1. permits[e] \in Nat BY <1>a DEF TypeOK
      <3>2. permits[e] <= 1 /\ permits[e] # 1
        BY <2>1 DEF IInv, PermitOnce
      <3> QED BY <3>1, <3>2
    <2>5. \A d \in DOMAIN intents :
             intents[d] \in DOMAIN rows /\ (d # e => intents[d] # intents[e])
      BY <1>a, <2>1 DEF EvidenceConsistent, IntentsOwnReservations
    <2> QED BY <2>1, <2>2, <2>3, <2>4, <2>5 DEF LiabilityKept
  <1>5. ASSUME NEW e \in Executions, SettleTerminal(e) PROVE LiabilityKept
    <2> DEFINE id == intents[e]  charge == observed[e].charge
    <2>1. e \in DOMAIN intents /\ Chargeable(e) /\ SettleReceipt(id, charge)
      BY <1>5 DEF SettleTerminal, Observable
    <2>2. charge \in 0..I64Max
      BY <1>a, <2>1 DEF Chargeable, TypeOK
    <2>3. ReceiptSettled(id, charge)
      BY <2>1, <2>2, SettleReceiptEffect
    <2>4. \A d \in DOMAIN intents :
             intents[d] \in DOMAIN rows /\ (d # e => intents[d] # id)
      BY <1>a, <2>1 DEF EvidenceConsistent, IntentsOwnReservations
    <2> QED BY <2>1, <2>3, <2>4 DEF LiabilityKept, ReceiptSettled
  <1>6. ASSUME NEW e \in Executions, NEW u \in Usages, NEW w \in Weights,
               RecordTerminal(e, u, w)
        PROVE  LiabilityKept
    BY <1>6, <1>b DEF RecordTerminal, ledgerVars
  <1>7. ASSUME NEW id \in 1..MaxRows, NEW charge \in Actuals, SettleWithEvidence(id, charge)
        PROVE  LiabilityKept
    <2>1. id \notin tracked /\ SettleReceipt(id, charge) /\ charge \in 0..I64Max
      BY <1>7, ArgumentAssumption DEF SettleWithEvidence
    <2>2. ReceiptSettled(id, charge)
      BY <2>1, SettleReceiptEffect
    <2>3. \A d \in DOMAIN intents : intents[d] \in DOMAIN rows /\ intents[d] # id
      BY <1>a, <2>1 DEF EvidenceConsistent, IntentsOwnReservations
    <2> QED BY <2>2, <2>3 DEF LiabilityKept, ReceiptSettled
  <1>8. ASSUME NEW S \in SUBSET DOMAIN outbox, ClaimSettlements(S) PROVE LiabilityKept
    BY <1>8, <1>b DEF ClaimSettlements, ledgerVars
  <1>9. ASSUME NEW c \in claims, Acknowledge(c) PROVE LiabilityKept
    BY <1>9, <1>b DEF Acknowledge, ledgerVars
  <1>10. CASE UNCHANGED vars
    BY <1>10, <1>b DEF vars, ledgerVars, evidenceVars
  <1> QED
    BY <1>1, <1>2, <1>3, <1>4, <1>5, <1>6, <1>7, <1>8, <1>9, <1>10 DEF Next

(* A tracked reservation is released only by closure before dispatch or at  *)
(* its frozen charge: expiry, the sweep and plain settlement never free it. *)
THEOREM LiabilityAlwaysRetained == Spec => LiabilityRetained
  <1>1. IInv /\ [Next]_vars => [LiabilityKept]_vars
    BY StepLiability
  <1> QED BY <1>1, Invariance, PTL DEF Spec, LiabilityRetained
=============================================================================
