--------------------------- MODULE Outbox_proofs ---------------------------
(***************************************************************************)
(* Proofs about Outbox, for any number of rows, runs, attempts and ticks.  *)
(***************************************************************************)
EXTENDS Outbox, FiniteSetTheorems, TLAPS

-----------------------------------------------------------------------------
(***************************************************************************)
(* What the operators on one row return.                                   *)
(***************************************************************************)

\* The countdowns a lease, a retry and a settled row are given.
LEMMA Countdowns ==
  /\ 0 \in -1..LeaseTicks /\ LeaseTicks \in -1..LeaseTicks
  /\ 0 \in 0..RetryTicks /\ RetryTicks \in 0..RetryTicks
BY BoundsAssumption

\* Putting a blocked row back changes its status and its countdown only.
LEMMA RequeuedRow ==
  ASSUME NEW r \in Row
  PROVE  /\ Requeued(r) \in Row
         /\ Requeued(r).kind = r.kind /\ Requeued(r).version = r.version
         /\ Requeued(r).token = r.token /\ Requeued(r).attention = r.attention
         /\ r.status # "blocked" => Requeued(r) = r
         /\ r.status = "blocked" => Requeued(r).status \in {"blocked", "pending"}
<1>1. CASE r.status = "blocked" /\ connected
  <2>1. Requeued(r) = [r EXCEPT !.status = "pending", !.wait = 0]
    BY <1>1 DEF Requeued
  <2>2. Requeued(r) \in Row
    BY <2>1, Countdowns DEF Row, RowStatus
  <2>3. QED BY <1>1, <2>1, <2>2 DEF Row
<1>2. CASE ~(r.status = "blocked" /\ connected)
  <2>1. Requeued(r) = r
    BY <1>2 DEF Requeued
  <2>2. QED BY <2>1
<1>3. QED BY <1>1, <1>2

\* Leasing a row opens no other field than those of the lease.
LEMMA LeasedRow ==
  ASSUME NEW r \in Row
  PROVE  /\ Leased(r) \in Row /\ Leased(r).status = "processing"
         /\ Leased(r).kind = r.kind /\ Leased(r).version = r.version
         /\ Leased(r).token = r.token + 1 /\ Leased(r).attention = r.attention
<1>1. r.attempts + 1 \in Nat /\ r.token + 1 \in Nat
  BY DEF Row
<1>2. Leased(r) = [r EXCEPT !.status = "processing", !.attempts = r.attempts + 1,
                            !.token = r.token + 1, !.lease = LeaseTicks, !.wait = 0]
  BY DEF Leased, LeaseToken
<1>3. Leased(r) \in Row
  BY <1>1, <1>2, Countdowns DEF Row, RowStatus
<1>4. QED BY <1>2, <1>3 DEF Row

\* Time moves the countdowns of open rows and nothing else.
LEMMA ElapsedRow ==
  ASSUME NEW r \in Row
  PROVE  /\ Elapsed(r) \in Row
         /\ Elapsed(r).status = r.status /\ Elapsed(r).kind = r.kind
         /\ Elapsed(r).version = r.version /\ Elapsed(r).token = r.token
         /\ Elapsed(r).attention = r.attention
         /\ r.status \notin {"pending", "processing"} => Elapsed(r) = r
<1>1. r.lease \in -1..LeaseTicks /\ r.wait \in 0..RetryTicks
  BY DEF Row
<1> DEFINE lease == IF r.status = "processing" /\ r.lease >= 0 THEN r.lease - 1 ELSE r.lease
           wait == IF r.status = "pending" /\ r.wait > 0 THEN r.wait - 1 ELSE r.wait
<1>2. lease \in -1..LeaseTicks /\ wait \in 0..RetryTicks
  BY <1>1, BoundsAssumption
<1>3. Elapsed(r) = [r EXCEPT !.lease = lease, !.wait = wait]
  BY DEF Elapsed
<1>4. r.status \notin {"pending", "processing"} => lease = r.lease /\ wait = r.wait
  OBVIOUS
<1> HIDE DEF lease, wait
<1>5. Elapsed(r) \in Row
  BY <1>2, <1>3 DEF Row
<1>6. /\ Elapsed(r).status = r.status /\ Elapsed(r).kind = r.kind
      /\ Elapsed(r).version = r.version /\ Elapsed(r).token = r.token
      /\ Elapsed(r).attention = r.attention
  BY <1>3 DEF Row
<1>7. [r EXCEPT !.lease = r.lease, !.wait = r.wait] = r
  BY DEF Row
<1>8. QED BY <1>3, <1>4, <1>5, <1>6, <1>7

-----------------------------------------------------------------------------
(***************************************************************************)
(* What settling does to the row of the claim, to its amendment and to the *)
(* order.  Every other row is left alone.                                  *)
(***************************************************************************)

OnlyRow(m) == \A n \in Msgs \ {m} : row'[n] = row[n]

OnlyAmendment(m) == \A n \in Msgs \ {m} : amendment'[n] = amendment[n]

\* A settled row keeps its kind, its frozen version and its token.
LEMMA SettledRow ==
  ASSUME NEW r \in Row, NEW s \in RowStatus, NEW a \in {"none", "failed", "uncertain"}
  PROVE  /\ Settled(r, s, a) \in Row
         /\ Settled(r, s, a).status = s /\ Settled(r, s, a).attention = a
         /\ Settled(r, s, a).kind = r.kind /\ Settled(r, s, a).version = r.version
         /\ Settled(r, s, a).token = r.token
<1>1. Settled(r, s, a) \in Row
  BY Countdowns DEF Settled, Row
<1>2. QED BY <1>1 DEF Settled, Row

\* failOutboxMessage closes the row as failed, and a queued amendment with it.
LEMMA FailRowEffect ==
  ASSUME TypeOK, NEW c \in Claim, NEW u \in BOOLEAN, FailRow(c, u)
  PROVE  /\ row' \in [Msgs -> Row] /\ amendment' \in [Msgs -> AmendmentState]
         /\ draft' = draft /\ po' = po
         /\ OnlyRow(c.msg) /\ OnlyAmendment(c.msg)
         /\ row'[c.msg].status = "failed" /\ row'[c.msg].kind = row[c.msg].kind
         /\ row'[c.msg].version = row[c.msg].version /\ row'[c.msg].token = row[c.msg].token
         /\ IsAmendment(c.msg) =>
              row'[c.msg].attention = IF u THEN "uncertain" ELSE "none"
         /\ IsAmendment(c.msg) /\ amendment[c.msg] = "queued" =>
              amendment'[c.msg] = IF u THEN "unknown" ELSE "failed"
         /\ ~IsAmendment(c.msg) => amendment' = amendment
<1> DEFINE a == IF u THEN "uncertain" ELSE IF IsAmendment(c.msg) THEN "none" ELSE "failed"
<1>1. c.msg \in Msgs /\ row \in [Msgs -> Row] /\ amendment \in [Msgs -> AmendmentState]
  BY DEF TypeOK, Claim
<1>2. /\ row' = [row EXCEPT ![c.msg] = Settled(row[c.msg], "failed", a)]
      /\ amendment' = IF IsAmendment(c.msg) /\ amendment[c.msg] = "queued"
                      THEN [amendment EXCEPT ![c.msg] = IF u THEN "unknown" ELSE "failed"]
                      ELSE amendment
      /\ draft' = draft /\ po' = po
  BY DEF FailRow
<1>3. a \in {"none", "failed", "uncertain"} /\ (IsAmendment(c.msg) => a = IF u THEN "uncertain" ELSE "none")
  OBVIOUS
<1> HIDE DEF a
<1>4. /\ Settled(row[c.msg], "failed", a) \in Row
      /\ row'[c.msg] = Settled(row[c.msg], "failed", a)
      /\ row'[c.msg].status = "failed" /\ row'[c.msg].kind = row[c.msg].kind
      /\ row'[c.msg].version = row[c.msg].version /\ row'[c.msg].token = row[c.msg].token
      /\ row'[c.msg].attention = a
  BY <1>1, <1>2, <1>3, SettledRow DEF RowStatus
<1>5. row' \in [Msgs -> Row] /\ OnlyRow(c.msg)
  BY <1>1, <1>2, <1>4 DEF OnlyRow
<1>6. amendment' \in [Msgs -> AmendmentState] /\ OnlyAmendment(c.msg)
  BY <1>1, <1>2 DEF OnlyAmendment, AmendmentState
<1>7. IsAmendment(c.msg) /\ amendment[c.msg] = "queued" =>
        amendment'[c.msg] = IF u THEN "unknown" ELSE "failed"
  BY <1>1, <1>2
<1>8. QED BY <1>2, <1>3, <1>4, <1>5, <1>6, <1>7

\* A row put back for a retry is pending again, its amendment still queued.
LEMMA RetryRowEffect ==
  ASSUME TypeOK, NEW c \in Claim, NEW replayed \in BOOLEAN, RetryRow(c, replayed)
  PROVE  /\ row' \in [Msgs -> Row]
         /\ UNCHANGED <<amendment, draft, po>> /\ OnlyRow(c.msg)
         /\ row'[c.msg].status = "pending" /\ row'[c.msg].kind = row[c.msg].kind
         /\ row'[c.msg].version = row[c.msg].version /\ row'[c.msg].token = row[c.msg].token
         /\ row'[c.msg].attention = row[c.msg].attention
<1> DEFINE spent == row[c.msg].attempts
           kept == IF replayed /\ spent > 0 THEN spent - 1 ELSE spent
           next == [row[c.msg] EXCEPT !.status = "pending", !.lease = 0,
                                      !.wait = RetryTicks, !.attempts = kept]
<1>1. c.msg \in Msgs /\ row \in [Msgs -> Row] /\ row[c.msg] \in Row
  BY DEF TypeOK, Claim
<1>2. row' = [row EXCEPT ![c.msg] = next] /\ UNCHANGED <<amendment, draft, po>>
  BY DEF RetryRow
<1>3. kept \in Nat
  <2>1. spent \in Nat
    BY <1>1 DEF Row
  <2>2. QED BY <2>1
<1> HIDE DEF kept
<1>4. next \in Row
  BY <1>1, <1>3, Countdowns DEF Row, RowStatus
<1>5. /\ next.status = "pending" /\ next.kind = row[c.msg].kind
      /\ next.version = row[c.msg].version /\ next.token = row[c.msg].token
      /\ next.attention = row[c.msg].attention
  BY <1>1 DEF Row
<1> HIDE DEF next
<1>6. row'[c.msg] = next /\ row' \in [Msgs -> Row] /\ OnlyRow(c.msg)
  BY <1>1, <1>2, <1>4 DEF OnlyRow
<1>7. QED BY <1>2, <1>5, <1>6

\* completeOutboxMessage closes the row and applies its fact: the order moves one version
\* at most, and only a cancellation changes the status of a closed one.
LEMMA CompleteRowEffect ==
  ASSUME TypeOK, NEW c \in Claim, CompleteRow(c), FactApplies(c.msg)
  PROVE  /\ row' \in [Msgs -> Row] /\ amendment' \in [Msgs -> AmendmentState]
         /\ draft' \in [Msgs -> {"none", "approved_queued", "sent"}]
         /\ po' \in [status : PoStatus, version : Nat, external : BOOLEAN, imported : BOOLEAN]
         /\ OnlyRow(c.msg) /\ OnlyAmendment(c.msg)
         /\ \A n \in Msgs \ {c.msg} : draft'[n] = draft[n]
         /\ row'[c.msg].status = "dispatched" /\ row'[c.msg].kind = row[c.msg].kind
         /\ row'[c.msg].version = row[c.msg].version /\ row'[c.msg].token = row[c.msg].token
         /\ row'[c.msg].attention = row[c.msg].attention
         /\ IsAmendment(c.msg) => /\ amendment'[c.msg] = "applied"
                                  /\ po.version = row[c.msg].version
                                  /\ po'.version = po.version + 1
         /\ ~IsAmendment(c.msg) => amendment' = amendment
         /\ po' = po \/ po'.version = po.version + 1
         /\ po.status \in {"cancelled", "shipped"} /\ row[c.msg].kind # "cancel" =>
              po'.status = po.status
         /\ po'.status = "shipped" => po.status = "shipped"
<1>1. /\ c.msg \in Msgs /\ row \in [Msgs -> Row] /\ row[c.msg] \in Row
      /\ amendment \in [Msgs -> AmendmentState]
      /\ draft \in [Msgs -> {"none", "approved_queued", "sent"}]
      /\ po \in [status : PoStatus, version : Nat, external : BOOLEAN, imported : BOOLEAN]
  BY DEF TypeOK, Claim
<1>2. row' = [row EXCEPT ![c.msg] = Settled(row[c.msg], "dispatched", row[c.msg].attention)]
  BY DEF CompleteRow
<1>3. row[c.msg].attention \in {"none", "failed", "uncertain"} /\ "dispatched" \in RowStatus
  BY <1>1 DEF Row, RowStatus
<1>4. /\ row' \in [Msgs -> Row] /\ OnlyRow(c.msg)
      /\ row'[c.msg].status = "dispatched" /\ row'[c.msg].kind = row[c.msg].kind
      /\ row'[c.msg].version = row[c.msg].version /\ row'[c.msg].token = row[c.msg].token
      /\ row'[c.msg].attention = row[c.msg].attention
  <2> DEFINE a == row[c.msg].attention
             next == Settled(row[c.msg], "dispatched", a)
  <2>1. row' = [row EXCEPT ![c.msg] = next] /\ a \in {"none", "failed", "uncertain"}
    BY <1>2, <1>3
  <2> HIDE DEF a
  <2>2. /\ next \in Row /\ next.status = "dispatched" /\ next.kind = row[c.msg].kind
        /\ next.version = row[c.msg].version /\ next.token = row[c.msg].token
        /\ next.attention = a
    BY <1>1, <1>3, <2>1, SettledRow
  <2> HIDE DEF next
  <2>3. QED BY <1>1, <2>1, <2>2 DEF OnlyRow, a
<1>5. /\ amendment' = IF IsAmendment(c.msg)
                      THEN [amendment EXCEPT ![c.msg] = "applied"] ELSE amendment
      /\ draft' = IF row[c.msg].kind = "whatsapp"
                  THEN [draft EXCEPT ![c.msg] = "sent"] ELSE draft
  BY DEF CompleteRow, ApplyFact
<1>6. /\ amendment' \in [Msgs -> AmendmentState] /\ OnlyAmendment(c.msg)
      /\ draft' \in [Msgs -> {"none", "approved_queued", "sent"}]
      /\ \A n \in Msgs \ {c.msg} : draft'[n] = draft[n]
      /\ IsAmendment(c.msg) => amendment'[c.msg] = "applied"
      /\ ~IsAmendment(c.msg) => amendment' = amendment
  BY <1>1, <1>5 DEF OnlyAmendment, AmendmentState
<1>7. po.version \in Nat /\ po.status \in PoStatus /\ po.external \in BOOLEAN /\ po.imported \in BOOLEAN
  BY <1>1
<1>8. ASSUME NEW s \in PoStatus, NEW e \in BOOLEAN
      PROVE  /\ Document(s, e) \in [status : PoStatus, version : Nat, external : BOOLEAN, imported : BOOLEAN]
             /\ Document(s, e).status = s /\ Document(s, e).version = po.version + 1
  BY <1>7 DEF Document
<1>9. row[c.msg].kind \in AllKinds \cup {"none"}
  BY <1>1 DEF Row
<1>10. CASE row[c.msg].kind = "send"
  <2>1. po.status \in {"draft", "sent"}
    BY <1>10 DEF FactApplies
  <2>2. po' = IF po.status # "sent" THEN Document("sent", po.external) ELSE po
    BY <1>10 DEF CompleteRow, ApplyFact
  <2>3. ~IsAmendment(c.msg)
    BY <1>10 DEF IsAmendment, AmendmentKinds
  <2>4. QED BY <1>1, <1>4, <1>6, <1>7, <1>8, <1>10, <2>1, <2>2, <2>3 DEF PoStatus
<1>11. CASE row[c.msg].kind = "create_draft"
  <2>1. po.status = "draft"
    BY <1>11 DEF FactApplies
  <2>2. po' = Document("draft", TRUE)
    BY <1>11 DEF CompleteRow, ApplyFact
  <2>3. ~IsAmendment(c.msg)
    BY <1>11 DEF IsAmendment, AmendmentKinds
  <2>4. QED BY <1>1, <1>4, <1>6, <1>7, <1>8, <1>11, <2>1, <2>2, <2>3 DEF PoStatus
<1>12. CASE row[c.msg].kind = "amend"
  <2>1. po.version = row[c.msg].version
    BY <1>12 DEF FactApplies
  <2>2. po' = Document(po.status, po.external)
    BY <1>12 DEF CompleteRow, ApplyFact
  <2>3. QED BY <1>1, <1>4, <1>6, <1>7, <1>8, <1>12, <2>1, <2>2
<1>13. CASE row[c.msg].kind = "cancel"
  <2>1. po.version = row[c.msg].version
    BY <1>13 DEF FactApplies
  <2>2. po' = Document("cancelled", po.external)
    BY <1>13 DEF CompleteRow, ApplyFact
  <2>3. QED BY <1>1, <1>4, <1>6, <1>7, <1>8, <1>13, <2>1, <2>2 DEF PoStatus
<1>14. CASE row[c.msg].kind \in {"whatsapp", "none"}
  <2>1. po' = po
    BY <1>14 DEF CompleteRow, ApplyFact
  <2>2. ~IsAmendment(c.msg)
    BY <1>14 DEF IsAmendment, AmendmentKinds
  <2>3. QED BY <1>1, <1>4, <1>6, <1>14, <2>1, <2>2
<1>15. QED BY <1>9, <1>10, <1>11, <1>12, <1>13, <1>14 DEF AllKinds

\* A readback that does not match closes the row and leaves the amendment in doubt.
LEMMA CompleteMismatchEffect ==
  ASSUME TypeOK, NEW c \in Claim, CompleteMismatch(c)
  PROVE  /\ row' \in [Msgs -> Row] /\ amendment' \in [Msgs -> AmendmentState]
         /\ draft' = draft /\ po' = po /\ OnlyRow(c.msg) /\ OnlyAmendment(c.msg)
         /\ row'[c.msg].status = "dispatched" /\ row'[c.msg].kind = row[c.msg].kind
         /\ row'[c.msg].version = row[c.msg].version /\ row'[c.msg].token = row[c.msg].token
         /\ row'[c.msg].attention = "uncertain" /\ amendment'[c.msg] = "unknown"
<1>1. /\ c.msg \in Msgs /\ row \in [Msgs -> Row] /\ row[c.msg] \in Row
      /\ amendment \in [Msgs -> AmendmentState] /\ "dispatched" \in RowStatus
  BY DEF TypeOK, Claim, RowStatus
<1>2. /\ row' = [row EXCEPT ![c.msg] = Settled(row[c.msg], "dispatched", "uncertain")]
      /\ amendment' = [amendment EXCEPT ![c.msg] = "unknown"] /\ draft' = draft /\ po' = po
  BY DEF CompleteMismatch
<1>3. /\ row' \in [Msgs -> Row] /\ OnlyRow(c.msg)
      /\ row'[c.msg].status = "dispatched" /\ row'[c.msg].kind = row[c.msg].kind
      /\ row'[c.msg].version = row[c.msg].version /\ row'[c.msg].token = row[c.msg].token
      /\ row'[c.msg].attention = "uncertain"
  BY <1>1, <1>2, SettledRow DEF OnlyRow
<1>4. /\ amendment' \in [Msgs -> AmendmentState] /\ OnlyAmendment(c.msg)
      /\ amendment'[c.msg] = "unknown"
  BY <1>1, <1>2 DEF OnlyAmendment, AmendmentState
<1>5. QED BY <1>2, <1>3, <1>4

-----------------------------------------------------------------------------
(***************************************************************************)
(* What the actions do to the rows, the amendments, the drafts and the     *)
(* order: a new row, a lease, a settled row, time, a new version of the    *)
(* order, or nothing.                                                      *)
(***************************************************************************)

Open == {"blocked", "pending", "processing"}

\* The claim c, which holds the lease of its row, closes it or puts it back.
Settles(c) ==
  /\ c \in Claim /\ HoldsLease(c)
  /\ \/ \E u \in BOOLEAN : FailRow(c, u)
     \/ ~IsAmendment(c.msg) /\ \E replayed \in BOOLEAN : RetryRow(c, replayed)
     \/ FactApplies(c.msg) /\ CompleteRow(c)
     \/ IsAmendment(c.msg) /\ CompleteMismatch(c)

\* A command writes one row that was absent, at the version the order has.
LEMMA EnqueueEffect ==
  ASSUME TypeOK, NEW m \in Msgs, NEW kind, Enqueue(m, kind)
  PROVE  /\ row[m].status = "absent" /\ kind \in AllKinds
         /\ row' \in [Msgs -> Row] /\ OnlyRow(m)
         /\ row'[m].status \in {"pending", "blocked"} /\ row'[m].kind = kind
         /\ row'[m].version = po.version /\ row'[m].token = 0
         /\ row'[m].attention = "none"
<1> DEFINE status == IF connected THEN "pending" ELSE "blocked"
           next == [NoRow EXCEPT !.status = status, !.kind = kind, !.version = po.version]
<1>1. /\ row[m].status = "absent" /\ kind \in AllKinds
      /\ row' = [row EXCEPT ![m] = next]
  BY KindsAssumption DEF Enqueue
<1>2. po.version \in Nat /\ row \in [Msgs -> Row]
  BY DEF TypeOK
<1>3. status \in {"pending", "blocked"}
  OBVIOUS
<1> HIDE DEF status
<1>4. NoRow \in Row /\ NoRow.token = 0 /\ NoRow.attention = "none"
  BY Countdowns DEF NoRow, Row, RowStatus
<1>5. /\ next \in Row /\ next.status = status /\ next.kind = kind
      /\ next.version = po.version /\ next.token = 0 /\ next.attention = "none"
  BY <1>1, <1>2, <1>3, <1>4 DEF Row, RowStatus
<1> HIDE DEF next
<1>6. row'[m] = next /\ row' \in [Msgs -> Row] /\ OnlyRow(m)
  BY <1>1, <1>2, <1>5 DEF OnlyRow
<1>7. QED BY <1>1, <1>3, <1>5, <1>6

\* A run leases a set of rows: their tokens grow by one and the claims carry them.
LEMMA RunTenantEffect ==
  ASSUME TypeOK, NEW w \in Workers, RunTenant(w)
  PROVE  /\ row' \in [Msgs -> Row]
         /\ \A m \in Msgs :
              /\ row'[m].kind = row[m].kind /\ row'[m].version = row[m].version
              /\ row'[m].attention = row[m].attention
              /\ row[m].status \notin Open => row'[m] = row[m]
              /\ row[m].status \in Open => row'[m].status \in Open
         /\ \E S \in SUBSET Msgs :
              /\ batch' = [batch EXCEPT ![w] = {ClaimOf(m) : m \in S}]
              /\ \A m \in Msgs : row'[m].token = IF m \in S THEN row[m].token + 1 ELSE row[m].token
         /\ batch' \in [Workers -> SUBSET Claim]
         /\ reclaims' \in [Msgs -> Nat]
         /\ Idle(w) /\ UNCHANGED <<amendment, draft, po, connected, calling, acted, effects, faults>>
<1> DEFINE due == {m \in Msgs : Due(Requeued(row[m]))}
<1>1. PICK S \in SUBSET due :
        /\ row' = [m \in Msgs |->
                     IF m \in S THEN Leased(Requeued(row[m])) ELSE Requeued(row[m])]
        /\ batch' = [batch EXCEPT ![w] = {ClaimOf(m) : m \in S}]
        /\ reclaims' = [m \in Msgs |->
                          reclaims[m] + IF m \in S /\ LeaseExpired(row[m]) THEN 1 ELSE 0]
  BY DEF RunTenant
<1>2. Idle(w) /\ UNCHANGED <<amendment, draft, po, connected, calling, acted, effects, faults>>
  BY DEF RunTenant
<1>3. ASSUME NEW m \in Msgs
      PROVE  /\ row'[m] \in Row
             /\ row'[m].kind = row[m].kind /\ row'[m].version = row[m].version
             /\ row'[m].attention = row[m].attention
             /\ row[m].status \notin Open => row'[m] = row[m]
             /\ row[m].status \in Open => row'[m].status \in Open
             /\ row'[m].token = IF m \in S THEN row[m].token + 1 ELSE row[m].token
  <2>1. row[m] \in Row
    BY DEF TypeOK
  <2> DEFINE r == Requeued(row[m])
  <2>2. /\ r \in Row /\ r.kind = row[m].kind /\ r.version = row[m].version
        /\ r.token = row[m].token /\ r.attention = row[m].attention
        /\ row[m].status # "blocked" => r = row[m]
        /\ row[m].status = "blocked" => r.status \in {"blocked", "pending"}
    BY <2>1, RequeuedRow
  <2>3. row'[m] = IF m \in S THEN Leased(r) ELSE r
    BY <1>1
  <2>4. m \in S => r.status \in {"pending", "processing"}
    BY DEF Due, LeaseExpired
  <2> HIDE DEF r
  <2>5. CASE m \in S
    <3>1. /\ Leased(r) \in Row /\ Leased(r).status = "processing"
          /\ Leased(r).kind = r.kind /\ Leased(r).version = r.version
          /\ Leased(r).token = r.token + 1 /\ Leased(r).attention = r.attention
      BY <2>2, LeasedRow
    <3>2. QED BY <2>2, <2>3, <2>4, <2>5, <3>1 DEF Open
  <2>6. CASE m \notin S
    BY <2>2, <2>3, <2>6 DEF Open
  <2>7. QED BY <2>5, <2>6
<1>4. row' \in [Msgs -> Row]
  BY <1>1, <1>3
<1>5. ASSUME NEW m \in Msgs PROVE ClaimOf(m) \in Claim
  BY DEF ClaimOf, LeaseToken, Claim, TypeOK, Row
<1>6. batch' \in [Workers -> SUBSET Claim]
  BY <1>1, <1>5 DEF TypeOK
<1>7. reclaims' \in [Msgs -> Nat]
  <2>1. ASSUME NEW m \in Msgs
        PROVE  reclaims[m] + (IF m \in S /\ LeaseExpired(row[m]) THEN 1 ELSE 0) \in Nat
    <3>1. reclaims[m] \in Nat
      BY DEF TypeOK
    <3>2. QED BY <3>1
  <2>2. QED BY <1>1, <2>1
<1>8. QED BY <1>1, <1>2, <1>3, <1>4, <1>6, <1>7

\* A call that returns settles the row it was made for, or changes no data at all.
LEMMA ReturnEffect ==
  ASSUME TypeOK, NEW w \in Workers, Return(w)
  PROVE  /\ Settles(calling[w]) \/ UNCHANGED data
         /\ calling[w] \in Claim
         /\ calling' = [calling EXCEPT ![w] = NoClaim]
         /\ acted' = [acted EXCEPT ![w] = FALSE]
         /\ batch' = batch \/ batch' = [batch EXCEPT ![w] = {}]
         /\ faults' \in Nat /\ UNCHANGED <<connected, effects, reclaims>>
<1>1. calling[w] # NoClaim => calling[w] \in Claim
  BY DEF TypeOK
<1>2. faults \in Nat /\ faults + 1 \in Nat
  BY DEF TypeOK
<1> DEFINE c == calling[w]
<1>3. CASE Returns(w)
  <2>1. /\ c \in Claim /\ HoldsLease(c) /\ calling' = [calling EXCEPT ![w] = NoClaim]
        /\ acted' = [acted EXCEPT ![w] = FALSE] /\ batch' = batch
        /\ UNCHANGED <<connected, effects, reclaims>>
    BY <1>1, <1>3 DEF Returns, history
  <2>2. CASE Accepted(w)
    BY <1>2, <2>1, <2>2 DEF Accepted, Settles
  <2>3. CASE FactRejected(w)
    BY <1>2, <2>1, <2>3 DEF FactRejected, Settles
  <2>4. CASE ReadbackMismatch(w)
    BY <1>2, <2>1, <2>4 DEF ReadbackMismatch, Settles
  <2>5. CASE Refused(w)
    BY <1>2, <2>1, <2>5 DEF Refused, Settles
  <2>6. CASE Declined(w)
    BY <1>2, <2>1, <2>6 DEF Declined, Settles
  <2>7. CASE ResultUnknown(w)
    BY <1>2, <2>1, <2>7 DEF ResultUnknown, Settles
  <2>8. CASE Deferred(w)
    BY <1>2, <2>1, <2>8 DEF Deferred, Settles, IsAmendment, AmendmentKinds
  <2>9. CASE ReturnsTooLate(w)
    BY <2>1, <2>9 DEF ReturnsTooLate
  <2>10. QED BY <2>2, <2>3, <2>4, <2>5, <2>6, <2>7, <2>8, <2>9 DEF Return
<1>4. CASE ~Returns(w)
  <2>1. ReturnsTooLate(w)
    BY <1>4 DEF Return, Accepted, FactRejected, ReadbackMismatch, Refused, Declined,
                ResultUnknown, Deferred
  <2>2. QED BY <1>1, <1>2, <2>1 DEF ReturnsTooLate, history
<1>5. QED BY <1>3, <1>4

\* A settled claim changes only its own row; the row closes or waits for a retry.
LEMMA SettleEffect ==
  ASSUME TypeOK, NEW c, Settles(c)
  PROVE  /\ c \in Claim /\ row[c.msg].status = "processing"
         /\ row' \in [Msgs -> Row] /\ amendment' \in [Msgs -> AmendmentState]
         /\ draft' \in [Msgs -> {"none", "approved_queued", "sent"}]
         /\ po' \in [status : PoStatus, version : Nat, external : BOOLEAN, imported : BOOLEAN]
         /\ OnlyRow(c.msg) /\ OnlyAmendment(c.msg)
         /\ \A n \in Msgs \ {c.msg} : draft'[n] = draft[n]
         /\ row'[c.msg].kind = row[c.msg].kind /\ row'[c.msg].version = row[c.msg].version
         /\ row'[c.msg].token = row[c.msg].token
         /\ ~IsAmendment(c.msg) => amendment' = amendment
         /\ po' = po \/ po'.version = po.version + 1
<1>1. c \in Claim /\ row[c.msg].status = "processing"
  BY DEF Settles, HoldsLease
<1>2. CASE \E u \in BOOLEAN : FailRow(c, u)
  BY <1>1, <1>2, FailRowEffect DEF TypeOK
<1>3. CASE \E replayed \in BOOLEAN : RetryRow(c, replayed)
  BY <1>1, <1>3, RetryRowEffect DEF TypeOK, OnlyAmendment
<1>4. CASE FactApplies(c.msg) /\ CompleteRow(c)
  BY <1>1, <1>4, CompleteRowEffect
<1>5. CASE IsAmendment(c.msg) /\ CompleteMismatch(c)
  BY <1>1, <1>5, CompleteMismatchEffect DEF TypeOK
<1>6. QED BY <1>2, <1>3, <1>4, <1>5 DEF Settles

\* A row that cannot be resolved fails before any call, or its run stops.
LEMMA RejectEffect ==
  ASSUME TypeOK, NEW w \in Workers, RejectBeforeCall(w)
  PROVE  \E c \in batch[w] : /\ Settles(c)
                             /\ batch' = [batch EXCEPT ![w] = @ \ {c}]
                             /\ UNCHANGED <<connected, calling, acted, effects, reclaims, faults>>
<1>1. batch[w] \subseteq Claim
  BY DEF TypeOK
<1>2. QED BY <1>1 DEF RejectBeforeCall, Settles, history

\* A command on the order alone raises its version by one.
LEMMA AdvanceEffect ==
  ASSUME TypeOK, NEW from \in SUBSET PoStatus, NEW to \in SUBSET PoStatus,
         AdvanceDocument(from, to)
  PROVE  /\ po' \in [status : PoStatus, version : Nat, external : BOOLEAN, imported : BOOLEAN]
         /\ po.status \in from /\ po'.status \in to /\ po'.version = po.version + 1
         /\ UNCHANGED <<row, amendment, draft, connected, batch, calling, acted,
                        effects, reclaims, faults>>
<1>1. PICK status \in to : po' = Document(status, po.external)
  BY DEF AdvanceDocument
<1>2. po.version \in Nat /\ po.external \in BOOLEAN /\ po.imported \in BOOLEAN
  BY DEF TypeOK
<1>3. QED BY <1>1, <1>2 DEF AdvanceDocument, Document, runs, history

\* The steps that move the order directly: none but an import re-opens it.
LEMMA OrderCommandEffect ==
  ASSUME TypeOK,
         \/ EditLocalDraft \/ CancelLocal \/ RecordConfirmation
         \/ DecideConfirmation \/ RecordShipment \/ ImportFromOdoo
  PROVE  /\ po' \in [status : PoStatus, version : Nat, external : BOOLEAN, imported : BOOLEAN]
         /\ po'.version = po.version + 1
         /\ po.status \in {"cancelled", "shipped"} => po'.status = po.status \/ ImportFromOdoo
         /\ UNCHANGED <<row, amendment, draft, connected, batch, calling, acted,
                        effects, reclaims, faults>>
<1>1. CASE EditLocalDraft
  <2>1. AdvanceDocument({"draft"}, {"draft"})
    BY <1>1 DEF EditLocalDraft
  <2>2. {"draft"} \in SUBSET PoStatus
    BY DEF PoStatus
  <2>3. QED BY <2>1, <2>2, AdvanceEffect
<1>2. CASE CancelLocal
  <2>1. AdvanceDocument(PoStatus, {"cancelled"}) /\ po.status \notin {"cancelled", "shipped"}
    BY <1>2 DEF CancelLocal, CancellationBlocked
  <2>2. {"cancelled"} \in SUBSET PoStatus
    BY DEF PoStatus
  <2>3. QED BY <2>1, <2>2, AdvanceEffect
<1>3. CASE RecordConfirmation
  <2> DEFINE from == {"sent", "awaiting_confirmation", "confirmed"}
             to == {"awaiting_confirmation", "confirmed"}
  <2>1. AdvanceDocument(from, to)
    BY <1>3 DEF RecordConfirmation
  <2>2. from \in SUBSET PoStatus /\ to \in SUBSET PoStatus
    BY DEF PoStatus
  <2>3. "cancelled" \notin from /\ "shipped" \notin from
    OBVIOUS
  <2> HIDE DEF from, to
  <2>4. QED BY <2>1, <2>2, <2>3, AdvanceEffect
<1>4. CASE DecideConfirmation
  <2> DEFINE to == {"confirmed", "rejected"}
  <2>1. AdvanceDocument({"awaiting_confirmation"}, to)
    BY <1>4 DEF DecideConfirmation
  <2>2. {"awaiting_confirmation"} \in SUBSET PoStatus /\ to \in SUBSET PoStatus
    BY DEF PoStatus
  <2> HIDE DEF to
  <2>3. QED BY <2>1, <2>2, AdvanceEffect
<1>5. CASE RecordShipment
  <2> DEFINE from == {"confirmed", "shipped"}
             to == {"shipped"}
  <2>1. AdvanceDocument(from, to)
    BY <1>5 DEF RecordShipment
  <2>2. from \in SUBSET PoStatus /\ to \in SUBSET PoStatus
    BY DEF PoStatus
  <2>3. "cancelled" \notin from /\ \A status \in to : status = "shipped"
    OBVIOUS
  <2> HIDE DEF from, to
  <2>4. QED BY <2>1, <2>2, <2>3, AdvanceEffect
<1>6. CASE ImportFromOdoo
  <2>1. PICK imported \in {"draft", "sent", "confirmed", "cancelled", "shipped"} :
          po' = Document(MergedStatus(imported), po.external)
    BY <1>6 DEF ImportFromOdoo
  <2>2. MergedStatus(imported) \in PoStatus
    BY <2>1 DEF MergedStatus, PoStatus
  <2>3. po.version \in Nat /\ po.external \in BOOLEAN /\ po.imported \in BOOLEAN
    BY DEF TypeOK
  <2>4. po' \in [status : PoStatus, version : Nat, external : BOOLEAN, imported : BOOLEAN]
    BY <2>1, <2>2, <2>3 DEF Document
  <2>5. po'.version = po.version + 1
    BY <2>1 DEF Document
  <2>6. QED BY <1>6, <2>4, <2>5 DEF ImportFromOdoo, runs, history
<1>7. QED BY <1>1, <1>2, <1>3, <1>4, <1>5, <1>6

-----------------------------------------------------------------------------
(***************************************************************************)
(* Types.                                                                  *)
(***************************************************************************)

\* The initial state has the types.
LEMMA InitType == Init => TypeOK
<1>1. NoRow \in Row
  BY Countdowns DEF NoRow, Row, RowStatus
<1>2. Init => po \in [status : PoStatus, version : Nat, external : BOOLEAN, imported : BOOLEAN]
  <2>1. /\ [status |-> "draft", version |-> 1, external |-> FALSE, imported |-> FALSE]
             \in [status : PoStatus, version : Nat, external : BOOLEAN, imported : BOOLEAN]
        /\ [status |-> "confirmed", version |-> 1, external |-> TRUE, imported |-> TRUE]
             \in [status : PoStatus, version : Nat, external : BOOLEAN, imported : BOOLEAN]
    BY DEF PoStatus
  <2>2. QED BY <2>1 DEF Init
<1>3. Init => row \in [Msgs -> Row] /\ amendment \in [Msgs -> AmendmentState]
  BY <1>1 DEF Init, AmendmentState
<1>4. QED BY <1>2, <1>3 DEF Init, TypeOK

\* Every step keeps the types.
LEMMA NextType == TypeOK /\ [Next]_vars => TypeOK'
<1> SUFFICES ASSUME TypeOK, [Next]_vars PROVE TypeOK'
  OBVIOUS
<1>1. ASSUME NEW m \in Msgs, SendPo(m) \/ CreateOdooPoDraft(m) \/ AmendPo(m) \/ CancelPo(m) \/ ApproveDraft(m)
      PROVE  TypeOK'
  <2>1. row' \in [Msgs -> Row]
    BY <1>1, EnqueueEffect DEF SendPo, CreateOdooPoDraft, AmendPo, CancelPo, ApproveDraft
  <2>2. amendment' \in [Msgs -> AmendmentState]
    BY <1>1 DEF TypeOK, SendPo, CreateOdooPoDraft, AmendPo, CancelPo, ApproveDraft, AmendmentState
  <2>3. draft' \in [Msgs -> {"none", "approved_queued", "sent"}]
    BY <1>1 DEF TypeOK, SendPo, CreateOdooPoDraft, AmendPo, CancelPo, ApproveDraft
  <2>4. UNCHANGED <<po, connected, batch, calling, acted, effects, reclaims, faults>>
    BY <1>1 DEF SendPo, CreateOdooPoDraft, AmendPo, CancelPo, ApproveDraft, runs, history
  <2>5. QED BY <2>1, <2>2, <2>3, <2>4 DEF TypeOK
<1>2. CASE \/ EditLocalDraft \/ CancelLocal \/ RecordConfirmation
           \/ DecideConfirmation \/ RecordShipment \/ ImportFromOdoo
  BY <1>2, OrderCommandEffect DEF TypeOK
<1>3. ASSUME NEW w \in Workers, RunTenant(w) PROVE TypeOK'
  BY <1>3, RunTenantEffect DEF TypeOK
<1>4. ASSUME NEW w \in Workers, BeginCall(w) PROVE TypeOK'
  <2>1. PICK c \in batch[w] : /\ calling' = [calling EXCEPT ![w] = c]
                              /\ batch' = [batch EXCEPT ![w] = @ \ {c}]
    BY <1>4 DEF BeginCall
  <2>2. /\ acted' = [acted EXCEPT ![w] = FALSE]
        /\ UNCHANGED <<row, amendment, draft, po, connected, effects, reclaims, faults>>
    BY <1>4 DEF BeginCall, data, history
  <2>3. batch[w] \in SUBSET Claim /\ c \in Claim /\ batch[w] \ {c} \in SUBSET Claim
    BY DEF TypeOK
  <2>4. /\ calling' \in [Workers -> Claim \cup {NoClaim}]
        /\ batch' \in [Workers -> SUBSET Claim] /\ acted' \in [Workers -> BOOLEAN]
    BY <2>1, <2>2, <2>3 DEF TypeOK
  <2>5. QED BY <2>2, <2>4 DEF TypeOK
<1>5. ASSUME NEW w \in Workers, RejectBeforeCall(w) PROVE TypeOK'
  <2>1. PICK c \in batch[w] :
          /\ Settles(c) /\ batch' = [batch EXCEPT ![w] = @ \ {c}]
          /\ UNCHANGED <<connected, calling, acted, effects, reclaims, faults>>
    BY <1>5, RejectEffect
  <2>2. batch' \in [Workers -> SUBSET Claim]
    <3>1. batch[w] \ {c} \in SUBSET Claim
      BY DEF TypeOK
    <3>2. QED BY <2>1, <3>1 DEF TypeOK
  <2>3. QED BY <2>1, <2>2, SettleEffect DEF TypeOK
<1>6. ASSUME NEW w \in Workers, RejectTooLate(w) PROVE TypeOK'
  BY <1>6 DEF RejectTooLate, TypeOK, data, history
<1>7. ASSUME NEW w \in Workers, ExternalActs(w) PROVE TypeOK'
  <2>1. calling[w].msg \in Msgs
    BY <1>7 DEF ExternalActs, TypeOK, Claim
  <2>2. effects' \in [Msgs -> Nat]
    BY <1>7, <2>1 DEF ExternalActs, TypeOK
  <2>3. acted' \in [Workers -> BOOLEAN]
    BY <1>7 DEF ExternalActs, TypeOK
  <2>4. QED BY <1>7, <2>2, <2>3 DEF ExternalActs, TypeOK, data
<1>8. ASSUME NEW w \in Workers, Return(w) PROVE TypeOK'
  <2>1. /\ Settles(calling[w]) \/ UNCHANGED data
        /\ calling' = [calling EXCEPT ![w] = NoClaim]
        /\ acted' = [acted EXCEPT ![w] = FALSE]
        /\ batch' = batch \/ batch' = [batch EXCEPT ![w] = {}]
        /\ faults' \in Nat /\ UNCHANGED <<connected, effects, reclaims>>
    BY <1>8, ReturnEffect
  <2>2. /\ row' \in [Msgs -> Row] /\ amendment' \in [Msgs -> AmendmentState]
        /\ draft' \in [Msgs -> {"none", "approved_queued", "sent"}]
        /\ po' \in [status : PoStatus, version : Nat, external : BOOLEAN, imported : BOOLEAN]
    BY <2>1, SettleEffect DEF TypeOK, data
  <2>3. /\ calling' \in [Workers -> Claim \cup {NoClaim}]
        /\ acted' \in [Workers -> BOOLEAN] /\ batch' \in [Workers -> SUBSET Claim]
    BY <2>1 DEF TypeOK
  <2>4. QED BY <2>1, <2>2, <2>3 DEF TypeOK
<1>9. CASE Tick
  <2>1. row' \in [Msgs -> Row]
    BY <1>9, ElapsedRow DEF Tick, TypeOK
  <2>2. faults' \in Nat
    BY <1>9 DEF Tick, TypeOK
  <2>3. QED BY <1>9, <2>1, <2>2 DEF Tick, TypeOK, runs, history
<1>10. CASE Crash
  BY <1>10 DEF Crash, TypeOK, data, history
<1>11. CASE Connect
  BY <1>11 DEF Connect, TypeOK, data, runs, history
<1>12. CASE Disconnect
  <2>1. faults' \in Nat
    BY <1>12 DEF Disconnect, TypeOK
  <2>2. QED BY <1>12, <2>1 DEF Disconnect, TypeOK, data, runs, history
<1>13. CASE UNCHANGED vars
  BY <1>13 DEF vars, TypeOK
<1>14. QED
  BY <1>1, <1>2, <1>3, <1>4, <1>5, <1>6, <1>7, <1>8, <1>9, <1>10, <1>11, <1>12, <1>13
     DEF Next, Command, Dispatch, Environment

\* Every variable keeps its type, whatever the number of rows, runs and faults.
THEOREM TypeCorrect == Spec => []TypeOK
BY InitType, NextType, PTL DEF Spec

-----------------------------------------------------------------------------
(***************************************************************************)
(* The order, its rows and its amendments.                                 *)
(***************************************************************************)

Enqueues(m) ==
  SendPo(m) \/ CreateOdooPoDraft(m) \/ AmendPo(m) \/ CancelPo(m) \/ ApproveDraft(m)

MovesOrder ==
  \/ EditLocalDraft \/ CancelLocal \/ RecordConfirmation
  \/ DecideConfirmation \/ RecordShipment \/ ImportFromOdoo

\* Every step that touches the data is a command, a lease, a settlement or time.
LEMMA DataStep ==
  ASSUME TypeOK, [Next]_vars
  PROVE  \/ \E m \in Msgs : Enqueues(m)
         \/ MovesOrder
         \/ \E w \in Workers : RunTenant(w)
         \/ \E c : Settles(c)
         \/ Tick
         \/ UNCHANGED data
<1>1. ASSUME NEW w \in Workers, Dispatch(w) PROVE (\E c : Settles(c)) \/ UNCHANGED data
  <2>1. CASE BeginCall(w)
    BY <2>1 DEF BeginCall
  <2>2. CASE RejectBeforeCall(w)
    BY <2>2, RejectEffect
  <2>3. CASE RejectTooLate(w)
    BY <2>3 DEF RejectTooLate
  <2>4. QED BY <1>1, <2>1, <2>2, <2>3 DEF Dispatch
<1>2. ASSUME NEW w \in Workers, ExternalActs(w) PROVE UNCHANGED data
  BY <1>2 DEF ExternalActs
<1>3. ASSUME NEW w \in Workers, Return(w) PROVE (\E c : Settles(c)) \/ UNCHANGED data
  BY <1>3, ReturnEffect
<1>4. Crash \/ Connect \/ Disconnect => UNCHANGED data
  BY DEF Crash, Connect, Disconnect
<1>5. UNCHANGED vars => UNCHANGED data
  BY DEF vars, data
<1>6. QED
  BY <1>1, <1>2, <1>3, <1>4, <1>5 DEF Next, Command, Environment, Enqueues, MovesOrder

\* A row that was absent appears with the kind and the version of its command; the
\* amendment of an amend or a cancel row is queued with it.
LEMMA EnqueuesEffect ==
  ASSUME TypeOK, NEW m \in Msgs, Enqueues(m)
  PROVE  /\ row[m].status = "absent" /\ row'[m].status \in Open
         /\ row' \in [Msgs -> Row] /\ OnlyRow(m)
         /\ row'[m].version = po.version /\ row'[m].attention = "none" /\ po' = po
         /\ row'[m].kind = "cancel" => ~CancellationBlocked
         /\ amendment' = IF row'[m].kind \in AmendmentKinds
                         THEN [amendment EXCEPT ![m] = "queued"] ELSE amendment
         /\ draft' = draft \/ draft' = [draft EXCEPT ![m] = "approved_queued"]
<1>1. CASE SendPo(m)
  <2>1. Enqueue(m, "send") /\ UNCHANGED <<amendment, draft, po>>
    BY <1>1 DEF SendPo
  <2>2. QED BY <2>1, EnqueueEffect DEF Open, AmendmentKinds
<1>2. CASE CreateOdooPoDraft(m)
  <2>1. Enqueue(m, "create_draft") /\ UNCHANGED <<amendment, draft, po>>
    BY <1>2 DEF CreateOdooPoDraft
  <2>2. QED BY <2>1, EnqueueEffect DEF Open, AmendmentKinds
<1>3. CASE AmendPo(m)
  <2>1. Enqueue(m, "amend") /\ amendment' = [amendment EXCEPT ![m] = "queued"]
        /\ UNCHANGED <<draft, po>>
    BY <1>3 DEF AmendPo
  <2>2. QED BY <2>1, EnqueueEffect DEF Open, AmendmentKinds
<1>4. CASE CancelPo(m)
  <2>1. Enqueue(m, "cancel") /\ amendment' = [amendment EXCEPT ![m] = "queued"]
        /\ UNCHANGED <<draft, po>> /\ ~CancellationBlocked
    BY <1>4 DEF CancelPo
  <2>2. QED BY <2>1, EnqueueEffect DEF Open, AmendmentKinds
<1>5. CASE ApproveDraft(m)
  <2>1. Enqueue(m, "whatsapp") /\ draft' = [draft EXCEPT ![m] = "approved_queued"]
        /\ UNCHANGED <<amendment, po>>
    BY <1>5 DEF ApproveDraft
  <2>2. QED BY <2>1, EnqueueEffect DEF Open, AmendmentKinds
<1>6. QED BY <1>1, <1>2, <1>3, <1>4, <1>5 DEF Enqueues

\* What is true of one row and its amendment.
FollowsRow(r, state) ==
  IF r.kind \notin AmendmentKinds THEN state = "none"
  ELSE /\ r.status \in Open <=> state = "queued"
       /\ r.status = "dispatched" => state \in {"applied", "unknown"}
       /\ r.status = "failed" => state \in {"failed", "unknown"}
       /\ state = "unknown" <=> r.attention = "uncertain"

\* The agreement of rows and amendments, one row at a time.
LEMMA AmendmentFollowsRowPointwise ==
  AmendmentFollowsRow <=> \A m \in Msgs : FollowsRow(row[m], amendment[m])
BY DEF AmendmentFollowsRow, FollowsRow, IsAmendment, Open

\* The settled row and its amendment agree, and an amendment applied now was frozen
\* at the version the order leaves.
LEMMA SettleAmendment ==
  ASSUME TypeOK, NEW c, Settles(c), FollowsRow(row[c.msg], amendment[c.msg])
  PROVE  /\ FollowsRow(row'[c.msg], amendment'[c.msg])
         /\ amendment'[c.msg] = "applied" =>
              row[c.msg].version = po.version /\ po'.version = po.version + 1
<1>1. c \in Claim /\ row[c.msg].status = "processing"
  BY DEF Settles, HoldsLease
<1>2. IsAmendment(c.msg) => amendment[c.msg] = "queued" /\ row[c.msg].attention # "uncertain"
  BY <1>1 DEF FollowsRow, IsAmendment, Open
<1>3. ~IsAmendment(c.msg) => amendment[c.msg] = "none"
  BY DEF FollowsRow, IsAmendment
<1>4. ASSUME NEW u \in BOOLEAN, FailRow(c, u)
      PROVE  /\ FollowsRow(row'[c.msg], amendment'[c.msg])
             /\ amendment'[c.msg] # "applied"
  BY <1>1, <1>2, <1>3, <1>4, FailRowEffect DEF FollowsRow, IsAmendment, Open
<1>5. ASSUME NEW replayed \in BOOLEAN, RetryRow(c, replayed), ~IsAmendment(c.msg)
      PROVE  /\ FollowsRow(row'[c.msg], amendment'[c.msg])
             /\ amendment'[c.msg] # "applied"
  BY <1>1, <1>3, <1>5, RetryRowEffect DEF FollowsRow, IsAmendment
<1>6. ASSUME FactApplies(c.msg), CompleteRow(c)
      PROVE  /\ FollowsRow(row'[c.msg], amendment'[c.msg])
             /\ amendment'[c.msg] = "applied" =>
                  row[c.msg].version = po.version /\ po'.version = po.version + 1
  BY <1>1, <1>2, <1>3, <1>6, CompleteRowEffect DEF FollowsRow, IsAmendment, Open
<1>7. ASSUME CompleteMismatch(c), IsAmendment(c.msg)
      PROVE  /\ FollowsRow(row'[c.msg], amendment'[c.msg])
             /\ amendment'[c.msg] # "applied"
  BY <1>1, <1>7, CompleteMismatchEffect DEF FollowsRow, IsAmendment, Open
<1>8. QED BY <1>4, <1>5, <1>6, <1>7 DEF Settles

\* No row exists initially.
LEMMA InitOrder == Init => OrderInv
<1> SUFFICES ASSUME Init PROVE OrderInv
  OBVIOUS
<1>1. TypeOK
  BY InitType
<1>2. \A m \in Msgs : row[m] = NoRow /\ amendment[m] = "none"
  BY DEF Init
<1>3. NoRow.status = "absent" /\ NoRow.kind = "none"
  BY DEF NoRow
<1>4. AmendmentFollowsRow
  BY <1>2, <1>3 DEF AmendmentFollowsRow, IsAmendment, AmendmentKinds
<1>5. QED
  BY <1>1, <1>2, <1>3, <1>4 DEF OrderInv, AbsentRowsAreBlank, FrozenVersionsAreReached,
       CancellationPrecedesClosing, AppliedOncePerVersion

\* Every step keeps the invariant of the order.
LEMMA NextOrder == OrderInv /\ [Next]_vars => OrderInv'
<1> SUFFICES ASSUME OrderInv, [Next]_vars PROVE OrderInv'
  OBVIOUS
<1> USE DEF OrderInv
<1>1. TypeOK'
  BY NextType
<1>2. \A m \in Msgs : FollowsRow(row[m], amendment[m])
  BY AmendmentFollowsRowPointwise
<1>3. /\ po.version \in Nat
      /\ \A m \in Msgs : row[m].version \in Nat /\ row[m].kind \in AllKinds \cup {"none"}
  BY DEF TypeOK, Row
<1>4. NoRow.status = "absent" /\ NoRow.kind = "none" /\ NoRow.version = 0
  BY DEF NoRow
<1>5. AmendmentFollowsRow' <=> \A m \in Msgs : FollowsRow(row'[m], amendment'[m])
  BY DEF AmendmentFollowsRow, FollowsRow, IsAmendment, Open
<1>6. \A m \in Msgs : amendment[m] = "applied" => row[m].status = "dispatched"
  BY <1>2 DEF FollowsRow, TypeOK, Row, RowStatus, Open, AbsentRowsAreBlank, NoRow, AmendmentKinds
<1>7. ASSUME NEW m \in Msgs, Enqueues(m) PROVE OrderInv'
  <2>1. /\ row[m].status = "absent" /\ row'[m].status \in Open
        /\ row' \in [Msgs -> Row] /\ OnlyRow(m)
        /\ row'[m].version = po.version /\ row'[m].attention = "none" /\ po' = po
        /\ row'[m].kind = "cancel" => ~CancellationBlocked
        /\ amendment' = IF row'[m].kind \in AmendmentKinds
                        THEN [amendment EXCEPT ![m] = "queued"] ELSE amendment
    BY <1>7, EnqueuesEffect
  <2>2. amendment \in [Msgs -> AmendmentState]
    BY DEF TypeOK
  <2>3. row[m] = NoRow /\ amendment[m] = "none"
    BY <1>2, <1>4, <2>1 DEF AbsentRowsAreBlank, FollowsRow, AmendmentKinds
  <2>4. \A n \in Msgs \ {m} : row'[n] = row[n] /\ amendment'[n] = amendment[n]
    BY <2>1, <2>2 DEF OnlyRow
  <2>5. FollowsRow(row'[m], amendment'[m]) /\ amendment'[m] # "applied"
    BY <2>1, <2>2, <2>3 DEF FollowsRow, Open
  <2>6. \A n \in Msgs : FollowsRow(row'[n], amendment'[n])
    BY <1>2, <2>4, <2>5
  <2>7. AbsentRowsAreBlank'
    BY <2>1, <2>4 DEF AbsentRowsAreBlank, Open
  <2>8. FrozenVersionsAreReached'
    BY <1>3, <2>1, <2>4 DEF FrozenVersionsAreReached
  <2>9. CancellationPrecedesClosing'
    BY <2>1, <2>4 DEF CancellationPrecedesClosing, CancellationBlocked
  <2>10. AppliedOncePerVersion'
    BY <2>1, <2>4, <2>5 DEF AppliedOncePerVersion
  <2>11. QED BY <1>1, <1>5, <2>6, <2>7, <2>8, <2>9, <2>10
<1>8. ASSUME MovesOrder PROVE OrderInv'
  <2>1. po'.version = po.version + 1 /\ row' = row /\ amendment' = amendment
    BY <1>8, OrderCommandEffect DEF MovesOrder
  <2>2. FrozenVersionsAreReached' /\ AbsentRowsAreBlank'
    BY <1>3, <2>1 DEF FrozenVersionsAreReached, AbsentRowsAreBlank
  <2>3. CancellationPrecedesClosing'
    <3>1. ASSUME NEW m \in Msgs, row[m].kind = "cancel" PROVE row[m].version <= po.version
      BY <1>4, <3>1 DEF FrozenVersionsAreReached, AbsentRowsAreBlank
    <3>2. QED BY <1>3, <2>1, <3>1 DEF CancellationPrecedesClosing
  <2>4. AppliedOncePerVersion'
    BY <1>3, <2>1 DEF AppliedOncePerVersion
  <2>5. QED BY <1>1, <1>2, <1>5, <2>1, <2>2, <2>3, <2>4
<1>9. ASSUME NEW w \in Workers, RunTenant(w) PROVE OrderInv'
  <2>1. /\ po' = po /\ amendment' = amendment
        /\ \A m \in Msgs :
             /\ row'[m].kind = row[m].kind /\ row'[m].version = row[m].version
             /\ row'[m].attention = row[m].attention
             /\ row[m].status \notin Open => row'[m] = row[m]
             /\ row[m].status \in Open => row'[m].status \in Open
    BY <1>9, RunTenantEffect
  <2>2. \A m \in Msgs : FollowsRow(row'[m], amendment'[m])
    BY <1>2, <2>1 DEF FollowsRow, Open
  <2>3. AbsentRowsAreBlank' /\ FrozenVersionsAreReached'
    BY <2>1 DEF AbsentRowsAreBlank, FrozenVersionsAreReached, Open
  <2>4. CancellationPrecedesClosing' /\ AppliedOncePerVersion'
    BY <2>1 DEF CancellationPrecedesClosing, CancellationBlocked, AppliedOncePerVersion
  <2>5. QED BY <1>1, <1>5, <2>2, <2>3, <2>4
<1>10. ASSUME NEW c, Settles(c) PROVE OrderInv'
  <2>1. /\ c \in Claim /\ row[c.msg].status = "processing"
        /\ OnlyRow(c.msg) /\ OnlyAmendment(c.msg)
        /\ row'[c.msg].kind = row[c.msg].kind /\ row'[c.msg].version = row[c.msg].version
        /\ po' = po \/ po'.version = po.version + 1
    BY <1>10, SettleEffect
  <2>2. c.msg \in Msgs
    BY <2>1 DEF Claim
  <2>3. /\ FollowsRow(row'[c.msg], amendment'[c.msg])
        /\ amendment'[c.msg] = "applied" =>
             row[c.msg].version = po.version /\ po'.version = po.version + 1
    BY <1>2, <1>10, <2>2, SettleAmendment
  <2>4. \A m \in Msgs : FollowsRow(row'[m], amendment'[m])
    BY <1>2, <2>1, <2>3 DEF OnlyRow, OnlyAmendment
  <2>5. \A m \in Msgs : row'[m].kind = row[m].kind /\ row'[m].version = row[m].version
    BY <2>1 DEF OnlyRow
  <2>6. row'[c.msg].status \in {"pending", "dispatched", "failed"}
    <3>1. CASE \E u \in BOOLEAN : FailRow(c, u)
      BY <2>1, <3>1, FailRowEffect
    <3>2. CASE \E replayed \in BOOLEAN : RetryRow(c, replayed)
      BY <2>1, <3>2, RetryRowEffect
    <3>3. CASE FactApplies(c.msg) /\ CompleteRow(c)
      BY <2>1, <3>3, CompleteRowEffect
    <3>4. CASE CompleteMismatch(c)
      BY <2>1, <3>4, CompleteMismatchEffect
    <3>5. QED BY <1>10, <3>1, <3>2, <3>3, <3>4 DEF Settles
  <2>7. AbsentRowsAreBlank'
    BY <2>1, <2>6 DEF AbsentRowsAreBlank, OnlyRow
  <2>8. \A m \in Msgs : row[m].kind # "none" => row[m].version <= po.version
    BY <1>4 DEF FrozenVersionsAreReached, AbsentRowsAreBlank
  <2>9. FrozenVersionsAreReached'
    <3>1. ASSUME NEW m \in Msgs, row'[m].status # "absent" PROVE row[m].version <= po.version
      BY <2>1, <3>1 DEF FrozenVersionsAreReached, OnlyRow
    <3>2. QED BY <1>3, <2>1, <2>5, <3>1 DEF FrozenVersionsAreReached
  <2>10. CancellationPrecedesClosing'
    <3>1. CASE po' = po
      BY <2>5, <3>1 DEF CancellationPrecedesClosing, CancellationBlocked
    <3>2. CASE po'.version = po.version + 1
      BY <1>3, <2>5, <2>8, <3>2 DEF CancellationPrecedesClosing
    <3>3. QED BY <2>1, <3>1, <3>2
  <2>11. AppliedOncePerVersion'
    <3>1. po.version <= po'.version
      BY <1>3, <2>1
    <3>2. po'.version \in Nat
      BY <1>1 DEF TypeOK
    <3>3. ASSUME NEW m \in Msgs, amendment'[m] = "applied"
          PROVE  row'[m].version < po'.version
      BY <1>3, <2>1, <2>3, <2>5, <3>1, <3>2, <3>3 DEF AppliedOncePerVersion, OnlyAmendment
    <3>4. ASSUME NEW m \in Msgs, NEW n \in Msgs \ {m},
                 amendment'[m] = "applied", amendment'[n] = "applied"
          PROVE  row'[n].version # row'[m].version
      <4>1. CASE m = c.msg
        <5>1. row[n].version < po.version /\ row[m].version = po.version
          BY <2>1, <2>3, <3>4, <4>1 DEF AppliedOncePerVersion, OnlyAmendment
        <5>2. QED BY <1>3, <2>5, <5>1
      <4>2. CASE n = c.msg
        <5>1. row[m].version < po.version /\ row[n].version = po.version
          BY <2>1, <2>3, <3>4, <4>2 DEF AppliedOncePerVersion, OnlyAmendment
        <5>2. QED BY <1>3, <2>5, <5>1
      <4>3. CASE m # c.msg /\ n # c.msg
        BY <2>1, <2>5, <3>4, <4>3 DEF AppliedOncePerVersion, OnlyAmendment
      <4>4. QED BY <4>1, <4>2, <4>3
    <3>5. QED BY <3>3, <3>4 DEF AppliedOncePerVersion
  <2>12. QED BY <1>1, <1>5, <2>4, <2>7, <2>9, <2>10, <2>11
<1>11. ASSUME Tick PROVE OrderInv'
  <2>1. /\ po' = po /\ amendment' = amendment
        /\ \A m \in Msgs :
             /\ row'[m].status = row[m].status /\ row'[m].kind = row[m].kind
             /\ row'[m].version = row[m].version /\ row'[m].attention = row[m].attention
             /\ row[m].status \notin {"pending", "processing"} => row'[m] = row[m]
    BY <1>11, ElapsedRow DEF Tick, TypeOK
  <2>2. \A m \in Msgs : FollowsRow(row'[m], amendment'[m])
    BY <1>2, <2>1 DEF FollowsRow, Open
  <2>3. AbsentRowsAreBlank' /\ FrozenVersionsAreReached'
    BY <2>1 DEF AbsentRowsAreBlank, FrozenVersionsAreReached
  <2>4. CancellationPrecedesClosing' /\ AppliedOncePerVersion'
    BY <2>1 DEF CancellationPrecedesClosing, CancellationBlocked, AppliedOncePerVersion
  <2>5. QED BY <1>1, <1>5, <2>2, <2>3, <2>4
<1>12. ASSUME UNCHANGED data PROVE OrderInv'
  BY <1>1, <1>12 DEF data, AbsentRowsAreBlank, AmendmentFollowsRow, IsAmendment,
       FrozenVersionsAreReached, CancellationPrecedesClosing, CancellationBlocked,
       AppliedOncePerVersion
<1>13. QED BY <1>7, <1>8, <1>9, <1>10, <1>11, <1>12, DataStep

\* The invariant of the order holds in every reachable state.
LEMMA OrderInvariant == Spec => []OrderInv
BY InitOrder, NextOrder, PTL DEF Spec

\* The row and the amendment frozen into it tell the same story in every reachable
\* state, although completeOutboxMessage, failOutboxMessage and the commands write
\* them separately.
THEOREM AmendmentsAgree == Spec => []AmendmentFollowsRow
<1>1. OrderInv => AmendmentFollowsRow
  BY DEF OrderInv
<1>2. QED BY <1>1, OrderInvariant, PTL

\* However many amendments and cancellations are frozen at one version of the order,
\* applyCompletedOutboxFact applies one of them at most.
THEOREM OneAmendmentPerVersion == Spec => []AppliedOncePerVersion
<1>1. OrderInv => AppliedOncePerVersion
  BY DEF OrderInv
<1>2. QED BY <1>1, OrderInvariant, PTL

\* No command and no late answer re-opens a cancelled order or takes a shipped one
\* back: only the import of an Odoo snapshot does.
THEOREM ClosedOrder == Spec => ClosedOrderStaysClosed
<1>1. ASSUME OrderInv, [Next]_vars, po.status \in {"cancelled", "shipped"}
      PROVE  po'.status = po.status \/ ImportFromOdoo
  <2> USE <1>1 DEF OrderInv
  <2>1. ASSUME NEW m \in Msgs, Enqueues(m) PROVE po' = po
    BY <2>1, EnqueuesEffect
  <2>2. ASSUME MovesOrder PROVE po'.status = po.status \/ ImportFromOdoo
    BY <2>2, OrderCommandEffect DEF MovesOrder
  <2>3. ASSUME NEW w \in Workers, RunTenant(w) PROVE po' = po
    BY <2>3, RunTenantEffect
  <2>4. ASSUME NEW c, Settles(c) PROVE po'.status = po.status
    <3>1. c \in Claim /\ c.msg \in Msgs
      BY <2>4 DEF Settles, Claim
    <3>2. ASSUME FactApplies(c.msg), CompleteRow(c) PROVE po'.status = po.status
      <4>1. row[c.msg].kind # "cancel"
        <5>1. ASSUME row[c.msg].kind = "cancel" PROVE FALSE
          <6>1. po.version = row[c.msg].version
            BY <3>2, <5>1 DEF FactApplies
          <6>2. QED
            BY <3>1, <5>1, <6>1 DEF CancellationPrecedesClosing, CancellationBlocked
        <5>2. QED BY <5>1
      <4>2. QED BY <3>1, <3>2, <4>1, CompleteRowEffect
    <3>3. CASE \E u \in BOOLEAN : FailRow(c, u)
      BY <3>1, <3>3, FailRowEffect
    <3>4. CASE \E replayed \in BOOLEAN : RetryRow(c, replayed)
      BY <3>1, <3>4, RetryRowEffect
    <3>5. CASE CompleteMismatch(c)
      BY <3>1, <3>5, CompleteMismatchEffect
    <3>6. QED BY <2>4, <3>2, <3>3, <3>4, <3>5 DEF Settles
  <2>5. Tick \/ UNCHANGED data => po' = po
    BY DEF Tick, data
  <2>6. QED BY <2>1, <2>2, <2>3, <2>4, <2>5, DataStep
<1>2. OrderInv /\ [Next]_vars =>
        [po.status \in {"cancelled", "shipped"} =>
           po'.status = po.status \/ ImportFromOdoo]_vars
  BY <1>1
<1>3. QED BY <1>2, OrderInvariant, PTL DEF Spec, ClosedOrderStaysClosed

\* A closed row, its amendment and its draft are final, whatever older lease a run
\* still works from.
THEOREM ClosedRow == Spec => ClosedRowStaysClosed
<1> DEFINE Kept(m) == /\ row'[m] = row[m] /\ amendment'[m] = amendment[m]
                      /\ draft'[m] = draft[m]
<1>1. ASSUME TypeOK, [Next]_vars, NEW m \in Msgs, row[m].status \in Terminal PROVE Kept(m)
  <2> USE <1>1
  <2>1. row[m].status \notin Open /\ row[m].status # "absent"
    BY DEF Terminal, Open
  <2>2. ASSUME NEW n \in Msgs, Enqueues(n) PROVE Kept(m)
    <3>1. n # m
      BY <2>1, <2>2, EnqueuesEffect
    <3>2. /\ OnlyRow(n)
          /\ amendment' = IF row'[n].kind \in AmendmentKinds
                          THEN [amendment EXCEPT ![n] = "queued"] ELSE amendment
          /\ draft' = draft \/ draft' = [draft EXCEPT ![n] = "approved_queued"]
      BY <2>2, EnqueuesEffect
    <3>3. QED BY <3>1, <3>2 DEF OnlyRow, TypeOK
  <2>3. ASSUME MovesOrder PROVE Kept(m)
    BY <2>3, OrderCommandEffect DEF MovesOrder
  <2>4. ASSUME NEW w \in Workers, RunTenant(w) PROVE Kept(m)
    BY <2>1, <2>4, RunTenantEffect
  <2>5. ASSUME NEW c, Settles(c) PROVE Kept(m)
    BY <2>1, <2>5, SettleEffect DEF Open, OnlyRow, OnlyAmendment
  <2>6. ASSUME Tick PROVE Kept(m)
    BY <2>1, <2>6, ElapsedRow DEF Tick, TypeOK, Open
  <2>7. UNCHANGED data => Kept(m)
    BY DEF data
  <2>8. QED BY <2>2, <2>3, <2>4, <2>5, <2>6, <2>7, DataStep
<1>2. TypeOK /\ [Next]_vars =>
        [\A m \in Msgs : row[m].status \in Terminal =>
           /\ row'[m] = row[m] /\ amendment'[m] = amendment[m] /\ draft'[m] = draft[m]]_vars
  BY <1>1
<1>3. QED BY <1>2, TypeCorrect, PTL DEF Spec, ClosedRowStaysClosed

-----------------------------------------------------------------------------
(***************************************************************************)
(* Leases.  Tokens only grow, and a run gets new claims only from          *)
(* RunTenant, with tokens no row has had before.                           *)
(***************************************************************************)

\* The token of a row never decreases.
LEMMA TokensGrow ==
  ASSUME OrderInv, [Next]_vars, NEW m \in Msgs
  PROVE  row[m].token \in Nat /\ row'[m].token \in Nat /\ row[m].token <= row'[m].token
<1> USE DEF OrderInv
<1>1. row[m].token \in Nat
  BY DEF TypeOK, Row
<1>2. row'[m].token \in Nat
  BY NextType DEF TypeOK, Row
<1>3. ASSUME NEW n \in Msgs, Enqueues(n) PROVE row[m].token <= row'[m].token
  <2>1. row[n].status = "absent" /\ OnlyRow(n)
    BY <1>3, EnqueuesEffect
  <2>2. row[n].token = 0
    BY <2>1 DEF AbsentRowsAreBlank, NoRow
  <2>3. QED BY <1>1, <1>2, <2>1, <2>2 DEF OnlyRow
<1>4. ASSUME MovesOrder PROVE row' = row
  BY <1>4, OrderCommandEffect DEF MovesOrder
<1>5. ASSUME NEW w \in Workers, RunTenant(w) PROVE row[m].token <= row'[m].token
  <2>1. row'[m].token \in {row[m].token, row[m].token + 1}
    BY <1>5, RunTenantEffect
  <2>2. QED BY <1>1, <2>1
<1>6. ASSUME NEW c, Settles(c) PROVE row'[m].token = row[m].token
  BY <1>6, SettleEffect DEF OnlyRow
<1>7. ASSUME Tick PROVE row'[m].token = row[m].token
  BY <1>7, ElapsedRow DEF Tick, TypeOK
<1>8. QED BY <1>1, <1>2, <1>3, <1>4, <1>5, <1>6, <1>7, DataStep DEF data

\* Only RunTenant gives a run new claims.
LEMMA ClaimsShrink ==
  ASSUME TypeOK, [Next]_vars, ~\E w \in Workers : RunTenant(w), NEW v \in Workers
  PROVE  Held(v)' \subseteq Held(v)
<1>1. /\ batch \in [Workers -> SUBSET Claim]
      /\ calling \in [Workers -> Claim \cup {NoClaim}]
  BY DEF TypeOK
<1>2. batch' = batch /\ calling' = calling => Held(v)' \subseteq Held(v)
  BY DEF Held
<1>3. ASSUME NEW m \in Msgs, Enqueues(m) PROVE batch' = batch /\ calling' = calling
  BY <1>3 DEF Enqueues, SendPo, CreateOdooPoDraft, AmendPo, CancelPo, ApproveDraft, runs
<1>4. ASSUME MovesOrder PROVE batch' = batch /\ calling' = calling
  BY <1>4, OrderCommandEffect DEF MovesOrder
<1>5. ASSUME NEW w \in Workers, BeginCall(w) PROVE Held(v)' \subseteq Held(v)
  <2>1. PICK c \in batch[w] : /\ calling' = [calling EXCEPT ![w] = c]
                              /\ batch' = [batch EXCEPT ![w] = @ \ {c}]
    BY <1>5 DEF BeginCall
  <2>2. CASE v = w
    BY <1>1, <2>1, <2>2 DEF Held
  <2>3. CASE v # w
    BY <1>1, <2>1, <2>3 DEF Held
  <2>4. QED BY <2>2, <2>3
<1>6. ASSUME NEW w \in Workers, RejectBeforeCall(w) \/ RejectTooLate(w)
      PROVE  Held(v)' \subseteq Held(v)
  <2>1. calling' = calling
    BY <1>6 DEF RejectBeforeCall, RejectTooLate
  <2>2. \/ batch' = [batch EXCEPT ![w] = {}]
        \/ \E c \in batch[w] : batch' = [batch EXCEPT ![w] = @ \ {c}]
    BY <1>6 DEF RejectBeforeCall, RejectTooLate
  <2>3. batch'[v] \subseteq batch[v]
    BY <1>1, <2>2
  <2>4. QED BY <2>1, <2>3 DEF Held
<1>7. ASSUME NEW w \in Workers, ExternalActs(w) PROVE batch' = batch /\ calling' = calling
  BY <1>7 DEF ExternalActs
<1>8. ASSUME NEW w \in Workers, Return(w) PROVE Held(v)' \subseteq Held(v)
  <2>1. /\ calling' = [calling EXCEPT ![w] = NoClaim]
        /\ batch' = batch \/ batch' = [batch EXCEPT ![w] = {}]
    BY <1>8, ReturnEffect
  <2>2. batch'[v] \subseteq batch[v] /\ calling'[v] \in {calling[v], NoClaim}
    BY <1>1, <2>1
  <2>3. QED BY <2>2 DEF Held
<1>9. ASSUME Crash PROVE Held(v)' \subseteq Held(v)
  BY <1>9 DEF Crash, Held
<1>10. Tick \/ Connect \/ Disconnect \/ UNCHANGED vars => batch' = batch /\ calling' = calling
  BY DEF Tick, Connect, Disconnect, vars, runs
<1>11. QED
  BY <1>2, <1>3, <1>4, <1>5, <1>6, <1>7, <1>8, <1>9, <1>10
     DEF Next, Command, Dispatch, Environment, Enqueues, MovesOrder

\* The claims of a run are claims on rows.
LEMMA HeldClaims ==
  ASSUME TypeOK, NEW w \in Workers
  PROVE  \A c \in Held(w) : c \in Claim /\ c.msg \in Msgs /\ c.token \in Nat
BY DEF TypeOK, Held, Claim

\* Every step keeps the tokens issued and unique.
LEMMA NextLease == OrderInv /\ LeaseInv /\ [Next]_vars => LeaseInv'
<1> SUFFICES ASSUME OrderInv, LeaseInv, [Next]_vars PROVE LeaseInv'
  OBVIOUS
<1>1. TypeOK /\ TypeOK'
  BY NextType DEF OrderInv
<1>2. \A m \in Msgs : row[m].token \in Nat /\ row'[m].token \in Nat /\ row[m].token <= row'[m].token
  BY TokensGrow
<1>3. \A v \in Workers : \A c \in Held(v) : c.msg \in Msgs /\ c.token \in Nat
  BY <1>1, HeldClaims
<1>4. CASE ~\E w \in Workers : RunTenant(w)
  <2>1. \A v \in Workers : Held(v)' \subseteq Held(v)
    BY <1>1, <1>4, ClaimsShrink
  <2>2. TokensAreIssued'
    <3>1. ASSUME NEW v \in Workers, NEW c \in Held(v)' PROVE c.token <= row'[c.msg].token
      <4>1. c \in Held(v)
        BY <2>1
      <4>2. c.token <= row[c.msg].token
        BY <4>1 DEF LeaseInv, TokensAreIssued
      <4>3. QED BY <1>2, <1>3, <4>1, <4>2
    <3>2. QED BY <3>1 DEF TokensAreIssued
  <2>3. TokensAreUnique'
    BY <2>1 DEF LeaseInv, TokensAreUnique
  <2>4. QED BY <1>1, <2>2, <2>3 DEF LeaseInv
<1>5. ASSUME NEW w \in Workers, RunTenant(w) PROVE LeaseInv'
  <2>1. PICK S \in SUBSET Msgs :
          /\ batch' = [batch EXCEPT ![w] = {ClaimOf(m) : m \in S}]
          /\ \A m \in Msgs : row'[m].token = IF m \in S THEN row[m].token + 1 ELSE row[m].token
    BY <1>1, <1>5, RunTenantEffect
  <2>2. Idle(w) /\ calling' = calling
    BY <1>1, <1>5, RunTenantEffect
  <2>3. \A v \in Workers \ {w} : Held(v)' = Held(v)
    BY <1>1, <2>1, <2>2 DEF Held, TypeOK
  <2>4. Held(w)' = {ClaimOf(m) : m \in S}
    BY <1>1, <2>1, <2>2 DEF Held, TypeOK, Idle
  <2>5. \A c \in Held(w)' : c.msg \in S /\ c.token = row[c.msg].token + 1
    BY <2>4 DEF ClaimOf, LeaseToken
  <2>6. TokensAreIssued'
    <3>1. ASSUME NEW v \in Workers, NEW c \in Held(v)' PROVE c.token <= row'[c.msg].token
      <4>1. CASE v = w
        BY <1>2, <2>1, <2>5, <4>1
      <4>2. CASE v # w
        <5>1. c \in Held(v) /\ c.token <= row[c.msg].token
          BY <2>3, <4>2 DEF LeaseInv, TokensAreIssued
        <5>2. QED BY <1>2, <1>3, <5>1
      <4>3. QED BY <4>1, <4>2
    <3>2. QED BY <3>1 DEF TokensAreIssued
  <2>7. TokensAreUnique'
    <3>1. ASSUME NEW v \in Workers \ {w}, NEW c \in Held(v), NEW d \in Held(w)', c.msg = d.msg
          PROVE  c.token # d.token
      <4>1. c.token <= row[c.msg].token /\ d.token = row[c.msg].token + 1
        BY <2>5, <3>1 DEF LeaseInv, TokensAreIssued
      <4>2. QED BY <1>2, <1>3, <4>1
    <3>2. ASSUME NEW u \in Workers, NEW v \in Workers, NEW c \in Held(u)', NEW d \in Held(v)',
                 c.msg = d.msg, c.token = d.token
          PROVE  u = v
      <4>1. CASE u # w /\ v # w
        BY <2>3, <3>2, <4>1 DEF LeaseInv, TokensAreUnique
      <4>2. CASE u = w /\ v # w
        BY <2>3, <3>1, <3>2, <4>2
      <4>3. CASE u # w /\ v = w
        BY <2>3, <3>1, <3>2, <4>3
      <4>4. QED BY <4>1, <4>2, <4>3
    <3>3. QED BY <3>2 DEF TokensAreUnique
  <2>8. QED BY <1>1, <2>6, <2>7 DEF LeaseInv
<1>6. QED BY <1>4, <1>5

\* Tokens are issued and unique in every reachable state.
LEMMA LeaseInvariant == Spec => []LeaseInv
<1>1. Init => LeaseInv
  <2>1. Init => \A w \in Workers : Held(w) = {}
    BY DEF Init, Held
  <2>2. QED BY <2>1, InitType DEF LeaseInv, TokensAreIssued, TokensAreUnique
<1>2. QED BY <1>1, NextLease, OrderInvariant, PTL DEF Spec

\* At most one run can settle a row at any time, for any number of runs of the timer
\* and of the dispatch request: the token a lease is given is never given again.
THEOREM SingleSettler == Spec => []OneRunCanSettle
<1>1. LeaseInv => OneRunCanSettle
  <2> SUFFICES ASSUME LeaseInv, NEW m \in Msgs PROVE Cardinality(Current(m)) <= 1
    BY DEF OneRunCanSettle
  <2>1. \A v, w \in Current(m) : v = w
    BY DEF LeaseInv, TokensAreUnique, Current
  <2>2. CASE Current(m) = {}
    BY <2>2, FS_EmptySet
  <2>3. CASE Current(m) # {}
    <3>1. PICK w \in Current(m) : TRUE
      BY <2>3
    <3>2. Current(m) = {w}
      BY <2>1, <3>1
    <3>3. Cardinality({w}) = 1
      BY FS_Singleton
    <3>4. QED BY <3>2, <3>3
  <2>4. QED BY <2>2, <2>3
<1>2. QED BY <1>1, LeaseInvariant, PTL

=============================================================================
