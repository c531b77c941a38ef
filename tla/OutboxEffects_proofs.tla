------------------------ MODULE OutboxEffects_proofs ------------------------
(***************************************************************************)
(* Proofs about what the external systems did for an outbox row, against   *)
(* what the row, the draft and the order say they did.                     *)
(***************************************************************************)
EXTENDS Outbox_proofs

-----------------------------------------------------------------------------
(***************************************************************************)
(* The inductive invariant.                                                *)
(***************************************************************************)

\* The claim a run calls for is no longer in its batch.
CallLeftBatch == \A w \in Workers : calling[w] \notin batch[w]

\* A call that was acted on has left its effect.
ActedInv == \A w \in Workers : calling[w] # NoClaim /\ acted[w] => effects[calling[w].msg] > 0

\* The claims on m that may still have an effect, with the runs that hold them.
MayAct(w, c) == c \in batch[w] \/ (calling[w] = c /\ ~acted[w])
Potential(m) == {p \in Workers \X Claim : p[2].msg = m /\ MayAct(p[1], p[2])}

\* The row may be leased without a lease having run out.
Ready(m) == IF row[m].status \in {"absent", "blocked", "pending"} THEN 1 ELSE 0

\* Every effect, possible effect and lease to come is paid for by the first lease or a reclaim.
Debt(m) ==
  /\ IsFiniteSet(Potential(m))
  /\ Cardinality(Potential(m)) + Ready(m) + effects[m] <= 1 + reclaims[m]

\* Without a reclaim one claim is held at most, and only for a row under way.
Sole(m) ==
  reclaims[m] = 0 =>
    \A v, w \in Workers : \A c \in Held(v), d \in Held(w) :
      c.msg = m /\ d.msg = m => v = w /\ c = d /\ row[m].status = "processing"

EffectInv ==
  /\ CallLeftBatch /\ ActedInv
  /\ \A m \in Msgs : Debt(m) /\ Sole(m)

-----------------------------------------------------------------------------
(***************************************************************************)
(* The kinds of step.                                                      *)
(***************************************************************************)

\* Runs only lose claims.
Drops ==
  \A v \in Workers :
    /\ batch'[v] \subseteq batch[v]
    /\ calling'[v] = NoClaim \/ (calling'[v] = calling[v] /\ acted'[v] = acted[v])

\* A step that settles and leases nothing: at most the row is written for the first time.
Calm(m) ==
  \/ /\ row'[m].status = row[m].status /\ row'[m].kind = row[m].kind
     /\ row'[m].version = row[m].version /\ row'[m].attention = row[m].attention
     /\ draft'[m] = draft[m]
  \/ /\ row[m].status = "absent" /\ row'[m].status \in {"blocked", "pending"}
     /\ draft'[m] \in {draft[m], "approved_queued"}

Quiet ==
  /\ Drops /\ UNCHANGED history
  /\ po'.version >= po.version
  /\ \A m \in Msgs : Calm(m)

\* What a claim that is settled leaves behind: `spent' says that the call was acted on.
Outcome(m, spent) ==
  \/ /\ row'[m].status = "dispatched"
     /\ spent \/ (row'[m].attention = "uncertain" /\ draft'[m] = draft[m])
  \/ /\ row'[m].status = "failed" /\ draft'[m] = draft[m]
     /\ \/ row'[m].attention = "uncertain"
        \/ ~spent
        \/ IsAmendment(m) /\ (amendment[m] # "queued" \/ po.version # row[m].version)
  \/ row'[m].status = "pending" /\ ~spent /\ draft'[m] = draft[m]

\* The run w ends its claim c, which holds the lease.
Ends(w, c) ==
  /\ Settles(c) /\ UNCHANGED history
  /\ \/ /\ calling[w] = NoClaim /\ c \in batch[w]
        /\ batch' = [batch EXCEPT ![w] = @ \ {c}] /\ UNCHANGED <<calling, acted>>
        /\ Outcome(c.msg, FALSE)
     \/ /\ calling[w] = c /\ batch' = batch
        /\ calling' = [calling EXCEPT ![w] = NoClaim] /\ acted' = [acted EXCEPT ![w] = FALSE]
        /\ Outcome(c.msg, acted[w])

LEMMA FailRowOutcome ==
  ASSUME TypeOK, NEW c \in Claim, NEW u \in BOOLEAN, FailRow(c, u), NEW spent \in BOOLEAN,
         \/ u \/ ~spent
         \/ IsAmendment(c.msg) /\ (amendment[c.msg] # "queued" \/ po.version # row[c.msg].version)
  PROVE  Outcome(c.msg, spent)
<1>1. row'[c.msg].status = "failed" /\ draft' = draft
  BY FailRowEffect
<1>2. u => row'[c.msg].attention = "uncertain"
  <2>1. c.msg \in Msgs /\ row \in [Msgs -> Row] /\ row[c.msg] \in Row
    BY DEF TypeOK, Claim
  <2>2. ASSUME u PROVE row' = [row EXCEPT ![c.msg] = Settled(row[c.msg], "failed", "uncertain")]
    BY <2>2 DEF FailRow
  <2>3. QED BY <2>1, <2>2, SettledRow DEF RowStatus
<1>3. QED BY <1>1, <1>2 DEF Outcome

LEMMA CompleteRowOutcome ==
  ASSUME TypeOK, NEW c \in Claim, CompleteRow(c), FactApplies(c.msg)
  PROVE  Outcome(c.msg, TRUE)
BY CompleteRowEffect DEF Outcome

LEMMA ReturnEnds ==
  ASSUME TypeOK, NEW w \in Workers, Returns(w),
         Accepted(w) \/ FactRejected(w) \/ ReadbackMismatch(w) \/ Refused(w)
           \/ Declined(w) \/ ResultUnknown(w) \/ Deferred(w)
  PROVE  Ends(w, calling[w])
<1> DEFINE c == calling[w]
<1>1. /\ c \in Claim /\ c.msg \in Msgs /\ HoldsLease(c) /\ batch' = batch
      /\ calling' = [calling EXCEPT ![w] = NoClaim] /\ acted' = [acted EXCEPT ![w] = FALSE]
      /\ UNCHANGED history /\ acted[w] \in BOOLEAN
  BY DEF Returns, TypeOK, Claim
<1>2. CASE Accepted(w)
  <2>1. acted[w] = TRUE /\ FactApplies(c.msg) /\ CompleteRow(c)
    BY <1>1, <1>2 DEF Accepted
  <2>2. Outcome(c.msg, acted[w])
    BY <1>1, <2>1, CompleteRowOutcome
  <2>3. QED BY <1>1, <2>1, <2>2 DEF Ends, Settles
<1>3. CASE FactRejected(w)
  <2>1. /\ FailRow(c, ~IsAmendment(c.msg)) /\ (~IsAmendment(c.msg)) \in BOOLEAN
        /\ ~FactApplies(c.msg)
    BY <1>3 DEF FactRejected, IsAmendment
  <2>2. IsAmendment(c.msg) => amendment[c.msg] # "queued" \/ po.version # row[c.msg].version
    BY <2>1 DEF FactApplies, IsAmendment, AmendmentKinds
  <2>3. Outcome(c.msg, acted[w])
    BY <1>1, <2>1, <2>2, FailRowOutcome
  <2>4. QED BY <1>1, <2>1, <2>3 DEF Ends, Settles
<1>4. CASE ReadbackMismatch(w)
  <2>1. IsAmendment(c.msg) /\ CompleteMismatch(c)
    BY <1>4 DEF ReadbackMismatch
  <2>2. Outcome(c.msg, acted[w])
    BY <1>1, <2>1, CompleteMismatchEffect DEF Outcome
  <2>3. QED BY <1>1, <2>1, <2>2 DEF Ends, Settles
<1>5. ASSUME NEW u \in BOOLEAN, FailRow(c, u), u \/ acted[w] = FALSE PROVE Ends(w, c)
  <2>1. Outcome(c.msg, acted[w])
    BY <1>1, <1>5, FailRowOutcome
  <2>2. QED BY <1>1, <1>5, <2>1 DEF Ends, Settles
<1>6. ASSUME NEW r \in BOOLEAN, RetryRow(c, r), acted[w] = FALSE, ~IsAmendment(c.msg) PROVE Ends(w, c)
  <2>1. Outcome(c.msg, acted[w])
    BY <1>1, <1>6, RetryRowEffect DEF Outcome
  <2>2. QED BY <1>1, <1>6, <2>1 DEF Ends, Settles
<1>7. CASE Refused(w)
  <2>1. /\ acted[w] = FALSE
        /\ FailRow(c, TRUE) \/ FailRow(c, FALSE) \/ (RetryRow(c, FALSE) /\ ~IsAmendment(c.msg))
    BY <1>1, <1>7 DEF Refused
  <2>2. QED BY <1>5, <1>6, <2>1
<1>8. CASE Declined(w)
  BY <1>1, <1>5, <1>8 DEF Declined
<1>9. CASE ResultUnknown(w)
  BY <1>5, <1>9 DEF ResultUnknown
<1>10. CASE Deferred(w)
  <2>1. acted[w] = FALSE /\ ~IsAmendment(c.msg) /\ \E r \in BOOLEAN : RetryRow(c, r)
    BY <1>1, <1>10 DEF Deferred, IsAmendment, AmendmentKinds
  <2>2. QED BY <1>6, <2>1
<1>11. QED BY <1>2, <1>3, <1>4, <1>7, <1>8, <1>9, <1>10

LEMMA RejectEnds ==
  ASSUME TypeOK, NEW w \in Workers, RejectBeforeCall(w)
  PROVE  \E c \in batch[w] : Ends(w, c)
<1>1. PICK c \in batch[w] : /\ ~Resolves(c.msg) /\ HoldsLease(c) /\ FailRow(c, FALSE)
                            /\ batch' = [batch EXCEPT ![w] = @ \ {c}]
  BY DEF RejectBeforeCall
<1>2. c \in Claim /\ calling[w] = NoClaim /\ UNCHANGED <<calling, acted>> /\ UNCHANGED history
  BY <1>1 DEF RejectBeforeCall, TypeOK
<1>3. Outcome(c.msg, FALSE)
  BY <1>1, <1>2, FailRowOutcome
<1>4. QED BY <1>1, <1>2, <1>3 DEF Ends, Settles

\* Every step is quiet, ends a claim, or is one of the three steps claims are about.
LEMMA EffectStep ==
  ASSUME TypeOK, [Next]_vars
  PROVE  \/ Quiet
         \/ \E w \in Workers : RunTenant(w) \/ BeginCall(w) \/ ExternalActs(w)
         \/ \E w \in Workers, c \in Claim : Ends(w, c)
<1>1. /\ po.version \in Nat /\ row \in [Msgs -> Row]
      /\ batch \in [Workers -> SUBSET Claim] /\ calling \in [Workers -> Claim \cup {NoClaim}]
  BY DEF TypeOK
<1>2. batch' = batch /\ calling' = calling /\ acted' = acted => Drops
  BY DEF Drops
<1>3. ASSUME row' = row, draft' = draft PROVE \A m \in Msgs : Calm(m)
  BY <1>3 DEF Calm
<1>4. ASSUME NEW m \in Msgs, Enqueues(m) PROVE Quiet
  <2>1. PICK kind : Enqueue(m, kind)
    BY <1>4 DEF Enqueues, SendPo, CreateOdooPoDraft, AmendPo, CancelPo, ApproveDraft
  <2>2. row[m].status = "absent" /\ row'[m].status \in {"blocked", "pending"} /\ OnlyRow(m)
    BY <2>1, EnqueueEffect
  <2>3. /\ UNCHANGED <<runs, history>> /\ po' = po
        /\ draft' = draft \/ draft' = [draft EXCEPT ![m] = "approved_queued"]
    BY <1>4 DEF Enqueues, SendPo, CreateOdooPoDraft, AmendPo, CancelPo, ApproveDraft
  <2>4. ASSUME NEW n \in Msgs PROVE Calm(n)
    <3>1. draft'[m] \in {draft[m], "approved_queued"} /\ (n # m => draft'[n] = draft[n])
      BY <2>3 DEF TypeOK
    <3>2. QED BY <2>2, <3>1 DEF Calm, OnlyRow
  <2>5. po'.version >= po.version
    BY <1>1, <2>3
  <2>6. QED BY <1>2, <2>3, <2>4, <2>5 DEF Quiet, runs
<1>5. ASSUME MovesOrder PROVE Quiet
  <2>1. po'.version = po.version + 1 /\ UNCHANGED <<row, draft, batch, calling, acted, effects, reclaims>>
    BY <1>5, OrderCommandEffect DEF MovesOrder
  <2>2. QED BY <1>1, <1>2, <1>3, <2>1 DEF Quiet, history
<1>6. ASSUME Tick PROVE Quiet
  <2>1. po' = po /\ draft' = draft /\ UNCHANGED <<runs, history>> /\ row' = [m \in Msgs |-> Elapsed(row[m])]
    BY <1>6 DEF Tick
  <2>2. \A m \in Msgs : Calm(m)
    BY <1>1, <2>1, ElapsedRow DEF Calm
  <2>3. QED BY <1>1, <1>2, <2>1, <2>2 DEF Quiet, runs
<1>7. ASSUME UNCHANGED data, UNCHANGED history, Drops PROVE Quiet
  BY <1>1, <1>3, <1>7 DEF Quiet, data
<1>8. ASSUME NEW w \in Workers, RejectTooLate(w) PROVE Quiet
  <2>1. batch' = [batch EXCEPT ![w] = {}] /\ UNCHANGED <<data, calling, acted, history>>
    BY <1>8 DEF RejectTooLate
  <2>2. Drops
    BY <1>1, <2>1 DEF Drops
  <2>3. QED BY <1>7, <2>1, <2>2
<1>9. ASSUME NEW w \in Workers, ReturnsTooLate(w) PROVE Quiet
  <2>1. /\ batch' = [batch EXCEPT ![w] = {}] /\ calling' = [calling EXCEPT ![w] = NoClaim]
        /\ acted' = [acted EXCEPT ![w] = FALSE] /\ UNCHANGED data /\ UNCHANGED history
    BY <1>9 DEF ReturnsTooLate
  <2>2. Drops
    BY <1>1, <2>1 DEF Drops, TypeOK
  <2>3. QED BY <1>7, <2>1, <2>2
<1>10. ASSUME Crash PROVE Quiet
  <2>1. /\ batch' = [w \in Workers |-> {}] /\ calling' = [w \in Workers |-> NoClaim]
        /\ UNCHANGED data /\ UNCHANGED history
    BY <1>10 DEF Crash
  <2>2. Drops
    BY <2>1 DEF Drops
  <2>3. QED BY <1>7, <2>1, <2>2
<1>11. ASSUME Connect \/ Disconnect \/ UNCHANGED vars PROVE Quiet
  <2>1. UNCHANGED data /\ UNCHANGED history /\ batch' = batch /\ calling' = calling /\ acted' = acted
    BY <1>11 DEF Connect, Disconnect, vars, data, history, runs
  <2>2. QED BY <1>2, <1>7, <2>1
<1>12. ASSUME NEW w \in Workers, Return(w) PROVE Quiet \/ \E c \in Claim : Ends(w, c)
  <2>1. CASE ReturnsTooLate(w)
    BY <1>9, <2>1
  <2>2. CASE ~ReturnsTooLate(w)
    <3>1. Returns(w)
      BY <1>12, <2>2 DEF Return, Accepted, FactRejected, ReadbackMismatch, Refused, Declined, ResultUnknown, Deferred
    <3>2. Ends(w, calling[w])
      BY <1>12, <2>2, <3>1, ReturnEnds DEF Return
    <3>3. calling[w] \in Claim
      BY <1>1, <3>1 DEF Returns
    <3>4. QED BY <3>2, <3>3
  <2>3. QED BY <2>1, <2>2
<1>13. ASSUME NEW w \in Workers, RejectBeforeCall(w) PROVE \E c \in Claim : Ends(w, c)
  <2>1. PICK c \in batch[w] : Ends(w, c)
    BY <1>13, RejectEnds
  <2>2. QED BY <1>1, <2>1
<1>14. QED
  BY <1>4, <1>5, <1>6, <1>8, <1>10, <1>11, <1>12, <1>13
     DEF Next, Command, Dispatch, Environment, Enqueues, MovesOrder

-----------------------------------------------------------------------------
(***************************************************************************)
(* Each kind of step keeps the invariant.                                  *)
(***************************************************************************)

LEMMA TypeFacts ==
  ASSUME TypeOK
  PROVE  /\ row \in [Msgs -> Row] /\ amendment \in [Msgs -> AmendmentState]
         /\ batch \in [Workers -> SUBSET Claim] /\ calling \in [Workers -> Claim \cup {NoClaim}]
         /\ acted \in [Workers -> BOOLEAN]
         /\ effects \in [Msgs -> Nat] /\ reclaims \in [Msgs -> Nat]
         /\ \A c \in Claim : c.msg \in Msgs /\ c # NoClaim
BY NoClaimAssumption DEF TypeOK, Claim

\* Runs that only lose claims have no new ones to act on or to hold.
LEMMA DropsLess ==
  ASSUME TypeOK, TypeOK', Drops
  PROVE  /\ \A m \in Msgs : Potential(m)' \subseteq Potential(m)
         /\ \A v \in Workers : Held(v)' \subseteq Held(v)
         /\ CallLeftBatch => CallLeftBatch'
         /\ ActedInv /\ UNCHANGED history => ActedInv'
<1>1. ASSUME NEW v \in Workers
      PROVE  /\ batch'[v] \subseteq batch[v]
             /\ calling'[v] = NoClaim \/ (calling'[v] = calling[v] /\ acted'[v] = acted[v])
             /\ NoClaim \notin batch'[v] /\ NoClaim \notin Claim
  BY TypeFacts, NoClaimAssumption DEF Drops
<1>2. ASSUME NEW m \in Msgs, NEW p \in Potential(m)' PROVE p \in Potential(m)
  <2>1. p \in Workers \X Claim /\ p[1] \in Workers /\ p[2] \in Claim /\ p[2].msg = m /\ MayAct(p[1], p[2])'
    BY <1>2 DEF Potential
  <2>2. MayAct(p[1], p[2])
    BY <1>1, <2>1 DEF MayAct
  <2>3. QED BY <2>1, <2>2 DEF Potential
<1>3. \A v \in Workers : Held(v)' \subseteq Held(v)
  BY <1>1 DEF Held
<1>4. CallLeftBatch => CallLeftBatch'
  BY <1>1 DEF CallLeftBatch
<1>5. ActedInv /\ UNCHANGED history => ActedInv'
  BY <1>1 DEF ActedInv, history
<1>6. QED BY <1>2, <1>3, <1>4, <1>5

\* A row that may act less and is no readier owes no more.
LEMMA DebtShrinks ==
  ASSUME NEW m \in Msgs, TypeOK, Debt(m), Potential(m)' \subseteq Potential(m),
         Ready(m)' <= Ready(m), UNCHANGED history
  PROVE  Debt(m)'
<1>1. IsFiniteSet(Potential(m)') /\ Cardinality(Potential(m)') <= Cardinality(Potential(m))
  BY FS_Subset DEF Debt
<1>2. Cardinality(Potential(m)) \in Nat /\ Cardinality(Potential(m)') \in Nat
  BY <1>1, FS_CardinalityType DEF Debt
<1>3. Ready(m) \in Nat /\ Ready(m)' \in Nat /\ effects[m] \in Nat /\ reclaims[m] \in Nat
  BY TypeFacts DEF Ready
<1>4. effects'[m] = effects[m] /\ reclaims'[m] = reclaims[m]
  BY DEF history
<1>5. QED BY <1>1, <1>2, <1>3, <1>4 DEF Debt

LEMMA QuietStep ==
  ASSUME TypeOK, TypeOK', EffectInv, Quiet
  PROVE  EffectInv'
<1>1. Drops /\ UNCHANGED history /\ \A m \in Msgs : Calm(m)
  BY DEF Quiet
<1>2. CallLeftBatch' /\ ActedInv'
  BY <1>1, DropsLess DEF EffectInv
<1>3. ASSUME NEW m \in Msgs PROVE Debt(m)' /\ Sole(m)'
  <2>1. Calm(m) /\ Debt(m) /\ Sole(m) /\ reclaims'[m] = reclaims[m]
    BY <1>1, <1>3 DEF EffectInv, history
  <2>2. Ready(m)' <= Ready(m)
    BY <2>1 DEF Calm, Ready
  <2>3. Debt(m)'
    BY <1>1, <2>1, <2>2, DropsLess, DebtShrinks
  <2>4. \A v \in Workers : Held(v)' \subseteq Held(v)
    BY <1>1, DropsLess
  <2>5. row[m].status = "processing" => row'[m].status = "processing"
    BY <2>1 DEF Calm
  <2>6. Sole(m)'
    BY <2>1, <2>4, <2>5 DEF Sole
  <2>7. QED BY <2>3, <2>6
<1>4. QED BY <1>2, <1>3 DEF EffectInv

\* Calling moves a claim from the batch to the call: it may act as before.
LEMMA CallStep ==
  ASSUME TypeOK, TypeOK', EffectInv, NEW w \in Workers, BeginCall(w)
  PROVE  EffectInv'
<1>1. PICK c \in batch[w] : calling' = [calling EXCEPT ![w] = c] /\ batch' = [batch EXCEPT ![w] = @ \ {c}]
  BY DEF BeginCall
<1>2. calling[w] = NoClaim /\ acted' = [acted EXCEPT ![w] = FALSE] /\ UNCHANGED data /\ UNCHANGED history
  BY DEF BeginCall
<1>3. /\ c \in Claim /\ c # NoClaim /\ calling'[w] = c /\ batch'[w] = batch[w] \ {c} /\ acted'[w] = FALSE
      /\ \A v \in Workers \ {w} : calling'[v] = calling[v] /\ batch'[v] = batch[v] /\ acted'[v] = acted[v]
  BY <1>1, <1>2, TypeFacts
<1>4. CallLeftBatch' /\ ActedInv'
  BY <1>2, <1>3 DEF EffectInv, CallLeftBatch, ActedInv, history
<1>5. ASSUME NEW v \in Workers, NEW d \in Claim PROVE MayAct(v, d)' <=> MayAct(v, d)
  BY <1>2, <1>3, NoClaimAssumption DEF MayAct
<1>6. ASSUME NEW v \in Workers PROVE Held(v)' = Held(v)
  BY <1>1, <1>2, <1>3 DEF Held
<1>7. ASSUME NEW m \in Msgs PROVE Debt(m)' /\ Sole(m)'
  <2>1. ASSUME NEW p \in Potential(m)' PROVE p \in Potential(m)
    <3>1. p \in Workers \X Claim /\ p[1] \in Workers /\ p[2] \in Claim /\ p[2].msg = m /\ MayAct(p[1], p[2])'
      BY <2>1 DEF Potential
    <3>2. QED BY <1>5, <3>1 DEF Potential
  <2>2. Ready(m)' <= Ready(m)
    BY <1>2 DEF Ready, data
  <2>3. Debt(m)'
    BY <1>2, <2>1, <2>2, DebtShrinks DEF EffectInv
  <2>4. Sole(m)'
    BY <1>2, <1>6 DEF EffectInv, Sole, data, history
  <2>5. QED BY <2>3, <2>4
<1>8. QED BY <1>4, <1>7 DEF EffectInv

LEMMA SoleStays ==
  ASSUME NEW m \in Msgs, Sole(m), UNCHANGED data, reclaims' = reclaims, batch' = batch, calling' = calling
  PROVE  Sole(m)'
BY DEF Sole, Held, data

\* The other side acts: what might have had an effect has had it.
LEMMA ActStep ==
  ASSUME TypeOK, TypeOK', EffectInv, NEW w \in Workers, ExternalActs(w)
  PROVE  EffectInv'
<1> DEFINE c == calling[w]
<1>1. /\ c \in Claim /\ c.msg \in Msgs /\ acted[w] = FALSE
      /\ acted' = [acted EXCEPT ![w] = TRUE] /\ effects' = [effects EXCEPT ![c.msg] = @ + 1]
      /\ batch' = batch /\ calling' = calling /\ UNCHANGED data /\ reclaims' = reclaims
  BY TypeFacts DEF ExternalActs
<1>2. /\ acted'[w] = TRUE /\ \A v \in Workers \ {w} : acted'[v] = acted[v]
      /\ effects'[c.msg] = effects[c.msg] + 1 /\ effects[c.msg] \in Nat
      /\ \A m \in Msgs \ {c.msg} : effects'[m] = effects[m]
      /\ \A m \in Msgs : effects[m] \in Nat /\ effects'[m] \in Nat
  BY <1>1, TypeFacts
<1>3. CallLeftBatch'
  BY <1>1 DEF EffectInv, CallLeftBatch
<1>4. ActedInv'
  <2>1. ASSUME NEW v \in Workers, calling[v] # NoClaim, acted'[v] PROVE effects'[calling[v].msg] > 0
    <3>1. calling[v].msg \in Msgs
      BY <2>1, TypeFacts
    <3>2. CASE v = w
      BY <1>2, <3>2
    <3>3. CASE v # w
      <4>1. effects[calling[v].msg] > 0
        BY <1>2, <2>1, <3>3 DEF EffectInv, ActedInv
      <4>2. QED BY <1>2, <3>1, <4>1
    <3>4. QED BY <3>2, <3>3
  <2>2. QED BY <1>1, <2>1 DEF ActedInv
<1>5. ASSUME NEW v \in Workers, NEW d \in Claim, MayAct(v, d)' PROVE MayAct(v, d) /\ <<v, d>> # <<w, c>>
  BY <1>1, <1>2, <1>5 DEF MayAct, EffectInv, CallLeftBatch
<1>6. ASSUME NEW m \in Msgs PROVE Debt(m)' /\ Sole(m)'
  <2>0. Debt(m) /\ Sole(m)
    BY DEF EffectInv
  <2>1. ASSUME NEW p \in Potential(m)' PROVE p \in Potential(m) \ {<<w, c>>}
    <3>1. /\ p \in Workers \X Claim /\ p[1] \in Workers /\ p[2] \in Claim /\ p = <<p[1], p[2]>>
          /\ p[2].msg = m /\ MayAct(p[1], p[2])'
      BY <2>1 DEF Potential
    <3>2. QED BY <1>5, <3>1 DEF Potential
  <2>2. Ready(m)' = Ready(m) /\ Ready(m) \in Nat /\ reclaims[m] \in Nat
    BY <1>1, TypeFacts DEF Ready, data
  <2>3. IsFiniteSet(Potential(m) \ {<<w, c>>})
    BY <2>0, FS_RemoveElement DEF Debt
  <2>4. /\ IsFiniteSet(Potential(m)') /\ Cardinality(Potential(m)') <= Cardinality(Potential(m) \ {<<w, c>>})
    BY <2>1, <2>3, FS_Subset
  <2>5. /\ Cardinality(Potential(m)) \in Nat /\ Cardinality(Potential(m)') \in Nat
        /\ Cardinality(Potential(m) \ {<<w, c>>}) \in Nat
    BY <2>0, <2>3, <2>4, FS_CardinalityType DEF Debt
  <2>6. CASE m = c.msg
    <3>1. <<w, c>> \in Potential(m)
      BY <1>1, <2>6 DEF Potential, MayAct
    <3>2. Cardinality(Potential(m) \ {<<w, c>>}) = Cardinality(Potential(m)) - 1
      BY <2>0, <3>1, FS_RemoveElement DEF Debt
    <3>3. effects'[m] = effects[m] + 1
      BY <1>2, <2>6
    <3>4. QED BY <1>1, <1>2, <2>0, <2>2, <2>4, <2>5, <3>2, <3>3, SoleStays DEF Debt
  <2>7. CASE m # c.msg
    <3>1. Potential(m)' \subseteq Potential(m)
      BY <2>1
    <3>2. Cardinality(Potential(m)') <= Cardinality(Potential(m))
      BY <2>0, <3>1, FS_Subset DEF Debt
    <3>3. effects'[m] = effects[m]
      BY <1>2, <2>7
    <3>4. QED BY <1>1, <1>2, <2>0, <2>2, <2>4, <2>5, <3>2, <3>3, SoleStays DEF Debt
  <2>8. QED BY <2>6, <2>7
<1>7. QED BY <1>3, <1>4, <1>6 DEF EffectInv

\* What a run leases was ready, or its lease had run out.
LEMMA LeaseKinds ==
  ASSUME TypeOK, NEW w \in Workers, RunTenant(w)
  PROVE  /\ Idle(w) /\ UNCHANGED <<amendment, draft, po, calling, acted, effects>>
         /\ \E S \in SUBSET Msgs :
              /\ batch' = [batch EXCEPT ![w] = {ClaimOf(m) : m \in S}]
              /\ \A m \in S :
                   /\ ClaimOf(m) \in Claim /\ ClaimOf(m).msg = m /\ row'[m].status = "processing"
                   /\ \/ row[m].status \in {"blocked", "pending"} /\ reclaims'[m] = reclaims[m]
                      \/ row[m].status = "processing" /\ reclaims'[m] = reclaims[m] + 1
              /\ \A m \in Msgs \ S :
                   /\ reclaims'[m] = reclaims[m]
                   /\ \/ row'[m].status = row[m].status
                      \/ row[m].status = "blocked" /\ row'[m].status = "pending"
<1> DEFINE due == {m \in Msgs : Due(Requeued(row[m]))}
<1>1. PICK S \in SUBSET due :
        /\ row' = [m \in Msgs |->
                     IF m \in S THEN Leased(Requeued(row[m])) ELSE Requeued(row[m])]
        /\ batch' = [batch EXCEPT ![w] = {ClaimOf(m) : m \in S}]
        /\ reclaims' = [m \in Msgs |->
                          reclaims[m] + IF m \in S /\ LeaseExpired(row[m]) THEN 1 ELSE 0]
  BY DEF RunTenant
<1>2. Idle(w) /\ UNCHANGED <<amendment, draft, po, calling, acted, effects>>
  BY DEF RunTenant
<1>3. ASSUME NEW m \in Msgs
      PROVE  /\ Requeued(row[m]) \in Row
             /\ row[m].status # "blocked" => Requeued(row[m]) = row[m]
             /\ row[m].status = "blocked" => Requeued(row[m]).status \in {"blocked", "pending"}
             /\ reclaims[m] \in Nat
             /\ reclaims'[m] = reclaims[m] + IF m \in S /\ LeaseExpired(row[m]) THEN 1 ELSE 0
             /\ row'[m] = IF m \in S THEN Leased(Requeued(row[m])) ELSE Requeued(row[m])
  BY <1>1, TypeFacts, RequeuedRow
<1>4. ASSUME NEW m \in S
      PROVE  /\ ClaimOf(m) \in Claim /\ ClaimOf(m).msg = m /\ row'[m].status = "processing"
             /\ \/ row[m].status \in {"blocked", "pending"} /\ reclaims'[m] = reclaims[m]
                \/ row[m].status = "processing" /\ reclaims'[m] = reclaims[m] + 1
  <2>1. m \in Msgs /\ Due(Requeued(row[m]))
    OBVIOUS
  <2>2. row'[m].status = "processing"
    BY <1>3, <2>1, LeasedRow
  <2>3. ClaimOf(m) \in Claim /\ ClaimOf(m).msg = m
    BY <2>1 DEF ClaimOf, LeaseToken, Claim, TypeOK, Row
  <2>4. CASE row[m].status = "blocked"
    <3>1. ~LeaseExpired(row[m])
      BY <2>4 DEF LeaseExpired
    <3>2. QED BY <1>3, <2>1, <2>2, <2>3, <2>4, <3>1
  <2>5. CASE row[m].status # "blocked"
    <3>1. Due(row[m])
      BY <1>3, <2>1, <2>5
    <3>2. CASE row[m].status = "pending"
      <4>1. ~LeaseExpired(row[m])
        BY <3>2 DEF LeaseExpired
      <4>2. QED BY <1>3, <2>1, <2>2, <2>3, <3>2, <4>1
    <3>3. CASE LeaseExpired(row[m])
      <4>1. row[m].status = "processing"
        BY <3>3 DEF LeaseExpired
      <4>2. QED BY <1>3, <2>1, <2>2, <2>3, <3>3, <4>1
    <3>4. QED BY <3>1, <3>2, <3>3 DEF Due
  <2>6. QED BY <2>4, <2>5
<1>5. ASSUME NEW m \in Msgs \ S
      PROVE  /\ reclaims'[m] = reclaims[m]
             /\ \/ row'[m].status = row[m].status
                \/ row[m].status = "blocked" /\ row'[m].status = "pending"
  BY <1>3
<1>6. S \in SUBSET Msgs
  OBVIOUS
<1>7. QED BY <1>1, <1>2, <1>4, <1>5, <1>6

\* A lease adds a claim that may act, and takes the row's readiness or counts a reclaim.
LEMMA LeaseStep ==
  ASSUME TypeOK, TypeOK', EffectInv, NEW w \in Workers, RunTenant(w)
  PROVE  EffectInv'
<1>1. PICK S \in SUBSET Msgs :
        /\ batch' = [batch EXCEPT ![w] = {ClaimOf(m) : m \in S}]
        /\ \A m \in S :
             /\ ClaimOf(m) \in Claim /\ ClaimOf(m).msg = m /\ row'[m].status = "processing"
             /\ \/ row[m].status \in {"blocked", "pending"} /\ reclaims'[m] = reclaims[m]
                \/ row[m].status = "processing" /\ reclaims'[m] = reclaims[m] + 1
        /\ \A m \in Msgs \ S :
             /\ reclaims'[m] = reclaims[m]
             /\ \/ row'[m].status = row[m].status
                \/ row[m].status = "blocked" /\ row'[m].status = "pending"
  BY LeaseKinds
<1>2. /\ batch[w] = {} /\ calling[w] = NoClaim
      /\ calling' = calling /\ acted' = acted /\ effects' = effects
  BY LeaseKinds DEF Idle
<1>3. /\ batch'[w] = {ClaimOf(m) : m \in S} /\ NoClaim \notin batch'[w]
      /\ \A v \in Workers \ {w} : batch'[v] = batch[v]
  BY <1>1, TypeFacts
<1>4. CallLeftBatch' /\ ActedInv'
  BY <1>2, <1>3 DEF EffectInv, CallLeftBatch, ActedInv
<1>5. ASSUME NEW v \in Workers, v # w PROVE Held(v)' = Held(v)
  BY <1>2, <1>3, <1>5 DEF Held
<1>6. Held(w)' = {ClaimOf(m) : m \in S}
  BY <1>2, <1>3 DEF Held
<1>7. ASSUME NEW m \in Msgs PROVE Debt(m)' /\ Sole(m)'
  <2>0. /\ Debt(m) /\ Sole(m) /\ reclaims[m] \in Nat /\ reclaims'[m] \in Nat /\ effects[m] \in Nat
        /\ effects'[m] = effects[m]
    BY <1>2, TypeFacts DEF EffectInv, TypeOK
  <2>1. ASSUME NEW p \in Potential(m)', m \notin S \/ p # <<w, ClaimOf(m)>> PROVE p \in Potential(m)
    <3>1. /\ p \in Workers \X Claim /\ p[1] \in Workers /\ p[2] \in Claim /\ p = <<p[1], p[2]>>
          /\ p[2].msg = m /\ MayAct(p[1], p[2])'
      BY <2>1 DEF Potential
    <3>2. CASE p[1] # w
      BY <1>2, <1>3, <3>1, <3>2 DEF Potential, MayAct
    <3>3. CASE p[1] = w
      <4>1. p[2] \in {ClaimOf(n) : n \in S}
        BY <1>2, <1>3, <3>1, <3>3, NoClaimAssumption DEF MayAct
      <4>2. PICK n \in S : p[2] = ClaimOf(n)
        BY <4>1
      <4>3. n = m
        BY <1>1, <3>1, <4>2
      <4>4. QED BY <2>1, <3>1, <3>3, <4>2, <4>3
    <3>4. QED BY <3>2, <3>3
  <2>2. CASE m \in S
    <3>1. Potential(m)' \subseteq Potential(m) \cup {<<w, ClaimOf(m)>>}
      BY <2>1
    <3>2. /\ IsFiniteSet(Potential(m) \cup {<<w, ClaimOf(m)>>})
          /\ Cardinality(Potential(m) \cup {<<w, ClaimOf(m)>>}) <= Cardinality(Potential(m)) + 1
          /\ Cardinality(Potential(m)) \in Nat
      <4>1. IsFiniteSet(Potential(m))
        BY <2>0 DEF Debt
      <4>2. Cardinality(Potential(m)) \in Nat
        BY <4>1, FS_CardinalityType
      <4>3. /\ IsFiniteSet(Potential(m) \cup {<<w, ClaimOf(m)>>})
            /\ \/ Cardinality(Potential(m) \cup {<<w, ClaimOf(m)>>}) = Cardinality(Potential(m))
               \/ Cardinality(Potential(m) \cup {<<w, ClaimOf(m)>>}) = Cardinality(Potential(m)) + 1
        BY <4>1, FS_AddElement
      <4>4. QED BY <4>2, <4>3
    <3>3. /\ IsFiniteSet(Potential(m)')
          /\ Cardinality(Potential(m)') <= Cardinality(Potential(m) \cup {<<w, ClaimOf(m)>>})
      BY <3>1, <3>2, FS_Subset
    <3>4. /\ Cardinality(Potential(m)') \in Nat
          /\ Cardinality(Potential(m) \cup {<<w, ClaimOf(m)>>}) \in Nat
      BY <3>2, <3>3, FS_CardinalityType
    <3>5. Ready(m)' = 0
      BY <1>1, <2>2 DEF Ready
    <3>6. Debt(m)'
      <4>1. CASE row[m].status \in {"blocked", "pending"} /\ reclaims'[m] = reclaims[m]
        <5>1. Ready(m) = 1
          BY <4>1 DEF Ready
        <5>2. QED BY <2>0, <3>2, <3>3, <3>4, <3>5, <4>1, <5>1 DEF Debt
      <4>2. CASE row[m].status = "processing" /\ reclaims'[m] = reclaims[m] + 1
        <5>1. Ready(m) = 0
          BY <4>2 DEF Ready
        <5>2. QED BY <2>0, <3>2, <3>3, <3>4, <3>5, <4>2, <5>1 DEF Debt
      <4>3. QED BY <1>1, <2>2, <4>1, <4>2
    <3>7. Sole(m)'
      <4>1. SUFFICES ASSUME reclaims'[m] = 0, NEW u \in Workers, NEW v \in Workers,
                            NEW c \in Held(u)', NEW d \in Held(v)', c.msg = m, d.msg = m
                     PROVE  u = v /\ c = d /\ row'[m].status = "processing"
        BY DEF Sole
      <4>2. row[m].status \in {"blocked", "pending"} /\ reclaims[m] = 0 /\ row'[m].status = "processing"
        BY <1>1, <2>0, <2>2, <4>1
      <4>3. ASSUME NEW x \in Workers \ {w}, NEW e \in Held(x) PROVE e.msg # m
        BY <2>0, <4>2 DEF Sole
      <4>4. u = w /\ v = w
        BY <1>5, <4>1, <4>3
      <4>5. c = ClaimOf(m) /\ d = ClaimOf(m)
        BY <1>1, <1>6, <4>1, <4>4
      <4>6. QED BY <4>2, <4>4, <4>5
    <3>8. QED BY <3>6, <3>7
  <2>3. CASE m \notin S
    <3>1. Potential(m)' \subseteq Potential(m)
      BY <2>1, <2>3
    <3>2. /\ reclaims'[m] = reclaims[m] /\ Ready(m)' = Ready(m) /\ Ready(m) \in Nat
          /\ row[m].status = "processing" => row'[m].status = "processing"
      BY <1>1, <2>3 DEF Ready
    <3>3. /\ IsFiniteSet(Potential(m)') /\ Cardinality(Potential(m)') <= Cardinality(Potential(m))
      BY <2>0, <3>1, FS_Subset DEF Debt
    <3>4. Cardinality(Potential(m)') \in Nat /\ Cardinality(Potential(m)) \in Nat
      BY <2>0, <3>3, FS_CardinalityType DEF Debt
    <3>5. Debt(m)'
      BY <2>0, <3>2, <3>3, <3>4 DEF Debt
    <3>6. ASSUME NEW v \in Workers, NEW c \in Held(v)', c.msg = m PROVE v # w /\ c \in Held(v)
      <4>1. v # w
        BY <1>1, <1>6, <2>3, <3>6
      <4>2. QED BY <1>5, <3>6, <4>1
    <3>7. Sole(m)'
      BY <2>0, <3>2, <3>6 DEF Sole
    <3>8. QED BY <3>5, <3>7
  <2>4. QED BY <2>2, <2>3
<1>8. QED BY <1>4, <1>7 DEF EffectInv

\* A settled claim is gone; its row is ready again only if the claim had no effect.
LEMMA EndStep ==
  ASSUME TypeOK, TypeOK', EffectInv, NEW w \in Workers, NEW c \in Claim, Ends(w, c)
  PROVE  EffectInv'
<1>1. /\ Settles(c) /\ UNCHANGED history /\ c.msg \in Msgs /\ c # NoClaim
      /\ row[c.msg].status = "processing" /\ OnlyRow(c.msg)
  BY TypeFacts, SettleEffect DEF Ends
<1>2. Drops
  BY TypeFacts DEF Ends, Drops
<1>3. c \in Held(w) /\ c \notin Held(w)'
  BY <1>1, TypeFacts, NoClaimAssumption DEF Ends, Held, EffectInv, CallLeftBatch
<1>4. /\ \A m \in Msgs : Potential(m)' \subseteq Potential(m)
      /\ \A v \in Workers : Held(v)' \subseteq Held(v)
      /\ CallLeftBatch' /\ ActedInv'
  BY <1>1, <1>2, DropsLess DEF EffectInv
<1>5. ASSUME row'[c.msg].status = "pending"
      PROVE  <<w, c>> \in Potential(c.msg) /\ <<w, c>> \notin Potential(c.msg)'
  <2>1. MayAct(w, c)
    BY <1>1, <1>5 DEF Ends, Outcome, MayAct
  <2>2. ~MayAct(w, c)'
    BY <1>1, TypeFacts, NoClaimAssumption DEF Ends, MayAct, EffectInv, CallLeftBatch
  <2>3. QED BY <1>1, <2>1, <2>2 DEF Potential
<1>6. ASSUME NEW m \in Msgs PROVE Debt(m)' /\ Sole(m)'
  <2>0. /\ Debt(m) /\ Sole(m) /\ reclaims[m] \in Nat /\ effects[m] \in Nat
        /\ effects'[m] = effects[m] /\ reclaims'[m] = reclaims[m]
    BY <1>1, TypeFacts DEF EffectInv, history
  <2>1. CASE m # c.msg
    <3>1. row'[m] = row[m]
      BY <1>1, <2>1 DEF OnlyRow
    <3>2. Ready(m)' <= Ready(m)
      BY <3>1 DEF Ready
    <3>3. Debt(m)'
      BY <1>1, <1>4, <2>0, <3>2, DebtShrinks
    <3>4. Sole(m)'
      BY <1>4, <2>0, <3>1 DEF Sole
    <3>5. QED BY <3>3, <3>4
  <2>2. CASE m = c.msg
    <3>1. Sole(m)'
      BY <1>3, <1>4, <2>0, <2>2 DEF Sole
    <3>2. Ready(m) = 0
      BY <1>1, <2>2 DEF Ready
    <3>3. CASE row'[m].status = "pending"
      <4>1. /\ IsFiniteSet(Potential(m) \ {<<w, c>>})
            /\ Cardinality(Potential(m) \ {<<w, c>>}) = Cardinality(Potential(m)) - 1
        BY <1>5, <2>0, <2>2, <3>3, FS_RemoveElement DEF Debt
      <4>2. Potential(m)' \subseteq Potential(m) \ {<<w, c>>}
        BY <1>4, <1>5, <2>2, <3>3
      <4>3. IsFiniteSet(Potential(m)') /\ Cardinality(Potential(m)') <= Cardinality(Potential(m) \ {<<w, c>>})
        BY <4>1, <4>2, FS_Subset
      <4>4. Cardinality(Potential(m)') \in Nat /\ Cardinality(Potential(m)) \in Nat
        BY <2>0, <4>3, FS_CardinalityType DEF Debt
      <4>5. Ready(m)' = 1
        BY <3>3 DEF Ready
      <4>6. Debt(m)'
        BY <2>0, <3>2, <4>1, <4>3, <4>4, <4>5 DEF Debt
      <4>7. QED BY <3>1, <4>6
    <3>4. CASE row'[m].status # "pending"
      <4>1. row'[m].status \in {"dispatched", "failed"}
        BY <2>2, <3>4 DEF Ends, Outcome
      <4>2. Ready(m)' <= Ready(m)
        BY <3>2, <4>1 DEF Ready
      <4>3. Debt(m)'
        BY <1>1, <1>4, <2>0, <4>2, DebtShrinks
      <4>4. QED BY <3>1, <4>3
    <3>5. QED BY <3>3, <3>4
  <2>3. QED BY <2>1, <2>2
<1>7. QED BY <1>4, <1>6 DEF EffectInv

LEMMA InitEffects == Init => EffectInv
<1> SUFFICES ASSUME Init PROVE EffectInv
  OBVIOUS
<1>1. CallLeftBatch /\ ActedInv
  BY DEF Init, CallLeftBatch, ActedInv
<1>2. ASSUME NEW m \in Msgs PROVE Debt(m) /\ Sole(m)
  <2>1. Potential(m) = {}
    BY NoClaimAssumption DEF Init, Potential, MayAct
  <2>2. Ready(m) = 1 /\ effects[m] = 0 /\ reclaims[m] = 0
    BY DEF Init, Ready, NoRow
  <2>3. Debt(m)
    BY <2>1, <2>2, FS_EmptySet DEF Debt
  <2>4. Sole(m)
    BY DEF Init, Sole, Held
  <2>5. QED BY <2>3, <2>4
<1>3. QED BY <1>1, <1>2 DEF EffectInv

LEMMA NextEffects == TypeOK /\ EffectInv /\ [Next]_vars => EffectInv'
<1> SUFFICES ASSUME TypeOK, EffectInv, [Next]_vars PROVE EffectInv'
  OBVIOUS
<1>1. TypeOK'
  BY NextType
<1>2. QED BY <1>1, EffectStep, QuietStep, LeaseStep, CallStep, ActStep, EndStep

LEMMA EffectInvariant == Spec => [](OrderInv /\ EffectInv)
<1>1. OrderInv => TypeOK
  BY DEF OrderInv
<1>2. QED BY <1>1, InitEffects, NextEffects, OrderInvariant, PTL DEF Spec

\* A second effect of a row needs a lease that ran out: no retry of a row that was
\* refused, deferred or put back repeats what the other side has done.
THEOREM DuplicatesAreReclaims == Spec => []DuplicatesNeedReclaim
<1>1. OrderInv /\ EffectInv => DuplicatesNeedReclaim
  <2> SUFFICES ASSUME OrderInv, EffectInv, NEW m \in Msgs PROVE effects[m] <= 1 + reclaims[m]
    BY DEF DuplicatesNeedReclaim
  <2>1. Cardinality(Potential(m)) \in Nat
    BY FS_CardinalityType DEF EffectInv, Debt
  <2>2. Ready(m) \in Nat /\ effects[m] \in Nat /\ reclaims[m] \in Nat
    BY DEF Ready, OrderInv, TypeOK
  <2>3. QED BY <2>1, <2>2 DEF EffectInv, Debt
<1>2. QED BY <1>1, EffectInvariant, PTL

-----------------------------------------------------------------------------
(***************************************************************************)
(* What is recorded against what happened.                                 *)
(***************************************************************************)

Backed(m) ==
  /\ row[m].status = "dispatched" /\ row[m].attention = "none" => effects[m] > 0
  /\ draft[m] = "sent" => row[m].status = "dispatched" /\ effects[m] > 0

Shown(m) ==
  effects[m] > 0 /\ row[m].status \in Terminal /\ reclaims[m] = 0 =>
    \/ row[m].status = "dispatched"
    \/ row[m].attention = "uncertain"
    \/ IsAmendment(m) /\ po.version > row[m].version

\* What a step does to a row and to the history, whatever else it does.
LEMMA StepOnRow ==
  ASSUME TypeOK, [Next]_vars, NEW m \in Msgs
  PROVE  \/ Calm(m) /\ effects'[m] = effects[m] /\ reclaims'[m] = reclaims[m] /\ po'.version >= po.version
         \/ /\ row[m].status \in Open /\ row'[m].status \in Open
            /\ draft'[m] = draft[m] /\ effects'[m] = effects[m]
            /\ reclaims'[m] \in {reclaims[m], reclaims[m] + 1}
         \/ /\ Calm(m) /\ row'[m] = row[m] /\ effects'[m] = effects[m] + 1 /\ reclaims'[m] = reclaims[m] /\ po' = po
            /\ \E w \in Workers : \E c \in Held(w) : c.msg = m
         \/ \E w \in Workers, c \in Claim : c.msg = m /\ Ends(w, c)
<1> DEFINE Aim == \/ Calm(m) /\ effects'[m] = effects[m] /\ reclaims'[m] = reclaims[m] /\ po'.version >= po.version
                  \/ /\ row[m].status \in Open /\ row'[m].status \in Open
                     /\ draft'[m] = draft[m] /\ effects'[m] = effects[m]
                     /\ reclaims'[m] \in {reclaims[m], reclaims[m] + 1}
                  \/ /\ Calm(m) /\ row'[m] = row[m] /\ effects'[m] = effects[m] + 1 /\ reclaims'[m] = reclaims[m] /\ po' = po
                     /\ \E w \in Workers : \E c \in Held(w) : c.msg = m
                  \/ \E w \in Workers, c \in Claim : c.msg = m /\ Ends(w, c)
<1>1. po.version \in Nat
  BY DEF TypeOK
<1>2. UNCHANGED data => Calm(m)
  BY DEF data, Calm
<1>3. CASE Quiet
  BY <1>3 DEF Quiet, history
<1>4. ASSUME NEW w \in Workers, RunTenant(w) PROVE Aim
  <2>1. /\ UNCHANGED <<draft, po, effects>>
        /\ row[m].status \notin Open => row'[m] = row[m]
        /\ row[m].status \in Open => row'[m].status \in Open
    BY <1>4, RunTenantEffect
  <2>2. row[m].status \notin Open => reclaims'[m] = reclaims[m]
    BY <1>4, LeaseKinds DEF Open
  <2>3. CASE row[m].status \in Open
    <3>1. reclaims'[m] \in {reclaims[m], reclaims[m] + 1}
      BY <1>4, LeaseKinds
    <3>2. QED BY <2>1, <2>3, <3>1
  <2>4. CASE row[m].status \notin Open
    BY <1>1, <2>1, <2>2, <2>4 DEF Calm
  <2>5. QED BY <2>3, <2>4
<1>5. ASSUME NEW w \in Workers, BeginCall(w) PROVE Aim
  BY <1>1, <1>2, <1>5 DEF BeginCall, data, history
<1>6. ASSUME NEW w \in Workers, ExternalActs(w) PROVE Aim
  <2>1. /\ UNCHANGED data /\ reclaims' = reclaims /\ calling[w] # NoClaim
        /\ effects' = [effects EXCEPT ![calling[w].msg] = @ + 1]
    BY <1>6 DEF ExternalActs
  <2>2. effects \in [Msgs -> Nat] /\ po' = po /\ row'[m] = row[m]
    BY <2>1, TypeFacts DEF data
  <2>3. CASE calling[w].msg = m
    <3>1. effects'[m] = effects[m] + 1
      BY <2>1, <2>2, <2>3
    <3>2. calling[w] \in Held(w)
      BY <2>1 DEF Held
    <3>3. QED BY <1>2, <2>1, <2>2, <2>3, <3>1, <3>2
  <2>4. CASE calling[w].msg # m
    <3>1. effects'[m] = effects[m]
      BY <2>1, <2>2, <2>4
    <3>2. QED BY <1>1, <1>2, <2>1, <2>2, <3>1
  <2>5. QED BY <2>3, <2>4
<1>7. ASSUME NEW w \in Workers, NEW c \in Claim, Ends(w, c) PROVE Aim
  <2>1. CASE c.msg = m
    BY <1>7, <2>1
  <2>2. CASE c.msg # m
    <3>1. /\ OnlyRow(c.msg) /\ \A n \in Msgs \ {c.msg} : draft'[n] = draft[n]
          /\ po' = po \/ po'.version = po.version + 1
      BY <1>7, SettleEffect DEF Ends
    <3>2. row'[m] = row[m] /\ draft'[m] = draft[m]
      BY <2>2, <3>1 DEF OnlyRow
    <3>3. UNCHANGED history /\ po'.version >= po.version
      BY <1>1, <1>7, <3>1 DEF Ends
    <3>4. QED BY <3>2, <3>3 DEF Calm, history
  <2>3. QED BY <2>1, <2>2
<1>8. QED BY <1>3, <1>4, <1>5, <1>6, <1>7, EffectStep

LEMMA NextBacked ==
  ASSUME TypeOK, EffectInv, [Next]_vars, NEW m \in Msgs, Backed(m)
  PROVE  Backed(m)'
<1>1. effects[m] \in Nat /\ row[m].status \in RowStatus
  BY DEF TypeOK, Row
<1>2. CASE Calm(m) /\ (effects'[m] = effects[m] \/ effects'[m] = effects[m] + 1)
  BY <1>1, <1>2 DEF Calm, Backed
<1>3. CASE /\ row[m].status \in Open /\ row'[m].status \in Open
           /\ draft'[m] = draft[m] /\ effects'[m] = effects[m]
  BY <1>3 DEF Backed, Open
<1>4. ASSUME NEW w \in Workers, NEW c \in Claim, c.msg = m, Ends(w, c) PROVE Backed(m)'
  <2>1. row[m].status = "processing" /\ draft[m] # "sent" /\ effects'[m] = effects[m]
    BY <1>4, SettleEffect DEF Ends, Backed, history
  <2>2. calling[w] = c /\ acted[w] => effects[m] > 0
    BY <1>4, TypeFacts DEF EffectInv, ActedInv
  <2>3. PICK spent \in BOOLEAN : Outcome(m, spent) /\ (spent => effects[m] > 0)
    BY <1>4, <2>2, TypeFacts DEF Ends
  <2>4. QED BY <2>1, <2>3 DEF Outcome, Backed
<1>5. QED BY <1>2, <1>3, <1>4, StepOnRow

LEMMA NextShown ==
  ASSUME OrderInv, EffectInv, [Next]_vars, NEW m \in Msgs, Shown(m)
  PROVE  Shown(m)'
<1>1. /\ TypeOK /\ po.version \in Nat /\ row[m].version \in Nat /\ row[m].status \in RowStatus
      /\ effects[m] \in Nat /\ reclaims[m] \in Nat
  BY DEF OrderInv, TypeOK, Row
<1>2. CASE /\ Calm(m) /\ effects'[m] = effects[m] /\ reclaims'[m] = reclaims[m]
           /\ po'.version >= po.version
  <2>1. CASE row'[m].status \notin Terminal
    BY <2>1 DEF Shown
  <2>2. CASE row'[m].status \in Terminal
    <3>1. /\ row'[m].status = row[m].status /\ row'[m].kind = row[m].kind
          /\ row'[m].version = row[m].version /\ row'[m].attention = row[m].attention
      BY <1>2, <2>2 DEF Calm, Terminal
    <3>2. po.version > row[m].version => po'.version > row'[m].version
      <4>1. OrderInv'
        BY NextOrder
      <4>2. po'.version \in Nat
        BY <4>1 DEF OrderInv, TypeOK
      <4>3. QED BY <1>1, <1>2, <3>1, <4>2
    <3>3. QED BY <1>2, <3>1, <3>2 DEF Shown, IsAmendment
  <2>3. QED BY <2>1, <2>2
<1>3. CASE row'[m].status \in Open
  BY <1>3 DEF Shown, Open, Terminal
<1>4. ASSUME Calm(m), reclaims'[m] = reclaims[m], NEW w \in Workers, NEW c \in Held(w), c.msg = m
      PROVE  Shown(m)'
  <2>1. reclaims[m] = 0 => row[m].status = "processing"
    BY <1>4 DEF EffectInv, Sole
  <2>2. reclaims[m] = 0 => row'[m].status = "processing"
    BY <1>4, <2>1 DEF Calm
  <2>3. QED BY <1>4, <2>2 DEF Shown, Terminal
<1>5. ASSUME NEW w \in Workers, NEW c \in Claim, c.msg = m, Ends(w, c) PROVE Shown(m)'
  <2>1. /\ row[m].status = "processing" /\ effects'[m] = effects[m] /\ reclaims'[m] = reclaims[m]
        /\ row'[m].kind = row[m].kind /\ row'[m].version = row[m].version
        /\ po' = po \/ po'.version = po.version + 1
    BY <1>1, <1>5, SettleEffect DEF Ends, history
  <2>2. IsAmendment(m) => amendment[m] = "queued"
    BY <2>1 DEF OrderInv, AmendmentFollowsRow
  <2>3. row[m].version <= po.version
    BY <2>1 DEF OrderInv, FrozenVersionsAreReached
  <2>4. MayAct(w, c) => effects[m] <= reclaims[m]
    <3>1. SUFFICES ASSUME MayAct(w, c) PROVE effects[m] <= reclaims[m]
      OBVIOUS
    <3>2. Debt(m) /\ <<w, c>> \in Potential(m)
      BY <1>5, <3>1 DEF EffectInv, Potential
    <3>3. /\ IsFiniteSet(Potential(m)) /\ Cardinality(Potential(m)) \in Nat
          /\ Cardinality(Potential(m) \ {<<w, c>>}) = Cardinality(Potential(m)) - 1
          /\ IsFiniteSet(Potential(m) \ {<<w, c>>})
      BY <3>2, FS_RemoveElement, FS_CardinalityType DEF Debt
    <3>4. Cardinality(Potential(m) \ {<<w, c>>}) \in Nat
      BY <3>3, FS_CardinalityType
    <3>5. Ready(m) \in Nat
      BY DEF Ready
    <3>6. QED BY <1>1, <3>2, <3>3, <3>4, <3>5 DEF Debt
  <2>5. PICK spent \in BOOLEAN : Outcome(m, spent) /\ (spent \/ MayAct(w, c))
    BY <1>1, <1>5, TypeFacts DEF Ends, MayAct
  <2>6. CASE row'[m].status = "failed" /\ IsAmendment(m) /\ po.version # row[m].version
    <3>1. po'.version > row'[m].version
      BY <1>1, <2>1, <2>3, <2>6
    <3>2. QED BY <2>1, <2>6, <3>1 DEF Shown, IsAmendment
  <2>7. CASE row'[m].status = "failed" /\ MayAct(w, c)
    BY <1>1, <2>1, <2>4, <2>7 DEF Shown
  <2>8. QED BY <2>2, <2>5, <2>6, <2>7 DEF Outcome, Shown, Terminal
<1>6. QED BY <1>1, <1>2, <1>3, <1>4, <1>5, StepOnRow

LEMMA InitFacts == Init => \A m \in Msgs : Backed(m) /\ Shown(m)
BY DEF Init, NoRow, Backed, Shown

\* Nothing is recorded as done that was not: a dispatched row without a warning and a
\* sent draft have an effect of the external system behind them, whichever answer,
\* time-out, crash or second run settles the row.
THEOREM FactsHaveEffects == Spec => []FactsAreBacked
<1>1. /\ Init => FactsAreBacked
      /\ TypeOK /\ EffectInv /\ FactsAreBacked /\ [Next]_vars => FactsAreBacked'
  BY InitFacts, NextBacked DEF FactsAreBacked, Backed
<1>2. OrderInv /\ EffectInv => TypeOK /\ EffectInv
  BY DEF OrderInv
<1>3. QED BY <1>1, <1>2, EffectInvariant, PTL DEF Spec

\* Nothing that was done is hidden: unless the row was leased again after its lease ran
\* out, an effect is followed by a dispatched row or by a warning to the operator, or it
\* is that of an amendment whose order moved on during the call.
THEOREM EffectsAreShown == Spec => []NoSilentEffect
<1>1. /\ Init => NoSilentEffect
      /\ OrderInv /\ EffectInv /\ NoSilentEffect /\ [Next]_vars => NoSilentEffect'
  BY InitFacts, NextShown DEF NoSilentEffect, Shown
<1>2. QED BY <1>1, EffectInvariant, PTL DEF Spec

-----------------------------------------------------------------------------
(***************************************************************************)
(* The outbox implements its promise.                                      *)
(***************************************************************************)

Kept(m) == P!Same(m) \/ P!Accept(m) \/ P!Act(m) \/ P!Lapse(m) \/ P!Close(m) \/ P!Overtake(m)

\* The record of a row, before and after a step.
LEMMA Recorded ==
  ASSUME NEW m \in Msgs
  PROVE  /\ Records[m] = RecordOf(m) /\ Records'[m] = RecordOf(m)'
         /\ row[m].status = "absent" => Records[m] = "none"
         /\ row'[m].status = "absent" => Records'[m] = "none"
         /\ row[m].status \in Open => Records[m] = "open"
         /\ row'[m].status \in Open => Records'[m] = "open"
         /\ row[m].status \in Terminal => Records[m] = ClosedRecord(m)
         /\ row'[m].status \in Terminal => Records'[m] = ClosedRecord(m)' /\ Records'[m] \in P!Closed
         /\ Records'[m] \in P!Closed \cup {"none", "open"}
<1>1. Records[m] = RecordOf(m) /\ Records'[m] = RecordOf(m)'
  BY DEF Records
<1>2. ClosedRecord(m)' \in P!Closed
  BY DEF ClosedRecord, P!Closed
<1>3. QED BY <1>1, <1>2 DEF RecordOf, Open, Terminal

\* A row that is left alone shows what it showed, unless its order moves past it.
LEMMA CalmKept ==
  ASSUME OrderInv, OrderInv', NEW m \in Msgs, Calm(m), UNCHANGED <<effects[m], reclaims[m]>>,
         po'.version >= po.version
  PROVE  Kept(m)
<1>0. /\ po.version \in Nat /\ po'.version \in Nat /\ row[m].version \in Nat
      /\ row[m].status \in {"absent"} \cup Open \cup Terminal
  BY DEF OrderInv, TypeOK, Row, RowStatus, Open, Terminal
<1>1. CASE row'[m].status # row[m].status
  <2>1. row[m].status = "absent" /\ row'[m].status \in Open
    BY <1>1 DEF Calm, Open
  <2>2. Records[m] = "none" /\ Records'[m] = "open"
    BY <2>1, Recorded
  <2>3. QED BY <2>2 DEF Kept, P!Accept
<1>2. CASE /\ row'[m].status = row[m].status /\ row'[m].kind = row[m].kind
           /\ row'[m].version = row[m].version /\ row'[m].attention = row[m].attention
  <2>1. \/ Records'[m] = Records[m]
        \/ Records[m] = "failed" /\ Records'[m] = "overtaken"
    <3>1. CASE row[m].status \in Terminal
      <4>1. Records[m] = ClosedRecord(m) /\ Records'[m] = ClosedRecord(m)'
        BY <1>2, <3>1, Recorded
      <4>2. IsAmendment(m)' <=> IsAmendment(m)
        BY <1>2 DEF IsAmendment
      <4>3. po.version > row[m].version => po'.version > row'[m].version
        BY <1>0, <1>2
      <4>4. QED BY <1>2, <4>1, <4>2, <4>3 DEF ClosedRecord
    <3>2. CASE row[m].status \notin Terminal
      BY <1>0, <1>2, <3>2, Recorded
    <3>3. QED BY <3>1, <3>2
  <2>2. QED BY <2>1 DEF Kept, P!Same, P!Overtake
<1>3. QED BY <1>1, <1>2 DEF Calm

\* What a run closes a row with is true, unless the row was leased again.
LEMMA EndKept ==
  ASSUME OrderInv, OrderInv', EffectInv, NoSilentEffect', NEW m \in Msgs,
         NEW w \in Workers, NEW c \in Claim, c.msg = m, Ends(w, c)
  PROVE  Kept(m)
<1>1. /\ TypeOK /\ row[m].status = "processing"
      /\ effects'[m] = effects[m] /\ reclaims'[m] = reclaims[m]
      /\ effects[m] \in Nat /\ reclaims[m] \in Nat
  BY SettleEffect DEF Ends, OrderInv, history, TypeOK
<1>2. Records[m] = "open"
  BY <1>1, Recorded DEF Open
<1>3. calling[w] = c /\ acted[w] => effects[m] > 0
  BY <1>1, TypeFacts DEF EffectInv, ActedInv
<1>4. PICK spent \in BOOLEAN : Outcome(m, spent) /\ (spent => effects[m] > 0)
  BY <1>1, <1>3, TypeFacts DEF Ends
<1>5. CASE row'[m].status = "pending"
  <2>1. Records'[m] = "open"
    BY <1>5, Recorded DEF Open
  <2>2. QED BY <1>1, <1>2, <2>1 DEF Kept, P!Same
<1>6. CASE row'[m].status \in Terminal
  <2>1. Records'[m] = ClosedRecord(m)' /\ Records'[m] \in P!Closed
    BY <1>6, Recorded
  <2>2. Records'[m] = "done" => effects[m] > 0
    BY <1>4, <1>6, <2>1 DEF Outcome, ClosedRecord
  <2>3. Records'[m] = "failed" => effects[m] = 0 \/ reclaims[m] > 0
    BY <1>1, <1>6, <2>1 DEF NoSilentEffect, ClosedRecord
  <2>4. QED BY <1>1, <1>2, <2>1, <2>2, <2>3 DEF Kept, P!Close
<1>7. QED BY <1>4, <1>5, <1>6 DEF Outcome, Terminal

LEMMA RowKept ==
  ASSUME OrderInv, OrderInv', EffectInv, NoSilentEffect', DuplicatesNeedReclaim', [Next]_vars, NEW m \in Msgs
  PROVE  Kept(m)
<1>1. TypeOK /\ effects[m] \in Nat /\ reclaims[m] \in Nat
  BY DEF OrderInv, TypeOK
<1>2. CASE Calm(m) /\ effects'[m] = effects[m] /\ reclaims'[m] = reclaims[m] /\ po'.version >= po.version
  BY <1>2, CalmKept
<1>3. CASE /\ row[m].status \in Open /\ row'[m].status \in Open
           /\ effects'[m] = effects[m] /\ reclaims'[m] \in {reclaims[m], reclaims[m] + 1}
  <2>1. Records[m] = "open" /\ Records'[m] = "open"
    BY <1>3, Recorded
  <2>2. QED BY <1>3, <2>1 DEF Kept, P!Same, P!Lapse
<1>4. CASE /\ row'[m] = row[m] /\ effects'[m] = effects[m] + 1 /\ reclaims'[m] = reclaims[m] /\ po' = po
           /\ \E w \in Workers : \E c \in Held(w) : c.msg = m
  <2>1. Records'[m] = Records[m]
    BY <1>4, Recorded DEF RecordOf, ClosedRecord, IsAmendment
  <2>2. effects[m] <= reclaims[m]
    BY <1>1, <1>4 DEF DuplicatesNeedReclaim
  <2>3. reclaims[m] = 0 => Records[m] = "open"
    <3>1. reclaims[m] = 0 => row[m].status = "processing"
      BY <1>4 DEF EffectInv, Sole
    <3>2. QED BY <3>1, Recorded DEF Open
  <2>4. QED BY <1>1, <1>4, <2>1, <2>2, <2>3 DEF Kept, P!Act
<1>5. QED BY <1>1, <1>2, <1>3, <1>4, StepOnRow, EndKept

\* The outbox keeps its promise: whatever runs, crashes, lapsed leases, late answers and
\* commands interleave, each step of the system is, row by row, one the promise allows.
THEOREM KeepsPromise == Spec => PromiseKept
<1>1. Init => P!Init
  <2> SUFFICES ASSUME Init PROVE P!Init
    OBVIOUS
  <2>1. \A m \in Msgs : Records[m] = "none"
    BY Recorded DEF Init, NoRow
  <2>2. Records = [m \in Msgs |-> "none"]
    BY <2>1 DEF Records
  <2>3. QED BY <2>2 DEF Init, P!Init
<1>2. /\ OrderInv /\ OrderInv' /\ EffectInv /\ NoSilentEffect' /\ DuplicatesNeedReclaim' /\ [Next]_vars
      => [P!Next]_(P!promise)
  <2> SUFFICES ASSUME OrderInv, OrderInv', EffectInv, NoSilentEffect', DuplicatesNeedReclaim', [Next]_vars
               PROVE  P!Next
    OBVIOUS
  <2>1. \A m \in Msgs : Kept(m)
    BY RowKept
  <2>2. /\ Records' \in [Msgs -> P!Closed \cup {"none", "open"}]
        /\ effects' \in [Msgs -> Nat] /\ reclaims' \in [Msgs -> Nat]
    <3>1. \A m \in Msgs : Records'[m] \in P!Closed \cup {"none", "open"}
      BY Recorded
    <3>2. QED BY <3>1 DEF OrderInv, TypeOK, Records
  <2>3. QED BY <2>1, <2>2 DEF P!Next, Kept
<1>3. QED
  BY <1>1, <1>2, EffectInvariant, EffectsAreShown, DuplicatesAreReclaims, PTL DEF Spec, PromiseKept, P!Spec

\* What a closed row shows is not taken back, whichever runs still carry it, whatever answers
\* late and whatever becomes of the order: a failed amendment alone is overtaken when the order
\* moves past the version it was frozen at (settle, applyCompletedOutboxFact, recoverExpired).
ShownOutcomeStands ==
  [][\A m \in Msgs : Records[m] \in P!Closed =>
       \/ Records'[m] = Records[m]
       \/ Records[m] = "failed" /\ Records'[m] = "overtaken" /\ IsAmendment(m)']_vars

\* An amendment alone is ever overtaken.
LEMMA OvertakenAmendment ==
  ASSUME NEW m \in Msgs, Records'[m] = "overtaken"
  PROVE  IsAmendment(m)'
<1>1. Records'[m] = RecordOf(m)'
  BY Recorded
<1>2. QED BY <1>1 DEF RecordOf, ClosedRecord, IsAmendment

\* The record of a closed row stands, for any rows, runs, faults and commands.
THEOREM OutcomesStand == Spec => ShownOutcomeStands
<1>1. ASSUME NEW m \in Msgs, Kept(m), Records[m] \in P!Closed
      PROVE  Records'[m] = Records[m] \/ (Records[m] = "failed" /\ Records'[m] = "overtaken" /\ IsAmendment(m)')
  <2>1. Records[m] \notin {"none", "open"}
    BY <1>1 DEF P!Closed
  <2>2. Records'[m] = Records[m] \/ (Records[m] = "failed" /\ Records'[m] = "overtaken")
    BY <1>1, <2>1 DEF Kept, P!Same, P!Accept, P!Act, P!Lapse, P!Close, P!Overtake
  <2>3. QED BY <2>2, OvertakenAmendment
<1>2. /\ OrderInv /\ OrderInv' /\ EffectInv /\ NoSilentEffect' /\ DuplicatesNeedReclaim' /\ [Next]_vars
      => [\A m \in Msgs : Records[m] \in P!Closed =>
            \/ Records'[m] = Records[m]
            \/ Records[m] = "failed" /\ Records'[m] = "overtaken" /\ IsAmendment(m)']_vars
  BY <1>1, RowKept
<1>3. QED
  BY <1>2, EffectInvariant, EffectsAreShown, DuplicatesAreReclaims, PTL DEF Spec, ShownOutcomeStands

=============================================================================
