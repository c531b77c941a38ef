------------------------------- MODULE Outbox -------------------------------
(***************************************************************************)
(* The procurement outbox of one tenant, the worker that dispatches it and *)
(* the purchase order whose facts it settles.                              *)
(*                                                                         *)
(* A business command (ProcurementRepository.executeProcurementMutation)   *)
(* writes an outbox row in the transaction that accepts it.  A run of      *)
(* ProcurementOutboxWorker.runTenant leases a batch of rows, calls the     *)
(* external system for one row after the other and settles each row, and   *)
(* the purchase order with it, in one SQLite transaction.                  *)
(*                                                                         *)
(* One action stands for the code between two awaits: the event loop runs  *)
(* it to completion, and SQLite serialises its transactions.  Time is kept *)
(* as countdowns (a lease has so many ticks left, a retry waits so many    *)
(* ticks), so no clock value appears in the state.                         *)
(***************************************************************************)
EXTENDS Integers, FiniteSets

CONSTANTS
  Msgs,          \* identities of outbox rows
  Kinds,         \* the outbox actions this instance exercises
  Pollers,       \* runs started by the timer of the API process
  Requests,      \* runs started by POST /api/operations/outbox/dispatch
  BatchSize,     \* rows leased by one run
  MaxAttempts,   \* maximumAttempts of the worker
  LeaseTicks,    \* length of a row's lease
  RetryTicks,    \* length of the wait before a retry
  MaxVersion,    \* bound on the version a local edit may produce
  MaxFaults,     \* bound on crashes, slow ticks, deferrals and disconnections
  NoClaim        \* "no external call in progress"

Workers == Pollers \cup Requests

AllKinds == {"send", "whatsapp", "create_draft", "amend", "cancel"}
AmendmentKinds == {"amend", "cancel"}

RowStatus == {"absent", "blocked", "pending", "processing", "dispatched", "failed"}
Terminal == {"dispatched", "failed"}
AmendmentState == {"none", "queued", "applied", "unknown", "failed"}
PoStatus == {"draft", "sent", "awaiting_confirmation", "confirmed", "rejected", "shipped", "cancelled"}

Claim == [msg : Msgs, token : Nat, attempts : Nat]

ASSUME KindsAssumption == Kinds \subseteq AllKinds
ASSUME BoundsAssumption ==
  /\ BatchSize \in Nat \ {0} /\ MaxAttempts \in Nat \ {0}
  /\ LeaseTicks \in Nat \ {0} /\ RetryTicks \in Nat \ {0}
  /\ MaxVersion \in Nat /\ MaxFaults \in Nat
ASSUME NoClaimAssumption == NoClaim \notin Claim

VARIABLES
  row,        \* procurement_outbox
  amendment,  \* state of the amendment frozen into an amend or cancel row
  draft,      \* status of the message draft a whatsapp row sends
  po,         \* the purchase order document
  connected,  \* the connectors have verified credentials
  batch,      \* claims a run has leased and not yet dispatched
  calling,    \* the claim a run is calling the external system for
  acted,      \* the external system has acted on the call in progress
  effects,    \* history: times the external system acted for the row
  reclaims,   \* history: times the row was leased again after its lease ran out
  faults      \* environment misbehaviour so far

data == <<row, amendment, draft, po>>
runs == <<batch, calling, acted>>
history == <<effects, reclaims>>
vars == <<row, amendment, draft, po, connected, batch, calling, acted,
          effects, reclaims, faults>>

Row == [status : RowStatus, kind : AllKinds \cup {"none"}, version : Nat,
        attempts : Nat, token : Nat, lease : -1..LeaseTicks, wait : 0..RetryTicks,
        attention : {"none", "failed", "uncertain"}]

TypeOK ==
  /\ row \in [Msgs -> Row]
  /\ amendment \in [Msgs -> AmendmentState]
  /\ draft \in [Msgs -> {"none", "approved_queued", "sent"}]
  /\ po \in [status : PoStatus, version : Nat, external : BOOLEAN, imported : BOOLEAN]
  /\ connected \in BOOLEAN
  /\ batch \in [Workers -> SUBSET Claim]
  /\ calling \in [Workers -> Claim \cup {NoClaim}]
  /\ acted \in [Workers -> BOOLEAN]
  /\ effects \in [Msgs -> Nat]
  /\ reclaims \in [Msgs -> Nat]
  /\ faults \in Nat

NoRow == [status |-> "absent", kind |-> "none", version |-> 0, attempts |-> 0,
          token |-> 0, lease |-> 0, wait |-> 0, attention |-> "none"]

(***************************************************************************)
(* A local draft of this application, or an order imported from Odoo.      *)
(***************************************************************************)
Init ==
  /\ row = [m \in Msgs |-> NoRow]
  /\ amendment = [m \in Msgs |-> "none"]
  /\ draft = [m \in Msgs |-> "none"]
  /\ po \in {[status |-> "draft", version |-> 1, external |-> FALSE, imported |-> FALSE],
             [status |-> "confirmed", version |-> 1, external |-> TRUE, imported |-> TRUE]}
  /\ connected \in BOOLEAN
  /\ batch = [w \in Workers |-> {}]
  /\ calling = [w \in Workers |-> NoClaim]
  /\ acted = [w \in Workers |-> FALSE]
  /\ effects = [m \in Msgs |-> 0]
  /\ reclaims = [m \in Msgs |-> 0]
  /\ faults = 0

-----------------------------------------------------------------------------
(***************************************************************************)
(* Commands on the purchase order.                                         *)
(***************************************************************************)
RowsOf(kind, statuses) == {m \in Msgs : row[m].kind = kind /\ row[m].status \in statuses}

Enqueue(m, kind) ==
  /\ kind \in Kinds
  /\ row[m].status = "absent"
  /\ row' = [row EXCEPT ![m] =
       [NoRow EXCEPT !.status = IF connected THEN "pending" ELSE "blocked",
                     !.kind = kind, !.version = po.version]]

\* A blocked or a failed send is not "in flight": a new key may queue another.
SendPo(m) ==
  /\ po.status = "draft"
  /\ RowsOf("send", {"pending", "processing"}) = {}
  /\ Enqueue(m, "send")
  /\ UNCHANGED <<amendment, draft, po, connected, runs, history, faults>>

CreateOdooPoDraft(m) ==
  /\ po.status = "draft" /\ ~po.external
  /\ RowsOf("create_draft", RowStatus \ {"failed"}) = {}
  /\ Enqueue(m, "create_draft")
  /\ UNCHANGED <<amendment, draft, po, connected, runs, history, faults>>

\* The amendment is created 'requested' and moved to 'queued' in the transaction.
AmendPo(m) ==
  /\ po.external
  /\ RowsOf("amend", {"blocked", "pending", "processing"}) = {}
  /\ Enqueue(m, "amend")
  /\ amendment' = [amendment EXCEPT ![m] = "queued"]
  /\ UNCHANGED <<draft, po, connected, runs, history, faults>>

CancellationBlocked == po.status \in {"cancelled", "shipped"}

CancelPo(m) ==
  /\ po.external /\ ~CancellationBlocked
  /\ \A n \in Msgs : row[n].kind = "cancel" => amendment[n] \notin {"queued", "unknown"}
  /\ Enqueue(m, "cancel")
  /\ amendment' = [amendment EXCEPT ![m] = "queued"]
  /\ UNCHANGED <<draft, po, connected, runs, history, faults>>

\* Approving a supplier message draft binds it to the row that will send it.
ApproveDraft(m) ==
  /\ Enqueue(m, "whatsapp")
  /\ draft' = [draft EXCEPT ![m] = "approved_queued"]
  /\ UNCHANGED <<amendment, po, connected, runs, history, faults>>

Document(status, external) ==
  [status |-> status, version |-> po.version + 1, external |-> external, imported |-> po.imported]

\* "shipped" stands for partially_shipped, shipped and the received statuses, which
\* block a cancellation; "confirmed" for confirmed, in_production and awaiting_shipment.
AdvanceDocument(from, to) ==
  /\ po.status \in from /\ po.version < MaxVersion
  /\ \E status \in to : po' = Document(status, po.external)
  /\ UNCHANGED <<row, amendment, draft, connected, runs, history, faults>>

EditLocalDraft == ~po.external /\ AdvanceDocument({"draft"}, {"draft"})

CancelLocal ==
  ~po.external /\ ~CancellationBlocked /\ AdvanceDocument(PoStatus, {"cancelled"})

\* A confirmation that differs from the order waits for an approval.
RecordConfirmation ==
  AdvanceDocument({"sent", "awaiting_confirmation", "confirmed"},
                  {"awaiting_confirmation", "confirmed"})

DecideConfirmation ==
  AdvanceDocument({"awaiting_confirmation"}, {"confirmed", "rejected"})

\* A shipment that leaves quantities open can be followed by another one.
RecordShipment == AdvanceDocument({"confirmed", "shipped"}, {"shipped"})

MergedStatus(imported) ==
  IF imported = "confirmed" /\ po.status = "shipped" THEN po.status ELSE imported

\* Somebody changed the order in Odoo, or the snapshot was read before a change made
\* here: pullOdooProcurementSnapshot awaits four reads before the import.  A receipt
\* in the snapshot overrides the imported status.
ImportFromOdoo ==
  /\ po.imported /\ po.version < MaxVersion
  /\ \E imported \in {"draft", "sent", "confirmed", "cancelled", "shipped"} :
       po' = Document(MergedStatus(imported), po.external)
  /\ UNCHANGED <<row, amendment, draft, connected, runs, history, faults>>

Command ==
  \/ \E m \in Msgs : SendPo(m) \/ CreateOdooPoDraft(m) \/ AmendPo(m)
                       \/ CancelPo(m) \/ ApproveDraft(m)
  \/ EditLocalDraft \/ CancelLocal \/ RecordConfirmation
  \/ DecideConfirmation \/ RecordShipment \/ ImportFromOdoo

-----------------------------------------------------------------------------
(***************************************************************************)
(* Leasing.  A run first puts the blocked rows of ready connectors back to *)
(* pending, then leases every due row up to the batch size, all of them    *)
(* from the same instant.  A row whose lease has run out is due again,     *)
(* whatever became of the call its previous holder made.                   *)
(***************************************************************************)
Idle(w) == batch[w] = {} /\ calling[w] = NoClaim

\* Wrong: failed rows are put back as well.
RequeuedWithFailed(r) ==
  IF r.status \in {"blocked", "failed"} /\ connected
  THEN [r EXCEPT !.status = "pending", !.wait = 0] ELSE r

Requeued(r) ==
  IF r.status = "blocked" /\ connected THEN [r EXCEPT !.status = "pending", !.wait = 0] ELSE r

\* Wrong: a leased row is never due again.
NeverExpired(r) == FALSE

LeaseExpired(r) == r.status = "processing" /\ r.lease <= 0

Due(r) == (r.status = "pending" /\ r.wait = 0) \/ LeaseExpired(r)

\* Wrong: the token names the worker, not the lease.
WorkerToken(r) == 1

\* A random UUID in the code: what matters is that every lease has its own.
LeaseToken(r) == r.token + 1

Leased(r) == [r EXCEPT !.status = "processing", !.attempts = @ + 1, !.token = LeaseToken(r),
                       !.lease = LeaseTicks, !.wait = 0]

ClaimOf(m) == [msg |-> m, token |-> LeaseToken(row[m]), attempts |-> row[m].attempts + 1]

FillsBatch(S, due) ==
  /\ Cardinality(S) <= BatchSize
  /\ S = due \/ Cardinality(S) = BatchSize

\* The timer visits a tenant only if it has a pending or a processing row.
Visited(w) ==
  w \in Pollers => \E m \in Msgs : row[m].status \in {"pending", "processing"}

RunTenant(w) ==
  /\ Idle(w) /\ Visited(w)
  /\ LET due == {m \in Msgs : Due(Requeued(row[m]))} IN
     \E S \in SUBSET due :
       /\ FillsBatch(S, due)
       /\ row' = [m \in Msgs |->
                    IF m \in S THEN Leased(Requeued(row[m])) ELSE Requeued(row[m])]
       /\ batch' = [batch EXCEPT ![w] = {ClaimOf(m) : m \in S}]
       /\ reclaims' = [m \in Msgs |->
                         reclaims[m] + IF m \in S /\ LeaseExpired(row[m]) THEN 1 ELSE 0]
  /\ UNCHANGED <<amendment, draft, po, connected, calling, acted, effects, faults>>

-----------------------------------------------------------------------------
(***************************************************************************)
(* Settling a row: completeOutboxMessage and failOutboxMessage.  Both need *)
(* the lease; a holder that lost it gets ProcurementOutboxLeaseConflict-   *)
(* Error, which leaves the loop of runTenant with the rest of its batch    *)
(* undispatched.                                                           *)
(***************************************************************************)
HoldsLease(c) ==
  LET r == row[c.msg] IN r.status = "processing" /\ r.token = c.token /\ r.lease >= 0

IsAmendment(m) == row[m].kind \in AmendmentKinds

\* The code leaves the lease columns of a dispatched row alone, and never reads them.
Settled(r, status, attention) ==
  [r EXCEPT !.status = status, !.lease = 0, !.attention = attention]

\* Wrong: the amendment frozen into the row is forgotten.
FailRowAlone(c, uncertain) ==
  /\ row' = [row EXCEPT ![c.msg] = Settled(@, "failed", IF uncertain THEN "uncertain" ELSE "none")]
  /\ UNCHANGED <<amendment, draft, po>>

\* Terminal failure.  An amendment in doubt becomes unknown, any other one failed
\* without an exception for the operator; other rows always get an exception.
FailRow(c, uncertain) ==
  LET m == c.msg
      attention == IF uncertain THEN "uncertain" ELSE IF IsAmendment(m) THEN "none" ELSE "failed"
  IN /\ row' = [row EXCEPT ![m] = Settled(@, "failed", attention)]
     /\ amendment' = IF IsAmendment(m) /\ amendment[m] = "queued"
                     THEN [amendment EXCEPT ![m] = IF uncertain THEN "unknown" ELSE "failed"]
                     ELSE amendment
     /\ UNCHANGED <<draft, po>>

\* deferred rows that were only replayed get their attempt back.
RetryRow(c, replayed) ==
  LET spent == row[c.msg].attempts
      kept == IF replayed /\ spent > 0 THEN spent - 1 ELSE spent
  IN /\ row' = [row EXCEPT ![c.msg] = [@ EXCEPT !.status = "pending", !.lease = 0,
                                                 !.wait = RetryTicks, !.attempts = kept]]
     /\ UNCHANGED <<amendment, draft, po>>

\* Wrong: an amendment is settled whatever became of the order meanwhile.
FactAppliesAnyVersion(m) ==
  CASE row[m].kind = "send"         -> po.status \in {"draft", "sent"}
    [] row[m].kind = "whatsapp"     -> draft[m] \in {"approved_queued", "sent"}
    [] row[m].kind = "create_draft" -> po.status = "draft" /\ ~po.external
    [] OTHER                        -> amendment[m] = "queued"

\* Wrong: a delivered send marks the order sent in any status.
FactAppliesAnyStatus(m) ==
  row[m].kind = "whatsapp" => draft[m] \in {"approved_queued", "sent"}

\* What applyCompletedOutboxFact requires; it throws when this is false.
FactApplies(m) ==
  CASE row[m].kind = "send"         -> po.status \in {"draft", "sent"}
    [] row[m].kind = "whatsapp"     -> draft[m] \in {"approved_queued", "sent"}
    [] row[m].kind = "create_draft" -> /\ po.version = row[m].version
                                       /\ po.status = "draft" /\ ~po.external
    [] OTHER                        -> /\ po.version = row[m].version
                                       /\ amendment[m] = "queued"

ApplyFact(m) ==
  /\ po' = CASE row[m].kind = "send" /\ po.status # "sent" -> Document("sent", po.external)
             [] row[m].kind = "create_draft" -> Document("draft", TRUE)
             [] row[m].kind = "amend"        -> Document(po.status, po.external)
             [] row[m].kind = "cancel"       -> Document("cancelled", po.external)
             [] OTHER                        -> po
  /\ draft' = IF row[m].kind = "whatsapp" THEN [draft EXCEPT ![m] = "sent"] ELSE draft
  /\ amendment' = IF IsAmendment(m) THEN [amendment EXCEPT ![m] = "applied"] ELSE amendment

CompleteRow(c) ==
  /\ row' = [row EXCEPT ![c.msg] = Settled(@, "dispatched", @.attention)]
  /\ ApplyFact(c.msg)

\* The call returned, but reading the order back does not show the change.
CompleteMismatch(c) ==
  /\ row' = [row EXCEPT ![c.msg] = Settled(@, "dispatched", "uncertain")]
  /\ amendment' = [amendment EXCEPT ![c.msg] = "unknown"]
  /\ UNCHANGED <<draft, po>>

-----------------------------------------------------------------------------
(***************************************************************************)
(* Dispatching one row of the batch.                                       *)
(***************************************************************************)

\* resolveConnectorAction: what must still hold when the call is prepared.
Resolves(m) ==
  /\ connected
  /\ row[m].kind = "send" => po.version = row[m].version
  /\ row[m].kind = "whatsapp" => draft[m] = "approved_queued"

\* The lease is not checked again before the external system is called.
BeginCall(w) ==
  /\ calling[w] = NoClaim
  /\ \E c \in batch[w] :
       /\ Resolves(c.msg)
       /\ calling' = [calling EXCEPT ![w] = c]
       /\ batch' = [batch EXCEPT ![w] = @ \ {c}]
  /\ acted' = [acted EXCEPT ![w] = FALSE]
  /\ UNCHANGED <<data, connected, history, faults>>

\* ConfigurationDispatchError: never retried, never in doubt.
RejectBeforeCall(w) ==
  /\ calling[w] = NoClaim
  /\ \E c \in batch[w] :
       /\ ~Resolves(c.msg) /\ HoldsLease(c)
       /\ FailRow(c, FALSE)
       /\ batch' = [batch EXCEPT ![w] = @ \ {c}]
  /\ UNCHANGED <<connected, calling, acted, history, faults>>

RejectTooLate(w) ==
  /\ calling[w] = NoClaim
  /\ \E c \in batch[w] : ~Resolves(c.msg) /\ ~HoldsLease(c)
  /\ batch' = [batch EXCEPT ![w] = {}]
  /\ UNCHANGED <<data, connected, calling, acted, history, faults>>

\* The supplier's mailbox, WhatsApp or Odoo acts on the request.
ExternalActs(w) ==
  /\ calling[w] # NoClaim /\ ~acted[w]
  /\ acted' = [acted EXCEPT ![w] = TRUE]
  /\ effects' = [effects EXCEPT ![calling[w].msg] = @ + 1]
  /\ UNCHANGED <<data, connected, batch, calling, reclaims, faults>>

\* The call of w returns while w still holds the lease of the row.
Returns(w) ==
  /\ calling[w] # NoClaim /\ HoldsLease(calling[w])
  /\ calling' = [calling EXCEPT ![w] = NoClaim]
  /\ acted' = [acted EXCEPT ![w] = FALSE]
  /\ UNCHANGED <<connected, batch, history>>

Accepted(w) ==
  /\ Returns(w) /\ acted[w] /\ FactApplies(calling[w].msg)
  /\ CompleteRow(calling[w])
  /\ UNCHANGED faults

\* completeOutboxMessage throws, and the catch block classifies that error: it is
\* no ExternalDispatchStartedError, so an amendment counts as never dispatched.
FactRejected(w) ==
  /\ Returns(w) /\ acted[w] /\ ~FactApplies(calling[w].msg)
  /\ FailRow(calling[w], ~IsAmendment(calling[w].msg))
  /\ UNCHANGED faults

ReadbackMismatch(w) ==
  /\ Returns(w) /\ IsAmendment(calling[w].msg) /\ amendment[calling[w].msg] = "queued"
  /\ CompleteMismatch(calling[w])
  /\ UNCHANGED faults

\* Connection refused, unknown host, rate limit: isSafeBeforeDispatchFailure.
\* For an amendment the same error is wrapped and counts as in doubt.
Refused(w) ==
  /\ Returns(w) /\ ~acted[w]
  /\ CASE IsAmendment(calling[w].msg)          -> FailRow(calling[w], TRUE)
       [] calling[w].attempts < MaxAttempts /\ ~IsAmendment(calling[w].msg)
                                               -> RetryRow(calling[w], FALSE)
       [] OTHER                                -> FailRow(calling[w], FALSE)
  /\ UNCHANGED faults

\* Wrong: result.ok is not looked at.
DeclinedButCompleted(w) ==
  /\ Returns(w) /\ ~acted[w] /\ row[calling[w].msg].kind \in {"send", "cancel"}
  /\ FactApplies(calling[w].msg)
  /\ CompleteRow(calling[w])
  /\ UNCHANGED faults

\* A failed receipt of the message gateway, or Odoo refusing a cancellation.
Declined(w) ==
  /\ Returns(w) /\ ~acted[w] /\ row[calling[w].msg].kind \in {"send", "cancel"}
  /\ FailRow(calling[w], FALSE)
  /\ UNCHANGED faults

\* Wrong: a timeout counts as proof that nothing happened.
UnknownFailed(w) == Returns(w) /\ FailRow(calling[w], FALSE) /\ UNCHANGED faults

\* Wrong: a timeout is retried.
UnknownRetried(w) == Returns(w) /\ RetryRow(calling[w], FALSE) /\ UNCHANGED faults

\* Timeout, disconnection, or a receipt that cannot be read.
ResultUnknown(w) ==
  /\ Returns(w)
  /\ FailRow(calling[w], TRUE)
  /\ UNCHANGED faults

\* The message gateway cannot send now; the row is not charged for a replay.
Deferred(w) ==
  /\ Returns(w) /\ ~acted[w] /\ row[calling[w].msg].kind = "send"
  /\ faults < MaxFaults /\ faults' = faults + 1
  /\ \E replayed \in BOOLEAN : RetryRow(calling[w], replayed)

ReturnsTooLate(w) ==
  /\ calling[w] # NoClaim /\ ~HoldsLease(calling[w])
  /\ batch' = [batch EXCEPT ![w] = {}]
  /\ calling' = [calling EXCEPT ![w] = NoClaim]
  /\ acted' = [acted EXCEPT ![w] = FALSE]
  /\ UNCHANGED <<data, connected, history, faults>>

Return(w) ==
  \/ Accepted(w) \/ FactRejected(w) \/ ReadbackMismatch(w) \/ Refused(w)
  \/ Declined(w) \/ ResultUnknown(w) \/ Deferred(w) \/ ReturnsTooLate(w)

Dispatch(w) == BeginCall(w) \/ RejectBeforeCall(w) \/ RejectTooLate(w)

-----------------------------------------------------------------------------
(***************************************************************************)
(* The environment.                                                        *)
(***************************************************************************)
\* Wrong: a lease that has run out keeps counting.
ElapsedForEver(r) ==
  [r EXCEPT !.lease = IF r.status = "processing" THEN @ - 1 ELSE @,
            !.wait = IF r.status = "pending" /\ @ > 0 THEN @ - 1 ELSE @]

Elapsed(r) ==
  [r EXCEPT !.lease = IF r.status = "processing" /\ @ >= 0 THEN @ - 1 ELSE @,
            !.wait = IF r.status = "pending" /\ @ > 0 THEN @ - 1 ELSE @]

\* A tick while a run is under way is a fault: the run is slow.
Tick ==
  /\ row' = [m \in Msgs |-> Elapsed(row[m])]
  /\ IF \A w \in Workers : Idle(w)
     THEN UNCHANGED faults
     ELSE faults < MaxFaults /\ faults' = faults + 1
  /\ UNCHANGED <<amendment, draft, po, connected, runs, history>>

\* Every run lives in the one API process.
Crash ==
  /\ \E w \in Workers : ~Idle(w)
  /\ faults < MaxFaults /\ faults' = faults + 1
  /\ batch' = [w \in Workers |-> {}]
  /\ calling' = [w \in Workers |-> NoClaim]
  /\ acted' = [w \in Workers |-> FALSE]
  /\ UNCHANGED <<data, connected, history>>

Connect ==
  /\ ~connected /\ connected' = TRUE
  /\ UNCHANGED <<data, runs, history, faults>>

Disconnect ==
  /\ connected /\ connected' = FALSE
  /\ faults < MaxFaults /\ faults' = faults + 1
  /\ UNCHANGED <<data, runs, history>>

Environment == Tick \/ Crash \/ Connect \/ Disconnect

-----------------------------------------------------------------------------
Next ==
  \/ Command
  \/ \E w \in Workers : RunTenant(w) \/ Dispatch(w) \/ ExternalActs(w) \/ Return(w)
  \/ Environment

Spec == Init /\ [][Next]_vars

(***************************************************************************)
(* The timer fires for ever, a started run goes on, every external call    *)
(* has a timeout, and time passes.  Nobody has to press the button.        *)
(***************************************************************************)
Fairness ==
  /\ \A w \in Pollers : WF_vars(RunTenant(w))
  /\ \A w \in Workers : WF_vars(Dispatch(w)) /\ WF_vars(Return(w))
  /\ WF_vars(Tick)

FairSpec == Spec /\ Fairness

-----------------------------------------------------------------------------
(***************************************************************************)
(* Safety.                                                                 *)
(***************************************************************************)

Held(w) == batch[w] \cup ({calling[w]} \ {NoClaim})

\* The claims that could still settle their row: a run holds them, and they
\* carry the row's current token.
Current(m) ==
  {w \in Workers : \E c \in Held(w) : c.msg = m /\ c.token = row[m].token}

\* However often leases run out and rows are leased again, by a timer run and a
\* requested run at once, no two runs can settle the same row.
OneRunCanSettle == \A m \in Msgs : Cardinality(Current(m)) <= 1

\* The amendment and the row it is frozen into are written by different
\* functions and must tell the same story: queued while the row is open,
\* applied or unknown once it is dispatched, failed or unknown once it failed.
AmendmentFollowsRow ==
  \A m \in Msgs :
    LET s == row[m].status IN
    IF ~IsAmendment(m) THEN amendment[m] = "none"
    ELSE /\ s \in {"blocked", "pending", "processing"} <=> amendment[m] = "queued"
         /\ s = "dispatched" => amendment[m] \in {"applied", "unknown"}
         /\ s = "failed" => amendment[m] \in {"failed", "unknown"}
         /\ amendment[m] = "unknown" <=> row[m].attention = "uncertain"

\* A fact is recorded as done only if the external system really acted: a
\* dispatched row without a warning, a sent draft and an applied amendment all
\* have an effect behind them (class comment of the worker: a failure is never
\* disguised as a completed send).
FactsAreBacked ==
  \A m \in Msgs :
    /\ row[m].status = "dispatched" /\ row[m].attention = "none" => effects[m] > 0
    /\ draft[m] = "sent" => row[m].status = "dispatched" /\ effects[m] > 0

\* The converse.  If the external system acted for a row that is now closed and
\* that was never leased twice, the order shows it or an operator is warned.
\* The one hole is an amendment whose order moved on during the call.
NoSilentEffect ==
  \A m \in Msgs :
    effects[m] > 0 /\ row[m].status \in Terminal /\ reclaims[m] = 0 =>
      \/ row[m].status = "dispatched"
      \/ row[m].attention = "uncertain"
      \/ IsAmendment(m) /\ po.version > row[m].version

\* Retries alone never repeat an external effect: only a lease that ran out
\* under a run (a crash, a slow call, a long batch) can.
DuplicatesNeedReclaim == \A m \in Msgs : effects[m] <= 1 + reclaims[m]

\* Of the amendments frozen at one version of the order, one at most is applied
\* to it, and the order has moved past that version.
AppliedOncePerVersion ==
  \A m \in Msgs : amendment[m] = "applied" =>
    /\ row[m].version < po.version
    /\ \A n \in Msgs \ {m} : amendment[n] = "applied" => row[n].version # row[m].version

(***************************************************************************)
(* The abstract outbox.                                                    *)
(***************************************************************************)

\* A closed row warns the operator, says that it was done, or that it failed: an
\* amendment, then, whose order has moved on may have been done all the same.
ClosedRecord(m) ==
  IF row[m].attention = "uncertain" THEN "doubt"
  ELSE IF row[m].status = "dispatched" THEN "done"
  ELSE IF IsAmendment(m) /\ po.version > row[m].version THEN "overtaken" ELSE "failed"

RecordOf(m) ==
  CASE row[m].status = "absent" -> "none"
    [] row[m].status \in Terminal -> ClosedRecord(m)
    [] OTHER -> "open"

Records == [m \in Msgs |-> RecordOf(m)]

P == INSTANCE OutboxPromise WITH Rows <- Msgs, record <- Records, copies <- effects, lapses <- reclaims

\* The outbox, its worker and the order implement the promise: whatever runs, crashes,
\* lapsed leases, late answers and commands interleave, what a row is closed with is
\* true of what the external system did, and is not taken back.
PromiseKept == P!Spec

(***************************************************************************)
(* What makes the properties of the order inductive: a row freezes a       *)
(* version the order has, and an order that closes has left that version.  *)
(***************************************************************************)
AbsentRowsAreBlank == \A m \in Msgs : row[m].status = "absent" => row[m] = NoRow

FrozenVersionsAreReached ==
  \A m \in Msgs : row[m].status # "absent" => row[m].version <= po.version

CancellationPrecedesClosing ==
  \A m \in Msgs : row[m].kind = "cancel" /\ row[m].version = po.version => ~CancellationBlocked

OrderInv ==
  /\ TypeOK
  /\ AbsentRowsAreBlank
  /\ AmendmentFollowsRow
  /\ FrozenVersionsAreReached
  /\ CancellationPrecedesClosing
  /\ AppliedOncePerVersion

\* A claim carries a token its row has had, and no two runs hold claims with the same token.
TokensAreIssued == \A w \in Workers : \A c \in Held(w) : c.token <= row[c.msg].token

TokensAreUnique ==
  \A v, w \in Workers : \A c \in Held(v), d \in Held(w) :
    c.msg = d.msg /\ c.token = d.token => v = w

LeaseInv == TypeOK /\ TokensAreIssued /\ TokensAreUnique

(***************************************************************************)
(* Action properties.                                                      *)
(***************************************************************************)

\* A cancelled or a shipped order keeps its status, whatever answer arrives
\* late: a send still under way when the order is cancelled, a cancellation
\* queued before the goods left.  Only an import from Odoo takes it back.
ClosedOrderStaysClosed ==
  [][po.status \in {"cancelled", "shipped"} =>
       po'.status = po.status \/ ImportFromOdoo]_vars

\* A closed row is never opened, leased or settled again, nor is its amendment
\* or its draft, by any run that still works from an older lease.
ClosedRowStaysClosed ==
  [][\A m \in Msgs : row[m].status \in Terminal =>
       /\ row'[m] = row[m] /\ amendment'[m] = amendment[m] /\ draft'[m] = draft[m]]_vars

(***************************************************************************)
(* Liveness, under FairSpec.                                               *)
(***************************************************************************)

\* Every row that is due or leased is closed in the end, although runs crash,
\* calls outlive their lease and the gateway defers.
OpenRowIsSettled ==
  \A m \in Msgs :
    row[m].status \in {"pending", "processing"} ~> row[m].status \in Terminal

(***************************************************************************)
(* What the repository says and the code does not do.                      *)
(***************************************************************************)

\* "Odoo amendment was rejected before external dispatch began", the reason
\* stored with every failed amendment.
FailedAmendmentNeverReachedOdoo ==
  \A m \in Msgs : amendment[m] = "failed" /\ reclaims[m] = 0 => effects[m] = 0

\* "uncertain outcomes require reconciliation, never blind resending".
NeverResentBlindly ==
  \A m \in Msgs : row[m].kind = "whatsapp" => effects[m] <= 1

\* The order the supplier was sent is the one queued: a send whose order has moved
\* on is stopped ("PO version differs from the snapshot frozen when it was queued,
\* sending was blocked", in Chinese in the source), so an order of this application
\* is marked sent by a row that froze the version before.
SentOrderIsTheFrozenOne ==
  po.status = "sent" /\ ~po.imported =>
    \E m \in Msgs : /\ row[m].kind = "send" /\ row[m].status = "dispatched"
                   /\ po.version = row[m].version + 1

\* A blocked row is put back to pending once its connector is ready.
BlockedRowIsRequeued ==
  \A m \in Msgs :
    [](row[m].status = "blocked" /\ []connected => <>(row[m].status # "blocked"))

=============================================================================
