---------------------------- MODULE SupplierReply ----------------------------
(***************************************************************************)
(* A supplier's reply on its way from the mailbox to the order and its     *)
(* twin.  The poller stores a mail before it marks it seen                  *)
(* (apps/api/src/messaging/inbound-mail-handler.ts,                        *)
(* packages/connectors/src/mail-router.ts); a recoverer leases stored mails *)
(* and hands them to the procurement bridge                                *)
(* (packages/messaging/src/repository.ts, apps/api/src/messaging/runtime.ts, *)
(* procurement-bridge.ts); the bridge stores the communication, has a model *)
(* read it and records what it says                                         *)
(* (apps/api/src/procurement-ai-reply.ts).  A person may ask for a mail to  *)
(* be read again.  Every change of the order enqueues a projection job.     *)
(*                                                                         *)
(* All mails are about one order.  Recoverers are the loops of API          *)
(* processes that overlap while one replaces the other; one of them         *)
(* projects.  The model's answers carry a confirmation and a production     *)
(* progress; routes and shipments are recorded like the latter.             *)
(***************************************************************************)
EXTENDS ProjectionQueue

CONSTANTS
  Mails,
  Recoverers,   \* the loops that run stored mails
  Console,      \* the request of a person to read a mail again
  Person,       \* who records facts by hand
  Answers,      \* readings of a mail that pass the checks against its text
  Deviating,    \* those whose confirmation needs an approval
  MaxAnalyses,  \* readings before a failure is final (3 in the code)
  Nothing

ASSUME ReplyAssumption ==
  /\ Deviating \subseteq Answers /\ MaxAnalyses \in Nat \ {0}
  /\ Console \notin Recoverers /\ Person \notin Mails /\ Nothing \notin Mails \cup Answers \cup Recoverers

VARIABLES
  mailbox,        \* the mail at the provider
  polled,         \* mails the running poll has stored and not yet marked
  inbox,          \* messaging_inbound_messages
  communication,  \* mails stored as communications of the order
  analysis,       \* procurement_ai_reply_analyses; answer: what a later handling starts from
  handler,        \* what a handler is at
  order,          \* status and version of the purchase order
  confirmations,  \* confirmations of the order, in the order they were recorded
  productions     \* production progress likewise

mailVars == <<mailbox, polled>>
orderVars == <<order, confirmations, productions, jobs>>
twinVars == <<twin, batch, projected>>
vars == <<mailVars, inbox, communication, analysis, handler, orderVars, twinVars, disturbances>>

Handlers == Recoverers \cup {Console}

AnalysisStatus == {"absent", "processing", "parsed", "failed", "review_required", "settled"}
Block == {"none", "applied", "already_present", "approval_required", "review_required"}
Steps == {"idle", "handling", "analysing", "asking", "confirming", "producing", "reporting", "settling"}

TypeOK ==
  /\ QueueTypeOK
  /\ mailbox \in [Mails -> [from : {"supplier", "stranger"}, state : {"absent", "unseen", "seen"}]]
  /\ polled \subseteq Mails
  /\ inbox \in [Mails -> [status : {"absent", "received", "dispatching", "failed", "processed", "rejected"},
                          owner : Recoverers \cup {Nothing}, leased : BOOLEAN]]
  /\ communication \subseteq Mails
  /\ analysis \in [Mails -> [status : AnalysisStatus, leased : BOOLEAN, version : Nat,
                             attempts : 0..MaxAnalyses, answer : Answers \cup {Nothing}]]
  /\ handler \in [Handlers -> [at : Steps, mail : Mails \cup {Nothing}, answer : Answers \cup {Nothing},
                               confirmation : Block, production : Block,
                               outcome : {"none", "processed", "rejected", "retryable_failure"}]]
  /\ order \in [status : {"sent", "awaiting_confirmation", "confirmed", "in_production", "rejected", "cancelled"},
                version : Nat]
  /\ confirmations \in Seq([by : Mails \cup {Person}, approval : BOOLEAN,
                          status : {"pending_approval", "confirmed", "rejected"}])
  /\ productions \in Seq([by : Mails, answer : Answers])

Idle == [at |-> "idle", mail |-> Nothing, answer |-> Nothing,
         confirmation |-> "none", production |-> "none", outcome |-> "none"]

\* An order may be confirmed in the ERP before the supplier has answered.
Init ==
  /\ QueueInit
  /\ mailbox \in [Mails -> [from : {"supplier", "stranger"}, state : {"absent"}]]
  /\ polled = {}
  /\ inbox = [m \in Mails |-> [status |-> "absent", owner |-> Nothing, leased |-> FALSE]]
  /\ communication = {}
  /\ analysis = [m \in Mails |-> [status |-> "absent", leased |-> FALSE, version |-> 0,
                                  attempts |-> 0, answer |-> Nothing]]
  /\ handler = [h \in Handlers |-> Idle]
  /\ order \in [status : {"sent", "confirmed"}, version : {1}]
  /\ confirmations = <<>>
  /\ productions = <<>>

-----------------------------------------------------------------------------
\* The mailbox.

Arrive(m) ==
  /\ mailbox[m].state = "absent"
  /\ mailbox' = [mailbox EXCEPT ![m].state = "unseen"]
  /\ UNCHANGED <<polled, inbox, communication, analysis, handler, orderVars, twinVars, disturbances>>

\* createDurableInboundMailHandler and MessagingRepository.receive: a mail that is
\* fetched again is recognised by its identity.
Ingest(m) ==
  /\ mailbox[m].state = "unseen"
  /\ m \notin polled
  /\ inbox' = IF inbox[m].status = "absent" THEN [inbox EXCEPT ![m].status = "received"] ELSE inbox
  /\ polled' = polled \cup {m}
  /\ UNCHANGED <<mailbox, communication, analysis, handler, orderVars, twinVars, disturbances>>

\* Wrong: what was fetched is marked, accepted or not.
MarkFetched(m) ==
  /\ mailbox[m].state = "unseen"
  /\ mailbox' = [mailbox EXCEPT ![m].state = "seen"]
  /\ polled' = polled \ {m}
  /\ UNCHANGED <<inbox, communication, analysis, handler, orderVars, twinVars, disturbances>>

\* pollInboundMail marks what its handler accepted.
MarkSeen(m) ==
  /\ m \in polled
  /\ mailbox' = [mailbox EXCEPT ![m].state = "seen"]
  /\ polled' = polled \ {m}
  /\ UNCHANGED <<inbox, communication, analysis, handler, orderVars, twinVars, disturbances>>

\* The connection ends, the poll times out, or the process stops.
PollEnds ==
  /\ polled # {}
  /\ Disturb
  /\ polled' = {}
  /\ UNCHANGED <<mailbox, inbox, communication, analysis, handler, orderVars, twinVars>>

-----------------------------------------------------------------------------
\* The inbox.

\* Wrong: a mail whose handler is gone is not looked at again.
WaitingMail(m) == inbox[m].status \in {"received", "failed"}

ClaimableMail(m) ==
  \/ inbox[m].status \in {"received", "failed"}
  \/ inbox[m].status = "dispatching" /\ ~inbox[m].leased

\* claimInboundById, for the next of pendingInboundIds.
ClaimInbound(r, m) ==
  /\ handler[r].at = "idle"
  /\ ClaimableMail(m)
  /\ inbox' = [inbox EXCEPT ![m] = [status |-> "dispatching", owner |-> r, leased |-> TRUE]]
  /\ handler' = [handler EXCEPT ![r] = [Idle EXCEPT !.at = "handling", !.mail = m]]
  /\ UNCHANGED <<mailVars, communication, analysis, orderVars, twinVars, disturbances>>

Handling(r, m) ==
  /\ handler[r].mail = m
  /\ handler[r].at # "idle"

\* The lease of 180 seconds is renewed while its handler runs; a renewal that fails is
\* swallowed, so a running handler may lose it.
InboundLeaseEnds(m) ==
  /\ inbox[m].status = "dispatching" /\ inbox[m].leased
  /\ IF Handling(inbox[m].owner, m) THEN Disturb ELSE UNCHANGED disturbances
  /\ inbox' = [inbox EXCEPT ![m].leased = FALSE]
  /\ UNCHANGED <<mailVars, communication, analysis, handler, orderVars, twinVars>>

HoldsLease(r, m) ==
  /\ inbox[m].status = "dispatching"
  /\ inbox[m].owner = r /\ inbox[m].leased

\* completeInbound and failInbound; without the lease the row belongs to another.  The
\* console's request never holds it and only answers.
SettleInbound(h) ==
  LET m == handler[h].mail
      status == IF handler[h].outcome = "retryable_failure" THEN "failed" ELSE handler[h].outcome
  IN /\ handler[h].at = "settling"
     /\ inbox' = IF HoldsLease(h, m)
                   THEN [inbox EXCEPT ![m] = [status |-> status, owner |-> Nothing, leased |-> FALSE]]
                   ELSE inbox
     /\ handler' = [handler EXCEPT ![h] = Idle]
     /\ UNCHANGED <<mailVars, communication, analysis, orderVars, twinVars, disturbances>>

\* A handler's process stops, or its storage throws.
HandlerDies(h) ==
  /\ handler[h].at # "idle"
  /\ Disturb
  /\ handler' = [handler EXCEPT ![h] = Idle]
  /\ UNCHANGED <<mailVars, inbox, communication, analysis, orderVars, twinVars>>

-----------------------------------------------------------------------------
\* The bridge and the reading of a mail.

Goes(h, at) == handler' = [handler EXCEPT ![h].at = at]

EndsWith(h, outcome) ==
  handler' = [handler EXCEPT ![h] = [Idle EXCEPT !.at = "settling", !.mail = handler[h].mail, !.outcome = outcome]]

\* ProcurementBridge.handle up to persistInboundCommunicationIdempotent: a sender that
\* is not the supplier's is rejected, a mail that was handled before is found again.
Persist(h) ==
  LET m == handler[h].mail
  IN /\ handler[h].at = "handling"
     /\ \/ /\ mailbox[m].from = "stranger"
           /\ EndsWith(h, "rejected")
           /\ UNCHANGED <<communication, jobs>>
        \/ /\ mailbox[m].from = "supplier"
           /\ communication' = communication \cup {m}
           /\ IF m \in communication THEN UNCHANGED jobs ELSE EnqueueProjection
           /\ Goes(h, "analysing")
     /\ UNCHANGED <<mailVars, inbox, analysis, order, confirmations, productions, twinVars, disturbances>>

\* handleAiReplyRequest: what failed or was left to a person is read from scratch.
AskAgain(m) ==
  /\ handler[Console].at = "idle"
  /\ m \in communication
  /\ Disturb
  /\ analysis' = IF analysis[m].status \in {"failed", "review_required"}
                   THEN [analysis EXCEPT ![m] = [status |-> "processing", leased |-> FALSE, attempts |-> 0,
                                                 version |-> order.version, answer |-> Nothing]]
                   ELSE analysis
  /\ handler' = [handler EXCEPT ![Console] = [Idle EXCEPT !.at = "analysing", !.mail = m]]
  /\ UNCHANGED <<mailVars, inbox, communication, orderVars, twinVars>>

Read(m) ==
  \/ analysis[m].status \in {"review_required", "settled"}
  \/ analysis[m].status = "failed" /\ analysis[m].attempts >= MaxAnalyses

\* ingestInboundPurchaseOrderEmailWithAi up to the call of the model, which a stored
\* answer saves.  Attempts past MaxAnalyses are counted as MaxAnalyses.
TakeAnalysis(h) ==
  LET m == handler[h].mail
      row == analysis[m]
  IN /\ handler[h].at = "analysing"
     /\ \/ /\ Read(m)
           /\ EndsWith(h, "processed")
           /\ UNCHANGED analysis
        \/ /\ ~Read(m) /\ row.leased
           /\ EndsWith(h, "retryable_failure")
           /\ UNCHANGED analysis
        \/ /\ ~Read(m) /\ ~row.leased
           /\ analysis' = [analysis EXCEPT ![m] = [row EXCEPT
                !.status = IF row.status = "absent" THEN "processing" ELSE row.status,
                !.version = IF row.status = "absent" THEN order.version ELSE row.version,
                !.leased = TRUE,
                !.attempts = IF row.attempts < MaxAnalyses THEN row.attempts + 1 ELSE MaxAnalyses]]
           /\ handler' = [handler EXCEPT ![h].at = "asking", ![h].answer = row.answer]
     /\ UNCHANGED <<mailVars, inbox, communication, orderVars, twinVars, disturbances>>

\* The call throws, or the credential is unusable, which a stored answer meets as well.
\* Whoever holds the lease by now, the row is written; it waits before the next try.
ModelFails(h) ==
  LET m == handler[h].mail
      retryable == analysis[m].attempts < MaxAnalyses
  IN /\ handler[h].at = "asking"
     /\ analysis' = [analysis EXCEPT ![m].status = "failed", ![m].leased = retryable, ![m].answer = Nothing]
     /\ EndsWith(h, IF retryable THEN "retryable_failure" ELSE "processed")
     /\ UNCHANGED <<mailVars, inbox, communication, orderVars, twinVars, disturbances>>

\* A reading that does not pass the checks is left to a person; one that does is
\* stored before anything is recorded.
ModelAnswers(h) ==
  LET m == handler[h].mail
  IN /\ handler[h].at = "asking"
     /\ \/ /\ handler[h].answer = Nothing
           /\ analysis' = [analysis EXCEPT ![m].status = "review_required", ![m].leased = FALSE, ![m].answer = Nothing]
           /\ EndsWith(h, "processed")
        \/ \E a \in IF handler[h].answer = Nothing THEN Answers ELSE {handler[h].answer} :
             /\ analysis' = [analysis EXCEPT ![m].status = "parsed", ![m].answer = a]
             /\ handler' = [handler EXCEPT ![h].at = "confirming", ![h].answer = a]
     /\ UNCHANGED <<mailVars, inbox, communication, orderVars, twinVars, disturbances>>
-----------------------------------------------------------------------------
\* The order.

By(m, facts) == {i \in DOMAIN facts : facts[i].by = m}

Stands == \E i \in DOMAIN confirmations : confirmations[i].status # "rejected"

\* updateExecutionDocument: every change of the order is owed to the twin.
OrderBecomes(status) ==
  /\ order' = [status |-> status, version |-> order.version + 1]
  /\ EnqueueProjection

\* executeRecordConfirmation; a deviation waits for an approval.
RecordConfirmation(by, agreed) ==
  /\ confirmations' = Append(confirmations,
       [by |-> by, approval |-> ~agreed, status |-> IF agreed THEN "confirmed" ELSE "pending_approval"])
  /\ OrderBecomes(IF agreed THEN "confirmed" ELSE "awaiting_confirmation")

\* Where the order takes a supplier's commitment that is read from a mail.
CanRecordCommitment ==
  \/ order.status \in {"sent", "awaiting_confirmation"}
  \/ order.status = "confirmed" /\ ~Stands

Confirmed(h, block) ==
  handler' = [handler EXCEPT ![h].at = "producing", ![h].confirmation = block]

\* The mail's earlier confirmation, by its idempotency key.
PreviousConfirmation(m) == By(m, confirmations)

\* The confirmation block.  A change of the order between the last look at it and the
\* transaction is refused by expectedVersion, with the block of a stale reading.
Confirm(h) ==
  LET m == handler[h].mail
      agreed == handler[h].answer \notin Deviating
      previous == PreviousConfirmation(m)
      fresh == order.version = analysis[m].version
  IN /\ handler[h].at = "confirming"
     /\ \/ /\ previous # {}
           /\ Confirmed(h, IF \E i \in previous : confirmations[i].approval THEN "approval_required" ELSE "applied")
           /\ UNCHANGED orderVars
        \/ /\ previous = {} /\ ~CanRecordCommitment
           /\ Confirmed(h, IF Stands THEN "already_present" ELSE "review_required")
           /\ UNCHANGED orderVars
        \/ /\ previous = {} /\ CanRecordCommitment /\ ~fresh
           /\ Confirmed(h, "review_required")
           /\ UNCHANGED orderVars
        \/ /\ previous = {} /\ CanRecordCommitment /\ fresh
           /\ RecordConfirmation(m, agreed)
           /\ Confirmed(h, IF agreed THEN "applied" ELSE "approval_required")
           /\ UNCHANGED productions
     /\ UNCHANGED <<mailVars, inbox, communication, analysis, twinVars, disturbances>>
Produced(h, block) ==
  handler' = [handler EXCEPT ![h].at = "reporting", ![h].production = block]

\* Wrong: what an earlier handling of the mail recorded is not looked for.
NothingRecorded(m) == {}

PreviousProduction(m) == By(m, productions)

\* The production block; another answer under the mail's key is a conflict.
Produce(h) ==
  LET m == handler[h].mail
      previous == PreviousProduction(m)
      pending == handler[h].confirmation = "approval_required"
      records == ~pending /\ previous = {} /\ order.status \in {"confirmed", "in_production"}
      replays == ~pending /\ \E i \in previous : productions[i].answer = handler[h].answer
  IN /\ handler[h].at = "producing"
     /\ IF records
          THEN /\ productions' = Append(productions, [by |-> m, answer |-> handler[h].answer])
               /\ OrderBecomes("in_production")
               /\ UNCHANGED confirmations
          ELSE UNCHANGED orderVars
     /\ Produced(h, IF records \/ replays THEN "applied" ELSE "review_required")
     /\ UNCHANGED <<mailVars, inbox, communication, analysis, twinVars, disturbances>>

\* The result of the reading, stored without regard to the lease.
Report(h) ==
  LET m == handler[h].mail
      blocks == {handler[h].confirmation, handler[h].production}
      nothing == "review_required" \in blocks /\ blocks \cap {"applied", "approval_required"} = {}
  IN /\ handler[h].at = "reporting"
     /\ analysis' = [analysis EXCEPT ![m].status = IF nothing THEN "review_required" ELSE "settled",
                                     ![m].leased = FALSE, ![m].answer = Nothing]
     /\ EndsWith(h, "processed")
     /\ UNCHANGED <<mailVars, inbox, communication, orderVars, twinVars, disturbances>>

Reading(m) ==
  \E h \in Handlers : handler[h].mail = m /\ handler[h].at \in {"asking", "confirming", "producing", "reporting"}

\* 150 seconds after a reading began, 60 after one failed.  A reading that takes
\* longer is disturbed by it: the answer's body is awaited without a limit of the code.
AnalysisLeaseEnds(m) ==
  /\ analysis[m].leased
  /\ IF Reading(m) THEN Disturb ELSE UNCHANGED disturbances
  /\ analysis' = [analysis EXCEPT ![m].leased = FALSE]
  /\ UNCHANGED <<mailVars, inbox, communication, handler, orderVars, twinVars>>

\* A person records a confirmation, decides on one, cancels the order, or changes
\* something else of it.
PersonActs ==
  /\ Disturb
  /\ \/ /\ order.status \in {"sent", "awaiting_confirmation", "confirmed"}
        /\ \E agreed \in BOOLEAN : RecordConfirmation(Person, agreed)
        /\ UNCHANGED productions
     \/ /\ order.status = "awaiting_confirmation"
        /\ \E i \in DOMAIN confirmations, status \in {"confirmed", "rejected"} :
             /\ confirmations[i].status = "pending_approval"
             /\ confirmations' = [confirmations EXCEPT ![i].status = status]
             /\ OrderBecomes(status)
        /\ UNCHANGED productions
     \/ /\ order.status # "cancelled"
        /\ \E status \in {order.status, "cancelled"} : OrderBecomes(status)
        /\ UNCHANGED <<confirmations, productions>>
  /\ UNCHANGED <<mailVars, inbox, communication, analysis, handler, twinVars>>

-----------------------------------------------------------------------------
Aside ==
  UNCHANGED <<mailVars, inbox, communication, analysis, handler, order, confirmations, productions>>

Step(h) ==
  \/ Persist(h) \/ TakeAnalysis(h) \/ ModelFails(h) \/ ModelAnswers(h)
  \/ Confirm(h) \/ Produce(h) \/ Report(h) \/ SettleInbound(h)

Next ==
  \/ \E m \in Mails :
       Arrive(m) \/ Ingest(m) \/ MarkSeen(m) \/ AskAgain(m) \/ InboundLeaseEnds(m) \/ AnalysisLeaseEnds(m)
  \/ \E r \in Recoverers, m \in Mails : ClaimInbound(r, m)
  \/ \E h \in Handlers : Step(h) \/ HandlerDies(h)
  \/ PollEnds
  \/ PersonActs
  \/ QueueNext /\ Aside

Spec == Init /\ [][Next]_vars

\* Polls and recoveries are timers' work, a call of the model ends, leases run out.
\* Nobody has to write, to ask again or to intervene.
FairSpec ==
  /\ Spec
  /\ \A m \in Mails :
       /\ WF_vars(Ingest(m) \/ MarkSeen(m))
       /\ WF_vars(\E r \in Recoverers : ClaimInbound(r, m))
       /\ WF_vars(InboundLeaseEnds(m) /\ ~Handling(inbox[m].owner, m))
       /\ WF_vars(AnalysisLeaseEnds(m) /\ ~Reading(m))
  /\ \A h \in Handlers : WF_vars(Step(h))
  /\ WF_vars(WorkerStep /\ Aside)
  /\ WF_vars((\E k \in DOMAIN jobs \ batch : JobLeaseEnds(k)) /\ Aside)

-----------------------------------------------------------------------------
\* A mail is recorded at most once as a confirmation and once as production progress,
\* however often it is handled: after a crash, by two recoverers, by a person's request
\* to read it again, with another answer of the model (the idempotency keys of
\* procurement-ai-reply.ts).
RecordedOnce ==
  \A facts \in {confirmations, productions}, i, j \in 1..(Len(confirmations) + Len(productions)) :
    /\ i \in DOMAIN facts /\ j \in DOMAIN facts
    /\ facts[i].by = facts[j].by /\ facts[i].by \in Mails
    => i = j

\* The mapping to ReplyLedger: what is written down, without those who write it.
Sender(m) == mailbox[m].from
ClosedAs(m) == IF inbox[m].status \in {"processed", "rejected"} THEN inbox[m].status ELSE "open"
Writers(facts) == [i \in DOMAIN facts |-> facts[i].by]

L == INSTANCE ReplyLedger WITH
       sender <- [m \in Mails |-> Sender(m)],
       stored <- {m \in Mails : inbox[m].status # "absent"},
       seen <- {m \in Mails : mailbox[m].state = "seen"},
       closed <- [m \in Mails |-> ClosedAs(m)],
       linked <- communication,
       confirmed <- Writers(confirmations),
       reported <- Writers(productions),
       status <- order.status,
       changes <- Len(jobs),
       owed <- {k \in DOMAIN jobs : jobs[k].status # "succeeded"},
       shown <- twin

\* Poller, recoverers, readings and worker together keep the ledger ReplyLedger
\* describes, whatever dies, is read twice or loses its lease: no mail is marked before
\* it is stored, a stranger's mail leaves the order alone, each entry is one change of
\* the order, and each change is owed to the twin until it is shown.
LedgerKept == L!Spec

\* A mail in the mailbox ends as processed or rejected, whatever dies between its
\* storing and its settlement (inbound-mail-handler.ts, recoverInbound).
MailIsSettled ==
  \A m \in Mails : mailbox[m].state = "unseen" ~> inbox[m].status \in {"processed", "rejected"}
=============================================================================
