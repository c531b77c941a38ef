------------------------ MODULE SupplierReply_proofs ------------------------
(***************************************************************************)
(* Proofs about SupplierReply and its ProjectionQueue, for any mails,      *)
(* recoverers, answers and limits: no change of the order is lost to the   *)
(* twin, no mail is recorded twice, and the ledger of ReplyLedger is kept. *)
(***************************************************************************)
EXTENDS SupplierReply, TLAPS

-----------------------------------------------------------------------------
(***************************************************************************)
(* The queue.                                                              *)
(***************************************************************************)

\* What is projected and not yet settled is in the twin.
ProjectedIsShown == projected # 0 => projected <= twin

QueueInv == QueueTypeOK /\ ProjectedIsShown /\ TwinIsOwed

\* The states of a job the worker writes.
LEMMA UnattemptedJob ==
  ASSUME NEW status \in {"queued", "processing", "retry_wait", "succeeded", "dead_letter"}
  PROVE  /\ Unattempted(status) \in Job
         /\ Unattempted(status).status = status
BY ProjectionAssumption DEF Unattempted, Job

\* Replacing the jobs at their places keeps the queue's length.
LEMMA ReplacedJobs ==
  ASSUME NEW q \in Seq(Job), NEW f \in [DOMAIN q -> Job]
  PROVE  f \in Seq(Job) /\ Len(f) = Len(q) /\ DOMAIN f = DOMAIN q
<1>1. DOMAIN q = 1..Len(q) /\ Len(q) \in Nat
  OBVIOUS
<1>2. f \in Seq(Job)
  BY <1>1
<1>3. DOMAIN f = 1..Len(f) /\ Len(f) \in Nat
  BY <1>2
<1>4. QED BY <1>1, <1>2, <1>3

\* A change of the order enqueues a job that is not done.
LEMMA EnqueueKeepsQueue ==
  ASSUME QueueInv, EnqueueProjection, UNCHANGED <<twin, batch, projected>>,
         disturbances' \in 0..MaxDisturbances
  PROVE  QueueInv'
<1> DEFINE job == Unattempted("queued")
<1>1. job \in Job /\ job.status = "queued"
  BY UnattemptedJob
<1>2. jobs' = Append(jobs, job) /\ jobs \in Seq(Job)
  BY DEF EnqueueProjection, QueueInv, QueueTypeOK
<1> HIDE DEF job
<1>3. /\ jobs' \in Seq(Job) /\ Len(jobs') = Len(jobs) + 1
      /\ \A k \in 1..Len(jobs) : jobs'[k] = jobs[k]
      /\ jobs'[Len(jobs) + 1] = job
      /\ DOMAIN jobs' = 1..Len(jobs) + 1 /\ DOMAIN jobs = 1..Len(jobs) /\ Len(jobs) \in Nat
  BY <1>1, <1>2
<1>4. QueueTypeOK'
  BY <1>3 DEF QueueInv, QueueTypeOK
<1>5. TwinIsOwed'
  <2> SUFFICES ASSUME NEW k \in DOMAIN jobs', k > twin
               PROVE  jobs'[k].status # "succeeded"
    BY DEF TwinIsOwed
  <2>1. CASE k \in DOMAIN jobs
    BY <2>1, <1>3 DEF QueueInv, TwinIsOwed
  <2>2. CASE k \notin DOMAIN jobs
    <3>1. k = Len(jobs) + 1
      BY <2>2, <1>3
    <3>2. QED BY <3>1, <1>1, <1>3
  <2>3. QED BY <2>1, <2>2
<1>6. ProjectedIsShown'
  BY DEF QueueInv, ProjectedIsShown
<1>7. QED BY <1>4, <1>5, <1>6 DEF QueueInv

\* Every step of the worker, its end and the leases keep the debt: only a projection
\* that is in the twin lets a job succeed, and a projection shows all there is.
LEMMA QueueStep ==
  ASSUME QueueInv, QueueNext
  PROVE  QueueInv'
<1> USE DEF QueueInv
<1>0. /\ jobs \in Seq(Job) /\ DOMAIN jobs = 1..Len(jobs) /\ Len(jobs) \in Nat
      /\ \A k \in DOMAIN jobs : jobs[k] \in Job
      /\ twin \in 0..Len(jobs) /\ batch \subseteq 1..Len(jobs)
      /\ projected \in batch \cup {0}
      /\ disturbances \in 0..MaxDisturbances /\ MaxDisturbances \in Nat
      /\ MaxProjections \in Nat \ {0}
  BY ProjectionAssumption DEF QueueTypeOK
<1>1. ASSUME Disturb PROVE disturbances' \in 0..MaxDisturbances
  BY <1>1, <1>0 DEF Disturb
\* Jobs replaced at their places, none of them as succeeded unless it is shown.
<1>2. ASSUME NEW f \in [DOMAIN jobs -> Job], jobs' = f, twin' = twin,
             batch' \subseteq 1..Len(jobs), projected' \in batch' \cup {0},
             projected' \in {projected, 0}, disturbances' \in 0..MaxDisturbances,
             \A k \in DOMAIN jobs : f[k].status = "succeeded" /\ jobs[k].status # "succeeded" => k <= twin
      PROVE  QueueInv'
  <2>1. f \in Seq(Job) /\ Len(f) = Len(jobs) /\ DOMAIN f = DOMAIN jobs
    BY <1>0, <1>2, ReplacedJobs
  <2>2. QueueTypeOK'
    BY <2>1, <1>0, <1>2 DEF QueueTypeOK
  <2>3. ProjectedIsShown'
    BY <1>2 DEF ProjectedIsShown
  <2>4. TwinIsOwed'
    BY <2>1, <1>0, <1>2 DEF TwinIsOwed
  <2>5. QED BY <2>2, <2>3, <2>4
\* One job replaced.
<1>3. ASSUME NEW k \in DOMAIN jobs, NEW job \in Job, jobs' = [jobs EXCEPT ![k] = job], twin' = twin,
             batch' \subseteq 1..Len(jobs), projected' \in batch' \cup {0},
             projected' \in {projected, 0}, disturbances' \in 0..MaxDisturbances,
             job.status = "succeeded" /\ jobs[k].status # "succeeded" => k <= twin
      PROVE  QueueInv'
  <2>1. jobs' \in [DOMAIN jobs -> Job]
    BY <1>0, <1>3
  <2>2. \A i \in DOMAIN jobs : jobs'[i] = IF i = k THEN job ELSE jobs[i]
    BY <1>0, <1>3
  <2>3. QED BY <2>1, <2>2, <1>2, <1>3
<1>4. ASSUME NEW k \in batch, NEW job \in Job, Settle(k, job), twin' = twin,
             batch' = batch \ {k}, projected' \in batch' \cup {0},
             projected' \in {projected, 0}, UNCHANGED disturbances,
             job.status = "succeeded" => k <= twin
      PROVE  QueueInv'
  <2>0. k \in DOMAIN jobs /\ jobs[k] \in Job
    BY <1>0
  <2>1. CASE jobs[k].leased
    BY <2>0, <2>1, <1>0, <1>3, <1>4 DEF Settle
  <2>2. CASE ~jobs[k].leased
    <3>1. jobs' = [jobs EXCEPT ![k] = jobs[k]]
      BY <2>0, <2>2, <1>0, <1>4 DEF Settle
    <3>2. QED BY <2>0, <3>1, <1>0, <1>3, <1>4
  <2>3. QED BY <2>1, <2>2
<1>5. CASE ClaimJobs
  <2> DEFINE leased(k) == [status |-> "processing", attempts |-> jobs[k].attempts + 1, leased |-> TRUE]
             claimed == [k \in DOMAIN jobs |-> IF Exhausted(k) THEN Unattempted("dead_letter")
                                             ELSE IF Claimable(k) THEN leased(k) ELSE jobs[k]]
  <2>1. ASSUME NEW k \in DOMAIN jobs, Claimable(k) PROVE leased(k) \in Job
    BY <2>1, <1>0 DEF Claimable, Job
  <2>2. claimed \in [DOMAIN jobs -> Job]
    BY <2>1, <1>0, UnattemptedJob
  <2>3. \A k \in DOMAIN jobs : claimed[k].status = "succeeded" => jobs[k].status = "succeeded"
    BY UnattemptedJob
  <2>4. jobs' = claimed /\ UNCHANGED <<twin, projected, disturbances>> /\ projected = 0
        /\ batch' \subseteq 1..Len(jobs)
    BY <1>5, <1>0 DEF ClaimJobs
  <2> HIDE DEF claimed
  <2>5. QED BY <2>2, <2>3, <2>4, <1>0, <1>2
<1>6. ASSUME NEW k \in batch, Project(k) PROVE QueueInv'
  BY <1>6, <1>0 DEF Project, QueueTypeOK, TwinIsOwed, ProjectedIsShown
<1>7. ASSUME NEW k \in batch, Succeed(k) PROVE QueueInv'
  <2>1. Unattempted("succeeded") \in Job /\ k # 0 /\ k <= twin
    BY <1>7, <1>0, UnattemptedJob DEF Succeed, ProjectedIsShown
  <2>2. QED BY <2>1, <1>0, <1>4, <1>7 DEF Succeed
<1>8. ASSUME NEW k \in batch, FailProjection(k) PROVE QueueInv'
  <2> DEFINE job == IF jobs[k].attempts >= MaxProjections THEN Unattempted("dead_letter")
                    ELSE [jobs[k] EXCEPT !.status = "retry_wait", !.leased = FALSE]
  <2>1. [jobs[k] EXCEPT !.status = "retry_wait", !.leased = FALSE] \in Job
    BY <1>0 DEF Job
  <2>2. job \in Job /\ job.status # "succeeded"
    BY <2>1, <1>0, UnattemptedJob DEF Job
  <2>3. Settle(k, job) /\ projected = 0 /\ batch' = batch \ {k} /\ UNCHANGED <<twin, projected, disturbances>>
    BY <1>8 DEF FailProjection
  <2> HIDE DEF job
  <2>4. QED BY <2>2, <2>3, <1>0, <1>4
<1>9. CASE WorkerDies
  BY <1>9, <1>0, <1>1 DEF WorkerDies, QueueTypeOK, TwinIsOwed, ProjectedIsShown
<1>10. ASSUME NEW k \in DOMAIN jobs, JobLeaseEnds(k) PROVE QueueInv'
  <2> DEFINE job == [jobs[k] EXCEPT !.leased = FALSE]
  <2>1. job \in Job /\ job.status = jobs[k].status
    BY <1>0 DEF Job
  <2>2. jobs' = [jobs EXCEPT ![k] = job] /\ UNCHANGED <<twin, batch, projected>>
    BY <1>10 DEF JobLeaseEnds
  <2>3. disturbances' \in 0..MaxDisturbances
    BY <1>10, <1>0, <1>1 DEF JobLeaseEnds
  <2> HIDE DEF job
  <2>4. QED BY <2>1, <2>2, <2>3, <1>0, <1>3
<1>11. ASSUME NEW k \in DOMAIN jobs, ReplayDeadLetter(k) PROVE QueueInv'
  <2>1. Unattempted("queued") \in Job /\ Unattempted("queued").status = "queued"
    BY UnattemptedJob
  <2>2. QED BY <2>1, <1>0, <1>1, <1>3, <1>11 DEF ReplayDeadLetter
<1>12. QED
  BY <1>5, <1>6, <1>7, <1>8, <1>9, <1>10, <1>11 DEF QueueNext, WorkerStep

-----------------------------------------------------------------------------
(***************************************************************************)
(* Types.                                                                  *)
(***************************************************************************)
MailRow == [from : {"supplier", "stranger"}, state : {"absent", "unseen", "seen"}]
InboxRow == [status : {"absent", "received", "dispatching", "failed", "processed", "rejected"},
             owner : Recoverers \cup {Nothing}, leased : BOOLEAN]
Analysis == [status : AnalysisStatus, leased : BOOLEAN, version : Nat,
             attempts : 0..MaxAnalyses, answer : Answers \cup {Nothing}]
HandlerState == [at : Steps, mail : Mails \cup {Nothing}, answer : Answers \cup {Nothing},
                 confirmation : Block, production : Block,
                 outcome : {"none", "processed", "rejected", "retryable_failure"}]
Order == [status : {"sent", "awaiting_confirmation", "confirmed", "in_production", "rejected", "cancelled"},
          version : Nat]
Confirmation == [by : Mails \cup {Person}, approval : BOOLEAN,
                 status : {"pending_approval", "confirmed", "rejected"}]
Production == [by : Mails, answer : Answers]

\* What a handler that is under way has with it.
HandlersAreEquipped ==
  \A h \in Handlers :
    /\ handler[h].at # "idle" => handler[h].mail \in Mails
    /\ handler[h].at \in {"confirming", "producing"} => handler[h].answer \in Answers
    /\ handler[h].at = "settling" => handler[h].outcome # "none"

MailType ==
  /\ mailbox \in [Mails -> MailRow]
  /\ polled \subseteq Mails
  /\ inbox \in [Mails -> InboxRow]
OrderType ==
  /\ communication \subseteq Mails
  /\ order \in Order
  /\ confirmations \in Seq(Confirmation)
  /\ productions \in Seq(Production)
AnalysisType == analysis \in [Mails -> Analysis]
HandlerType == handler \in [Handlers -> HandlerState] /\ HandlersAreEquipped

ReplyInv == QueueInv /\ MailType /\ OrderType /\ AnalysisType /\ HandlerType

LEMMA InvImpliesType == ReplyInv => TypeOK
BY DEF ReplyInv, QueueInv, MailType, OrderType, AnalysisType, HandlerType, TypeOK,
       MailRow, InboxRow, Analysis, HandlerState, Order, Confirmation, Production

LEMMA InitReply == Init => ReplyInv
<1> SUFFICES ASSUME Init PROVE ReplyInv
  OBVIOUS
<1>1. QueueInv
  BY ProjectionAssumption
  DEF Init, QueueInit, QueueInv, QueueTypeOK, ProjectedIsShown, TwinIsOwed
<1>2. MailType
  BY DEF Init, MailType, MailRow, InboxRow
<1>3. OrderType
  BY DEF Init, OrderType, Order
<1>4. AnalysisType
  BY ReplyAssumption DEF Init, AnalysisType, Analysis, AnalysisStatus
<1>5. HandlerType
  BY DEF Init, HandlerType, HandlersAreEquipped, HandlerState, Idle, Steps, Block
<1>6. QED BY <1>1, <1>2, <1>3, <1>4, <1>5 DEF ReplyInv

\* A handler that goes on keeps what every handler must have.
LEMMA HandlerMoves ==
  ASSUME HandlerType, NEW h \in Handlers, NEW state \in HandlerState,
         handler' = [handler EXCEPT ![h] = state],
         state.at # "idle" => state.mail \in Mails,
         state.at \in {"confirming", "producing"} => state.answer \in Answers,
         state.at = "settling" => state.outcome # "none"
  PROVE  HandlerType'
BY DEF HandlerType, HandlersAreEquipped

\* What a handler is given when it is done, or has ended with an outcome.
LEMMA HandlerEnds ==
  ASSUME HandlerType, NEW h \in Handlers, handler[h].at # "idle"
  PROVE  /\ handler' = [handler EXCEPT ![h] = Idle] => HandlerType'
         /\ \A outcome \in {"processed", "rejected", "retryable_failure"} :
              EndsWith(h, outcome) => HandlerType'
<1>1. Idle \in HandlerState /\ Idle.at = "idle"
  BY DEF Idle, HandlerState, Steps, Block
<1>2. handler[h].mail \in Mails
  BY DEF HandlerType, HandlersAreEquipped
<1>3. ASSUME NEW outcome \in {"processed", "rejected", "retryable_failure"}
      PROVE  /\ [Idle EXCEPT !.at = "settling", !.mail = handler[h].mail, !.outcome = outcome] \in HandlerState
             /\ [Idle EXCEPT !.at = "settling", !.mail = handler[h].mail, !.outcome = outcome].at = "settling"
             /\ [Idle EXCEPT !.at = "settling", !.mail = handler[h].mail, !.outcome = outcome].mail \in Mails
             /\ [Idle EXCEPT !.at = "settling", !.mail = handler[h].mail, !.outcome = outcome].outcome # "none"
  BY <1>2 DEF Idle, HandlerState, Steps, Block
<1>4. handler' = [handler EXCEPT ![h] = Idle] => HandlerType'
  BY <1>1, HandlerMoves
<1>5. ASSUME NEW outcome \in {"processed", "rejected", "retryable_failure"}, EndsWith(h, outcome)
      PROVE  HandlerType'
  <2>1. handler' = [handler EXCEPT ![h] =
           [Idle EXCEPT !.at = "settling", !.mail = handler[h].mail, !.outcome = outcome]]
    BY <1>5 DEF EndsWith
  <2>2. QED BY <2>1, <1>3, HandlerMoves
<1>6. QED BY <1>4, <1>5

\* A bounded number of disturbances, and the queue as it is.
LEMMA QueueUntouched ==
  ASSUME QueueInv, UNCHANGED <<jobs, twinVars>>, Disturb \/ UNCHANGED disturbances
  PROVE  QueueInv'
BY ProjectionAssumption
DEF QueueInv, QueueTypeOK, ProjectedIsShown, TwinIsOwed, twinVars, Disturb

LEMMA MailboxStep ==
  ASSUME ReplyInv, NEW m \in Mails, Arrive(m) \/ Ingest(m) \/ MarkSeen(m)
  PROVE  ReplyInv'
<1>1. QueueInv'
  BY QueueUntouched DEF ReplyInv, Arrive, Ingest, MarkSeen, orderVars
<1>2. MailType'
  <2>1. CASE Arrive(m)
    BY <2>1 DEF ReplyInv, MailType, MailRow, Arrive
  <2>2. CASE Ingest(m)
    BY <2>2 DEF ReplyInv, MailType, InboxRow, Ingest
  <2>3. CASE MarkSeen(m)
    BY <2>3 DEF ReplyInv, MailType, MailRow, MarkSeen
  <2>4. QED BY <2>1, <2>2, <2>3
<1>3. OrderType' /\ AnalysisType' /\ HandlerType'
  BY DEF ReplyInv, OrderType, AnalysisType, HandlerType, HandlersAreEquipped, Arrive, Ingest, MarkSeen, orderVars
<1>4. QED BY <1>1, <1>2, <1>3 DEF ReplyInv

LEMMA PollEndsStep ==
  ASSUME ReplyInv, PollEnds
  PROVE  ReplyInv'
<1>1. QueueInv'
  BY QueueUntouched DEF ReplyInv, PollEnds, orderVars
<1>2. MailType' /\ OrderType' /\ AnalysisType' /\ HandlerType'
  BY DEF ReplyInv, MailType, OrderType, AnalysisType, HandlerType, HandlersAreEquipped, PollEnds, orderVars
<1>3. QED BY <1>1, <1>2 DEF ReplyInv

LEMMA LeaseStep ==
  ASSUME ReplyInv, NEW m \in Mails, InboundLeaseEnds(m) \/ AnalysisLeaseEnds(m)
  PROVE  ReplyInv'
<1>1. QueueInv'
  BY QueueUntouched DEF ReplyInv, InboundLeaseEnds, AnalysisLeaseEnds, orderVars
<1>2. MailType' /\ AnalysisType'
  <2>1. CASE InboundLeaseEnds(m)
    BY <2>1 DEF ReplyInv, MailType, AnalysisType, InboxRow, InboundLeaseEnds, mailVars
  <2>2. CASE AnalysisLeaseEnds(m)
    BY <2>2 DEF ReplyInv, MailType, AnalysisType, Analysis, AnalysisLeaseEnds, mailVars
  <2>3. QED BY <2>1, <2>2
<1>3. OrderType' /\ HandlerType'
  BY DEF ReplyInv, OrderType, HandlerType, HandlersAreEquipped, InboundLeaseEnds, AnalysisLeaseEnds, orderVars
<1>4. QED BY <1>1, <1>2, <1>3 DEF ReplyInv

LEMMA ClaimInboundStep ==
  ASSUME ReplyInv, NEW r \in Recoverers, NEW m \in Mails, ClaimInbound(r, m)
  PROVE  ReplyInv'
<1>1. QueueInv'
  BY QueueUntouched DEF ReplyInv, ClaimInbound, orderVars
<1>2. MailType'
  BY DEF ReplyInv, MailType, InboxRow, ClaimInbound, mailVars
<1>3. HandlerType'
  <2> DEFINE state == [Idle EXCEPT !.at = "handling", !.mail = m]
  <2>1. state \in HandlerState /\ state.at = "handling" /\ state.mail = m
    BY DEF Idle, HandlerState, Steps, Block
  <2>2. handler' = [handler EXCEPT ![r] = state] /\ r \in Handlers
    BY DEF ClaimInbound, Handlers
  <2> HIDE DEF state
  <2>3. QED BY <2>1, <2>2, HandlerMoves DEF ReplyInv
<1>4. OrderType' /\ AnalysisType'
  BY DEF ReplyInv, OrderType, AnalysisType, ClaimInbound, orderVars
<1>5. QED BY <1>1, <1>2, <1>3, <1>4 DEF ReplyInv

LEMMA HandlerDiesStep ==
  ASSUME ReplyInv, NEW h \in Handlers, HandlerDies(h)
  PROVE  ReplyInv'
<1>1. QueueInv'
  BY QueueUntouched DEF ReplyInv, HandlerDies, orderVars
<1>2. HandlerType'
  BY HandlerEnds DEF ReplyInv, HandlerDies
<1>3. MailType' /\ OrderType' /\ AnalysisType'
  BY DEF ReplyInv, MailType, OrderType, AnalysisType, HandlerDies, orderVars, mailVars
<1>4. QED BY <1>1, <1>2, <1>3 DEF ReplyInv

LEMMA SettleInboundStep ==
  ASSUME ReplyInv, NEW h \in Handlers, SettleInbound(h)
  PROVE  ReplyInv'
<1>1. QueueInv'
  BY QueueUntouched DEF ReplyInv, SettleInbound, orderVars
<1>2. HandlerType'
  BY HandlerEnds DEF ReplyInv, SettleInbound
<1>3. MailType'
  <2> DEFINE m == handler[h].mail
             status == IF handler[h].outcome = "retryable_failure" THEN "failed" ELSE handler[h].outcome
  <2>1. handler[h].outcome \in {"none", "processed", "rejected", "retryable_failure"}
    BY DEF ReplyInv, HandlerType, HandlerState
  <2>2. CASE HoldsLease(h, m)
    <3>1. status \in {"processed", "rejected", "failed"}
      BY <2>1 DEF ReplyInv, HandlerType, HandlersAreEquipped, SettleInbound
    <3>2. QED BY <2>2, <3>1 DEF ReplyInv, MailType, InboxRow, SettleInbound, mailVars
  <2>3. CASE ~HoldsLease(h, m)
    BY <2>3 DEF ReplyInv, MailType, SettleInbound, mailVars
  <2>4. QED BY <2>2, <2>3
<1>4. OrderType' /\ AnalysisType'
  BY DEF ReplyInv, OrderType, AnalysisType, SettleInbound, orderVars
<1>5. QED BY <1>1, <1>2, <1>3, <1>4 DEF ReplyInv

-----------------------------------------------------------------------------
(***************************************************************************)
(* The reading of a mail.                                                  *)
(***************************************************************************)

\* A handler that goes on with the same mail.
LEMMA HandlerGoes ==
  ASSUME HandlerType, NEW h \in Handlers, handler[h].at # "idle",
         NEW at \in Steps \ {"confirming", "producing", "settling"}, Goes(h, at)
  PROVE  HandlerType'
<1> DEFINE state == [handler[h] EXCEPT !.at = at]
<1>1. /\ state \in HandlerState /\ state.at = at /\ state.mail = handler[h].mail
      /\ handler[h].mail \in Mails
  BY DEF HandlerType, HandlersAreEquipped, HandlerState
<1>2. handler' = [handler EXCEPT ![h] = state]
  BY DEF Goes
<1> HIDE DEF state
<1>3. QED BY <1>1, <1>2, HandlerMoves

LEMMA PersistStep ==
  ASSUME ReplyInv, NEW h \in Handlers, Persist(h)
  PROVE  ReplyInv'
<1> DEFINE m == handler[h].mail
<1>0. m \in Mails /\ handler[h].at = "handling"
  BY DEF ReplyInv, HandlerType, HandlersAreEquipped, Persist
<1>1. QueueInv'
  <2>1. UNCHANGED <<twinVars, disturbances>> /\ (EnqueueProjection \/ UNCHANGED jobs)
    BY DEF Persist
  <2>2. disturbances' \in 0..MaxDisturbances /\ UNCHANGED <<twin, batch, projected>>
    BY <2>1 DEF ReplyInv, QueueInv, QueueTypeOK, twinVars
  <2>3. CASE EnqueueProjection
    BY <2>2, <2>3, EnqueueKeepsQueue DEF ReplyInv
  <2>4. CASE UNCHANGED jobs
    BY <2>1, <2>4, QueueUntouched DEF ReplyInv
  <2>5. QED BY <2>1, <2>3, <2>4
<1>2. HandlerType'
  <2>1. EndsWith(h, "rejected") \/ Goes(h, "analysing")
    BY DEF Persist
  <2>2. CASE EndsWith(h, "rejected")
    BY <1>0, <2>2, HandlerEnds DEF ReplyInv
  <2>3. CASE Goes(h, "analysing")
    <3>1. "analysing" \in Steps \ {"confirming", "producing", "settling"}
      BY DEF Steps
    <3>2. QED BY <1>0, <2>3, <3>1, HandlerGoes DEF ReplyInv
  <2>4. QED BY <2>1, <2>2, <2>3
<1>3. OrderType'
  BY <1>0 DEF ReplyInv, OrderType, Persist
<1>4. MailType' /\ AnalysisType'
  BY DEF ReplyInv, MailType, AnalysisType, Persist, mailVars
<1>5. QED BY <1>1, <1>2, <1>3, <1>4 DEF ReplyInv

LEMMA AskAgainStep ==
  ASSUME ReplyInv, NEW m \in Mails, AskAgain(m)
  PROVE  ReplyInv'
<1>1. QueueInv'
  BY QueueUntouched DEF ReplyInv, AskAgain, orderVars
<1>2. HandlerType'
  <2> DEFINE state == [Idle EXCEPT !.at = "analysing", !.mail = m]
  <2>1. state \in HandlerState /\ state.at = "analysing" /\ state.mail = m
    BY DEF Idle, HandlerState, Steps, Block
  <2>2. handler' = [handler EXCEPT ![Console] = state] /\ Console \in Handlers
    BY DEF AskAgain, Handlers
  <2> HIDE DEF state
  <2>3. QED BY <2>1, <2>2, HandlerMoves DEF ReplyInv
<1>3. AnalysisType'
  <2> DEFINE fresh == [status |-> "processing", leased |-> FALSE, attempts |-> 0,
                       version |-> order.version, answer |-> Nothing]
  <2>1. fresh \in Analysis
    BY ReplyAssumption DEF ReplyInv, OrderType, Order, Analysis, AnalysisStatus
  <2>2. analysis' = [analysis EXCEPT ![m] = fresh] \/ analysis' = analysis
    BY DEF AskAgain
  <2> HIDE DEF fresh
  <2>3. QED BY <2>1, <2>2 DEF ReplyInv, AnalysisType
<1>4. MailType' /\ OrderType'
  BY DEF ReplyInv, MailType, OrderType, AskAgain, mailVars, orderVars
<1>5. QED BY <1>1, <1>2, <1>3, <1>4 DEF ReplyInv

LEMMA TakeAnalysisStep ==
  ASSUME ReplyInv, NEW h \in Handlers, TakeAnalysis(h)
  PROVE  ReplyInv'
<1> DEFINE m == handler[h].mail
           row == analysis[m]
           taken == [row EXCEPT
             !.status = IF row.status = "absent" THEN "processing" ELSE row.status,
             !.version = IF row.status = "absent" THEN order.version ELSE row.version,
             !.leased = TRUE,
             !.attempts = IF row.attempts < MaxAnalyses THEN row.attempts + 1 ELSE MaxAnalyses]
           asking == [handler[h] EXCEPT !.at = "asking", !.answer = row.answer]
<1>0. m \in Mails /\ handler[h].at = "analysing" /\ handler[h] \in HandlerState /\ row \in Analysis
  BY DEF ReplyInv, HandlerType, HandlersAreEquipped, AnalysisType, TakeAnalysis
<1>1. taken \in Analysis
  <2>1. order.version \in Nat
    BY DEF ReplyInv, OrderType, Order
  <2>2. (IF row.attempts < MaxAnalyses THEN row.attempts + 1 ELSE MaxAnalyses) \in 0..MaxAnalyses
    BY <1>0, ReplyAssumption DEF Analysis
  <2>3. (IF row.status = "absent" THEN "processing" ELSE row.status) \in AnalysisStatus
    BY <1>0 DEF Analysis, AnalysisStatus
  <2>4. QED BY <1>0, <2>1, <2>2, <2>3 DEF Analysis
<1>2. asking \in HandlerState /\ asking.at = "asking" /\ asking.mail = m
  BY <1>0 DEF HandlerState, Analysis, Steps
<1>3. QueueInv'
  BY QueueUntouched DEF ReplyInv, TakeAnalysis, orderVars
<1>4. \/ UNCHANGED analysis /\ (EndsWith(h, "processed") \/ EndsWith(h, "retryable_failure"))
      \/ analysis' = [analysis EXCEPT ![m] = taken] /\ handler' = [handler EXCEPT ![h] = asking]
  BY DEF TakeAnalysis
<1>5. AnalysisType' /\ HandlerType'
  <2>1. CASE UNCHANGED analysis /\ (EndsWith(h, "processed") \/ EndsWith(h, "retryable_failure"))
    BY <1>0, <2>1, HandlerEnds DEF ReplyInv, AnalysisType
  <2>2. CASE analysis' = [analysis EXCEPT ![m] = taken] /\ handler' = [handler EXCEPT ![h] = asking]
    <3> HIDE DEF taken, asking
    <3>1. AnalysisType'
      BY <1>0, <1>1, <2>2 DEF ReplyInv, AnalysisType
    <3>2. HandlerType'
      BY <1>0, <1>2, <2>2, HandlerMoves DEF ReplyInv
    <3>3. QED BY <3>1, <3>2
  <2>3. QED BY <1>4, <2>1, <2>2
<1>6. MailType' /\ OrderType'
  BY DEF ReplyInv, MailType, OrderType, TakeAnalysis, mailVars, orderVars
<1>7. QED BY <1>3, <1>5, <1>6 DEF ReplyInv

LEMMA ModelFailsStep ==
  ASSUME ReplyInv, NEW h \in Handlers, ModelFails(h)
  PROVE  ReplyInv'
<1> DEFINE m == handler[h].mail
           failed(retryable) == [analysis[m] EXCEPT !.status = "failed", !.leased = retryable, !.answer = Nothing]
<1>0. m \in Mails /\ handler[h].at = "asking" /\ analysis[m] \in Analysis
  BY DEF ReplyInv, HandlerType, HandlersAreEquipped, AnalysisType, ModelFails
<1>1. QueueInv'
  BY QueueUntouched DEF ReplyInv, ModelFails, orderVars
<1>2. AnalysisType'
  <2>1. \A retryable \in BOOLEAN : failed(retryable) \in Analysis
    BY <1>0 DEF Analysis, AnalysisStatus
  <2>2. \E retryable \in BOOLEAN : analysis' = [analysis EXCEPT ![m] = failed(retryable)]
    <3>1. analysis' = [analysis EXCEPT ![m] = failed(analysis[m].attempts < MaxAnalyses)]
      BY DEF ModelFails
    <3> HIDE DEF failed
    <3>2. (analysis[m].attempts < MaxAnalyses) \in BOOLEAN
      OBVIOUS
    <3>3. QED BY <3>1, <3>2
  <2> HIDE DEF failed
  <2>3. QED BY <2>1, <2>2 DEF ReplyInv, AnalysisType
<1>3. HandlerType'
  BY <1>0, HandlerEnds DEF ReplyInv, ModelFails
<1>4. MailType' /\ OrderType'
  BY DEF ReplyInv, MailType, OrderType, ModelFails, mailVars, orderVars
<1>5. QED BY <1>1, <1>2, <1>3, <1>4 DEF ReplyInv

LEMMA ModelAnswersStep ==
  ASSUME ReplyInv, NEW h \in Handlers, ModelAnswers(h)
  PROVE  ReplyInv'
<1> DEFINE m == handler[h].mail
           review == [analysis[m] EXCEPT !.status = "review_required", !.leased = FALSE, !.answer = Nothing]
           parsed(a) == [analysis[m] EXCEPT !.status = "parsed", !.answer = a]
           confirming(a) == [handler[h] EXCEPT !.at = "confirming", !.answer = a]
<1>0. m \in Mails /\ handler[h].at = "asking" /\ analysis[m] \in Analysis /\ handler[h] \in HandlerState
  BY DEF ReplyInv, HandlerType, HandlersAreEquipped, AnalysisType, ModelAnswers
<1>1. QueueInv'
  BY QueueUntouched DEF ReplyInv, ModelAnswers, orderVars
<1>2. review \in Analysis
  BY <1>0 DEF Analysis, AnalysisStatus
<1>3. ASSUME NEW a \in Answers
      PROVE  /\ parsed(a) \in Analysis
             /\ confirming(a) \in HandlerState
             /\ confirming(a).at = "confirming" /\ confirming(a).mail = m /\ confirming(a).answer = a
  BY <1>0, <1>3 DEF Analysis, AnalysisStatus, HandlerState, Steps
<1>4. \/ analysis' = [analysis EXCEPT ![m] = review] /\ EndsWith(h, "processed")
      \/ \E a \in Answers : analysis' = [analysis EXCEPT ![m] = parsed(a)]
                            /\ handler' = [handler EXCEPT ![h] = confirming(a)]
  <2>1. handler[h].answer \in Answers \cup {Nothing}
    BY <1>0 DEF HandlerState
  <2>2. ASSUME NEW a,
               analysis' = [analysis EXCEPT ![m].status = "parsed", ![m].answer = a],
               handler' = [handler EXCEPT ![h].at = "confirming", ![h].answer = a]
        PROVE  analysis' = [analysis EXCEPT ![m] = parsed(a)] /\ handler' = [handler EXCEPT ![h] = confirming(a)]
    BY <2>2
  <2>3. analysis' = [analysis EXCEPT ![m].status = "review_required", ![m].leased = FALSE, ![m].answer = Nothing]
        => analysis' = [analysis EXCEPT ![m] = review]
    OBVIOUS
  <2> HIDE DEF review, parsed, confirming
  <2>4. QED BY <2>1, <2>2, <2>3 DEF ModelAnswers
<1>5. AnalysisType' /\ HandlerType'
  <2>1. CASE analysis' = [analysis EXCEPT ![m] = review] /\ EndsWith(h, "processed")
    <3> HIDE DEF review
    <3>1. QED BY <1>0, <1>2, <2>1, HandlerEnds DEF ReplyInv, AnalysisType
  <2>2. ASSUME NEW a \in Answers, analysis' = [analysis EXCEPT ![m] = parsed(a)],
               handler' = [handler EXCEPT ![h] = confirming(a)]
        PROVE  AnalysisType' /\ HandlerType'
    <3>1. parsed(a) \in Analysis /\ confirming(a) \in HandlerState /\ confirming(a).at = "confirming"
          /\ confirming(a).mail = m /\ confirming(a).answer = a
      BY <1>3
    <3> HIDE DEF parsed, confirming
    <3>2. AnalysisType'
      BY <3>1, <2>2 DEF ReplyInv, AnalysisType
    <3>3. HandlerType'
      BY <1>0, <3>1, <2>2, HandlerMoves DEF ReplyInv
    <3>4. QED BY <3>2, <3>3
  <2>3. QED BY <1>4, <2>1, <2>2
<1>6. MailType' /\ OrderType'
  BY DEF ReplyInv, MailType, OrderType, ModelAnswers, mailVars, orderVars
<1>7. QED BY <1>1, <1>5, <1>6 DEF ReplyInv

LEMMA ReportStep ==
  ASSUME ReplyInv, NEW h \in Handlers, Report(h)
  PROVE  ReplyInv'
<1> DEFINE m == handler[h].mail
<1>0. m \in Mails /\ handler[h].at = "reporting" /\ analysis[m] \in Analysis
  BY DEF ReplyInv, HandlerType, HandlersAreEquipped, AnalysisType, Report
<1>1. QueueInv'
  BY QueueUntouched DEF ReplyInv, Report, orderVars
<1>2. AnalysisType'
  <2> DEFINE done(status) == [analysis[m] EXCEPT !.status = status, !.leased = FALSE, !.answer = Nothing]
  <2>1. \A status \in {"review_required", "settled"} : done(status) \in Analysis
    BY <1>0 DEF Analysis, AnalysisStatus
  <2>2. \E status \in {"review_required", "settled"} : analysis' = [analysis EXCEPT ![m] = done(status)]
    BY DEF Report
  <2> HIDE DEF done
  <2>3. QED BY <2>1, <2>2 DEF ReplyInv, AnalysisType
<1>3. HandlerType'
  BY <1>0, HandlerEnds DEF ReplyInv, Report
<1>4. MailType' /\ OrderType'
  BY DEF ReplyInv, MailType, OrderType, Report, mailVars, orderVars
<1>5. QED BY <1>1, <1>2, <1>3, <1>4 DEF ReplyInv

-----------------------------------------------------------------------------
(***************************************************************************)
(* The order.                                                              *)
(***************************************************************************)

\* Every change of the order enqueues a job.
LEMMA OrderStep ==
  ASSUME ReplyInv, NEW status \in {"sent", "awaiting_confirmation", "confirmed", "in_production",
                                   "rejected", "cancelled"},
         OrderBecomes(status), UNCHANGED twinVars, Disturb \/ UNCHANGED disturbances
  PROVE  QueueInv' /\ order' \in Order
<1>1. order' \in Order
  BY DEF ReplyInv, OrderType, Order, OrderBecomes
<1>2. disturbances' \in 0..MaxDisturbances
  BY ProjectionAssumption DEF ReplyInv, QueueInv, QueueTypeOK, Disturb
<1>3. QueueInv'
  BY <1>2, EnqueueKeepsQueue DEF ReplyInv, OrderBecomes, twinVars
<1>4. QED BY <1>1, <1>3

LEMMA RecordConfirmationStep ==
  ASSUME ReplyInv, NEW by \in Mails \cup {Person}, NEW agreed \in BOOLEAN,
         RecordConfirmation(by, agreed), UNCHANGED twinVars, Disturb \/ UNCHANGED disturbances
  PROVE  QueueInv' /\ order' \in Order /\ confirmations' \in Seq(Confirmation)
<1> DEFINE fact == [by |-> by, approval |-> ~agreed,
                    status |-> IF agreed THEN "confirmed" ELSE "pending_approval"]
<1>1. fact \in Confirmation
  BY DEF Confirmation
<1>2. confirmations' = Append(confirmations, fact) /\ confirmations \in Seq(Confirmation)
  BY DEF RecordConfirmation, ReplyInv, OrderType
<1> HIDE DEF fact
<1>3. confirmations' \in Seq(Confirmation)
  BY <1>1, <1>2
<1>4. QED BY <1>3, OrderStep DEF RecordConfirmation

LEMMA ConfirmStep ==
  ASSUME ReplyInv, NEW h \in Handlers, Confirm(h)
  PROVE  ReplyInv'
<1> DEFINE m == handler[h].mail
           agreed == handler[h].answer \notin Deviating
           producing(block) == [handler[h] EXCEPT !.at = "producing", !.confirmation = block]
<1>0. m \in Mails /\ handler[h].answer \in Answers /\ handler[h] \in HandlerState /\ handler[h].at = "confirming"
  BY DEF ReplyInv, HandlerType, HandlersAreEquipped, Confirm
<1>1. \E block \in Block : handler' = [handler EXCEPT ![h] = producing(block)]
  <2>1. ASSUME NEW block, Confirmed(h, block) PROVE handler' = [handler EXCEPT ![h] = producing(block)]
    BY <2>1 DEF Confirmed
  <2> HIDE DEF producing
  <2>2. QED BY <2>1 DEF Confirm, Block
<1>2. HandlerType'
  <2>1. \A block \in Block : /\ producing(block) \in HandlerState /\ producing(block).at = "producing"
                             /\ producing(block).mail = m /\ producing(block).answer = handler[h].answer
    BY <1>0 DEF HandlerState, Steps
  <2> HIDE DEF producing
  <2>2. QED BY <1>0, <1>1, <2>1, HandlerMoves DEF ReplyInv
<1>3. UNCHANGED <<twinVars, disturbances, mailVars, inbox, communication, analysis, productions>>
  BY DEF Confirm, orderVars
<1>4. UNCHANGED <<order, confirmations, jobs>> \/ RecordConfirmation(m, agreed)
  BY DEF Confirm, orderVars
<1>5. QueueInv' /\ order' \in Order /\ confirmations' \in Seq(Confirmation)
  <2>1. CASE UNCHANGED <<order, confirmations, jobs>>
    BY <2>1, <1>3, QueueUntouched DEF ReplyInv, OrderType
  <2>2. CASE RecordConfirmation(m, agreed)
    <3>1. agreed \in BOOLEAN /\ m \in Mails \cup {Person}
      BY <1>0
    <3> HIDE DEF agreed, m
    <3>2. QED BY <2>2, <3>1, <1>3, RecordConfirmationStep
  <2>3. QED BY <1>4, <2>1, <2>2
<1>6. MailType' /\ AnalysisType' /\ OrderType'
  BY <1>3, <1>5 DEF ReplyInv, MailType, AnalysisType, OrderType, mailVars
<1>7. QED BY <1>2, <1>5, <1>6 DEF ReplyInv

LEMMA ProduceStep ==
  ASSUME ReplyInv, NEW h \in Handlers, Produce(h)
  PROVE  ReplyInv'
<1> DEFINE m == handler[h].mail
           fact == [by |-> m, answer |-> handler[h].answer]
           reporting(block) == [handler[h] EXCEPT !.at = "reporting", !.production = block]
<1>0. m \in Mails /\ handler[h].answer \in Answers /\ handler[h] \in HandlerState /\ handler[h].at = "producing"
  BY DEF ReplyInv, HandlerType, HandlersAreEquipped, Produce
<1>1. \E block \in Block : handler' = [handler EXCEPT ![h] = reporting(block)]
  BY DEF Produce, Produced, Block
<1>2. HandlerType'
  <2>1. \A block \in Block : /\ reporting(block) \in HandlerState /\ reporting(block).at = "reporting"
                             /\ reporting(block).mail = m
    BY <1>0 DEF HandlerState, Steps
  <2> HIDE DEF reporting
  <2>2. QED BY <1>0, <1>1, <2>1, HandlerMoves DEF ReplyInv
<1>3. UNCHANGED <<twinVars, disturbances, mailVars, inbox, communication, analysis, confirmations>>
  BY DEF Produce, orderVars
<1>4. \/ UNCHANGED <<order, productions, jobs>>
      \/ productions' = Append(productions, fact) /\ OrderBecomes("in_production")
  BY DEF Produce, orderVars
<1>5. QueueInv' /\ order' \in Order /\ productions' \in Seq(Production)
  <2>1. CASE UNCHANGED <<order, productions, jobs>>
    BY <2>1, <1>3, QueueUntouched DEF ReplyInv, OrderType
  <2>2. CASE productions' = Append(productions, fact) /\ OrderBecomes("in_production")
    <3>1. fact \in Production /\ productions \in Seq(Production)
      BY <1>0 DEF Production, ReplyInv, OrderType
    <3> HIDE DEF fact
    <3>2. productions' \in Seq(Production)
      BY <2>2, <3>1
    <3>3. QED BY <2>2, <3>2, <1>3, OrderStep
  <2>3. QED BY <1>4, <2>1, <2>2
<1>6. MailType' /\ AnalysisType' /\ OrderType'
  BY <1>3, <1>5 DEF ReplyInv, MailType, AnalysisType, OrderType, mailVars
<1>7. QED BY <1>2, <1>5, <1>6 DEF ReplyInv

LEMMA PersonStep ==
  ASSUME ReplyInv, PersonActs
  PROVE  ReplyInv'
<1>1. Disturb /\ UNCHANGED <<mailVars, inbox, communication, analysis, handler, twinVars, productions>>
  BY DEF PersonActs
<1>2. QueueInv' /\ order' \in Order /\ confirmations' \in Seq(Confirmation)
  <2>1. CASE \E agreed \in BOOLEAN : RecordConfirmation(Person, agreed)
    BY <2>1, <1>1, RecordConfirmationStep
  <2>2. ASSUME NEW i \in DOMAIN confirmations, NEW status \in {"confirmed", "rejected"},
               confirmations' = [confirmations EXCEPT ![i].status = status], OrderBecomes(status)
        PROVE  QueueInv' /\ order' \in Order /\ confirmations' \in Seq(Confirmation)
    <3>0. confirmations[i] \in Confirmation
      BY DEF ReplyInv, OrderType
    <3>1. [confirmations[i] EXCEPT !.status = status] \in Confirmation
      BY <3>0 DEF Confirmation
    <3>2. confirmations' = [confirmations EXCEPT ![i] = [confirmations[i] EXCEPT !.status = status]]
      BY <2>2
    <3>3. confirmations' \in Seq(Confirmation)
      BY <3>1, <3>2 DEF ReplyInv, OrderType
    <3>4. QED BY <2>2, <3>3, <1>1, OrderStep
  <2>3. ASSUME NEW status \in {order.status, "cancelled"}, OrderBecomes(status), UNCHANGED confirmations
        PROVE  QueueInv' /\ order' \in Order /\ confirmations' \in Seq(Confirmation)
    <3>1. status \in {"sent", "awaiting_confirmation", "confirmed", "in_production", "rejected", "cancelled"}
      BY DEF ReplyInv, OrderType, Order
    <3>2. QED BY <2>3, <3>1, <1>1, OrderStep DEF ReplyInv, OrderType
  <2>4. QED BY <2>1, <2>2, <2>3 DEF PersonActs
<1>3. MailType' /\ AnalysisType' /\ OrderType' /\ HandlerType'
  BY <1>1, <1>2 DEF ReplyInv, MailType, AnalysisType, OrderType, HandlerType, HandlersAreEquipped, mailVars
<1>4. QED BY <1>2, <1>3 DEF ReplyInv

LEMMA WorkerStepKeeps ==
  ASSUME ReplyInv, QueueNext, Aside
  PROVE  ReplyInv'
<1>1. QueueInv'
  BY QueueStep DEF ReplyInv
<1>2. MailType' /\ AnalysisType' /\ OrderType' /\ HandlerType'
  BY DEF Aside, ReplyInv, MailType, AnalysisType, OrderType, HandlerType, HandlersAreEquipped, mailVars
<1>3. QED BY <1>1, <1>2 DEF ReplyInv

LEMMA ReplyStep ==
  ASSUME ReplyInv, [Next]_vars
  PROVE  ReplyInv'
<1>1. CASE UNCHANGED vars
  <2>1. UNCHANGED <<mailVars, inbox, communication, analysis, handler, orderVars, twinVars, disturbances>>
    BY <1>1 DEF vars
  <2>2. QueueInv'
    BY <2>1, QueueUntouched DEF ReplyInv, orderVars
  <2>3. MailType' /\ AnalysisType' /\ OrderType' /\ HandlerType'
    BY <2>1 DEF ReplyInv, MailType, AnalysisType, OrderType, HandlerType, HandlersAreEquipped, mailVars, orderVars
  <2>4. QED BY <2>2, <2>3 DEF ReplyInv
<1>2. ASSUME NEW h \in Handlers, Step(h) \/ HandlerDies(h) PROVE ReplyInv'
  BY <1>2, PersistStep, TakeAnalysisStep, ModelFailsStep, ModelAnswersStep, ConfirmStep, ProduceStep,
     ReportStep, SettleInboundStep, HandlerDiesStep DEF Step
<1>3. ASSUME NEW m \in Mails,
             Arrive(m) \/ Ingest(m) \/ MarkSeen(m) \/ AskAgain(m) \/ InboundLeaseEnds(m) \/ AnalysisLeaseEnds(m)
      PROVE  ReplyInv'
  BY <1>3, MailboxStep, AskAgainStep, LeaseStep
<1>4. QED
  BY <1>1, <1>2, <1>3, ClaimInboundStep, PollEndsStep, PersonStep, WorkerStepKeeps DEF Next

\* Every state is one the program's tables and handlers can be in.
THEOREM TypeCorrect == Spec => []TypeOK
<1>1. Spec => []ReplyInv
  BY InitReply, ReplyStep, PTL DEF Spec
<1>2. QED BY <1>1, InvImpliesType, PTL

\* A change of the order that the twin does not show is owed by a job that is not done
\* (projection-queue.ts, manufacturing-context-worker.ts).
THEOREM NothingIsLostToTheTwin == Spec => []TwinIsOwed
<1>1. ReplyInv => TwinIsOwed
  BY DEF ReplyInv, QueueInv
<1>2. Spec => []ReplyInv
  BY InitReply, ReplyStep, PTL DEF Spec
<1>3. QED BY <1>1, <1>2, PTL

-----------------------------------------------------------------------------
(***************************************************************************)
(* A mail is recorded once.                                                *)
(***************************************************************************)
Once(facts) ==
  \A i, j \in DOMAIN facts : facts[i].by = facts[j].by /\ facts[i].by \in Mails => i = j

EachOnce == Once(confirmations) /\ Once(productions)

\* A fact that is appended is the first of its mail, or no mail's.
LEMMA AppendOnce ==
  ASSUME NEW S, NEW facts \in Seq(S), NEW fact, Once(facts),
         fact \in S, By(fact.by, facts) = {} \/ fact.by \notin Mails
  PROVE  Once(Append(facts, fact))
<1>1. /\ Len(facts) \in Nat /\ DOMAIN facts = 1..Len(facts)
      /\ DOMAIN Append(facts, fact) = 1..Len(facts) + 1
      /\ Append(facts, fact)[Len(facts) + 1] = fact
      /\ \A i \in 1..Len(facts) : Append(facts, fact)[i] = facts[i]
  OBVIOUS
<1>2. SUFFICES ASSUME NEW i \in 1..Len(facts) + 1, NEW j \in 1..Len(facts) + 1,
                      Append(facts, fact)[i].by = Append(facts, fact)[j].by,
                      Append(facts, fact)[i].by \in Mails
               PROVE  i = j
  BY <1>1 DEF Once
<1>3. CASE i \in 1..Len(facts) /\ j \in 1..Len(facts)
  BY <1>1, <1>2, <1>3 DEF Once
<1>4. CASE i = Len(facts) + 1 /\ j \in 1..Len(facts)
  BY <1>1, <1>2, <1>4 DEF By
<1>5. CASE j = Len(facts) + 1 /\ i \in 1..Len(facts)
  BY <1>1, <1>2, <1>5 DEF By
<1>6. QED BY <1>1, <1>3, <1>4, <1>5

LEMMA ConfirmationOnce ==
  ASSUME ReplyInv, EachOnce, NEW by \in Mails \cup {Person}, NEW agreed \in BOOLEAN,
         RecordConfirmation(by, agreed), By(by, confirmations) = {} \/ by \notin Mails
  PROVE  Once(confirmations)'
<1> DEFINE fact == [by |-> by, approval |-> ~agreed,
                    status |-> IF agreed THEN "confirmed" ELSE "pending_approval"]
<1>1. fact \in Confirmation /\ fact.by = by
  BY DEF Confirmation
<1>2. confirmations' = Append(confirmations, fact) /\ confirmations \in Seq(Confirmation)
  BY DEF RecordConfirmation, ReplyInv, OrderType
<1> HIDE DEF fact
<1>3. Once(Append(confirmations, fact))
  BY <1>1, <1>2, AppendOnce DEF EachOnce
<1>4. QED BY <1>2, <1>3

LEMMA OnceStep ==
  ASSUME ReplyInv, EachOnce, [Next]_vars
  PROVE  EachOnce'
<1>1. CASE UNCHANGED <<confirmations, productions>>
  BY <1>1 DEF EachOnce
<1>2. ASSUME NEW h \in Handlers, Confirm(h) PROVE EachOnce'
  <2> DEFINE m == handler[h].mail
             agreed == handler[h].answer \notin Deviating
  <2>1. m \in Mails
    BY <1>2 DEF ReplyInv, HandlerType, HandlersAreEquipped, Confirm
  <2>2. /\ UNCHANGED productions
        /\ UNCHANGED confirmations \/ (RecordConfirmation(m, agreed) /\ By(m, confirmations) = {})
    BY <1>2 DEF Confirm, orderVars, PreviousConfirmation
  <2>3. agreed \in BOOLEAN
    OBVIOUS
  <2> HIDE DEF m, agreed
  <2>4. Once(confirmations)'
    BY <2>1, <2>2, <2>3, ConfirmationOnce DEF EachOnce
  <2>5. QED BY <2>2, <2>4 DEF EachOnce
<1>3. ASSUME NEW h \in Handlers, Produce(h) PROVE EachOnce'
  <2> DEFINE fact == [by |-> handler[h].mail, answer |-> handler[h].answer]
  <2>1. /\ UNCHANGED confirmations
        /\ UNCHANGED productions
           \/ (productions' = Append(productions, fact) /\ By(fact.by, productions) = {})
    BY <1>3 DEF Produce, orderVars, PreviousProduction
  <2>2. fact \in Production /\ productions \in Seq(Production)
    BY <1>3 DEF ReplyInv, HandlerType, HandlersAreEquipped, OrderType, Production, Produce
  <2> HIDE DEF fact
  <2>3. Once(productions)'
    BY <2>1, <2>2, AppendOnce DEF EachOnce
  <2>4. QED BY <2>1, <2>3 DEF EachOnce
<1>4. CASE PersonActs
  <2>1. UNCHANGED productions
    BY <1>4 DEF PersonActs
  <2>2. ASSUME \E agreed \in BOOLEAN : RecordConfirmation(Person, agreed)
        PROVE  Once(confirmations)'
    BY <2>2, ReplyAssumption, ConfirmationOnce
  <2>3. ASSUME \E i \in DOMAIN confirmations, status \in {"confirmed", "rejected"} :
                 confirmations' = [confirmations EXCEPT ![i].status = status]
        PROVE  Once(confirmations)'
    <3>1. PICK i \in DOMAIN confirmations, status \in {"confirmed", "rejected"} :
            confirmations' = [confirmations EXCEPT ![i].status = status]
      BY <2>3
    <3>2. /\ DOMAIN confirmations' = DOMAIN confirmations
          /\ \A j \in DOMAIN confirmations : confirmations[j] \in Confirmation
      BY <3>1 DEF ReplyInv, OrderType
    <3>3. \A j \in DOMAIN confirmations : confirmations'[j].by = confirmations[j].by
      BY <3>1, <3>2 DEF Confirmation
    <3>4. QED BY <3>2, <3>3 DEF EachOnce, Once
  <2>4. ASSUME UNCHANGED confirmations PROVE Once(confirmations)'
    BY <2>4 DEF EachOnce
  <2>5. Once(confirmations)'
    BY <1>4, <2>2, <2>3, <2>4 DEF PersonActs, EachOnce
  <2>6. QED BY <2>1, <2>5 DEF EachOnce
<1>5. ASSUME NEW h \in Handlers,
             Persist(h) \/ TakeAnalysis(h) \/ ModelFails(h) \/ ModelAnswers(h)
             \/ Report(h) \/ SettleInbound(h) \/ HandlerDies(h)
      PROVE  UNCHANGED <<confirmations, productions>>
  BY <1>5 DEF Persist, TakeAnalysis, ModelFails, ModelAnswers, Report, SettleInbound, HandlerDies, orderVars
<1>6. ASSUME NEW m \in Mails,
             Arrive(m) \/ Ingest(m) \/ MarkSeen(m) \/ AskAgain(m) \/ InboundLeaseEnds(m) \/ AnalysisLeaseEnds(m)
      PROVE  UNCHANGED <<confirmations, productions>>
  BY <1>6 DEF Arrive, Ingest, MarkSeen, AskAgain, InboundLeaseEnds, AnalysisLeaseEnds, orderVars
<1>7. CASE PollEnds \/ Aside \/ (\E r \in Recoverers, m \in Mails : ClaimInbound(r, m)) \/ UNCHANGED vars
  BY <1>1, <1>7 DEF PollEnds, Aside, ClaimInbound, orderVars, vars
<1>8. QED
  BY <1>1, <1>2, <1>3, <1>4, <1>5, <1>6, <1>7 DEF Next, Step

\* However often a mail is handled, after a crash, by two recoverers or on a person's
\* request, it is recorded once as each kind of fact (procurement-ai-reply.ts).
THEOREM MailIsRecordedOnce == Spec => []RecordedOnce
<1>1. EachOnce => RecordedOnce
  BY DEF EachOnce, Once, RecordedOnce
<1>2. Init => EachOnce
  BY DEF Init, EachOnce, Once
<1>3. Spec => [](ReplyInv /\ EachOnce)
  <2>1. ReplyInv /\ EachOnce /\ [Next]_vars => (ReplyInv /\ EachOnce)'
    BY ReplyStep, OnceStep
  <2>2. QED BY <2>1, <1>2, InitReply, PTL DEF Spec
<1>4. QED BY <1>1, <1>3, PTL

-----------------------------------------------------------------------------
(***************************************************************************)
(* The ledger.                                                             *)
(***************************************************************************)

\* What is stored of a mail, and what a handler that has come so far relies on: the mail
\* it has is stored, filed with the order once it is read, and settled for a reason.
Kept(m) == inbox[m].status # "absent"

Grounded(state) ==
  /\ state.at # "idle" => Kept(state.mail)
  /\ state.at \in {"analysing", "asking", "confirming", "producing", "reporting"} => state.mail \in communication
  /\ state.at = "settling" =>
       IF state.outcome = "rejected" THEN Sender(state.mail) = "stranger" ELSE state.mail \in communication

Filed ==
  /\ \A m \in polled : Kept(m)
  /\ \A m \in communication : Kept(m) /\ Sender(m) = "supplier"
  /\ \A h \in Handlers : Grounded(handler[h])

\* Only a job in hand is leased.
JobsInHand == \A k \in DOMAIN jobs : jobs[k].leased => jobs[k].status = "processing"

\* What is stored stays stored, who wrote it stays who wrote it.
Grows ==
  /\ \A m \in Mails : Sender(m)' = Sender(m) /\ (Kept(m) => Kept(m)')
  /\ communication \subseteq communication'

LEMMA GroundStays ==
  ASSUME Grows, NEW state, state.at # "idle" => state.mail \in Mails, Grounded(state)
  PROVE  Grounded(state)'
BY DEF Grows, Grounded, Kept, Sender

\* A step of one handler leaves the others where they were.
LEMMA GroundMoves ==
  ASSUME HandlerType, Grows, NEW h \in Handlers, NEW state, handler' = [handler EXCEPT ![h] = state],
         Grounded(state)', \A g \in Handlers : Grounded(handler[g])
  PROVE  (\A g \in Handlers : Grounded(handler[g]))'
<1> SUFFICES ASSUME NEW g \in Handlers PROVE Grounded(handler[g])'
  OBVIOUS
<1>1. CASE g = h
  <2>1. handler'[g] = state
    BY <1>1 DEF HandlerType
  <2>2. QED BY <2>1 DEF Grounded, Kept, Sender
<1>2. CASE g # h
  <2>1. handler'[g] = handler[g]
    BY <1>2 DEF HandlerType
  <2>2. Grounded(handler[g]) /\ (handler[g].at # "idle" => handler[g].mail \in Mails)
    BY DEF HandlerType, HandlersAreEquipped
  <2>3. QED BY <2>1, <2>2, GroundStays DEF Grounded, Kept, Sender
<1>3. QED BY <1>1, <1>2

\* Nobody handles anything else.
LEMMA GroundRests ==
  ASSUME HandlerType, Grows, UNCHANGED handler, \A g \in Handlers : Grounded(handler[g])
  PROVE  (\A g \in Handlers : Grounded(handler[g]))'
<1> SUFFICES ASSUME NEW g \in Handlers PROVE Grounded(handler[g])'
  OBVIOUS
<1>1. Grounded(handler[g]) /\ (handler[g].at # "idle" => handler[g].mail \in Mails)
  BY DEF HandlerType, HandlersAreEquipped
<1>2. QED BY <1>1, GroundStays DEF Grounded, Kept, Sender

\* What a handler ends with is grounded when its outcome is.
LEMMA GroundEnds ==
  ASSUME ReplyInv, Filed, Grows, NEW h \in Handlers, handler[h].at # "idle",
         NEW outcome \in {"processed", "rejected", "retryable_failure"}, EndsWith(h, outcome),
         IF outcome = "rejected" THEN Sender(handler[h].mail) = "stranger" ELSE handler[h].mail \in communication
  PROVE  (\A g \in Handlers : Grounded(handler[g]))'
<1>1. PICK state : state = [Idle EXCEPT !.at = "settling", !.mail = handler[h].mail, !.outcome = outcome]
  OBVIOUS
<1>2. /\ state.at = "settling" /\ state.mail = handler[h].mail /\ state.outcome = outcome
      /\ handler' = [handler EXCEPT ![h] = state]
  BY <1>1 DEF Idle, EndsWith
<1>3. handler[h].mail \in Mails /\ Grounded(handler[h]) /\ HandlerType
  BY DEF ReplyInv, HandlerType, HandlersAreEquipped, Filed
<1>4. Grounded(state)
  BY <1>2, <1>3 DEF Grounded
<1>5. Grounded(state)'
  BY <1>2, <1>3, <1>4, GroundStays
<1>6. QED BY <1>2, <1>3, <1>5, GroundMoves DEF Filed

\* Going on with the mail it has.
LEMMA GroundGoes ==
  ASSUME ReplyInv, Filed, Grows, NEW h \in Handlers, handler[h].mail \in communication, NEW state,
         handler[h].at # "idle", handler' = [handler EXCEPT ![h] = state], state.mail = handler[h].mail,
         state.at \in {"analysing", "asking", "confirming", "producing", "reporting"}
  PROVE  (\A g \in Handlers : Grounded(handler[g]))'
<1>1. handler[h].mail \in Mails /\ HandlerType
  BY DEF ReplyInv, HandlerType, HandlersAreEquipped
<1>2. Grounded(state)
  BY DEF Grounded, Filed
<1>3. Grounded(state)'
  BY <1>1, <1>2, GroundStays
<1>4. QED BY <1>1, <1>3, GroundMoves DEF Filed

LEMMA EveryStepGrows ==
  ASSUME ReplyInv, Next
  PROVE  Grows
<1> USE DEF Grows, Kept, Sender
<1>0. mailbox \in [Mails -> MailRow] /\ inbox \in [Mails -> InboxRow]
  BY DEF ReplyInv, MailType
<1>1. CASE UNCHANGED <<mailbox, inbox, communication>>
  BY <1>1
<1>2. ASSUME NEW m \in Mails, Arrive(m) \/ Ingest(m) \/ MarkSeen(m) PROVE Grows
  <2>1. CASE Arrive(m)
    BY <2>1, <1>0 DEF Arrive, MailRow
  <2>2. CASE Ingest(m)
    BY <2>2, <1>0 DEF Ingest, InboxRow
  <2>3. CASE MarkSeen(m)
    BY <2>3, <1>0 DEF MarkSeen, MailRow
  <2>4. QED BY <1>2, <2>1, <2>2, <2>3
<1>3. ASSUME NEW m \in Mails, AskAgain(m) \/ AnalysisLeaseEnds(m) \/ InboundLeaseEnds(m) PROVE Grows
  <2>1. CASE InboundLeaseEnds(m)
    BY <2>1, <1>0 DEF InboundLeaseEnds, InboxRow, mailVars
  <2>2. CASE AskAgain(m) \/ AnalysisLeaseEnds(m)
    BY <2>2, <1>1 DEF AskAgain, AnalysisLeaseEnds, mailVars
  <2>3. QED BY <1>3, <2>1, <2>2
<1>4. ASSUME NEW r \in Recoverers, NEW m \in Mails, ClaimInbound(r, m) PROVE Grows
  BY <1>4, <1>0 DEF ClaimInbound, mailVars
<1>5. ASSUME NEW h \in Handlers, SettleInbound(h) PROVE Grows
  <2> DEFINE status == IF handler[h].outcome = "retryable_failure" THEN "failed" ELSE handler[h].outcome
  <2>1. status # "absent"
    BY DEF ReplyInv, HandlerType, HandlerState
  <2>2. /\ UNCHANGED <<mailbox, communication>>
        /\ \/ inbox' = inbox
           \/ inbox' = [inbox EXCEPT ![handler[h].mail] = [status |-> status, owner |-> Nothing, leased |-> FALSE]]
    BY <1>5 DEF SettleInbound, mailVars
  <2> HIDE DEF status
  <2>3. QED BY <2>1, <2>2, <1>0
<1>6. ASSUME NEW h \in Handlers, Persist(h) PROVE Grows
  BY <1>6 DEF Persist, mailVars
<1>7. ASSUME NEW h \in Handlers,
             \/ TakeAnalysis(h) \/ ModelFails(h) \/ ModelAnswers(h) \/ Confirm(h) \/ Produce(h)
             \/ Report(h) \/ HandlerDies(h)
      PROVE  Grows
  BY <1>1, <1>7 DEF TakeAnalysis, ModelFails, ModelAnswers, Confirm, Produce, Report, HandlerDies, mailVars
<1>8. CASE PollEnds \/ PersonActs \/ Aside
  BY <1>1, <1>8 DEF PollEnds, PersonActs, Aside, mailVars
<1>9. QED BY <1>2, <1>3, <1>4, <1>5, <1>6, <1>7, <1>8 DEF Next, Step

\* Handlers act on grounds they have, and leave grounds for what follows.
LEMMA FiledStep ==
  ASSUME ReplyInv, Filed, Next
  PROVE  Filed'
<1>0. Grows /\ HandlerType /\ (\A h \in Handlers : Grounded(handler[h]) /\ handler[h] \in HandlerState)
  BY EveryStepGrows DEF ReplyInv, HandlerType, Filed
<1>1. (\A m \in polled : Kept(m))'
  <2>1. /\ polled \subseteq Mails
        /\ polled' \subseteq polled \/ (\E m \in Mails : Ingest(m))
    BY DEF ReplyInv, MailType, Next, Step, Arrive, MarkSeen, AskAgain, InboundLeaseEnds, AnalysisLeaseEnds,
           ClaimInbound, Persist, TakeAnalysis, ModelFails, ModelAnswers, Confirm, Produce, Report,
           SettleInbound, HandlerDies, PollEnds, PersonActs, Aside, mailVars
  <2>2. CASE polled' \subseteq polled
    BY <2>1, <2>2, <1>0 DEF Filed, Grows, Kept
  <2>3. ASSUME NEW m \in Mails, Ingest(m) PROVE (\A k \in polled : Kept(k))'
    <3>1. polled' = polled \cup {m} /\ Kept(m)'
      BY <2>3 DEF Ingest, Kept, ReplyInv, MailType
    <3>2. QED BY <3>1, <2>1, <1>0 DEF Filed, Grows, Kept
  <2>4. QED BY <2>1, <2>2, <2>3
<1>2. (\A m \in communication : Kept(m) /\ Sender(m) = "supplier")'
  <2>1. /\ communication \subseteq Mails
        /\ communication' = communication \/ (\E h \in Handlers : Persist(h))
    BY DEF ReplyInv, OrderType, Next, Step, Arrive, Ingest, MarkSeen, AskAgain, InboundLeaseEnds, AnalysisLeaseEnds,
           ClaimInbound, TakeAnalysis, ModelFails, ModelAnswers, Confirm, Produce, Report,
           SettleInbound, HandlerDies, PollEnds, PersonActs, Aside, mailVars
  <2>2. CASE communication' = communication
    BY <2>1, <2>2, <1>0 DEF Filed, Grows, Kept, Sender
  <2>3. ASSUME NEW h \in Handlers, Persist(h)
        PROVE  (\A m \in communication : Kept(m) /\ Sender(m) = "supplier")'
    <3>1. /\ handler[h].mail \in Mails /\ Kept(handler[h].mail)
          /\ \/ communication' = communication
             \/ communication' = communication \cup {handler[h].mail} /\ Sender(handler[h].mail) = "supplier"
      BY <2>3, <1>0 DEF Persist, HandlerType, HandlersAreEquipped, Grounded, Sender
    <3>2. QED BY <3>1, <2>1, <1>0 DEF Filed, Grows, Kept, Sender
  <2>4. QED BY <2>1, <2>2, <2>3
<1>3. (\A h \in Handlers : Grounded(handler[h]))'
  <2>1. CASE UNCHANGED handler
    BY <2>1, <1>0, GroundRests
  <2>2. ASSUME NEW h \in Handlers, handler' = [handler EXCEPT ![h] = Idle]
        PROVE  (\A g \in Handlers : Grounded(handler[g]))'
    <3>1. PICK state : state = Idle
      OBVIOUS
    <3>2. Grounded(state)'
      BY <3>1 DEF Idle, Grounded
    <3>3. QED BY <2>2, <3>1, <3>2, <1>0, GroundMoves
  <2>3. ASSUME NEW r \in Recoverers, NEW m \in Mails, ClaimInbound(r, m)
        PROVE  (\A g \in Handlers : Grounded(handler[g]))'
    <3>1. PICK state : state = [Idle EXCEPT !.at = "handling", !.mail = m]
      OBVIOUS
    <3>2. state.at = "handling" /\ state.mail = m /\ Kept(m)
      BY <2>3, <3>1 DEF Idle, ClaimInbound, ClaimableMail, Kept
    <3>3. Grounded(state)'
      BY <3>2, <1>0, GroundStays DEF Grounded
    <3>4. handler' = [handler EXCEPT ![r] = state] /\ r \in Handlers
      BY <2>3, <3>1 DEF ClaimInbound, Handlers
    <3>5. QED BY <3>3, <3>4, <1>0, GroundMoves
  <2>4. ASSUME NEW m \in Mails, AskAgain(m)
        PROVE  (\A g \in Handlers : Grounded(handler[g]))'
    <3>1. PICK state : state = [Idle EXCEPT !.at = "analysing", !.mail = m]
      OBVIOUS
    <3>2. state.at = "analysing" /\ state.mail = m /\ Kept(m) /\ m \in communication
      BY <2>4, <3>1 DEF Idle, AskAgain, Filed
    <3>3. Grounded(state)'
      BY <3>2, <1>0, GroundStays DEF Grounded
    <3>4. handler' = [handler EXCEPT ![Console] = state] /\ Console \in Handlers
      BY <2>4, <3>1 DEF AskAgain, Handlers
    <3>5. QED BY <3>3, <3>4, <1>0, GroundMoves
  <2>5. ASSUME NEW h \in Handlers, Persist(h)
        PROVE  (\A g \in Handlers : Grounded(handler[g]))'
    <3>1. CASE EndsWith(h, "rejected") /\ mailbox[handler[h].mail].from = "stranger"
      BY <2>5, <3>1, <1>0, GroundEnds DEF Persist, Sender
    <3>2. CASE Goes(h, "analysing") /\ handler[h].mail \in communication'
      <4>1. PICK state : state = [handler[h] EXCEPT !.at = "analysing"]
        OBVIOUS
      <4>2. /\ state.at = "analysing" /\ state.mail = handler[h].mail /\ handler[h].mail \in Mails
            /\ handler' = [handler EXCEPT ![h] = state] /\ Kept(handler[h].mail)
        BY <2>5, <3>2, <4>1, <1>0 DEF Goes, HandlerState, Persist, HandlerType, HandlersAreEquipped, Grounded
      <4>3. Grounded(state)'
        BY <3>2, <4>2, <1>0 DEF Grounded, Grows, Kept
      <4>4. QED BY <4>2, <4>3, <1>0, GroundMoves
    <3>3. QED BY <2>5, <3>1, <3>2 DEF Persist
  <2>6. ASSUME NEW h \in Handlers, TakeAnalysis(h)
        PROVE  (\A g \in Handlers : Grounded(handler[g]))'
    <3>1. handler[h].at = "analysing" /\ handler[h].mail \in communication
      BY <2>6, <1>0 DEF TakeAnalysis, Grounded
    <3>2. CASE EndsWith(h, "processed") \/ EndsWith(h, "retryable_failure")
      BY <3>1, <3>2, <1>0, GroundEnds
    <3>3. CASE handler' = [handler EXCEPT ![h].at = "asking", ![h].answer = analysis[handler[h].mail].answer]
      <4>1. PICK state : state = [handler[h] EXCEPT !.at = "asking", !.answer = analysis[handler[h].mail].answer]
        OBVIOUS
      <4>2. /\ state.at = "asking" /\ state.mail = handler[h].mail
            /\ handler' = [handler EXCEPT ![h] = state]
        BY <3>3, <4>1, <1>0 DEF HandlerState
      <4>3. QED BY <3>1, <4>2, <1>0, GroundGoes
    <3>4. QED BY <2>6, <3>2, <3>3 DEF TakeAnalysis
  <2>7. ASSUME NEW h \in Handlers, ModelFails(h) \/ Report(h)
        PROVE  (\A g \in Handlers : Grounded(handler[g]))'
    <3>1. handler[h].at \in {"asking", "reporting"} /\ handler[h].mail \in communication
      BY <2>7, <1>0 DEF ModelFails, Report, Grounded
    <3>2. EndsWith(h, "processed") \/ EndsWith(h, "retryable_failure")
      BY <2>7 DEF ModelFails, Report
    <3>3. QED BY <3>1, <3>2, <1>0, GroundEnds
  <2>8. ASSUME NEW h \in Handlers, ModelAnswers(h)
        PROVE  (\A g \in Handlers : Grounded(handler[g]))'
    <3>1. handler[h].at = "asking" /\ handler[h].mail \in communication
      BY <2>8, <1>0 DEF ModelAnswers, Grounded
    <3>2. CASE EndsWith(h, "processed")
      BY <3>1, <3>2, <1>0, GroundEnds
    <3>3. ASSUME NEW a, handler' = [handler EXCEPT ![h].at = "confirming", ![h].answer = a]
          PROVE  (\A g \in Handlers : Grounded(handler[g]))'
      <4>1. PICK state : state = [handler[h] EXCEPT !.at = "confirming", !.answer = a]
        OBVIOUS
      <4>2. /\ state.at = "confirming" /\ state.mail = handler[h].mail
            /\ handler' = [handler EXCEPT ![h] = state]
        BY <3>3, <4>1, <1>0 DEF HandlerState
      <4>3. QED BY <3>1, <4>2, <1>0, GroundGoes
    <3>4. QED BY <2>8, <3>2, <3>3 DEF ModelAnswers
  <2>9. ASSUME NEW h \in Handlers, Confirm(h) \/ Produce(h)
        PROVE  (\A g \in Handlers : Grounded(handler[g]))'
    <3>1. handler[h].at \in {"confirming", "producing"} /\ handler[h].mail \in communication
      BY <2>9, <1>0 DEF Confirm, Produce, Grounded
    <3>2. \E block : Confirmed(h, block) \/ Produced(h, block)
      BY <2>9 DEF Confirm, Produce
    <3>3. PICK block : Confirmed(h, block) \/ Produced(h, block)
      BY <3>2
    <3>4. CASE Confirmed(h, block)
      <4>1. PICK state : state = [handler[h] EXCEPT !.at = "producing", !.confirmation = block]
        OBVIOUS
      <4>2. /\ state.at = "producing" /\ state.mail = handler[h].mail
            /\ handler' = [handler EXCEPT ![h] = state]
        BY <3>4, <4>1, <1>0 DEF HandlerState, Confirmed
      <4>3. QED BY <3>1, <4>2, <1>0, GroundGoes
    <3>5. CASE Produced(h, block)
      <4>1. PICK state : state = [handler[h] EXCEPT !.at = "reporting", !.production = block]
        OBVIOUS
      <4>2. /\ state.at = "reporting" /\ state.mail = handler[h].mail
            /\ handler' = [handler EXCEPT ![h] = state]
        BY <3>5, <4>1, <1>0 DEF HandlerState, Produced
      <4>3. QED BY <3>1, <4>2, <1>0, GroundGoes
    <3>6. QED BY <3>3, <3>4, <3>5
  <2>10. ASSUME NEW m \in Mails,
                Arrive(m) \/ Ingest(m) \/ MarkSeen(m) \/ InboundLeaseEnds(m) \/ AnalysisLeaseEnds(m)
         PROVE  UNCHANGED handler
    BY <2>10 DEF Arrive, Ingest, MarkSeen, InboundLeaseEnds, AnalysisLeaseEnds
  <2>11. CASE PollEnds \/ PersonActs \/ Aside
    BY <2>1, <2>11 DEF PollEnds, PersonActs, Aside
  <2>12. ASSUME NEW h \in Handlers, SettleInbound(h) \/ HandlerDies(h)
         PROVE  handler' = [handler EXCEPT ![h] = Idle]
    BY <2>12 DEF SettleInbound, HandlerDies
  <2>13. QED
    BY <2>1, <2>2, <2>3, <2>4, <2>5, <2>6, <2>7, <2>8, <2>9, <2>10, <2>11, <2>12 DEF Next, Step
<1>4. QED BY <1>1, <1>2, <1>3 DEF Filed

\* A change of the order is owed by the job that is enqueued with it.
LEMMA EnqueueIsChange ==
  ASSUME QueueInv, JobsInHand, EnqueueProjection, UNCHANGED twinVars
  PROVE  L!Change /\ JobsInHand'
<1> DEFINE job == Unattempted("queued")
<1>1. job \in Job /\ job.status = "queued" /\ ~job.leased
  BY UnattemptedJob DEF Unattempted
<1>2. jobs' = Append(jobs, job) /\ jobs \in Seq(Job) /\ twin' = twin
  BY DEF EnqueueProjection, QueueInv, QueueTypeOK, twinVars
<1> HIDE DEF job
<1>3. /\ Len(jobs') = Len(jobs) + 1 /\ Len(jobs) \in Nat
      /\ \A k \in 1..Len(jobs) : jobs'[k] = jobs[k]
      /\ jobs'[Len(jobs) + 1] = job
      /\ DOMAIN jobs' = 1..Len(jobs) + 1 /\ DOMAIN jobs = 1..Len(jobs)
  BY <1>1, <1>2
<1>4. \A k \in DOMAIN jobs' : k \in DOMAIN jobs \/ k = Len(jobs) + 1
  BY <1>3
<1>5. {k \in DOMAIN jobs : jobs[k].status # "succeeded"}'
      = {k \in DOMAIN jobs : jobs[k].status # "succeeded"} \cup {Len(jobs) + 1}
  BY <1>1, <1>3, <1>4
<1>6. L!Change
  BY <1>2, <1>3, <1>5 DEF L!Change
<1>7. JobsInHand'
  BY <1>1, <1>3, <1>4 DEF JobsInHand
<1>8. QED BY <1>6, <1>7

\* The queue as it is: nothing is owed, changed or shown anew.
LEMMA RegisterRests ==
  ASSUME UNCHANGED <<jobs, twin>>
  PROVE  UNCHANGED L!register /\ (JobsInHand => JobsInHand')
BY DEF L!register, JobsInHand

\* Jobs that keep their places, and are as much or as little done as before.
LEMMA SameDebt ==
  ASSUME jobs \in Seq(Job), NEW f \in [DOMAIN jobs -> Job], jobs' = f,
         \A k \in DOMAIN jobs : f[k].status = "succeeded" <=> jobs[k].status = "succeeded",
         \A k \in DOMAIN jobs : f[k].leased => f[k].status = "processing"
  PROVE  /\ Len(jobs') = Len(jobs) /\ JobsInHand'
         /\ {k \in DOMAIN jobs : jobs[k].status # "succeeded"}' = {k \in DOMAIN jobs : jobs[k].status # "succeeded"}
<1>1. f \in Seq(Job) /\ Len(f) = Len(jobs) /\ DOMAIN f = DOMAIN jobs
  BY ReplacedJobs
<1>2. QED BY <1>1 DEF JobsInHand

\* The worker shows what there is and discharges what is shown; claims, failures, lost
\* leases, its end and the replay of a dead letter leave the debt as it is.
LEMMA WorkerKeepsRegister ==
  ASSUME QueueInv, JobsInHand, QueueNext
  PROVE  /\ JobsInHand'
         /\ \/ twin' = Len(jobs) /\ UNCHANGED jobs
            \/ twin' = twin /\ Len(jobs') = Len(jobs)
               /\ \E k \in 1..Len(jobs) :
                    /\ k <= twin /\ jobs[k].status # "succeeded"
                    /\ {i \in DOMAIN jobs : jobs[i].status # "succeeded"}'
                       = {i \in DOMAIN jobs : jobs[i].status # "succeeded"} \ {k}
            \/ UNCHANGED L!register
<1> USE DEF QueueInv
<1>0. /\ jobs \in Seq(Job) /\ DOMAIN jobs = 1..Len(jobs) /\ Len(jobs) \in Nat
      /\ \A k \in DOMAIN jobs : jobs[k] \in Job
      /\ batch \subseteq 1..Len(jobs) /\ twin \in Nat
      /\ MaxProjections \in Nat \ {0}
  BY ProjectionAssumption DEF QueueTypeOK
<1> DEFINE Goal == JobsInHand' /\ UNCHANGED L!register
<1>1. ASSUME NEW k \in DOMAIN jobs, NEW job \in Job, jobs' = [jobs EXCEPT ![k] = job], twin' = twin,
             job.status = "succeeded" <=> jobs[k].status = "succeeded",
             job.leased => job.status = "processing"
      PROVE  Goal
  <2>1. jobs' \in [DOMAIN jobs -> Job]
    BY <1>0, <1>1
  <2>2. \A i \in DOMAIN jobs : jobs'[i] = IF i = k THEN job ELSE jobs[i]
    BY <1>0, <1>1
  <2>3. PICK f \in [DOMAIN jobs -> Job] : f = jobs'
    BY <2>1
  <2>4. QED BY <2>2, <2>3, <1>0, <1>1, SameDebt DEF JobsInHand, L!register
<1>2. ASSUME NEW k \in batch, NEW job \in Job, Settle(k, job), twin' = twin,
             job.status # "succeeded", ~job.leased
      PROVE  Goal
  <2>0. k \in DOMAIN jobs /\ jobs[k] \in Job
    BY <1>0
  <2>1. CASE jobs[k].leased
    <3>1. jobs[k].status = "processing"
      BY <2>0, <2>1 DEF JobsInHand
    <3>2. QED BY <2>0, <2>1, <3>1, <1>1, <1>2 DEF Settle
  <2>2. CASE ~jobs[k].leased
    BY <2>2, <1>2, RegisterRests DEF Settle
  <2>3. QED BY <2>1, <2>2
<1>3. CASE ClaimJobs
  <2> DEFINE leased(k) == [status |-> "processing", attempts |-> jobs[k].attempts + 1, leased |-> TRUE]
             claimed == [k \in DOMAIN jobs |-> IF Exhausted(k) THEN Unattempted("dead_letter")
                                             ELSE IF Claimable(k) THEN leased(k) ELSE jobs[k]]
  <2>1. ASSUME NEW k \in DOMAIN jobs, Claimable(k) PROVE leased(k) \in Job
    BY <2>1, <1>0 DEF Claimable, Job
  <2>2. claimed \in [DOMAIN jobs -> Job]
    BY <2>1, <1>0, UnattemptedJob
  <2>3. \A k \in DOMAIN jobs : /\ claimed[k].status = "succeeded" <=> jobs[k].status = "succeeded"
                               /\ claimed[k].leased => claimed[k].status = "processing"
    BY UnattemptedJob DEF Unattempted, Exhausted, Claimable, Expired, JobsInHand
  <2>4. jobs' = claimed /\ twin' = twin
    BY <1>3 DEF ClaimJobs
  <2> HIDE DEF claimed
  <2>5. QED BY <2>2, <2>3, <2>4, <1>0, SameDebt DEF L!register
<1>4. ASSUME NEW k \in batch, Project(k) PROVE JobsInHand' /\ twin' = Len(jobs) /\ UNCHANGED jobs
  BY <1>4 DEF Project, JobsInHand
<1>5. ASSUME NEW k \in batch, Succeed(k), jobs[k].leased
      PROVE  /\ JobsInHand' /\ twin' = twin /\ Len(jobs') = Len(jobs)
             /\ k \in 1..Len(jobs) /\ k <= twin /\ jobs[k].status # "succeeded"
             /\ {i \in DOMAIN jobs : jobs[i].status # "succeeded"}'
                = {i \in DOMAIN jobs : jobs[i].status # "succeeded"} \ {k}
  <2> DEFINE job == Unattempted("succeeded")
  <2>1. job \in Job /\ job.status = "succeeded" /\ ~job.leased /\ k \in 1..Len(jobs) /\ k # 0 /\ k <= twin
    BY <1>0, <1>5, UnattemptedJob DEF Succeed, ProjectedIsShown, Unattempted
  <2>2. jobs' = [jobs EXCEPT ![k] = job] /\ twin' = twin
    BY <1>5 DEF Succeed, Settle
  <2>3. jobs[k].status = "processing"
    BY <1>0, <1>5, <2>1 DEF JobsInHand
  <2> HIDE DEF job
  <2>4. jobs' \in [DOMAIN jobs -> Job]
    BY <1>0, <2>1, <2>2
  <2>5. Len(jobs') = Len(jobs) /\ DOMAIN jobs' = DOMAIN jobs
    BY <1>0, <2>4, ReplacedJobs
  <2>6. \A i \in DOMAIN jobs : jobs'[i] = IF i = k THEN job ELSE jobs[i]
    BY <1>0, <2>2
  <2>7. JobsInHand'
    BY <2>1, <2>5, <2>6 DEF JobsInHand
  <2>8. QED BY <2>1, <2>2, <2>3, <2>5, <2>6, <2>7
<1>6. ASSUME NEW k \in batch, Succeed(k), ~jobs[k].leased PROVE Goal
  BY <1>6, RegisterRests DEF Succeed, Settle
<1>7. ASSUME NEW k \in batch, FailProjection(k) PROVE Goal
  <2> DEFINE job == IF jobs[k].attempts >= MaxProjections THEN Unattempted("dead_letter")
                    ELSE [jobs[k] EXCEPT !.status = "retry_wait", !.leased = FALSE]
  <2>1. /\ [jobs[k] EXCEPT !.status = "retry_wait", !.leased = FALSE] \in Job
        /\ [jobs[k] EXCEPT !.status = "retry_wait", !.leased = FALSE].status = "retry_wait"
        /\ ~[jobs[k] EXCEPT !.status = "retry_wait", !.leased = FALSE].leased
    BY <1>0 DEF Job
  <2>2. job \in Job /\ job.status # "succeeded" /\ ~job.leased
    BY <2>1, UnattemptedJob DEF Unattempted
  <2>3. Settle(k, job) /\ twin' = twin
    BY <1>7 DEF FailProjection
  <2> HIDE DEF job
  <2>4. QED BY <2>2, <2>3, <1>2
<1>8. CASE WorkerDies
  BY <1>8, RegisterRests DEF WorkerDies
<1>9. ASSUME NEW k \in DOMAIN jobs, JobLeaseEnds(k) PROVE Goal
  <2> DEFINE job == [jobs[k] EXCEPT !.leased = FALSE]
  <2>1. job \in Job /\ job.status = jobs[k].status /\ ~job.leased
    BY <1>0 DEF Job
  <2>2. jobs' = [jobs EXCEPT ![k] = job] /\ twin' = twin
    BY <1>9 DEF JobLeaseEnds
  <2> HIDE DEF job
  <2>3. QED BY <2>1, <2>2, <1>1
<1>10. ASSUME NEW k \in DOMAIN jobs, ReplayDeadLetter(k) PROVE Goal
  <2>1. Unattempted("queued") \in Job /\ Unattempted("queued").status = "queued" /\ ~Unattempted("queued").leased
    BY UnattemptedJob DEF Unattempted
  <2>2. QED BY <2>1, <1>1, <1>10 DEF ReplayDeadLetter
<1>11. QED
  BY <1>3, <1>4, <1>5, <1>6, <1>7, <1>8, <1>9, <1>10 DEF QueueNext, WorkerStep

\* A step after which each mail is stored, let go and disposed of as before.
MailRests ==
  \A m \in Mails :
    /\ Sender(m)' = Sender(m) /\ (Kept(m)' <=> Kept(m)) /\ ClosedAs(m)' = ClosedAs(m)
    /\ mailbox'[m].state = "seen" <=> mailbox[m].state = "seen"

SameMails ==
  /\ [m \in Mails |-> Sender(m)]' = [m \in Mails |-> Sender(m)]
  /\ {m \in Mails : inbox[m].status # "absent"}' = {m \in Mails : inbox[m].status # "absent"}
  /\ {m \in Mails : mailbox[m].state = "seen"}' = {m \in Mails : mailbox[m].state = "seen"}
  /\ [m \in Mails |-> ClosedAs(m)]' = [m \in Mails |-> ClosedAs(m)]

LEMMA RestingMails == MailRests => SameMails
BY DEF MailRests, SameMails, Kept

\* Steps the ledger does not see.
LEMMA Unseen ==
  ASSUME SameMails, UNCHANGED <<communication, order, confirmations, productions, jobs, twin>>
  PROVE  UNCHANGED L!ledger
BY DEF SameMails, L!ledger, L!order, L!register, Writers

LEMMA MailboxUnchanged == ASSUME UNCHANGED <<mailbox, inbox>> PROVE SameMails
BY DEF SameMails, Sender, ClosedAs

\* A fact that is appended is entered by its author.
LEMMA AppendedEntry ==
  ASSUME NEW S, NEW facts \in Seq(S), NEW fact \in S
  PROVE  Writers(Append(facts, fact)) = Append(Writers(facts), fact.by)
<1>1. /\ Len(facts) \in Nat /\ DOMAIN facts = 1..Len(facts)
      /\ DOMAIN Append(facts, fact) = 1..Len(facts) + 1
      /\ Append(facts, fact)[Len(facts) + 1] = fact
      /\ \A i \in 1..Len(facts) : Append(facts, fact)[i] = facts[i]
  OBVIOUS
<1> DEFINE w == [i \in 1..Len(facts) |-> facts[i].by]
           v == [i \in 1..Len(facts) + 1 |-> Append(facts, fact)[i].by]
           T == {facts[i].by : i \in 1..Len(facts)} \cup {fact.by}
<1>2. Writers(facts) = w /\ Writers(Append(facts, fact)) = v
  BY <1>1 DEF Writers
<1>3. w \in Seq(T) /\ Len(w) = Len(facts)
  BY <1>1
<1>4. /\ Append(w, fact.by) \in Seq(T) /\ Len(Append(w, fact.by)) = Len(facts) + 1
      /\ Append(w, fact.by)[Len(facts) + 1] = fact.by
      /\ \A i \in 1..Len(facts) : Append(w, fact.by)[i] = w[i]
  BY <1>3
<1>5. v \in Seq(T) /\ Len(v) = Len(facts) + 1
  <2>1. \A i \in 1..Len(facts) + 1 : i \in 1..Len(facts) \/ i = Len(facts) + 1
    BY <1>1
  <2>2. \A i \in 1..Len(facts) + 1 : v[i] \in T
    BY <1>1, <2>1
  <2>3. QED BY <1>1, <2>2
<1>6. \A i \in 1..Len(facts) + 1 : v[i] = Append(w, fact.by)[i]
  <2> SUFFICES ASSUME NEW i \in 1..Len(facts) + 1 PROVE v[i] = Append(w, fact.by)[i]
    OBVIOUS
  <2>1. CASE i \in 1..Len(facts)
    BY <1>1, <1>4, <2>1
  <2>2. CASE i = Len(facts) + 1
    BY <1>1, <1>4, <2>2
  <2>3. QED BY <1>1, <2>1, <2>2
<1> HIDE DEF w, v, T
<1>7. v = Append(w, fact.by)
  BY <1>4, <1>5, <1>6
<1>8. QED BY <1>2, <1>7

\* Where the mail has no fact, it has no entry.
LEMMA NotEntered ==
  ASSUME NEW m, NEW facts, By(m, facts) = {}
  PROVE  ~L!Entered(m, Writers(facts))
BY DEF By, L!Entered, Writers

\* The mailbox, the leases and the handlers' ends.
LEMMA MailIsKept ==
  ASSUME ReplyInv, Filed, NEW m \in Mails,
         \/ Arrive(m) \/ Ingest(m) \/ MarkSeen(m) \/ AskAgain(m)
         \/ InboundLeaseEnds(m) \/ AnalysisLeaseEnds(m)
  PROVE  L!Store(m) \/ L!LetGo(m) \/ UNCHANGED L!ledger
<1>0. mailbox \in [Mails -> MailRow] /\ inbox \in [Mails -> InboxRow]
  BY DEF ReplyInv, MailType
<1>1. CASE Arrive(m)
  <2>1. UNCHANGED <<inbox, communication, order, confirmations, productions, jobs, twin>>
        /\ mailbox' = [mailbox EXCEPT ![m].state = "unseen"] /\ mailbox[m].state = "absent"
    BY <1>1 DEF Arrive, orderVars, twinVars
  <2>2. MailRests
    BY <2>1, <1>0 DEF MailRests, Sender, Kept, ClosedAs, MailRow
  <2>3. QED BY <2>1, <2>2, RestingMails, Unseen
<1>2. CASE Ingest(m)
  <2>1. UNCHANGED <<mailbox, communication, order, confirmations, productions, jobs, twin>>
    BY <1>2 DEF Ingest, orderVars, twinVars
  <2>2. CASE Kept(m)
    BY <1>2, <2>1, <2>2, MailboxUnchanged, Unseen DEF Ingest, Kept
  <2>3. CASE ~Kept(m)
    <3>1. inbox' = [inbox EXCEPT ![m].status = "received"]
      BY <1>2, <2>3 DEF Ingest, Kept
    <3>2. \A k \in Mails : inbox'[k].status = IF k = m THEN "received" ELSE inbox[k].status
      BY <3>1, <1>0 DEF InboxRow
    <3>3. {k \in Mails : inbox[k].status # "absent"}' = {k \in Mails : inbox[k].status # "absent"} \cup {m}
      BY <3>2
    <3>4. [k \in Mails |-> ClosedAs(k)]' = [k \in Mails |-> ClosedAs(k)]
      BY <3>2, <2>3 DEF ClosedAs, Kept
    <3>5. /\ UNCHANGED L!order /\ UNCHANGED L!register
          /\ [k \in Mails |-> Sender(k)]' = [k \in Mails |-> Sender(k)]
          /\ {k \in Mails : mailbox[k].state = "seen"}' = {k \in Mails : mailbox[k].state = "seen"}
      BY <2>1 DEF L!order, L!register, Sender, Writers
    <3>6. L!Store(m)
      BY <2>3, <3>3, <3>4, <3>5 DEF L!Store, Kept
    <3>7. QED BY <3>6
  <2>4. QED BY <2>2, <2>3
<1>3. CASE MarkSeen(m)
  <2>1. /\ UNCHANGED <<inbox, communication, order, confirmations, productions, jobs, twin>>
        /\ mailbox' = [mailbox EXCEPT ![m].state = "seen"]
    BY <1>3 DEF MarkSeen, orderVars, twinVars
  <2>2. \A k \in Mails : /\ mailbox'[k].state = IF k = m THEN "seen" ELSE mailbox[k].state
                         /\ mailbox'[k].from = mailbox[k].from
    BY <2>1, <1>0 DEF MailRow
  <2>3. {k \in Mails : mailbox[k].state = "seen"}' = {k \in Mails : mailbox[k].state = "seen"} \cup {m}
    BY <2>2
  <2>4. /\ UNCHANGED L!order /\ UNCHANGED L!register
        /\ [k \in Mails |-> Sender(k)]' = [k \in Mails |-> Sender(k)]
        /\ {k \in Mails : inbox[k].status # "absent"}' = {k \in Mails : inbox[k].status # "absent"}
        /\ [k \in Mails |-> ClosedAs(k)]' = [k \in Mails |-> ClosedAs(k)]
    BY <2>1, <2>2 DEF L!order, L!register, Sender, ClosedAs, Writers
  <2>5. inbox[m].status # "absent"
    BY <1>3 DEF MarkSeen, Filed, Kept
  <2>6. L!LetGo(m)
    BY <2>3, <2>4, <2>5 DEF L!LetGo
  <2>7. QED BY <2>6
<1>4. CASE InboundLeaseEnds(m)
  <2>1. /\ UNCHANGED <<mailbox, communication, order, confirmations, productions, jobs, twin>>
        /\ inbox' = [inbox EXCEPT ![m].leased = FALSE]
    BY <1>4 DEF InboundLeaseEnds, mailVars, orderVars, twinVars
  <2>2. MailRests
    BY <2>1, <1>0 DEF MailRests, Sender, Kept, ClosedAs, InboxRow
  <2>3. QED BY <2>1, <2>2, RestingMails, Unseen
<1>5. CASE AskAgain(m) \/ AnalysisLeaseEnds(m)
  BY <1>5, MailboxUnchanged, Unseen DEF AskAgain, AnalysisLeaseEnds, mailVars, orderVars, twinVars
<1>6. QED BY <1>1, <1>2, <1>3, <1>4, <1>5

\* A mail is claimed, and settled as what its handler came to.
LEMMA ClaimIsUnseen ==
  ASSUME ReplyInv, NEW r \in Recoverers, NEW m \in Mails, ClaimInbound(r, m)
  PROVE  UNCHANGED L!ledger
<1>1. /\ UNCHANGED <<mailbox, communication, order, confirmations, productions, jobs, twin>>
      /\ inbox' = [inbox EXCEPT ![m] = [status |-> "dispatching", owner |-> r, leased |-> TRUE]]
      /\ inbox[m].status \in {"received", "failed", "dispatching"}
  BY DEF ClaimInbound, ClaimableMail, mailVars, orderVars, twinVars
<1>2. \A k \in Mails : inbox'[k].status = IF k = m THEN "dispatching" ELSE inbox[k].status
  BY <1>1 DEF ReplyInv, MailType
<1>3. MailRests
  BY <1>1, <1>2 DEF MailRests, Sender, Kept, ClosedAs
<1>4. QED BY <1>1, <1>3, RestingMails, Unseen

LEMMA SettleIsClose ==
  ASSUME ReplyInv, Filed, NEW h \in Handlers, SettleInbound(h)
  PROVE  (\E m \in Mails : L!Close(m)) \/ UNCHANGED L!ledger
<1>1. PICK m \in Mails : m = handler[h].mail
  BY DEF SettleInbound, ReplyInv, HandlerType, HandlersAreEquipped
<1>2. PICK outcome \in {"processed", "rejected", "retryable_failure"} : outcome = handler[h].outcome
  BY DEF SettleInbound, ReplyInv, HandlerType, HandlersAreEquipped, HandlerState
<1>3. /\ UNCHANGED <<mailbox, communication, order, confirmations, productions, jobs, twin>>
      /\ inbox' = IF HoldsLease(h, m)
           THEN [inbox EXCEPT ![m] = [status |-> IF outcome = "retryable_failure" THEN "failed" ELSE outcome,
                                      owner |-> Nothing, leased |-> FALSE]]
           ELSE inbox
  BY <1>1, <1>2 DEF SettleInbound, mailVars, orderVars, twinVars
<1>4. CASE ~HoldsLease(h, m)
  BY <1>3, <1>4, MailboxUnchanged, Unseen
<1>5. CASE HoldsLease(h, m)
  <2>1. inbox[m].status = "dispatching"
    BY <1>5 DEF HoldsLease
  <2>2. \A k \in Mails : inbox'[k].status =
          IF k = m THEN (IF outcome = "retryable_failure" THEN "failed" ELSE outcome) ELSE inbox[k].status
    BY <1>3, <1>5 DEF ReplyInv, MailType
  <2>3. CASE outcome = "retryable_failure"
    <3>1. MailRests
      BY <1>3, <2>1, <2>2, <2>3 DEF MailRests, Sender, Kept, ClosedAs
    <3>2. QED BY <1>3, <3>1, RestingMails, Unseen
  <2>4. CASE outcome # "retryable_failure"
    <3>1. \A k \in Mails : ClosedAs(k)' = IF k = m THEN outcome ELSE ClosedAs(k)
      BY <2>2, <2>4 DEF ClosedAs
    <3>2. /\ [k \in Mails |-> ClosedAs(k)]' = [[k \in Mails |-> ClosedAs(k)] EXCEPT ![m] = outcome]
          /\ [k \in Mails |-> ClosedAs(k)][m] = "open"
      BY <2>1, <3>1 DEF ClosedAs
    <3>3. {k \in Mails : inbox[k].status # "absent"}' = {k \in Mails : inbox[k].status # "absent"}
      BY <2>1, <2>2
    <3>4. /\ UNCHANGED L!order /\ UNCHANGED L!register
          /\ [k \in Mails |-> Sender(k)]' = [k \in Mails |-> Sender(k)]
          /\ {k \in Mails : mailbox[k].state = "seen"}' = {k \in Mails : mailbox[k].state = "seen"}
      BY <1>3 DEF L!order, L!register, Sender, Writers
    <3>5. IF outcome = "rejected" THEN [k \in Mails |-> Sender(k)][m] = "stranger" ELSE m \in communication
      BY <1>1, <1>2 DEF SettleInbound, Filed, Grounded
    <3>6. L!Close(m)
      BY <2>1, <2>4, <3>2, <3>3, <3>4, <3>5 DEF L!Close
    <3>7. QED BY <3>6
  <2>5. QED BY <2>3, <2>4
<1>6. QED BY <1>4, <1>5

\* A mail is filed once, the first time it is handled.
LEMMA PersistIsLink ==
  ASSUME ReplyInv, Filed, JobsInHand, NEW h \in Handlers, Persist(h)
  PROVE  /\ JobsInHand'
         /\ (\E m \in Mails : L!Link(m)) \/ UNCHANGED L!ledger
<1>1. PICK m \in Mails : m = handler[h].mail
  BY DEF Persist, ReplyInv, HandlerType, HandlersAreEquipped
<1>2. /\ UNCHANGED <<mailbox, inbox, order, confirmations, productions, twinVars, twin>>
      /\ handler[h].at = "handling" /\ Kept(m) /\ SameMails
  BY <1>1, MailboxUnchanged DEF Persist, mailVars, twinVars, Filed, Grounded
<1>3. CASE UNCHANGED <<communication, jobs>>
  BY <1>2, <1>3, Unseen, RegisterRests
<1>4. CASE /\ communication' = communication \cup {m} /\ m \notin communication
           /\ mailbox[m].from = "supplier" /\ EnqueueProjection
  <2>1. L!Change /\ JobsInHand'
    BY <1>2, <1>4, EnqueueIsChange DEF ReplyInv
  <2>2. /\ m \in {k \in Mails : inbox[k].status # "absent"} \ communication
        /\ [k \in Mails |-> Sender(k)][m] = "supplier"
    BY <1>2, <1>4 DEF Kept, Sender
  <2>3. Writers(confirmations)' = Writers(confirmations) /\ Writers(productions)' = Writers(productions)
        /\ order'.status = order.status
    BY <1>2 DEF Writers
  <2>4. L!Link(m)
    BY <1>2, <1>4, <2>1, <2>2, <2>3 DEF L!Link, SameMails
  <2>5. QED BY <2>1, <2>4
<1>5. \/ UNCHANGED <<communication, jobs>>
      \/ /\ communication' = communication \cup {m} /\ m \notin communication
         /\ mailbox[m].from = "supplier" /\ EnqueueProjection
  BY <1>1 DEF Persist
<1>6. QED BY <1>3, <1>4, <1>5

\* A confirmation that is recorded is entered by its author, and is a change of the order.
LEMMA RecordIsEntered ==
  ASSUME ReplyInv, JobsInHand, NEW by \in Mails \cup {Person}, NEW agreed \in BOOLEAN,
         RecordConfirmation(by, agreed), UNCHANGED twinVars
  PROVE  /\ L!Change /\ JobsInHand'
         /\ Writers(confirmations)' = Append(Writers(confirmations), by)
         /\ order'.status \in {"awaiting_confirmation", "confirmed"}
<1>1. L!Change /\ JobsInHand'
  BY EnqueueIsChange DEF RecordConfirmation, OrderBecomes, ReplyInv
<1>2. PICK fact : fact = [by |-> by, approval |-> ~agreed,
                          status |-> IF agreed THEN "confirmed" ELSE "pending_approval"]
  OBVIOUS
<1>3. fact \in Confirmation /\ fact.by = by
  BY <1>2 DEF Confirmation
<1>4. confirmations' = Append(confirmations, fact) /\ confirmations \in Seq(Confirmation)
  BY <1>2 DEF RecordConfirmation, ReplyInv, OrderType
<1>5. Writers(Append(confirmations, fact)) = Append(Writers(confirmations), by)
  BY <1>3, <1>4, AppendedEntry
<1>6. Writers(confirmations)' = Append(Writers(confirmations), by)
  BY <1>4, <1>5 DEF Writers
<1>7. order'.status \in {"awaiting_confirmation", "confirmed"}
  BY DEF RecordConfirmation, OrderBecomes
<1>8. QED BY <1>1, <1>6, <1>7

\* The confirmation a mail carries is entered when it is its first.
LEMMA ConfirmIsEntered ==
  ASSUME ReplyInv, Filed, JobsInHand, NEW h \in Handlers, Confirm(h)
  PROVE  /\ JobsInHand'
         /\ (\E m \in Mails : L!Confirm(m)) \/ UNCHANGED L!ledger
<1>1. PICK m \in Mails : m = handler[h].mail
  BY DEF Confirm, ReplyInv, HandlerType, HandlersAreEquipped
<1>2. /\ UNCHANGED <<mailbox, inbox, communication, twinVars, twin>>
      /\ m \in communication /\ SameMails
  BY <1>1, MailboxUnchanged DEF Confirm, mailVars, twinVars, Filed, Grounded
<1>3. PICK agreed \in BOOLEAN : agreed = (handler[h].answer \notin Deviating)
  OBVIOUS
<1>4. \/ UNCHANGED orderVars
      \/ /\ By(m, confirmations) = {} /\ CanRecordCommitment
         /\ RecordConfirmation(m, agreed) /\ UNCHANGED productions
  BY <1>1, <1>3 DEF Confirm, PreviousConfirmation
<1>5. CASE UNCHANGED orderVars
  BY <1>2, <1>5, Unseen, RegisterRests DEF orderVars
<1>6. CASE /\ By(m, confirmations) = {} /\ CanRecordCommitment
           /\ RecordConfirmation(m, agreed) /\ UNCHANGED productions
  <2>1. /\ L!Change /\ JobsInHand'
        /\ Writers(confirmations)' = Append(Writers(confirmations), m)
        /\ order'.status \in {"awaiting_confirmation", "confirmed"}
    BY <1>2, <1>6, RecordIsEntered
  <2>2. ~L!Entered(m, Writers(confirmations))
    BY <1>6, NotEntered
  <2>3. order.status \in {"sent", "awaiting_confirmation", "confirmed"}
    BY <1>6 DEF CanRecordCommitment
  <2>4. Writers(productions)' = Writers(productions)
    BY <1>6 DEF Writers
  <2>5. L!Confirm(m)
    BY <1>2, <2>1, <2>2, <2>3, <2>4 DEF L!Confirm, SameMails
  <2>6. QED BY <2>1, <2>5
<1>7. QED BY <1>4, <1>5, <1>6

LEMMA ProduceIsEntered ==
  ASSUME ReplyInv, Filed, JobsInHand, NEW h \in Handlers, Produce(h)
  PROVE  /\ JobsInHand'
         /\ (\E m \in Mails : L!Progress(m)) \/ UNCHANGED L!ledger
<1>1. PICK m \in Mails : m = handler[h].mail
  BY DEF Produce, ReplyInv, HandlerType, HandlersAreEquipped
<1>2. /\ UNCHANGED <<mailbox, inbox, communication, twinVars, twin>>
      /\ m \in communication /\ SameMails
  BY <1>1, MailboxUnchanged DEF Produce, mailVars, twinVars, Filed, Grounded
<1>3. PICK fact : fact = [by |-> m, answer |-> handler[h].answer]
  OBVIOUS
<1>4. fact \in Production /\ fact.by = m /\ productions \in Seq(Production)
  BY <1>1, <1>3 DEF Production, Produce, ReplyInv, HandlerType, HandlersAreEquipped, OrderType
<1>5. \/ UNCHANGED orderVars
      \/ /\ By(m, productions) = {} /\ order.status \in {"confirmed", "in_production"}
         /\ productions' = Append(productions, fact) /\ OrderBecomes("in_production") /\ UNCHANGED confirmations
  BY <1>1, <1>3 DEF Produce, PreviousProduction
<1>6. CASE UNCHANGED orderVars
  BY <1>2, <1>6, Unseen, RegisterRests DEF orderVars
<1>7. CASE /\ By(m, productions) = {} /\ order.status \in {"confirmed", "in_production"}
           /\ productions' = Append(productions, fact) /\ OrderBecomes("in_production") /\ UNCHANGED confirmations
  <2>1. L!Change /\ JobsInHand'
    BY <1>2, <1>7, EnqueueIsChange DEF OrderBecomes, ReplyInv
  <2>2. Writers(Append(productions, fact)) = Append(Writers(productions), m)
    BY <1>4, AppendedEntry
  <2>3. Writers(productions)' = Append(Writers(productions), m) /\ Writers(confirmations)' = Writers(confirmations)
    BY <1>7, <2>2 DEF Writers
  <2>4. ~L!Entered(m, Writers(productions))
    BY <1>7, NotEntered
  <2>5. order'.status = "in_production"
    BY <1>7 DEF OrderBecomes
  <2>6. L!Progress(m)
    BY <1>2, <1>7, <2>1, <2>3, <2>4, <2>5 DEF L!Progress, SameMails
  <2>7. QED BY <2>1, <2>6
<1>8. QED BY <1>5, <1>6, <1>7

LEMMA PersonIsByHand ==
  ASSUME ReplyInv, JobsInHand, PersonActs
  PROVE  JobsInHand' /\ L!ByHand
<1>1. /\ UNCHANGED <<mailbox, inbox, communication, productions, twinVars, twin>> /\ SameMails
      /\ Writers(productions)' = Writers(productions)
  BY MailboxUnchanged DEF PersonActs, mailVars, twinVars, Writers
<1> SUFFICES /\ L!Change /\ JobsInHand' /\ order.status # "cancelled"
             /\ order'.status \in {order.status, "awaiting_confirmation", "confirmed", "rejected", "cancelled"}
             /\ \/ Writers(confirmations)' = Writers(confirmations)
                \/ Writers(confirmations)' = Append(Writers(confirmations), Person)
  BY <1>1 DEF L!ByHand, SameMails
<1>2. CASE /\ order.status \in {"sent", "awaiting_confirmation", "confirmed"}
           /\ \E agreed \in BOOLEAN : RecordConfirmation(Person, agreed)
  BY <1>1, <1>2, RecordIsEntered
<1>3. ASSUME NEW i \in DOMAIN confirmations, NEW status \in {"confirmed", "rejected"},
             order.status = "awaiting_confirmation",
             confirmations' = [confirmations EXCEPT ![i].status = status], OrderBecomes(status)
      PROVE  /\ L!Change /\ JobsInHand' /\ order.status # "cancelled"
             /\ order'.status \in {"confirmed", "rejected"}
             /\ Writers(confirmations)' = Writers(confirmations)
  <2>1. L!Change /\ JobsInHand'
    BY <1>1, <1>3, EnqueueIsChange DEF OrderBecomes, ReplyInv
  <2>2. /\ DOMAIN confirmations' = DOMAIN confirmations
        /\ \A j \in DOMAIN confirmations : confirmations'[j].by = confirmations[j].by
    BY <1>3 DEF ReplyInv, OrderType, Confirmation
  <2>3. Writers(confirmations)' = Writers(confirmations)
    BY <2>2 DEF Writers
  <2>4. QED BY <1>3, <2>1, <2>3 DEF OrderBecomes
<1>4. ASSUME order.status # "cancelled", NEW status \in {order.status, "cancelled"},
             OrderBecomes(status), UNCHANGED confirmations
      PROVE  /\ L!Change /\ JobsInHand' /\ order'.status \in {order.status, "cancelled"}
             /\ Writers(confirmations)' = Writers(confirmations)
  BY <1>1, <1>4, EnqueueIsChange DEF OrderBecomes, ReplyInv, Writers
<1>5. QED BY <1>2, <1>3, <1>4 DEF PersonActs

LEMMA WorkerIsShow ==
  ASSUME ReplyInv, JobsInHand, QueueNext, Aside
  PROVE  /\ JobsInHand'
         /\ L!Show \/ (\E k \in {k \in DOMAIN jobs : jobs[k].status # "succeeded"} : L!Discharge(k))
            \/ UNCHANGED L!ledger
<1>1. /\ SameMails /\ UNCHANGED L!order
      /\ communication' = communication /\ Writers(confirmations)' = Writers(confirmations)
      /\ Writers(productions)' = Writers(productions) /\ order'.status = order.status
  BY MailboxUnchanged DEF Aside, mailVars, L!order, Writers
<1>2. QueueInv /\ DOMAIN jobs = 1..Len(jobs)
  BY DEF ReplyInv, QueueInv, QueueTypeOK
<1>3. JobsInHand'
  BY <1>2, WorkerKeepsRegister
<1>4. CASE twin' = Len(jobs) /\ UNCHANGED jobs
  BY <1>1, <1>3, <1>4 DEF L!Show, SameMails
<1>5. ASSUME twin' = twin, Len(jobs') = Len(jobs), NEW k \in 1..Len(jobs), k <= twin,
             jobs[k].status # "succeeded",
             {i \in DOMAIN jobs : jobs[i].status # "succeeded"}'
               = {i \in DOMAIN jobs : jobs[i].status # "succeeded"} \ {k}
      PROVE  k \in {i \in DOMAIN jobs : jobs[i].status # "succeeded"} /\ L!Discharge(k)
  BY <1>1, <1>2, <1>5 DEF L!Discharge, SameMails
<1>6. CASE UNCHANGED L!register
  BY <1>1, <1>3, <1>6 DEF L!ledger, SameMails
<1>7. QED BY <1>2, <1>3, <1>4, <1>5, <1>6, WorkerKeepsRegister

\* Every step of the system is one of the ledger's, or one the ledger does not see.
LEMMA LedgerStep ==
  ASSUME ReplyInv, Filed, JobsInHand, [Next]_vars
  PROVE  /\ Filed' /\ JobsInHand'
         /\ [L!Next]_L!ledger
<1>1. CASE UNCHANGED vars
  <2>1. UNCHANGED <<mailbox, polled, inbox, communication, handler, order, confirmations, productions, jobs, twin>>
    BY <1>1 DEF vars, mailVars, orderVars, twinVars
  <2>2. Filed'
    BY <2>1 DEF Filed, Grounded, Kept, Sender
  <2>3. QED BY <2>1, <2>2, MailboxUnchanged, Unseen, RegisterRests
<1>2. CASE Next
  <2>1. ASSUME NEW m \in Mails,
               \/ Arrive(m) \/ Ingest(m) \/ MarkSeen(m) \/ AskAgain(m)
               \/ InboundLeaseEnds(m) \/ AnalysisLeaseEnds(m)
        PROVE  JobsInHand' /\ [L!Next]_L!ledger
    <3>1. UNCHANGED <<jobs, twin>>
      BY <2>1 DEF Arrive, Ingest, MarkSeen, AskAgain, InboundLeaseEnds, AnalysisLeaseEnds, orderVars, twinVars
    <3>2. QED BY <2>1, <3>1, MailIsKept, RegisterRests DEF L!Next
  <2>2. ASSUME NEW r \in Recoverers, NEW m \in Mails, ClaimInbound(r, m)
        PROVE  JobsInHand' /\ [L!Next]_L!ledger
    <3>1. UNCHANGED <<jobs, twin>>
      BY <2>2 DEF ClaimInbound, orderVars, twinVars
    <3>2. QED BY <2>2, <3>1, ClaimIsUnseen, RegisterRests
  <2>3. ASSUME NEW h \in Handlers, SettleInbound(h)
        PROVE  JobsInHand' /\ [L!Next]_L!ledger
    <3>1. UNCHANGED <<jobs, twin>>
      BY <2>3 DEF SettleInbound, orderVars, twinVars
    <3>2. QED BY <2>3, <3>1, SettleIsClose, RegisterRests DEF L!Next
  <2>4. ASSUME NEW h \in Handlers, Persist(h) \/ Confirm(h) \/ Produce(h)
        PROVE  JobsInHand' /\ [L!Next]_L!ledger
    BY <2>4, PersistIsLink, ConfirmIsEntered, ProduceIsEntered DEF L!Next
  <2>5. ASSUME NEW h \in Handlers,
               TakeAnalysis(h) \/ ModelFails(h) \/ ModelAnswers(h) \/ Report(h) \/ HandlerDies(h)
        PROVE  JobsInHand' /\ [L!Next]_L!ledger
    <3>1. UNCHANGED <<mailbox, inbox, communication, order, confirmations, productions, jobs, twin>>
      BY <2>5 DEF TakeAnalysis, ModelFails, ModelAnswers, Report, HandlerDies, mailVars, orderVars, twinVars
    <3>2. QED BY <3>1, MailboxUnchanged, Unseen, RegisterRests
  <2>6. ASSUME PollEnds PROVE  JobsInHand' /\ [L!Next]_L!ledger
    <3>1. UNCHANGED <<mailbox, inbox, communication, order, confirmations, productions, jobs, twin>>
      BY <2>6 DEF PollEnds, orderVars, twinVars
    <3>2. QED BY <3>1, MailboxUnchanged, Unseen, RegisterRests
  <2>7. ASSUME PersonActs PROVE  JobsInHand' /\ [L!Next]_L!ledger
    BY <2>7, PersonIsByHand DEF L!Next
  <2>8. ASSUME QueueNext, Aside PROVE  JobsInHand' /\ [L!Next]_L!ledger
    BY <2>8, WorkerIsShow DEF L!Next
  <2>9. Filed'
    BY <1>2, FiledStep
  <2>10. QED BY <1>2, <2>1, <2>2, <2>3, <2>4, <2>5, <2>6, <2>7, <2>8, <2>9 DEF Next, Step
<1>3. QED BY <1>1, <1>2

\* Before anything has arrived, the ledger is empty.
LEMMA LedgerOpens ==
  ASSUME Init
  PROVE  Filed /\ JobsInHand /\ L!Init
<1>1. Filed /\ JobsInHand
  BY DEF Init, QueueInit, Filed, Grounded, Idle, JobsInHand
<1>2. [m \in Mails |-> Sender(m)] \in [Mails -> {"supplier", "stranger"}]
  BY DEF Init, Sender
<1>3. /\ {m \in Mails : inbox[m].status # "absent"} = {}
      /\ {m \in Mails : mailbox[m].state = "seen"} = {}
      /\ [m \in Mails |-> ClosedAs(m)] = [m \in Mails |-> "open"]
  BY DEF Init, ClosedAs
<1>4. Writers(<<>>) = <<>>
  BY DEF Writers
<1>5. /\ Len(jobs) = 0 /\ twin = 0 /\ {k \in DOMAIN jobs : jobs[k].status # "succeeded"} = {}
      /\ order.status \in {"sent", "confirmed"} /\ communication = {}
      /\ confirmations = <<>> /\ productions = <<>>
  BY DEF Init, QueueInit
<1>6. QED BY <1>1, <1>2, <1>3, <1>4, <1>5 DEF L!Init

\* Whatever dies, is handled twice or loses its lease, the poller, the recoverers, the
\* readings and the worker keep the ledger of ReplyLedger: no mail is let go before it is
\* stored, only the supplier's mails touch the order, each is entered once, closed once
\* and for a reason, and every change is owed to the twin until it is shown
\* (mail-router.ts, repository.ts, procurement-bridge.ts, procurement-ai-reply.ts,
\* projection-queue.ts).
THEOREM RepliesAreLedgered == Spec => LedgerKept
<1> DEFINE Inv == ReplyInv /\ Filed /\ JobsInHand
<1>1. Init => Inv /\ L!Init
  BY InitReply, LedgerOpens
<1>2. Inv /\ [Next]_vars => Inv' /\ [L!Next]_L!ledger
  BY ReplyStep, LedgerStep
<1>3. QED BY <1>1, <1>2, PTL DEF Spec, LedgerKept, L!Spec

-----------------------------------------------------------------------------
(***************************************************************************)
(* What the ledger means for a mail.                                       *)
(***************************************************************************)

\* No mail is lost between the mailbox and the order: what the mailbox will not hand out
\* again is stored, a mail settled as processed is the supplier's and is filed with the
\* order, one settled as rejected is a stranger's and is not (mail-router.ts marks what
\* inbound-mail-handler.ts has stored; completeInbound settles what procurement-bridge.ts
\* has decided).
MailsAreAccountedFor ==
  \A m \in Mails :
    /\ mailbox[m].state = "seen" => Kept(m)
    /\ inbox[m].status = "processed" => Sender(m) = "supplier" /\ m \in communication
    /\ inbox[m].status = "rejected" => Sender(m) = "stranger" /\ m \notin communication

\* What stands on the order without a person's hand stands on a mail of the supplier that
\* is filed with it, and no model reads what a stranger wrote (procurement-bridge.ts
\* resolves the sender before procurement-ai-reply.ts is called).
OnlyFiledMailsCount ==
  /\ \A i \in DOMAIN confirmations :
       confirmations[i].by # Person => confirmations[i].by \in communication
  /\ \A i \in DOMAIN productions : productions[i].by \in communication
  /\ \A m \in Mails : analysis[m].status # "absent" => m \in communication
  /\ \A m \in communication : Sender(m) = "supplier"

\* A settled mail stays settled as it is, whichever recoverer whose lease ran out, or
\* request to read it again, comes to its end later (completeInbound and failInbound of
\* repository.ts write under the lease only).
SettledMailStays ==
  [][\A m \in Mails : inbox[m].status \in {"processed", "rejected"} => inbox'[m].status = inbox[m].status]_vars

\* What a step of the ledger may do to the mails: let go what is stored, close what is
\* open, for a reason.
LEMMA MailsMove ==
  ASSUME ReplyInv, Filed, JobsInHand, [Next]_vars, NEW m \in Mails
  PROVE  /\ mailbox'[m].state = "seen" => mailbox[m].state = "seen" \/ Kept(m)
         /\ \/ ClosedAs(m)' = ClosedAs(m)
            \/ /\ ClosedAs(m) = "open"
               /\ \/ ClosedAs(m)' = "processed" /\ m \in communication
                  \/ ClosedAs(m)' = "rejected" /\ Sender(m) = "stranger"
<1> DEFINE seen == {k \in Mails : mailbox[k].state = "seen"}
           stored == {k \in Mails : inbox[k].status # "absent"}
           closed == [k \in Mails |-> ClosedAs(k)]
           sender == [k \in Mails |-> Sender(k)]
<1>1. [L!Next]_L!ledger
  BY LedgerStep
<1>2. /\ seen' = seen \/ (\E k \in stored : seen' = seen \cup {k})
      /\ \/ closed' = closed
         \/ \E k \in Mails : /\ closed[k] = "open"
                             /\ \/ k \in communication /\ closed' = [closed EXCEPT ![k] = "processed"]
                                \/ sender[k] = "stranger" /\ closed' = [closed EXCEPT ![k] = "rejected"]
  <2>1. CASE UNCHANGED L!ledger
    BY <2>1 DEF L!ledger
  <2>2. CASE \E k \in Mails : L!Close(k)
    BY <2>2 DEF L!Close
  <2>3. CASE \E k \in Mails : L!LetGo(k)
    BY <2>3 DEF L!LetGo
  <2>4. CASE \E k \in Mails : L!Store(k) \/ L!Link(k) \/ L!Confirm(k) \/ L!Progress(k)
    BY <2>4 DEF L!Store, L!Link, L!Confirm, L!Progress
  <2>5. CASE L!ByHand \/ L!Show \/ (\E k \in {i \in DOMAIN jobs : jobs[i].status # "succeeded"} : L!Discharge(k))
    BY <2>5 DEF L!ByHand, L!Show, L!Discharge
  <2>6. QED BY <1>1, <2>1, <2>2, <2>3, <2>4, <2>5 DEF L!Next
<1>3. mailbox'[m].state = "seen" => m \in seen'
  OBVIOUS
<1>4. (m \in seen => mailbox[m].state = "seen") /\ (m \in stored => Kept(m))
  BY DEF Kept
<1>5. closed[m] = ClosedAs(m) /\ closed'[m] = ClosedAs(m)' /\ sender[m] = Sender(m) /\ DOMAIN closed = Mails
      /\ closed = [k \in Mails |-> closed[k]]
  OBVIOUS
<1> HIDE DEF seen, stored, closed, sender
<1>6. QED BY <1>2, <1>3, <1>4, <1>5

LEMMA AccountsStep ==
  ASSUME ReplyInv, Filed, JobsInHand, [Next]_vars, MailsAreAccountedFor
  PROVE  MailsAreAccountedFor'
<1>1. Filed' /\ Grows
  <2>1. CASE Next
    BY <2>1, LedgerStep, EveryStepGrows
  <2>2. CASE UNCHANGED vars
    BY <2>2, LedgerStep DEF vars, mailVars, Grows, Kept, Sender
  <2>3. QED BY <2>1, <2>2
<1> SUFFICES ASSUME NEW m \in Mails
             PROVE  /\ mailbox'[m].state = "seen" => Kept(m)'
                    /\ inbox'[m].status = "processed" => Sender(m)' = "supplier" /\ m \in communication'
                    /\ inbox'[m].status = "rejected" => Sender(m)' = "stranger" /\ m \notin communication'
  BY DEF MailsAreAccountedFor, Kept, Sender
<1>2. /\ mailbox[m].state = "seen" => Kept(m)
      /\ ClosedAs(m) = "processed" => m \in communication
      /\ ClosedAs(m) = "rejected" => Sender(m) = "stranger"
  BY DEF MailsAreAccountedFor, ClosedAs
<1>3. /\ mailbox'[m].state = "seen" => Kept(m)
      /\ ClosedAs(m)' = "processed" => m \in communication
      /\ ClosedAs(m)' = "rejected" => Sender(m) = "stranger"
  BY <1>2, MailsMove DEF ClosedAs
<1>4. /\ inbox'[m].status = "processed" => ClosedAs(m)' = "processed"
      /\ inbox'[m].status = "rejected" => ClosedAs(m)' = "rejected"
  BY DEF ClosedAs
<1>5. /\ Kept(m) => Kept(m)'
      /\ Sender(m)' = Sender(m)
      /\ m \in communication => m \in communication'
      /\ m \in communication' => Sender(m)' = "supplier"
  BY <1>1 DEF Grows, Filed, Kept, Sender
<1>6. QED BY <1>3, <1>4, <1>5

\* The facts of the order, by who wrote them, and the readings stand on filed mails.
EntriesAreFiled(by) == \A i \in DOMAIN by : by[i] # Person => by[i] \in communication
ReadIsFiled == \A m \in Mails : analysis[m].status # "absent" => m \in communication
StandsOnMails ==
  /\ EntriesAreFiled(Writers(confirmations))
  /\ EntriesAreFiled(Writers(productions))
  /\ ReadIsFiled

\* One more entry, of a filed mail or of a person.
LEMMA OneMoreEntry ==
  ASSUME NEW s \in Seq(Mails \cup {Person}), NEW by \in Mails \cup {Person}, NEW files,
         by # Person => by \in files,
         \A i \in DOMAIN s : s[i] # Person => s[i] \in files
  PROVE  \A i \in DOMAIN Append(s, by) : Append(s, by)[i] # Person => Append(s, by)[i] \in files
<1> SUFFICES ASSUME NEW i \in DOMAIN Append(s, by), Append(s, by)[i] # Person
             PROVE  Append(s, by)[i] \in files
  OBVIOUS
<1>1. /\ DOMAIN s = 1..Len(s) /\ DOMAIN Append(s, by) = 1..Len(s) + 1 /\ Len(s) \in Nat
      /\ Append(s, by)[Len(s) + 1] = by
      /\ \A j \in 1..Len(s) : Append(s, by)[j] = s[j]
  OBVIOUS
<1>2. CASE i \in 1..Len(s)
  BY <1>1, <1>2
<1>3. CASE i = Len(s) + 1
  BY <1>1, <1>3
<1>4. QED BY <1>1, <1>2, <1>3

\* The entries are sequences of their authors.
LEMMA WritersType ==
  ASSUME OrderType
  PROVE  /\ Writers(confirmations) \in Seq(Mails \cup {Person})
         /\ Writers(productions) \in Seq(Mails \cup {Person})
         /\ \A i \in DOMAIN productions : productions[i].by \in Mails
<1>1. \A i \in DOMAIN confirmations : confirmations[i] \in Confirmation
  BY DEF OrderType
<1>2. \A i \in DOMAIN productions : productions[i] \in Production
  BY DEF OrderType
<1>3. /\ \A fact \in Confirmation : fact.by \in Mails \cup {Person}
      /\ \A fact \in Production : fact.by \in Mails
  BY DEF Confirmation, Production
<1>4. /\ DOMAIN confirmations = 1..Len(confirmations) /\ Len(confirmations) \in Nat
      /\ DOMAIN productions = 1..Len(productions) /\ Len(productions) \in Nat
  BY DEF OrderType
<1>5. /\ \A i \in DOMAIN confirmations : confirmations[i].by \in Mails \cup {Person}
      /\ \A i \in DOMAIN productions : productions[i].by \in Mails
  BY <1>1, <1>2, <1>3
<1>6. QED BY <1>4, <1>5 DEF Writers

LEMMA EntriesStep ==
  ASSUME ReplyInv, Filed, JobsInHand, [Next]_vars, communication \subseteq communication',
         EntriesAreFiled(Writers(confirmations)), EntriesAreFiled(Writers(productions))
  PROVE  EntriesAreFiled(Writers(confirmations))' /\ EntriesAreFiled(Writers(productions))'
<1>1. [L!Next]_L!ledger
  BY LedgerStep
<1>2. PICK C : C = Writers(confirmations)
  OBVIOUS
<1>3. PICK D : D = Writers(confirmations)'
  OBVIOUS
<1>4. PICK P : P = Writers(productions)
  OBVIOUS
<1>5. PICK Q : Q = Writers(productions)'
  OBVIOUS
<1>6. /\ C \in Seq(Mails \cup {Person}) /\ P \in Seq(Mails \cup {Person})
      /\ communication \subseteq Mails
  BY <1>2, <1>4, WritersType DEF ReplyInv, OrderType
<1>7. /\ D = C \/ D = Append(C, Person) \/ (\E m \in communication : D = Append(C, m))
      /\ Q = P \/ (\E m \in communication : Q = Append(P, m))
  <2>1. CASE UNCHANGED L!ledger
    BY <2>1, <1>2, <1>3, <1>4, <1>5 DEF L!ledger, L!order
  <2>2. CASE \E m \in Mails : L!Store(m) \/ L!LetGo(m) \/ L!Close(m)
    BY <2>2, <1>2, <1>3, <1>4, <1>5 DEF L!Store, L!LetGo, L!Close, L!order
  <2>3. CASE \E m \in Mails : L!Link(m) \/ L!Confirm(m) \/ L!Progress(m)
    BY <2>3, <1>2, <1>3, <1>4, <1>5 DEF L!Link, L!Confirm, L!Progress
  <2>4. CASE L!ByHand
    BY <2>4, <1>2, <1>3, <1>4, <1>5 DEF L!ByHand
  <2>5. CASE L!Show \/ (\E k \in {i \in DOMAIN jobs : jobs[i].status # "succeeded"} : L!Discharge(k))
    BY <2>5, <1>2, <1>3, <1>4, <1>5 DEF L!Show, L!Discharge, L!order
  <2>6. QED BY <1>1, <2>1, <2>2, <2>3, <2>4, <2>5 DEF L!Next
<1>8. /\ \A i \in DOMAIN C : C[i] # Person => C[i] \in communication'
      /\ \A i \in DOMAIN P : P[i] # Person => P[i] \in communication'
  BY <1>2, <1>4 DEF EntriesAreFiled
<1>9. \A i \in DOMAIN D : D[i] # Person => D[i] \in communication'
  <2>1. ASSUME NEW by \in Mails \cup {Person}, by # Person => by \in communication', D = Append(C, by)
        PROVE  \A i \in DOMAIN D : D[i] # Person => D[i] \in communication'
    BY <2>1, <1>6, <1>8, OneMoreEntry
  <2>2. QED BY <2>1, <1>6, <1>7, <1>8
<1>10. \A i \in DOMAIN Q : Q[i] # Person => Q[i] \in communication'
  <2>1. ASSUME NEW by \in Mails \cup {Person}, by # Person => by \in communication', Q = Append(P, by)
        PROVE  \A i \in DOMAIN Q : Q[i] # Person => Q[i] \in communication'
    BY <2>1, <1>6, <1>8, OneMoreEntry
  <2>2. QED BY <2>1, <1>6, <1>7, <1>8
<1>11. QED BY <1>3, <1>5, <1>9, <1>10 DEF EntriesAreFiled

\* Only what is filed is read.
LEMMA ReadingStep ==
  ASSUME ReplyInv, Filed, Next, communication \subseteq communication', ReadIsFiled
  PROVE  ReadIsFiled'
<1>0. analysis \in [Mails -> Analysis]
  BY DEF ReplyInv, AnalysisType
<1>1. CASE UNCHANGED analysis
  BY <1>1 DEF ReadIsFiled
<1>2. ASSUME NEW m \in communication, NEW row, analysis' = [analysis EXCEPT ![m] = row] PROVE ReadIsFiled'
  BY <1>0, <1>2 DEF ReadIsFiled
<1>3. ASSUME NEW m \in Mails, AskAgain(m) PROVE ReadIsFiled'
  BY <1>1, <1>2, <1>3 DEF AskAgain
<1>4. ASSUME NEW m \in Mails, AnalysisLeaseEnds(m) PROVE ReadIsFiled'
  <2>1. \A k \in Mails : analysis'[k].status = analysis[k].status
    BY <1>0, <1>4 DEF AnalysisLeaseEnds, Analysis
  <2>2. QED BY <2>1 DEF ReadIsFiled
<1>5. ASSUME NEW h \in Handlers, TakeAnalysis(h) \/ ModelFails(h) \/ ModelAnswers(h) \/ Report(h)
      PROVE  ReadIsFiled'
  <2>1. handler[h].mail \in communication
    BY <1>5 DEF Filed, Grounded, TakeAnalysis, ModelFails, ModelAnswers, Report
  <2>2. UNCHANGED analysis \/ (\E row : analysis' = [analysis EXCEPT ![handler[h].mail] = row])
    <3>1. CASE TakeAnalysis(h)
      BY <3>1 DEF TakeAnalysis
    <3>2. CASE ModelFails(h)
      BY <3>2 DEF ModelFails
    <3>3. CASE ModelAnswers(h)
      BY <3>3 DEF ModelAnswers
    <3>4. CASE Report(h)
      BY <3>4 DEF Report
    <3>5. QED BY <1>5, <3>1, <3>2, <3>3, <3>4
  <2>3. QED BY <2>1, <2>2, <1>1, <1>2
<1>6. ASSUME NEW m \in Mails, Arrive(m) \/ Ingest(m) \/ MarkSeen(m) \/ InboundLeaseEnds(m)
      PROVE  UNCHANGED analysis
  BY <1>6 DEF Arrive, Ingest, MarkSeen, InboundLeaseEnds
<1>7. ASSUME NEW h \in Handlers, Persist(h) \/ Confirm(h) \/ Produce(h) \/ SettleInbound(h) \/ HandlerDies(h)
      PROVE  UNCHANGED analysis
  BY <1>7 DEF Persist, Confirm, Produce, SettleInbound, HandlerDies
<1>8. ASSUME PollEnds \/ PersonActs \/ Aside \/ (\E r \in Recoverers, m \in Mails : ClaimInbound(r, m))
      PROVE  UNCHANGED analysis
  BY <1>8 DEF PollEnds, PersonActs, Aside, ClaimInbound
<1>9. QED BY <1>1, <1>3, <1>4, <1>5, <1>6, <1>7, <1>8 DEF Next, Step

\* What stands on mails is what the property says of each fact.
LEMMA FactsStandOnMails ==
  ASSUME ReplyInv, Filed, StandsOnMails
  PROVE  OnlyFiledMailsCount
<1>1. \A i \in DOMAIN confirmations :
        confirmations[i].by # Person => confirmations[i].by \in communication
  BY DEF StandsOnMails, EntriesAreFiled, Writers
<1>2. \A i \in DOMAIN productions : productions[i].by \in Mails
  BY WritersType DEF ReplyInv
<1>3. \A i \in DOMAIN productions : productions[i].by \in communication
  BY <1>2, ReplyAssumption DEF StandsOnMails, EntriesAreFiled, Writers
<1>4. QED BY <1>1, <1>3 DEF OnlyFiledMailsCount, StandsOnMails, ReadIsFiled, Filed

\* No mail is lost between the mailbox and the order, whatever dies between its storing
\* and its settlement (mail-router.ts, inbound-mail-handler.ts, repository.ts).
THEOREM MailsAreNotLost == Spec => []MailsAreAccountedFor
<1> DEFINE Inv == ReplyInv /\ Filed /\ JobsInHand /\ MailsAreAccountedFor
<1>1. Init => Inv
  <2>1. Init => MailsAreAccountedFor
    BY DEF Init, MailsAreAccountedFor
  <2>2. QED BY <2>1, InitReply, LedgerOpens
<1>2. Inv /\ [Next]_vars => Inv'
  BY ReplyStep, LedgerStep, AccountsStep
<1>3. QED BY <1>1, <1>2, PTL DEF Spec

\* Nothing on the order but a person's own entries rests on anything but a filed mail of
\* the supplier (procurement-bridge.ts, procurement-ai-reply.ts).
THEOREM StrangersTouchNothing == Spec => []OnlyFiledMailsCount
<1> DEFINE Inv == ReplyInv /\ Filed /\ JobsInHand /\ StandsOnMails
<1>1. Init => Inv
  <2>1. Init => StandsOnMails
    BY DEF Init, StandsOnMails, EntriesAreFiled, ReadIsFiled, Writers
  <2>2. QED BY <2>1, InitReply, LedgerOpens
<1>2. Inv /\ [Next]_vars => Inv'
  <2> SUFFICES ASSUME Inv, [Next]_vars PROVE Inv'
    OBVIOUS
  <2>1. (ReplyInv /\ Filed /\ JobsInHand)'
    BY ReplyStep, LedgerStep
  <2>2. communication \subseteq communication'
    BY EveryStepGrows DEF Grows, vars
  <2>3. ReadIsFiled'
    <3>1. CASE Next
      BY <3>1, <2>2, ReadingStep DEF StandsOnMails
    <3>2. CASE UNCHANGED vars
      BY <3>2 DEF vars, StandsOnMails, ReadIsFiled
    <3>3. QED BY <3>1, <3>2
  <2>4. EntriesAreFiled(Writers(confirmations))' /\ EntriesAreFiled(Writers(productions))'
    BY <2>2, EntriesStep DEF StandsOnMails
  <2>5. QED BY <2>1, <2>3, <2>4 DEF StandsOnMails
<1>3. Inv => OnlyFiledMailsCount
  BY FactsStandOnMails
<1>4. QED BY <1>1, <1>2, <1>3, PTL DEF Spec

\* How a mail was settled is never taken back, nor settled anew (repository.ts).
THEOREM SettledMailIsFinal == Spec => SettledMailStays
<1> DEFINE Inv == ReplyInv /\ Filed /\ JobsInHand
<1>1. Init => Inv
  BY InitReply, LedgerOpens
<1>2. Inv /\ [Next]_vars => Inv'
  BY ReplyStep, LedgerStep
<1>3. Inv /\ [Next]_vars =>
        \A m \in Mails : inbox[m].status \in {"processed", "rejected"} => inbox'[m].status = inbox[m].status
  <2> SUFFICES ASSUME Inv, [Next]_vars, NEW m \in Mails, inbox[m].status \in {"processed", "rejected"}
               PROVE  inbox'[m].status = inbox[m].status
    OBVIOUS
  <2>1. ClosedAs(m) = inbox[m].status
    BY DEF ClosedAs
  <2>2. ClosedAs(m)' = ClosedAs(m)
    BY <2>1, MailsMove
  <2>3. QED BY <2>1, <2>2 DEF ClosedAs
<1>4. QED BY <1>1, <1>2, <1>3, PTL DEF Spec, SettledMailStays
=============================================================================
