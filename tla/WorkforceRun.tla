---------------------------- MODULE WorkforceRun ----------------------------
(***************************************************************************)
(* One run of a published graph: the Temporal workflow                      *)
(* (packages/temporal-runtime/src/workflows.ts), the activities of its      *)
(* worker (apps/temporal-worker/src/index.ts), the run row and the approval *)
(* decisions the API keeps (apps/api/src/index.ts, editor-approval.ts), and *)
(* the ActionGateway the activities call back into.                         *)
(*                                                                         *)
(* Temporal replays a workflow from its history, so the workflow itself     *)
(* does not fail; activities, requests and the API process do.  A step is   *)
(* the code between two awaits of one of these parties.                     *)
(***************************************************************************)
EXTENDS ActionGateway

CONSTANTS
  Nodes,         \* nodes of the graph; action nodes are the Keys of the gateway
  Approvals,     \* nodes of kind "approval"
  Waits,         \* nodes of type logic.wait_event
  Timed,         \* waits with a timeout
  Roots,         \* workflowRootNodeIds
  Succ,          \* outgoing edges
  Users,         \* approvers with a session
  Says,          \* the conclusions an approver of this instance may choose
  RunModes,      \* the modes this instance exercises
  MaxActivity,   \* maximumAttempts of the activity retry policy
  MaxFaults,     \* bound on crashes and failed calls of the API
  NoNode, NoAsk

ASSUME GraphAssumption ==
  /\ IsFiniteSet(Nodes) /\ Keys \subseteq Nodes /\ Approvals \subseteq Nodes /\ Waits \subseteq Nodes
  /\ Timed \subseteq Waits /\ Roots \subseteq Nodes /\ Roots # {}
  /\ Keys \cap (Approvals \cup Waits) = {} /\ Approvals \cap Waits = {}
  /\ Succ \in [Nodes -> SUBSET Nodes]
  /\ NoNode \notin Nodes /\ RunModes \subseteq {"autonomous", "supervised", "shadow"}
ASSUME UsersAssumption == Says \in [Users -> SUBSET {"approved", "rejected"}]
ASSUME RunBoundsAssumption == MaxActivity \in Nat \ {0} /\ MaxFaults \in Nat

Decisions == {"approved", "rejected"}
Closed == {"completed", "rejected", "failed", "cancelled"}
Active == {"queued", "running", "waiting_approval", "waiting_external"}

VARIABLES
  mode,      \* mode of the run, frozen into the workflow's input
  wf,        \* state of the workflow function: status, node, where it awaits
  todo, visited, budget,
  gate,      \* WorkflowSignalGate: the open wait, the signal taken, early events
  transit,   \* signals Temporal accepted and the workflow has not handled
  audit,     \* approvalAudit: the decision taken at a node
  activity,  \* the executeNode activity under way: attempt and progress
  late,      \* timed out attempts that still mean to call the gateway
  told,      \* receipt kept as the node's output
  run,       \* control_workflow_runs: status, temporalWorkflowId known
  starting,  \* POST /api/editor/runs awaits the start of the workflow
  claim,     \* control_temporal_approval_decisions
  ask,       \* approve or reject requests under way
  faults

workflow == <<wf, todo, visited, budget, gate, audit>>
worker == <<activity, late, told>>
api == <<run, starting, claim, ask>>
vars == <<gateway, mode, workflow, transit, worker, api, faults>>

Receipts == {"none", "ok", "failed", "retryable", "manual", "busy"}
Steps == {"idle", "telling", "gate", "node", "report"}
AskState == [node : Nodes, decision : Decisions, seen : BOOLEAN, phase : {"answered", "signalling", "accepted"}]

TypeOK ==
  /\ GatewayTypeOK
  /\ mode \in RunModes
  /\ wf \in [status : Active \cup Closed, node : Nodes \cup {NoNode}, step : Steps \cup {"unstarted", "closed"}]
  /\ todo \subseteq Nodes /\ visited \subseteq Nodes /\ budget \in {0, 1}
  /\ gate \in [wait : Nodes \cup {NoNode}, signal : Decisions \cup {"none", "event"}, early : SUBSET Waits]
  /\ transit \subseteq (Nodes \X (Decisions \cup {"event"}))
  /\ audit \in [Nodes -> Decisions \cup {"none"}]
  /\ activity \in [attempt : 0..MaxActivity, at : {"none", "started", "calling", "answered"}]
  /\ late \in [Keys -> 0..MaxActivity]
  /\ told \in [Keys -> Receipts]
  /\ run \in [status : Active \cup Closed \cup {"absent"}, linked : BOOLEAN]
  /\ starting \in {"no", "asked", "accepted"}
  /\ claim \in [Nodes -> [status : {"absent", "pending", "sent", "failed"}, decision : Decisions \cup {"none"}, by : Users \cup {NoAsk}, leased : BOOLEAN]]
  /\ ask \in [Users -> AskState \cup {NoAsk}]
  /\ faults \in 0..MaxFaults

Init ==
  /\ GatewayInit
  /\ mode \in RunModes
  /\ wf = [status |-> "running", node |-> NoNode, step |-> "unstarted"]
  /\ todo = Roots /\ visited = {} /\ budget = 0
  /\ gate = [wait |-> NoNode, signal |-> "none", early |-> {}]
  /\ transit = {}
  /\ audit = [n \in Nodes |-> "none"]
  /\ activity = [attempt |-> 0, at |-> "none"]
  /\ late = [k \in Keys |-> 0]
  /\ told = [k \in Keys |-> "none"]
  /\ run = [status |-> "absent", linked |-> FALSE]
  /\ starting = "no"
  /\ claim = [n \in Nodes |-> [status |-> "absent", decision |-> "none", by |-> NoAsk, leased |-> FALSE]]
  /\ ask = [u \in Users |-> NoAsk]
  /\ faults = 0

Fault == faults < MaxFaults /\ faults' = faults + 1

-----------------------------------------------------------------------------
(***************************************************************************)
(* Starting the run: claimRun, temporal.start, updateRun.                   *)
(***************************************************************************)
ClaimRun ==
  /\ run.status = "absent"
  /\ run' = [run EXCEPT !.status = "queued"]
  /\ starting' = "asked"
  /\ UNCHANGED <<gateway, mode, workflow, transit, worker, claim, ask, faults>>

StartAccepted ==
  /\ starting = "asked"
  /\ starting' = "accepted"
  /\ wf' = [wf EXCEPT !.step = "idle"]
  /\ UNCHANGED <<gateway, mode, todo, visited, budget, gate, audit, transit, worker, run, claim, ask, faults>>

\* The answer may come after callbacks of the run, and overwrites their status.
StartAnswered ==
  /\ starting = "accepted"
  /\ starting' = "no"
  /\ run' = [status |-> "running", linked |-> TRUE]
  /\ UNCHANGED <<gateway, mode, workflow, transit, worker, claim, ask, faults>>

\* A timeout or an error: whether the workflow started is not known.
StartFails ==
  /\ starting # "no" /\ Fault
  /\ starting' = "no"
  /\ run' = [run EXCEPT !.status = "failed"]
  /\ UNCHANGED <<gateway, mode, workflow, transit, worker, claim, ask>>

-----------------------------------------------------------------------------
(***************************************************************************)
(* workforceGraphWorkflow.                                                  *)
(***************************************************************************)
\* updateRun, or the callback of nodes/start: the run row takes the status.
Callback(status) == run' = [run EXCEPT !.status = status]

\* Wrong: one approval pays for every action that follows.
SpendNothing(n) == budget

\* An action of a supervised run uses up what an approval node granted.
Spend(n) == IF n \in Keys /\ mode = "supervised" THEN 0 ELSE budget

NeedsApproval(n) ==
  \/ n \in Approvals /\ mode # "shadow"
  \/ n \in Keys /\ mode = "supervised" /\ budget = 0

\* The next node of the queue; the run's status and pendingApproval are set here.
NextNode(n) ==
  /\ wf.step = "idle" /\ n \in todo
  /\ todo' = todo \ {n}
  /\ \/ /\ NeedsApproval(n)
        /\ wf' = [status |-> "waiting_approval", node |-> n, step |-> "telling"]
        /\ UNCHANGED <<budget, activity>>
     \/ /\ n \in Waits /\ mode # "shadow"
        /\ wf' = [status |-> "waiting_external", node |-> n, step |-> "telling"]
        /\ UNCHANGED <<budget, activity>>
     \/ /\ ~NeedsApproval(n) /\ ~(n \in Waits /\ mode # "shadow")
        /\ wf' = [status |-> "running", node |-> n, step |-> "node"]
        /\ budget' = Spend(n)
        /\ activity' = [attempt |-> 1, at |-> "none"]
  /\ UNCHANGED <<gateway, mode, visited, gate, audit, transit, late, told, api, faults>>

\* The updateRun activity is done: only now does the gate listen.
OpenGate ==
  /\ wf.step = "telling"
  /\ Callback(wf.status)
  /\ wf' = [wf EXCEPT !.step = "gate"]
  /\ gate' = [wait |-> wf.node,
              signal |-> IF wf.node \in gate.early THEN "event" ELSE "none",
              early |-> gate.early \ {wf.node}]
  /\ UNCHANGED <<gateway, mode, todo, visited, budget, audit, transit, worker, starting, claim, ask, faults>>

\* offerApproval drops what no wait asked for; an external event is kept early.
HandleSignal(s) ==
  /\ s \in transit /\ wf.step # "closed"
  /\ transit' = transit \ {s}
  /\ gate' = IF gate.wait = s[1]
             THEN [gate EXCEPT !.signal = IF @ = "none" THEN s[2] ELSE @]
             ELSE IF s[2] = "event" THEN [gate EXCEPT !.early = @ \cup {s[1]}] ELSE gate
  /\ UNCHANGED <<gateway, mode, wf, todo, visited, budget, audit, worker, api, faults>>

CloseGate == gate' = [gate EXCEPT !.wait = NoNode, !.signal = "none"]

Decide ==
  /\ wf.step = "gate" /\ gate.signal \in Decisions
  /\ audit' = [audit EXCEPT ![wf.node] = gate.signal]
  /\ CloseGate
  /\ \/ /\ gate.signal = "rejected"
        /\ wf' = [wf EXCEPT !.status = "rejected", !.step = "report"]
        /\ UNCHANGED <<budget, activity>>
     \/ /\ gate.signal = "approved"
        /\ wf' = [wf EXCEPT !.step = "node"]
        /\ budget' = IF wf.node \in Approvals THEN 1 ELSE budget
        /\ activity' = [attempt |-> 1, at |-> "none"]
  /\ UNCHANGED <<gateway, mode, todo, visited, transit, late, told, api, faults>>

EventOrTimeout ==
  /\ wf.step = "gate" /\ wf.node \in Waits
  /\ gate.signal = "event" \/ wf.node \in Timed
  /\ CloseGate
  /\ wf' = [wf EXCEPT !.step = "node"]
  /\ activity' = [attempt |-> 1, at |-> "none"]
  /\ UNCHANGED <<gateway, mode, todo, visited, budget, audit, transit, late, told, api, faults>>

\* The result of the activity reaches the workflow: any selection of edges.
NodeDone ==
  /\ wf.step = "node" /\ activity.at = "answered"
  /\ visited' = visited \cup {wf.node}
  /\ \E next \in SUBSET (Succ[wf.node] \ visited') : todo' = todo \cup next
  /\ activity' = [attempt |-> 0, at |-> "none"]
  /\ wf' = [wf EXCEPT !.step = "idle"]
  /\ UNCHANGED <<gateway, mode, budget, gate, audit, transit, late, told, api, faults>>

Finish ==
  /\ wf.step = "idle" /\ todo = {}
  /\ wf' = [status |-> "completed", node |-> NoNode, step |-> "report"]
  /\ UNCHANGED <<gateway, mode, todo, visited, budget, gate, audit, transit, worker, api, faults>>

\* The catch block: any activity that failed for the last time.
Throw ==
  /\ wf' = IF wf.step = "report" /\ wf.status = "failed"
           THEN [wf EXCEPT !.step = "closed"]
           ELSE [wf EXCEPT !.status = "failed", !.step = "report"]
  /\ activity' = [attempt |-> 0, at |-> "none"]
  /\ UNCHANGED <<todo, visited, budget, gate, audit>>

Report ==
  /\ wf.step = "report"
  /\ Callback(wf.status)
  /\ wf' = [wf EXCEPT !.step = "closed"]
  /\ UNCHANGED <<gateway, mode, todo, visited, budget, gate, audit, transit, worker, starting, claim, ask, faults>>

\* Three attempts of updateRun failed; its callback may have arrived all the same.
UpdateRunFails ==
  /\ wf.step \in {"telling", "report"} /\ Fault
  /\ Throw
  /\ Callback(wf.status) \/ UNCHANGED run
  /\ UNCHANGED <<gateway, mode, transit, late, told, starting, claim, ask>>

-----------------------------------------------------------------------------
(***************************************************************************)
(* The executeNode activity.                                                *)
(***************************************************************************)
CallsGateway(n) == n \in Keys /\ mode # "shadow"

StartNodeRun ==
  /\ wf.step = "node" /\ activity.at = "none"
  /\ activity' = [activity EXCEPT !.at = IF CallsGateway(wf.node) THEN "started" ELSE "answered"]
  /\ Callback("running")
  /\ UNCHANGED <<gateway, mode, workflow, transit, late, told, starting, claim, ask, faults>>

\* A receipt is an answer whatever it says; only an error fails the activity.
CallGateway ==
  /\ wf.step = "node" /\ activity.at = "started"
  /\ \E receipt \in Receipts \cup {"join"} :
       /\ Execute(wf.node, receipt)
       /\ activity' = [activity EXCEPT !.at = IF receipt = "join" THEN "calling" ELSE "answered"]
       /\ told' = [told EXCEPT ![wf.node] = IF receipt = "join" THEN @ ELSE receipt]
  /\ UNCHANGED <<mode, workflow, transit, late, api, faults>>

\* Everybody who joined gets the receipt; a timed out attempt has no reader.
GatewayAnswers(k) ==
  /\ ExecutionEnds(k)
  /\ IF exec'[k] = "none" /\ wf.node = k /\ activity.at = "calling"
     THEN /\ activity' = [activity EXCEPT !.at = "answered"]
          /\ told' = [told EXCEPT ![k] = ReceiptOf(row'[k].status)]
     ELSE UNCHANGED <<activity, told>>
  /\ UNCHANGED <<mode, workflow, transit, late, api, faults>>

\* Code of an attempt nobody waits for any more may still reach the gateway.
LeftBehind ==
  \/ UNCHANGED late
  \/ /\ CallsGateway(wf.node) /\ activity.at \in {"none", "started"}
     /\ late' = [late EXCEPT ![wf.node] = @ + 1]

\* Wrong: a failed attempt is always followed by another.
RetryForEver ==
  /\ activity' = [attempt |-> activity.attempt + 1, at |-> "none"]
  /\ UNCHANGED <<wf, todo, visited, budget, gate, audit>>

\* The retry policy of executeNode.
RetryOrThrow ==
  IF activity.attempt < MaxActivity
  THEN /\ activity' = [attempt |-> activity.attempt + 1, at |-> "none"]
       /\ UNCHANGED <<wf, todo, visited, budget, gate, audit>>
  ELSE Throw

\* An error of a callback or of the gateway's answer, or startToCloseTimeout;
\* all failures of one node count as one fault.
ActivityFails ==
  /\ wf.step = "node"
  /\ IF activity.attempt = 1 THEN Fault ELSE UNCHANGED faults
  /\ LeftBehind
  /\ RetryOrThrow
  /\ UNCHANGED <<gateway, mode, transit, told, api>>

LateCall(k) ==
  /\ late[k] > 0
  /\ late' = [late EXCEPT ![k] = @ - 1]
  /\ \E receipt \in Receipts \cup {"join"} : Execute(k, receipt)
  /\ Callback("running") \/ UNCHANGED run
  /\ UNCHANGED <<mode, workflow, transit, activity, told, starting, claim, ask, faults>>

-----------------------------------------------------------------------------
(***************************************************************************)
(* POST /api/editor/runs/:id/approve and reject.                            *)
(***************************************************************************)
Renewable(n) == claim[n].status = "pending" /\ ~claim[n].leased

\* existingEditorApprovalDecision answers a known decision of this user at once.
Known(u, n) == claim[n].status # "absent" /\ claim[n].by = u

Pending(n) == wf.status = "waiting_approval" /\ wf.node = n /\ audit[n] = "none"

\* The query of the workflow's state, seen after an await.  A request that
\* nothing waits for and no own claim answers changes nothing.
Ask(u, n, d) ==
  /\ run.linked /\ ask[u] = NoAsk /\ d \in Says[u]
  /\ Known(u, n) => claim[n].decision = d /\ Renewable(n)
  /\ Pending(n) \/ (Known(u, n) /\ Renewable(n))
  /\ ask' = [ask EXCEPT ![u] = [node |-> n, decision |-> d, seen |-> Pending(n), phase |-> "answered"]]
  /\ UNCHANGED <<gateway, mode, workflow, transit, worker, run, starting, claim, faults>>

\* Nothing is waited for: an own decision whose sender died is settled by the audit.
NotWaiting(u) ==
  LET a == ask[u] IN
  /\ a # NoAsk /\ a.phase = "answered" /\ ~a.seen
  /\ ask' = [ask EXCEPT ![u] = NoAsk]
  /\ claim' = IF Known(u, a.node) /\ Renewable(a.node) /\ audit[a.node] = a.decision
              THEN [claim EXCEPT ![a.node].status = "sent"] ELSE claim
  /\ UNCHANGED <<gateway, mode, workflow, transit, worker, run, starting, faults>>

\* Wrong: a claim whose sender failed is anybody's, whatever the conclusion.
MayClaimAnew(n, d) ==
  \/ claim[n].status \in {"absent", "failed"}
  \/ claim[n].decision = d /\ Renewable(n)

\* claimEditorApprovalDecision: the first conclusion owns the sending.
MayClaim(n, d) ==
  \/ claim[n].status = "absent"
  \/ claim[n].decision = d /\ (claim[n].status = "failed" \/ Renewable(n))

ClaimDecision(u) ==
  LET a == ask[u] IN
  /\ a # NoAsk /\ a.phase = "answered" /\ a.seen
  /\ IF MayClaim(a.node, a.decision)
     THEN /\ claim' = [claim EXCEPT ![a.node] = [status |-> "pending", decision |-> a.decision, by |-> u, leased |-> TRUE]]
          /\ ask' = [ask EXCEPT ![u].phase = "signalling"]
     ELSE /\ ask' = [ask EXCEPT ![u] = NoAsk]
          /\ UNCHANGED claim
  /\ UNCHANGED <<gateway, mode, workflow, transit, worker, run, starting, faults>>

\* Temporal takes a signal for an open workflow only.
SignalAccepted(u) ==
  /\ ask[u] # NoAsk /\ ask[u].phase = "signalling" /\ wf.step # "closed"
  /\ transit' = transit \cup {<<ask[u].node, ask[u].decision>>}
  /\ ask' = [ask EXCEPT ![u].phase = "accepted"]
  /\ UNCHANGED <<gateway, mode, workflow, worker, run, starting, claim, faults>>

MarkSent(u) ==
  /\ ask[u] # NoAsk /\ ask[u].phase = "accepted"
  /\ claim' = [claim EXCEPT ![ask[u].node].status = "sent", ![ask[u].node].leased = FALSE]
  /\ ask' = [ask EXCEPT ![u] = NoAsk]
  /\ UNCHANGED <<gateway, mode, workflow, transit, worker, run, starting, faults>>

\* Wrong: a failed send withdraws the decision.
MarkFailedForgetting(u) ==
  /\ ask[u] # NoAsk /\ ask[u].phase \in {"signalling", "accepted"}
  /\ IF wf.step = "closed" /\ ask[u].phase = "signalling" THEN UNCHANGED faults ELSE Fault
  /\ claim' = [claim EXCEPT ![ask[u].node] = [status |-> "absent", decision |-> "none", by |-> NoAsk, leased |-> FALSE]]
  /\ ask' = [ask EXCEPT ![u] = NoAsk]
  /\ UNCHANGED <<gateway, mode, workflow, transit, worker, run, starting>>

\* A timeout, before or after the signal was taken, or a workflow that is closed.
MarkFailed(u) ==
  /\ ask[u] # NoAsk /\ ask[u].phase \in {"signalling", "accepted"}
  /\ IF wf.step = "closed" /\ ask[u].phase = "signalling" THEN UNCHANGED faults ELSE Fault
  /\ claim' = [claim EXCEPT ![ask[u].node].status = "failed", ![ask[u].node].leased = FALSE]
  /\ ask' = [ask EXCEPT ![u] = NoAsk]
  /\ UNCHANGED <<gateway, mode, workflow, transit, worker, run, starting>>

\* The lease of 60 s outlives the two timeouts of 10 s of the request it serves.
ClaimExpires(n) ==
  /\ claim[n].leased
  /\ \A u \in Users : ask[u] # NoAsk => ~(ask[u].node = n /\ ask[u].phase \in {"signalling", "accepted"})
  /\ claim' = [claim EXCEPT ![n].leased = FALSE]
  /\ UNCHANGED <<gateway, mode, workflow, transit, worker, run, starting, ask, faults>>

-----------------------------------------------------------------------------
(***************************************************************************)
(* External events, cancellation, reconciling reads, the death of the API.  *)
(***************************************************************************)
\* A repeated event, or one for a wait that is over, changes nothing (early
\* events are kept once).
SignalEvent(n) ==
  /\ n \in Waits \ visited /\ n \notin gate.early
  /\ run.linked /\ wf.step # "closed"
  /\ transit' = transit \cup {<<n, "event">>}
  /\ UNCHANGED <<gateway, mode, workflow, worker, api, faults>>

\* An activity under way is not stopped: it may still call the gateway.
Cancel ==
  /\ run.linked /\ wf.step \notin {"unstarted", "closed"} /\ Fault
  /\ wf' = [wf EXCEPT !.status = "failed", !.step = "closed"]
  /\ run' = [run EXCEPT !.status = "cancelled"]
  /\ IF wf.step = "node" THEN LeftBehind ELSE UNCHANGED late
  /\ activity' = [attempt |-> 0, at |-> "none"]
  /\ UNCHANGED <<gateway, mode, todo, visited, budget, gate, audit, transit, told, starting, claim, ask>>

\* Wrong: only queued and running rows are reconciled.
ReconcileRunning(status) ==
  /\ run.linked /\ run.status \in {"queued", "running"}
  /\ run' = [run EXCEPT !.status = status]
  /\ UNCHANGED <<gateway, mode, workflow, transit, worker, starting, claim, ask>>

\* reconcileTemporalRun writes what the query read before its await: the present
\* status, or (a fault) that of a workflow which went on in the meantime.
Reconcile(status) ==
  /\ run.linked /\ run.status \in Active
  /\ run' = [run EXCEPT !.status = status]
  /\ UNCHANGED <<gateway, mode, workflow, transit, worker, starting, claim, ask>>

FreshRead == Reconcile(wf.status) /\ UNCHANGED faults
StaleRead == Fault /\ \E earlier \in Active \ {"queued"} : Reconcile(earlier)

ApiCrash ==
  /\ Fault
  /\ GatewayCrash
  /\ starting' = "no"
  /\ ask' = [u \in Users |-> NoAsk]
  /\ UNCHANGED <<mode, workflow, transit, worker, run, claim>>

\* Wrong: a node waits for its receipt for ever.
AnswerLostQuietly ==
  /\ wf.step = "node" /\ activity.at = "calling" /\ exec[wf.node] = "none"
  /\ UNCHANGED vars

\* A joined execution that died with the process never answers: fetch fails.
AnswerLost ==
  /\ wf.step = "node" /\ activity.at = "calling" /\ exec[wf.node] = "none"
  /\ RetryOrThrow
  /\ UNCHANGED <<gateway, mode, transit, late, told, api, faults>>

Environment(k) ==
  /\ ExternalActs(k) \/ LeaseExpires(k)
  /\ UNCHANGED <<mode, workflow, transit, worker, api, faults>>

Next ==
  \/ ClaimRun \/ StartAccepted \/ StartAnswered \/ StartFails
  \/ OpenGate \/ Decide \/ EventOrTimeout \/ NodeDone \/ Finish \/ Report \/ UpdateRunFails
  \/ StartNodeRun \/ CallGateway \/ ActivityFails \/ AnswerLost
  \/ Cancel \/ FreshRead \/ StaleRead \/ ApiCrash
  \/ \E s \in transit : HandleSignal(s)
  \/ \E n \in Nodes : NextNode(n) \/ ClaimExpires(n) \/ SignalEvent(n)
  \/ \E k \in Keys : GatewayAnswers(k) \/ LateCall(k) \/ Environment(k)
  \/ \E u \in Users :
       \/ \E n \in Nodes, d \in Decisions : Ask(u, n, d)
       \/ NotWaiting(u) \/ ClaimDecision(u)
       \/ SignalAccepted(u) \/ MarkSent(u) \/ MarkFailed(u)

Spec == Init /\ [][Next]_vars

(***************************************************************************)
(* Temporal schedules workflow tasks and activities for ever, every request *)
(* and call ends, time passes, and the console reads the runs it shows.     *)
(* Faults, cancellations and the start of a run are left to chance.  An     *)
(* approver who is asked keeps repeating a conclusion that can still win.   *)
(***************************************************************************)
WorkflowStep ==
  \/ OpenGate \/ Decide \/ EventOrTimeout \/ NodeDone \/ Finish \/ Report
  \/ StartNodeRun \/ CallGateway \/ AnswerLost
  \/ \E n \in Nodes : NextNode(n)

Useful(u, n, d) == Pending(n) /\ claim[n].decision \in {"none", d} /\ Ask(u, n, d)

FairSpec ==
  /\ Spec
  /\ WF_vars(WorkflowStep)
  /\ WF_vars(\E s \in transit : HandleSignal(s))
  /\ WF_vars(\E k \in Keys : GatewayAnswers(k))
  /\ WF_vars(\E n \in Nodes : ClaimExpires(n))
  /\ \A u \in Users : WF_vars(NotWaiting(u) \/ ClaimDecision(u)
                              \/ SignalAccepted(u) \/ MarkSent(u) \/ MarkFailed(u))
  /\ SF_vars(\E u \in Users, n \in Nodes, d \in Decisions : Useful(u, n, d))
  /\ WF_vars(FreshRead)

-----------------------------------------------------------------------------
(* What the node was told is what the gateway stands by, and "ok" was never *)
(* said of an effect that did not happen (executeWorkforceNode keeps the    *)
(* receipt as the node's output).                                           *)
ReportedOutcomeStands ==
  \A k \in Keys :
    /\ told[k] \in {"ok", "manual"} => ReceiptOf(row[k].status) = told[k]
    /\ told[k] = "failed" => row[k].status = "failed"
    /\ told[k] = "ok" => effects[k] > 0

(* In supervised mode every effect is paid for by an approval of its own     *)
(* (approvedSideEffectBudget); in shadow mode nothing reaches the gateway.   *)
EffectsAreApproved ==
  LET acted == {k \in Keys : row[k].status # "absent" \/ outstanding[k] \/ effects[k] > 0}
      approved == {n \in Nodes : audit[n] = "approved"}
  IN /\ mode = "supervised" => Cardinality(acted) <= Cardinality(approved)
     /\ mode = "shadow" => acted = {}

(* The conclusion the workflow acted on is the one the API recorded, however *)
(* many approvers competed and whatever sends were repeated after a crash.   *)
AuditMatchesClaim ==
  \A n \in Nodes : audit[n] # "none" => claim[n].decision = audit[n]

(* The mapping to GovernedRun.  An action counts as released while the       *)
(* workflow is at it, while a timed out attempt may still call, and once     *)
(* the gateway has a row of it.                                              *)
Over == wf.step \in {"report", "closed"}
Acted(k) == row[k].status # "absent" \/ outstanding[k] = TRUE \/ effects[k] > 0
Underway(n) == wf.step = "node" /\ wf.node = n
Released == {k \in Keys : Acted(k) \/ (mode # "shadow" /\ (late[k] > 0 \/ Underway(k)))}
ResultOf(k) == IF row[k].status \in Settled THEN ReceiptOf(row[k].status) ELSE "open"
ToldOf(k) == IF told[k] \in {"ok", "failed", "manual"} THEN told[k] ELSE "open"

G == INSTANCE GovernedRun WITH
       over <- Over,
       recorded <- [n \in Nodes |-> claim[n].decision],
       concluded <- audit,
       released <- Released,
       used <- {k \in Keys : Acted(k)},
       copies <- effects,
       result <- [k \in Keys |-> ResultOf(k)],
       told <- [k \in Keys |-> ToldOf(k)]

(* The run, its worker, the API and the gateway together keep what           *)
(* GovernedRun promises: through competing approvers, lost signals, timed    *)
(* out attempts, cancellation and crashes, an approval releases one action,  *)
(* and a run that is over releases none.                                     *)
Governed == G!Spec

(* The ways a run can wait for ever: for an event that does not come, or for *)
(* a decision when it was never linked to its workflow, when the decision    *)
(* was signalled before the gate opened and is recorded as sent, and when    *)
(* those who would repeat it are told that it is being processed.            *)
Stuck ==
  /\ wf.step = "gate" /\ gate.signal = "none" /\ \A s \in transit : s[1] # wf.node
  /\ \/ wf.node \in Waits \ Timed
     \/ wf.node \notin Waits /\ ~run.linked
     \/ claim[wf.node].status = "sent"
     \/ /\ claim[wf.node].status = "failed"
        /\ \A u \in Users : claim[wf.node].decision \in Says[u] => claim[wf.node].by = u

(* Every started run ends, unless it gets stuck in one of these ways.        *)
RunSettles == (wf.step = "idle") ~> (wf.step = "closed" \/ Stuck)

(* The row of a run that has ended does not stay active.                     *)
RowSettles == <>[](wf.step = "closed" /\ run.linked => run.status \in Closed)

(* editor-approval.ts 91: a failed send of the same conclusion may be retried. *)
FailedSendIsRetried ==
  \A n \in Nodes : (claim[n].status = "failed" /\ Pending(n)) ~> (claim[n].status # "failed" \/ ~Pending(n))

=============================================================================
