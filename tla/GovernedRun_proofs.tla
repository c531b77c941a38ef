------------------------- MODULE GovernedRun_proofs -------------------------
(***************************************************************************)
(* WorkforceRun keeps what GovernedRun promises: each of its steps is one   *)
(* of the promise's, or changes nothing the promise speaks of.  The proof   *)
(* rests on the invariant of WorkforceRun_proofs before and after the step. *)
(***************************************************************************)
EXTENDS WorkforceRun_proofs

\* The count that GovernedRun speaks of is the library's.
LEMMA SameCount == \A S : G!Cardinality(S) = Cardinality(S)
BY Zenon DEF G!Cardinality, Cardinality

\* What is counted as paid for holds of every state of the run.
LEMMA EveryStatePaid == ASSUME Inv PROVE G!Paid
<1>1. CASE mode # "supervised"
  BY <1>1 DEF G!Paid
<1>2. CASE mode = "supervised"
  <2>1. Released = Engaged
    BY <1>2 DEF Released, Engaged
  <2>2. Engaged \subseteq Nodes /\ Approved \subseteq Nodes /\ budget \in {0, 1}
    BY GraphAssumption DEF Engaged, Approved, Inv, FlowInv, FlowTypeOK
  <2>3. Cardinality(Engaged) \in Nat /\ Cardinality(Approved) \in Nat
    BY <2>2, Counting
  <2>4. Cardinality(Engaged) <= Cardinality(Approved)
    BY <1>2, <2>2, <2>3 DEF Inv, PaidInv
  <2>5. QED BY <2>1, <2>4, SameCount DEF G!Paid, Approved
<1>3. QED BY <1>1, <1>2

\* A step that begins nothing, settles nothing and says nothing can only give actions up or end the run.
LEMMA QuietStep ==
  ASSUME UNCHANGED <<mode, audit, outstanding, effects, told>>,
         \A k \in Keys : row'[k].status = row[k].status,
         \A n \in Nodes : claim'[n].decision = claim[n].decision,
         Over => Over',
         \A k \in Keys : late'[k] > 0 \/ Underway(k)' => late[k] > 0 \/ Underway(k)
  PROVE  G!Stop
<1>1. \A k \in Keys : Acted(k)' <=> Acted(k)
  BY DEF Acted
<1>2. {k \in Keys : Acted(k)}' = {k \in Keys : Acted(k)}
  BY <1>1
<1>3. Released' \subseteq Released /\ {k \in Keys : Acted(k)} \subseteq Released'
  BY <1>1 DEF Released
<1>4. [k \in Keys |-> ResultOf(k)]' = [k \in Keys |-> ResultOf(k)]
  BY DEF ResultOf
<1>5. [k \in Keys |-> ToldOf(k)]' = [k \in Keys |-> ToldOf(k)]
  BY DEF ToldOf
<1>6. [n \in Nodes |-> claim[n].decision]' = [n \in Nodes |-> claim[n].decision]
  OBVIOUS
<1>7. QED BY <1>2, <1>3, <1>4, <1>5, <1>6 DEF G!Stop

\* Steps of the workflow, of the start and of the API that neither decide nor reach a node.
LEMMA WorkflowIsQuiet ==
  ASSUME Inv, Next,
         \/ StartAccepted \/ OpenGate \/ EventOrTimeout \/ NodeDone \/ Finish \/ Report \/ UpdateRunFails
         \/ StartNodeRun \/ ActivityFails \/ AnswerLost \/ Cancel
  PROVE  G!Stop
<1>0. /\ wf \in [status : Active \cup Closed, node : Nodes \cup {NoNode}, step : Steps \cup {"unstarted", "closed"}]
      /\ \A k \in Keys : late'[k] > 0 => late[k] > 0 \/ Underway(k)
      /\ Keys \cap Waits = {}
  BY LateStep, GraphAssumption DEF Inv, FlowInv, FlowTypeOK
<1>1. UNCHANGED <<mode, audit, gateway, told, claim>>
  BY DEF StartAccepted, OpenGate, EventOrTimeout, NodeDone, Finish, Report, UpdateRunFails, StartNodeRun,
     ActivityFails, AnswerLost, RetryOrThrow, Throw, Cancel, workflow, worker, api
<1>2. \/ wf' = wf
      \/ wf.step \in {"unstarted", "node"} /\ wf' = [wf EXCEPT !.step = "idle"]
      \/ wf.step = "telling" /\ wf' = [wf EXCEPT !.step = "gate"]
      \/ wf.step = "gate" /\ wf.node \in Waits /\ wf' = [wf EXCEPT !.step = "node"]
      \/ wf' = [status |-> "completed", node |-> NoNode, step |-> "report"]
      \/ wf' = [wf EXCEPT !.step = "closed"]
      \/ wf' = [wf EXCEPT !.status = "failed", !.step = "report"]
      \/ wf' = [wf EXCEPT !.status = "failed", !.step = "closed"]
  <2>1. CASE StartAccepted
    BY <2>1 DEF StartAccepted, Inv, StartInv
  <2>2. CASE OpenGate \/ EventOrTimeout \/ NodeDone \/ Finish \/ Report
    BY <2>2 DEF OpenGate, EventOrTimeout, NodeDone, Finish, Report
  <2>3. CASE UpdateRunFails \/ StartNodeRun \/ ActivityFails \/ AnswerLost \/ Cancel
    BY <2>3 DEF UpdateRunFails, StartNodeRun, ActivityFails, AnswerLost, RetryOrThrow, Throw, Cancel, workflow
  <2>4. QED BY <2>1, <2>2, <2>3
<1>3. Over => Over'
  <2>1. CASE wf' = wf
    BY <2>1 DEF Over
  <2>2. CASE wf.step \in {"unstarted", "node", "telling", "gate"}
    BY <2>2 DEF Over
  <2>3. CASE wf' = [status |-> "completed", node |-> NoNode, step |-> "report"] \/ wf' = [wf EXCEPT !.step = "closed"]
    BY <1>0, <2>3 DEF Over
  <2>4. CASE \/ wf' = [wf EXCEPT !.status = "failed", !.step = "report"]
             \/ wf' = [wf EXCEPT !.status = "failed", !.step = "closed"]
    BY <1>0, <2>4 DEF Over
  <2>5. QED BY <1>2, <2>1, <2>2, <2>3, <2>4
<1>4. \A k \in Keys : Underway(k)' => Underway(k)
  <2>1. CASE wf' = wf
    BY <2>1 DEF Underway
  <2>2. CASE wf.node \in Waits /\ wf' = [wf EXCEPT !.step = "node"]
    BY <1>0, <2>2 DEF Underway
  <2>3. CASE wf'.step # "node"
    BY <2>3 DEF Underway
  <2>4. CASE \/ wf' = [wf EXCEPT !.status = "failed", !.step = "report"]
             \/ wf' = [wf EXCEPT !.status = "failed", !.step = "closed"]
    BY <1>0, <2>3, <2>4
  <2>5. CASE \/ wf' = [wf EXCEPT !.step = "idle"] \/ wf' = [wf EXCEPT !.step = "gate"]
             \/ wf' = [status |-> "completed", node |-> NoNode, step |-> "report"] \/ wf' = [wf EXCEPT !.step = "closed"]
    BY <1>0, <2>3, <2>5
  <2>6. QED BY <1>2, <2>1, <2>2, <2>4, <2>5
<1>5. QED BY <1>0, <1>1, <1>3, <1>4, QuietStep DEF gateway

\* Requests, signals, reads, the lapse of leases and the death of the API.
LEMMA BesideIsQuiet ==
  ASSUME Inv, Aside, UNCHANGED <<outstanding, effects>>,
         \A k \in Keys : row'[k].status = row[k].status,
         \A n \in Nodes : claim'[n].decision = claim[n].decision
  PROVE  G!Stop
<1>1. UNCHANGED flow
  BY AsideLeavesFlow
<1>2. UNCHANGED told
  BY DEF Aside, ClaimRun, StartAnswered, StartFails, FreshRead, StaleRead, Reconcile, ApiCrash,
     HandleSignal, ClaimExpires, SignalEvent, Environment, Ask, NotWaiting, ClaimDecision,
     SignalAccepted, MarkSent, MarkFailed, worker
<1>3. QED BY <1>1, <1>2, QuietStep DEF flow, Over, Underway

\* A claim records the first conclusion of its node, or repeats it.
LEMMA RequestsRecord ==
  ASSUME Inv, NEW u \in Users, ClaimDecision(u)
  PROVE  (\E n \in Nodes : G!Record(n)) \/ \A n \in Nodes : claim'[n].decision = claim[n].decision
<1>0. /\ claim \in [Nodes -> Claims] /\ ask[u] \in AskState
      /\ \A n \in Nodes : claim[n].status = "absent" => claim[n].decision = "none"
  BY DEF Inv, ClaimInv, SignalTypeOK, ClaimDecision
<1>1. CASE UNCHANGED claim
  BY <1>1
<1>2. CASE /\ MayClaim(ask[u].node, ask[u].decision)
           /\ claim' = [claim EXCEPT ![ask[u].node] = [status |-> "pending", decision |-> ask[u].decision, by |-> u, leased |-> TRUE]]
  <2>1. /\ ask[u].node \in Nodes /\ ask[u].decision \in G!Conclusions
    BY <1>0 DEF AskState, Decisions, G!Conclusions
  <2>2. \A n \in Nodes : claim'[n].decision = IF n = ask[u].node THEN ask[u].decision ELSE claim[n].decision
    BY <1>0, <1>2
  <2>3. CASE claim[ask[u].node].status = "absent"
    <3>1. claim[ask[u].node].decision = "none"
      BY <1>0, <2>1, <2>3
    <3>2. [n \in Nodes |-> claim[n].decision]' = [[n \in Nodes |-> claim[n].decision] EXCEPT ![ask[u].node] = ask[u].decision]
      BY <2>1, <2>2
    <3>3. UNCHANGED <<gateway, mode, workflow, worker>>
      BY DEF ClaimDecision
    <3>4. /\ UNCHANGED <<mode, audit, effects>> /\ Over' = Over /\ Released' = Released
          /\ {k \in Keys : Acted(k)}' = {k \in Keys : Acted(k)}
          /\ [k \in Keys |-> ResultOf(k)]' = [k \in Keys |-> ResultOf(k)]
          /\ [k \in Keys |-> ToldOf(k)]' = [k \in Keys |-> ToldOf(k)]
      BY <3>3 DEF gateway, workflow, worker, Over, Released, Acted, Underway, ResultOf, ToldOf
    <3>5. PICK n \in Nodes : n = ask[u].node
      BY <2>1
    <3>6. G!Record(n)
      BY <2>1, <3>1, <3>2, <3>4, <3>5 DEF G!Record
    <3>7. QED BY <3>6
  <2>4. CASE claim[ask[u].node].status # "absent"
    BY <1>2, <2>2, <2>4 DEF MayClaim
  <2>5. QED BY <2>3, <2>4
<1>3. QED BY <1>1, <1>2 DEF ClaimDecision

\* The next node may be an action, which is then released.
LEMMA NextNodeReleases ==
  ASSUME Inv, Inv', NEW n \in Nodes, NextNode(n)
  PROVE  G!Stop \/ \E k \in Keys : G!Release(k)
<1>0. /\ UNCHANGED <<gateway, mode, audit, late, told, claim>> /\ ~Over /\ ~Over'
      /\ \A k \in Keys : Underway(k)' => k = n
  BY DEF NextNode, Over, Underway, api
<1>1. \A k \in Keys : Acted(k)' <=> Acted(k)
  BY <1>0 DEF Acted, gateway
<1>2. CASE n \in Keys /\ mode # "shadow" /\ Underway(n)' /\ n \notin Released
  <2>1. ~\E k \in Keys : Underway(k)
    BY DEF NextNode, Underway
  <2>2. Released' = Released \cup {n}
    BY <1>0, <1>1, <1>2, <2>1 DEF Released
  <2>3. G!Paid'
    BY EveryStatePaid, SameCount, PTL
  <2>4. /\ {k \in Keys : Acted(k)}' = {k \in Keys : Acted(k)}
        /\ [k \in Keys |-> ResultOf(k)]' = [k \in Keys |-> ResultOf(k)]
        /\ [k \in Keys |-> ToldOf(k)]' = [k \in Keys |-> ToldOf(k)]
        /\ [m \in Nodes |-> claim[m].decision]' = [m \in Nodes |-> claim[m].decision]
        /\ UNCHANGED effects /\ Over' = Over
    BY <1>0, <1>1 DEF ResultOf, ToldOf, gateway, NextNode, Over
  <2>5. G!Release(n)
    BY <1>0, <1>2, <2>2, <2>3, <2>4 DEF G!Release
  <2>6. QED BY <1>2, <2>5
<1>3. CASE ~(n \in Keys /\ mode # "shadow" /\ Underway(n)' /\ n \notin Released)
  <2>1. Released' \subseteq Released /\ {k \in Keys : Acted(k)} \subseteq Released'
    BY <1>0, <1>1, <1>3 DEF Released
  <2>2. /\ {k \in Keys : Acted(k)}' = {k \in Keys : Acted(k)}
        /\ [k \in Keys |-> ResultOf(k)]' = [k \in Keys |-> ResultOf(k)]
        /\ [k \in Keys |-> ToldOf(k)]' = [k \in Keys |-> ToldOf(k)]
        /\ [m \in Nodes |-> claim[m].decision]' = [m \in Nodes |-> claim[m].decision]
        /\ UNCHANGED effects
    BY <1>0, <1>1 DEF ResultOf, ToldOf, gateway
  <2>3. QED BY <1>0, <2>1, <2>2 DEF G!Stop
<1>4. QED BY <1>2, <1>3

\* The conclusion the workflow acts on is the one recorded; an approved action is released.
LEMMA DecideConcludes ==
  ASSUME Inv, Inv', Decide PROVE \E n \in Nodes : G!Conclude(n)
<1> DEFINE n == wf.node
<1>0. /\ wf \in [status : Active \cup Closed, node : Nodes \cup {NoNode}, step : Steps \cup {"unstarted", "closed"}]
      /\ wf.step = "gate" /\ n \in Nodes /\ audit[n] = "none" /\ claim[n].decision = gate.signal
      /\ gate.signal \in G!Conclusions
      /\ audit' = [audit EXCEPT ![n] = gate.signal]
      /\ UNCHANGED <<gateway, mode, late, told, claim>>
  BY DEF Decide, Inv, FlowInv, FlowTypeOK, PathInv, AuditInv, Underway, Over, ClaimInv, Recorded, api,
     Decisions, G!Conclusions
<1>1. ~Over /\ \A k \in Keys : ~Underway(k)
  BY <1>0 DEF Over, Underway
<1>2. /\ gate.signal = "rejected" => wf' = [wf EXCEPT !.status = "rejected", !.step = "report"]
      /\ gate.signal # "rejected" => wf' = [wf EXCEPT !.step = "node"]
  BY DEF Decide
<1>3. Over' <=> gate.signal = "rejected"
  BY <1>0, <1>2 DEF Over
<1>4. \A k \in Keys : Underway(k)' <=> gate.signal = "approved" /\ k = n
  BY <1>0, <1>2 DEF Underway, G!Conclusions
<1>5. /\ \A k \in Keys : Acted(k)' <=> Acted(k)
      /\ {k \in Keys : Acted(k)}' = {k \in Keys : Acted(k)}
  BY <1>0 DEF Acted, gateway
<1>6. Released' = IF gate.signal = "approved" /\ n \in Keys /\ mode # "shadow" THEN Released \cup {n} ELSE Released
  BY <1>0, <1>1, <1>4, <1>5 DEF Released
<1>7. G!Paid'
  BY EveryStatePaid, SameCount, PTL
<1>8. /\ [k \in Keys |-> ResultOf(k)]' = [k \in Keys |-> ResultOf(k)]
      /\ [k \in Keys |-> ToldOf(k)]' = [k \in Keys |-> ToldOf(k)]
      /\ [m \in Nodes |-> claim[m].decision]' = [m \in Nodes |-> claim[m].decision]
      /\ UNCHANGED effects
  BY <1>0 DEF ResultOf, ToldOf, gateway
<1>9. [m \in Nodes |-> claim[m].decision][n] = gate.signal
  BY <1>0
<1>10. Over' = (gate.signal = "rejected")
  BY <1>3 DEF Over
<1> HIDE DEF n
<1>11. G!Conclude(n)
  <2> DEFINE recorded == [m \in Nodes |-> claim[m].decision]
  <2>1. audit' = [audit EXCEPT ![n] = recorded[n]] /\ recorded[n] \in G!Conclusions
    BY <1>0, <1>9
  <2>2. Over' = (recorded[n] = "rejected")
    BY <1>9, <1>10
  <2>3. Released' = IF recorded[n] = "approved" /\ n \in Keys /\ mode # "shadow" THEN Released \cup {n} ELSE Released
    BY <1>6, <1>9
  <2>4. ~Over /\ audit[n] = "none" /\ mode' = mode
    BY <1>0, <1>1
  <2>5. QED BY <1>5, <1>7, <1>8, <2>1, <2>2, <2>3, <2>4, Zenon DEF G!Conclude
<1>12. QED BY <1>0, <1>11

-----------------------------------------------------------------------------
(***************************************************************************)
(* The action gateway.                                                     *)
(***************************************************************************)
\* What a caller reads of a receipt, once it has one.
Shown(receipt) == IF receipt \in {"ok", "failed", "manual"} THEN receipt ELSE "open"

\* A caller finds the result, or begins the action, or ends it unbegun; it is told what is stored.
LEMMA ExecuteShows ==
  ASSUME GatewayInv, NEW k \in Keys, NEW receipt \in Receipts \cup {"join"}, Execute(k, receipt)
  PROVE  /\ Acted(k)' /\ UNCHANGED effects
         /\ \A j \in Keys \ {k} : row'[j] = row[j] /\ outstanding'[j] = outstanding[j]
         /\ ResultOf(k)' = ResultOf(k) \/ (ResultOf(k) = "open" /\ ResultOf(k)' = "failed")
         /\ ~Acted(k) => ResultOf(k) = "open"
         /\ receipt # "join" => ResultOf(k)' = Shown(receipt)
<1>0. row \in [Keys -> Row] /\ outstanding \in [Keys -> BOOLEAN] /\ KeyOK(k)
  BY DEF GatewayInv, GatewayTypeOK, Row
<1>1. ~Acted(k) => ResultOf(k) = "open"
  BY DEF Acted, ResultOf, Settled
<1>2. CASE Replay(k, receipt)
  BY <1>0, <1>1, <1>2 DEF Replay, gateway, Acted, ResultOf, ReceiptOf, Settled, Shown
<1>3. CASE Join(k, receipt)
  BY <1>0, <1>1, <1>3 DEF Join, gateway, Acted, ResultOf, KeyOK
<1>4. CASE Busy(k, receipt)
  BY <1>0, <1>1, <1>4 DEF Busy, gateway, Acted, ResultOf, Settled, Shown
<1>5. CASE Deny(k, receipt) \/ Exhaust(k, receipt)
  <2>1. /\ row' \in [Keys -> Row] /\ row'[k].status = "failed" /\ receipt = "failed"
        /\ row[k].status \notin Settled /\ UNCHANGED <<outstanding, effects>>
        /\ \A j \in Keys \ {k} : row'[j] = row[j]
    <3>1. GatewayInv'
      BY <1>5, ExecuteStep DEF Execute
    <3>2. CASE Deny(k, receipt)
      BY <1>0, <3>1, <3>2 DEF Deny, GatewayInv, GatewayTypeOK, Row
    <3>3. CASE Exhaust(k, receipt)
      BY <1>0, <3>1, <3>3 DEF Exhaust, GatewayInv, GatewayTypeOK, Row, Settled
    <3>4. QED BY <1>5, <3>2, <3>3
  <2>2. ResultOf(k) = "open" /\ ResultOf(k)' = "failed"
    BY <2>1 DEF ResultOf, ReceiptOf, Settled
  <2>3. QED BY <1>1, <2>1, <2>2 DEF Acted, Shown
<1>6. CASE Reserve(k, receipt)
  <2>1. /\ row' = [row EXCEPT ![k] = [status |-> "pending", leased |-> TRUE, attempt |-> row[k].attempt + 1]]
        /\ outstanding' = [outstanding EXCEPT ![k] = TRUE] /\ UNCHANGED effects
        /\ receipt = "join" /\ row[k].status \in {"absent", "retryable_failed"}
    BY <1>6 DEF Reserve, CanCall
  <2>2. row'[k].status = "pending"
    BY <1>0, <2>1
  <2>3. ResultOf(k) = "open" /\ ResultOf(k)' = "open" /\ Acted(k)'
    BY <2>1, <2>2 DEF ResultOf, Settled, Acted
  <2>4. QED BY <1>0, <2>1, <2>3
<1>7. CASE Recover(k, receipt)
  <2>1. /\ row' = [row EXCEPT ![k] = [status |-> "recovering", leased |-> TRUE, attempt |-> row[k].attempt + 1]]
        /\ UNCHANGED <<outstanding, effects>>
        /\ receipt = "join" /\ row[k].status \in {"pending", "recovering"}
    BY <1>7 DEF Recover
  <2>2. row'[k].status = "recovering"
    BY <1>0, <2>1
  <2>3. ResultOf(k) = "open" /\ ResultOf(k)' = "open" /\ Acted(k)'
    BY <2>1, <2>2 DEF ResultOf, Settled, Acted
  <2>4. QED BY <1>0, <2>1, <2>3
<1>8. QED BY <1>2, <1>3, <1>4, <1>5, <1>6, <1>7 DEF Execute

\* An execution that ends settles its action, or leaves it open; "ok" has its effect.
LEMMA ExecutionShows ==
  ASSUME Inv, NEW k \in Keys, ExecutionEnds(k)
  PROVE  /\ Acted(k) /\ Acted(k)' /\ UNCHANGED effects
         /\ \A j \in Keys \ {k} : row'[j] = row[j] /\ outstanding'[j] = outstanding[j]
         /\ ResultOf(k) = "open"
         /\ ResultOf(k)' = "ok" => effects[k] = 1
         /\ exec'[k] = "none" => ResultOf(k)' = Shown(ReceiptOf(row'[k].status))
<1>0. /\ row \in [Keys -> Row] /\ outstanding \in [Keys -> BOOLEAN] /\ KeyOK(k) /\ effects[k] \in Nat
      /\ row[k].status \in {"pending", "recovering"} /\ Acted(k) /\ ResultOf(k) = "open"
  BY DEF Inv, GatewayInv, GatewayTypeOK, Row, KeyOK, Acted, ResultOf, Settled,
     ExecutionEnds, CallSucceeds, CallRefused, CallFails, CallUncertain, Confirmed, Unverified
<1>1. /\ GatewayInv' /\ UNCHANGED effects
      /\ \A j \in Keys \ {k} : row'[j] = row[j] /\ outstanding'[j] = outstanding[j]
  <2>1. GatewayInv'
    BY ExecutionEndsStep DEF Inv
  <2>2. QED BY <1>0, <2>1 DEF ExecutionEnds, CallSucceeds, CallRefused, CallFails, CallUncertain, Confirmed, Unverified, StoreFinal
<1>2. row'[k].status # "absent"
  <2>1. CASE CallUncertain(k)
    BY <1>0, <2>1 DEF CallUncertain
  <2>2. ASSUME NEW status, StoreFinal(k, status) PROVE row'[k].status = status
    BY <1>0, <2>2 DEF StoreFinal, Row
  <2>3. QED BY <2>1, <2>2 DEF ExecutionEnds, CallSucceeds, CallRefused, CallFails, Confirmed, Unverified
<1>3. ResultOf(k)' = "ok" => effects[k] = 1
  <2>1. ResultOf(k)' = "ok" => row'[k].status = "completed"
    BY DEF ResultOf, ReceiptOf, Settled
  <2>2. KeyOK(k)'
    BY <1>1 DEF GatewayInv
  <2>3. effects' = effects
    BY <1>1
  <2>4. QED BY <1>0, <2>1, <2>2, <2>3 DEF KeyOK
<1>4. exec'[k] = "none" => ResultOf(k)' = Shown(ReceiptOf(row'[k].status))
  <2>1. exec'[k] = "none" => row'[k].status \in Settled \cup {"retryable_failed"}
    BY ExecutionEndsStep DEF Inv
  <2>2. QED BY <2>1 DEF ResultOf, ReceiptOf, Settled, Shown
<1>5. QED BY <1>0, <1>1, <1>2, <1>3, <1>4 DEF Acted

\* A step of the gateway for one action, as the promise sees it.
LEMMA GatewayShows ==
  ASSUME Inv, NEW k \in Keys, k \in Released, Acted(k)',
         UNCHANGED <<mode, audit, effects, wf, claim>>,
         \A j \in Keys \ {k} : row'[j] = row[j] /\ outstanding'[j] = outstanding[j] /\ late'[j] = late[j],
         \/ ResultOf(k)' = ResultOf(k)
         \/ ResultOf(k) = "open" /\ (ResultOf(k)' = "ok" => effects[k] = 1),
         ~Acted(k) => ResultOf(k)' \in {"open", "failed"},
         \/ UNCHANGED told
         \/ \E receipt : told' = [told EXCEPT ![k] = receipt] /\ ResultOf(k)' = Shown(receipt)
  PROVE  G!Begin(k) \/ G!Settle(k)
<1>0. ResultOf(k) \in {"open", "ok", "failed", "manual"} /\ ResultOf(k)' \in {"open", "ok", "failed", "manual"}
  BY DEF ResultOf, ReceiptOf, Settled
<1>1. /\ UNCHANGED <<mode, audit, effects>> /\ Over' = Over
      /\ [n \in Nodes |-> claim[n].decision]' = [n \in Nodes |-> claim[n].decision]
  BY DEF Over
<1>2. \A j \in Keys \ {k} : (Acted(j)' <=> Acted(j)) /\ ResultOf(j)' = ResultOf(j)
  BY DEF Acted, ResultOf
<1>3. Released' = Released
  BY <1>2 DEF Released, Underway
<1>4. {j \in Keys : Acted(j)}' = {j \in Keys : Acted(j)} \cup {k}
  BY <1>2
<1>5. [j \in Keys |-> ResultOf(j)]' = [[j \in Keys |-> ResultOf(j)] EXCEPT ![k] = ResultOf(k)']
  BY <1>2
<1>6. G!Tell(k)
  <2>1. CASE UNCHANGED told
    BY <2>1 DEF G!Tell, ToldOf
  <2>2. ASSUME NEW receipt, told' = [told EXCEPT ![k] = receipt], ResultOf(k)' = Shown(receipt)
        PROVE  G!Tell(k)
    <3>1. told'[k] = receipt /\ \A j \in Keys \ {k} : told'[j] = told[j]
      BY <2>2 DEF Inv, ToldInv
    <3>2. ToldOf(k)' = ResultOf(k)' /\ \A j \in Keys \ {k} : ToldOf(j)' = ToldOf(j)
      BY <2>2, <3>1 DEF ToldOf, Shown
    <3>3. [j \in Keys |-> ToldOf(j)]' = [[j \in Keys |-> ToldOf(j)] EXCEPT ![k] = [j \in Keys |-> ResultOf(j)]'[k]]
      BY <3>2
    <3>4. QED BY <3>3 DEF G!Tell
  <2>3. QED BY <2>1, <2>2
<1>7. CASE ~Acted(k)
  <2>1. k \in Released \ {j \in Keys : Acted(j)}
    BY <1>7
  <2>2. QED BY <1>1, <1>3, <1>4, <1>5, <1>6, <1>7, <2>1 DEF G!Begin
<1>8. CASE Acted(k)
  <2>1. k \in {j \in Keys : Acted(j)} /\ {j \in Keys : Acted(j)}' = {j \in Keys : Acted(j)}
    BY <1>4, <1>8
  <2>2. CASE ResultOf(k)' = ResultOf(k)
    <3>1. [j \in Keys |-> ResultOf(j)]' = [j \in Keys |-> ResultOf(j)]
      BY <1>2, <2>2
    <3>2. QED BY <1>1, <1>3, <1>6, <2>1, <3>1 DEF G!Settle
  <2>3. CASE ResultOf(k)' # ResultOf(k)
    <3>1. /\ ResultOf(k)' \in G!Results /\ [j \in Keys |-> ResultOf(j)][k] = "open"
          /\ ResultOf(k)' = "ok" => effects[k] = 1
      BY <1>0, <2>3 DEF G!Results
    <3>2. QED BY <1>1, <1>3, <1>5, <1>6, <2>1, <3>1 DEF G!Settle
  <2>4. QED BY <2>2, <2>3
<1>9. QED BY <1>7, <1>8

LEMMA ActingShows ==
  ASSUME Inv, Inv', NEW k \in Keys, ExternalActs(k), UNCHANGED <<mode, audit, wf, claim, late, told>>
  PROVE  G!Act(k)
<1>0. /\ outstanding[k] = TRUE /\ effects[k] = 0 /\ effects \in [Keys -> Nat] /\ outstanding \in [Keys -> BOOLEAN]
      /\ outstanding' = [outstanding EXCEPT ![k] = FALSE] /\ effects' = [effects EXCEPT ![k] = effects[k] + 1]
      /\ UNCHANGED row
  BY DEF ExternalActs, Inv, GatewayInv, GatewayTypeOK, KeyOK
<1>1. effects' = [effects EXCEPT ![k] = 1]
  <2>1. effects[k] + 1 = 1
    BY <1>0
  <2>2. QED BY <1>0, <2>1
<1>2. \A j \in Keys : Acted(j)' <=> Acted(j)
  <2>1. Acted(k) /\ Acted(k)'
    <3>1. effects'[k] = 1
      BY <1>0, <1>1
    <3>2. QED BY <1>0, <3>1 DEF Acted
  <2>2. \A j \in Keys \ {k} : Acted(j)' <=> Acted(j)
    BY <1>0, <1>1 DEF Acted
  <2>3. QED BY <2>1, <2>2
<1>3. k \in {j \in Keys : Acted(j)}
  BY <1>0 DEF Acted
<1>4. /\ {j \in Keys : Acted(j)}' = {j \in Keys : Acted(j)} /\ Released' = Released /\ Over' = Over
      /\ [j \in Keys |-> ResultOf(j)]' = [j \in Keys |-> ResultOf(j)]
      /\ [j \in Keys |-> ToldOf(j)]' = [j \in Keys |-> ToldOf(j)]
      /\ [n \in Nodes |-> claim[n].decision]' = [n \in Nodes |-> claim[n].decision]
      /\ UNCHANGED <<mode, audit>>
  BY <1>0, <1>2 DEF Released, Underway, Over, ResultOf, ToldOf
<1>5. QED BY <1>0, <1>1, <1>3, <1>4 DEF G!Act

\* The workflow's own call, and that of an attempt it has given up.
LEMMA CallShows ==
  ASSUME Inv, Next, CallGateway \/ \E k \in Keys : LateCall(k)
  PROVE  \E k \in Keys : G!Begin(k) \/ G!Settle(k)
<1>1. ASSUME NEW k \in Keys, k \in Released, NEW receipt \in Receipts \cup {"join"}, Execute(k, receipt),
             UNCHANGED <<mode, audit, wf, claim>>, \A j \in Keys \ {k} : late'[j] = late[j],
             \/ UNCHANGED told
             \/ receipt # "join" /\ told' = [told EXCEPT ![k] = receipt]
      PROVE  \E j \in Keys : G!Begin(j) \/ G!Settle(j)
  <2>1. /\ Acted(k)' /\ UNCHANGED effects
        /\ \A j \in Keys \ {k} : row'[j] = row[j] /\ outstanding'[j] = outstanding[j]
        /\ ResultOf(k)' = ResultOf(k) \/ (ResultOf(k) = "open" /\ ResultOf(k)' = "failed")
        /\ ~Acted(k) => ResultOf(k) = "open"
        /\ receipt # "join" => ResultOf(k)' = Shown(receipt)
    BY <1>1, ExecuteShows DEF Inv
  <2>2. G!Begin(k) \/ G!Settle(k)
    BY <1>1, <2>1, GatewayShows
  <2>3. QED BY <2>2
<1>2. CASE CallGateway
  <2>1. PICK k \in Keys : k = wf.node /\ Underway(k) /\ mode # "shadow"
    BY <1>2 DEF CallGateway, Inv, FlowInv, ActivityInv, CallsGateway, Underway
  <2>2. PICK receipt \in Receipts \cup {"join"} :
          /\ Execute(k, receipt)
          /\ told' = [told EXCEPT ![k] = IF receipt = "join" THEN told[k] ELSE receipt]
    BY <1>2, <2>1 DEF CallGateway
  <2>3. UNCHANGED told \/ (receipt # "join" /\ told' = [told EXCEPT ![k] = receipt])
    BY <2>2 DEF Inv, ToldInv
  <2>4. UNCHANGED <<mode, audit, wf, claim, late>> /\ k \in Released
    BY <1>2, <2>1 DEF CallGateway, workflow, api, Released
  <2>5. QED BY <1>1, <2>2, <2>3, <2>4
<1>3. ASSUME NEW k \in Keys, LateCall(k) PROVE \E j \in Keys : G!Begin(j) \/ G!Settle(j)
  <2>1. PICK receipt \in Receipts \cup {"join"} : Execute(k, receipt)
    BY <1>3 DEF LateCall
  <2>2. /\ late[k] > 0 /\ UNCHANGED <<mode, audit, wf, claim, told>>
        /\ \A j \in Keys \ {k} : late'[j] = late[j]
    BY <1>3 DEF LateCall, workflow, Inv, FlowInv, FlowTypeOK
  <2>3. k \in Released
    BY <2>2 DEF Inv, FlowInv, LateInv, Released
  <2>4. QED BY <1>1, <2>1, <2>2, <2>3
<1>4. QED BY <1>2, <1>3

LEMMA AnswerShows ==
  ASSUME Inv, NEW k \in Keys, GatewayAnswers(k)
  PROVE  G!Begin(k) \/ G!Settle(k)
<1>1. /\ Acted(k) /\ Acted(k)' /\ UNCHANGED effects
      /\ \A j \in Keys \ {k} : row'[j] = row[j] /\ outstanding'[j] = outstanding[j]
      /\ ResultOf(k) = "open"
      /\ ResultOf(k)' = "ok" => effects[k] = 1
      /\ exec'[k] = "none" => ResultOf(k)' = Shown(ReceiptOf(row'[k].status))
  BY ExecutionShows DEF GatewayAnswers
<1>2. /\ UNCHANGED <<mode, audit, wf, claim, late>> /\ k \in Released
      /\ \/ UNCHANGED told
         \/ exec'[k] = "none" /\ told' = [told EXCEPT ![k] = ReceiptOf(row'[k].status)]
  BY <1>1 DEF GatewayAnswers, workflow, api, Released
<1>3. \/ UNCHANGED told
      \/ \E receipt : told' = [told EXCEPT ![k] = receipt] /\ ResultOf(k)' = Shown(receipt)
  BY <1>1, <1>2
<1>4. QED BY <1>1, <1>2, <1>3, GatewayShows

-----------------------------------------------------------------------------
LEMMA PromiseStep ==
  ASSUME Inv, Inv', Next PROVE G!Next
<1>1. CASE G!Stop \/ (\E n \in Nodes : G!Record(n) \/ G!Conclude(n))
           \/ \E k \in Keys : G!Release(k) \/ G!Begin(k) \/ G!Act(k) \/ G!Settle(k)
  BY <1>1 DEF G!Next
<1>2. CASE \/ StartAccepted \/ OpenGate \/ EventOrTimeout \/ NodeDone \/ Finish \/ Report \/ UpdateRunFails
           \/ StartNodeRun \/ ActivityFails \/ AnswerLost \/ Cancel
  BY <1>1, <1>2, WorkflowIsQuiet
<1>3. CASE Decide
  BY <1>1, <1>3, DecideConcludes
<1>4. CASE \E n \in Nodes : NextNode(n)
  BY <1>1, <1>4, NextNodeReleases
<1>5. CASE CallGateway \/ \E k \in Keys : LateCall(k)
  BY <1>1, <1>5, CallShows
<1>6. CASE \E k \in Keys : GatewayAnswers(k)
  BY <1>1, <1>6, AnswerShows
<1>7. ASSUME NEW k \in Keys, Environment(k) PROVE G!Next
  <2>1. UNCHANGED <<mode, audit, wf, claim, late, told>>
    BY <1>7 DEF Environment, workflow, worker, api
  <2>2. CASE ExternalActs(k)
    BY <1>1, <2>1, <2>2, ActingShows
  <2>3. CASE LeaseExpires(k)
    <3>1. UNCHANGED <<outstanding, effects>> /\ \A j \in Keys : row'[j].status = row[j].status
      BY <2>3, EnvironmentStep DEF LeaseExpires, Inv
    <3>2. QED BY <1>1, <1>7, <2>1, <3>1, BesideIsQuiet DEF Aside
  <2>4. QED BY <1>7, <2>2, <2>3 DEF Environment
<1>8. ASSUME NEW u \in Users,
             \/ \E n \in Nodes, d \in Decisions : Ask(u, n, d)
             \/ NotWaiting(u) \/ ClaimDecision(u)
             \/ SignalAccepted(u) \/ MarkSent(u) \/ MarkFailed(u)
      PROVE  G!Next
  <2>1. Aside /\ UNCHANGED gateway
    BY <1>8 DEF Aside, Ask, NotWaiting, ClaimDecision, SignalAccepted, MarkSent, MarkFailed
  <2>2. claim \in [Nodes -> Claims]
    BY DEF Inv, ClaimInv, SignalTypeOK
  <2>3. CASE ClaimDecision(u)
    BY <1>1, <2>1, <2>3, RequestsRecord, BesideIsQuiet DEF gateway
  <2>4. CASE ~ClaimDecision(u)
    <3>1. CASE \/ \E n \in Nodes, d \in Decisions : Ask(u, n, d)
               \/ NotWaiting(u) \/ SignalAccepted(u)
      <4>1. UNCHANGED claim \/ claim' = [claim EXCEPT ![ask[u].node].status = "sent"]
        BY <3>1 DEF Ask, NotWaiting, SignalAccepted
      <4>2. \A n \in Nodes : claim'[n].decision = claim[n].decision
        BY <2>2, <4>1 DEF Claims
      <4>3. QED BY <1>1, <2>1, <4>2, BesideIsQuiet DEF gateway
    <3>2. CASE MarkSent(u) \/ MarkFailed(u)
      <4>1. PICK status \in {"sent", "failed"} :
              claim' = [claim EXCEPT ![ask[u].node].status = status, ![ask[u].node].leased = FALSE]
        BY <3>2 DEF MarkSent, MarkFailed
      <4>2. \A n \in Nodes : claim'[n].decision = claim[n].decision
        BY <2>2, <4>1 DEF Claims
      <4>3. QED BY <1>1, <2>1, <4>2, BesideIsQuiet DEF gateway
    <3>3. QED BY <1>8, <2>4, <3>1, <3>2
  <2>5. QED BY <2>3, <2>4
<1>9. CASE \/ ClaimRun \/ StartAnswered \/ StartFails \/ FreshRead \/ StaleRead \/ ApiCrash
           \/ (\E s \in transit : HandleSignal(s)) \/ \E n \in Nodes : ClaimExpires(n) \/ SignalEvent(n)
  <2>1. Aside /\ UNCHANGED <<row, outstanding, effects>>
    BY <1>9 DEF Aside, ClaimRun, StartAnswered, StartFails, FreshRead, StaleRead, Reconcile, ApiCrash, GatewayCrash,
       HandleSignal, ClaimExpires, SignalEvent, gateway
  <2>2. UNCHANGED claim \/ \E n \in Nodes : claim' = [claim EXCEPT ![n].leased = FALSE]
    BY <1>9 DEF ClaimRun, StartAnswered, StartFails, FreshRead, StaleRead, Reconcile, ApiCrash,
       HandleSignal, ClaimExpires, SignalEvent, api
  <2>3. \A n \in Nodes : claim'[n].decision = claim[n].decision
    BY <2>2 DEF Inv, ClaimInv, SignalTypeOK, Claims
  <2>4. QED BY <1>1, <2>1, <2>3, BesideIsQuiet
<1>10. QED BY <1>2, <1>3, <1>4, <1>5, <1>6, <1>7, <1>8, <1>9 DEF Next

LEMMA PromiseStarts == Init => G!Init
<1> SUFFICES ASSUME Init PROVE G!Init
  OBVIOUS
<1>1. /\ wf.step = "unstarted" /\ \A n \in Nodes : claim[n].decision = "none"
      /\ audit = [n \in Nodes |-> "none"] /\ effects = [k \in Keys |-> 0] /\ mode \in RunModes
      /\ \A k \in Keys : ~Acted(k) /\ late[k] = 0 /\ ~Underway(k) /\ ResultOf(k) = "open" /\ ToldOf(k) = "open"
  BY DEF Init, GatewayInit, Acted, Underway, ResultOf, ToldOf, Settled
<1>2. Over = FALSE /\ Released = {} /\ {k \in Keys : Acted(k)} = {}
  BY <1>1 DEF Over, Released
<1>3. /\ [n \in Nodes |-> claim[n].decision] = [n \in Nodes |-> "none"]
      /\ [k \in Keys |-> ResultOf(k)] = [k \in Keys |-> "open"]
      /\ [k \in Keys |-> ToldOf(k)] = [k \in Keys |-> "open"]
  BY <1>1
<1>4. QED BY <1>1, <1>2, <1>3 DEF G!Init

\* The run, its worker, the API and the gateway keep the promise of GovernedRun: the conclusion
\* recorded first is acted on, one approval releases one action, a run that is over releases none,
\* and what was released acts once and is told truly.
THEOREM RunIsGoverned == Spec => Governed
<1>1. Inv /\ Inv' /\ [Next]_vars => [G!Next]_(G!governed)
  <2>1. ASSUME Inv, Inv', Next PROVE G!Next
    BY <2>1, PromiseStep
  <2>2. ASSUME UNCHANGED vars PROVE UNCHANGED G!governed
    BY <2>2 DEF vars, gateway, workflow, worker, api, G!governed, Over, Released, Acted, Underway, ResultOf, ToldOf
  <2>3. QED BY <2>1, <2>2
<1>2. QED BY <1>1, PromiseStarts, InvHolds, PTL DEF Spec, Governed, G!Spec

-----------------------------------------------------------------------------
(***************************************************************************)
(* What follows for those who decide.                                      *)
(***************************************************************************)
\* A conclusion that is recorded is not replaced: not by another approver, nor by a repeated
\* or renewed request of the same one (claimEditorApprovalDecision).
FirstConclusionStands ==
  [][\A n \in Nodes : claim[n].decision # "none" => claim'[n].decision = claim[n].decision]_vars

\* A run that was rejected, cancelled or has ended stays so, and nothing is let go for it any
\* more; what was let go before may still be begun by an attempt that was left behind.
NothingAfterTheEnd == [][Over => Over' /\ Released' \subseteq Released]_vars

\* Steps of the promise that leave the conclusions, the end and what is released alone.
LEMMA ActionsConcludeNothing ==
  ASSUME NEW k \in Keys, G!Begin(k) \/ G!Act(k) \/ G!Settle(k)
  PROVE  /\ [n \in Nodes |-> claim[n].decision]' = [n \in Nodes |-> claim[n].decision]
         /\ Over' = Over /\ Released' = Released
<1>1. CASE G!Begin(k)
  BY <1>1 DEF G!Begin
<1>2. CASE G!Act(k)
  BY <1>2 DEF G!Act
<1>3. CASE G!Settle(k)
  BY <1>3 DEF G!Settle
<1>4. QED BY <1>1, <1>2, <1>3

LEMMA PromiseConcludesOnce ==
  ASSUME G!Next
  PROVE  /\ \A n \in Nodes : claim[n].decision # "none" => claim'[n].decision = claim[n].decision
         /\ Over => Over' /\ Released' \subseteq Released
<1> DEFINE recorded == [n \in Nodes |-> claim[n].decision]
           Keeps == \A n \in Nodes : recorded[n] # "none" => recorded'[n] = recorded[n]
           Ends == Over => Over' /\ Released' \subseteq Released
<1>1. CASE G!Stop
  BY <1>1 DEF G!Stop
<1>2. ASSUME NEW n \in Nodes, G!Record(n) PROVE Keeps /\ Ends
  <2>1. PICK conclusion : recorded' = [recorded EXCEPT ![n] = conclusion]
    BY <1>2 DEF G!Record
  <2>2. recorded[n] = "none" /\ Over' = Over /\ Released' = Released
    BY <1>2 DEF G!Record
  <2>3. \A m \in Nodes \ {n} : recorded'[m] = recorded[m]
    BY <2>1
  <2>4. QED BY <2>2, <2>3
<1>3. ASSUME NEW n \in Nodes, G!Conclude(n) PROVE Keeps /\ Ends
  BY <1>3 DEF G!Conclude
<1>4. ASSUME NEW k \in Keys, G!Release(k) PROVE Keeps /\ Ends
  BY <1>4 DEF G!Release
<1>5. ASSUME NEW k \in Keys, G!Begin(k) \/ G!Act(k) \/ G!Settle(k) PROVE Keeps /\ Ends
  BY <1>5, ActionsConcludeNothing
<1>6. Keeps /\ Ends
  BY <1>1, <1>2, <1>3, <1>4, <1>5 DEF G!Next
<1>7. QED BY <1>6

\* The first conclusion recorded for a node stands, whoever asks later and whatever is repeated.
THEOREM FirstConclusionWins == Spec => FirstConclusionStands
<1>1. Inv /\ Inv' /\ [Next]_vars
        => [\A n \in Nodes : claim[n].decision # "none" => claim'[n].decision = claim[n].decision]_vars
  BY PromiseStep, PromiseConcludesOnce
<1>2. QED BY <1>1, InvHolds, PTL DEF Spec, FirstConclusionStands

\* Once the run is over it stays over and lets no further action go, whatever signals, answers
\* and attempts arrive late.
THEOREM EndIsFinal == Spec => NothingAfterTheEnd
<1>1. Inv /\ Inv' /\ [Next]_vars => [Over => Over' /\ Released' \subseteq Released]_vars
  BY PromiseStep, PromiseConcludesOnce
<1>2. QED BY <1>1, InvHolds, PTL DEF Spec, NothingAfterTheEnd

-----------------------------------------------------------------------------
\* An action that was rejected is not begun and has no effect, and the run that asked for it is
\* over: no retry, attempt left behind, recovery or renewed request lets it through
\* (workflows.ts, editor-approval.ts, action-gateway.ts).
RejectedNeverActs ==
  \A n \in Nodes : audit[n] = "rejected" => Over /\ (n \in Keys => n \notin Released /\ effects[n] = 0)

\* What makes it inductive: the gateway has heard only of actions the run has reached.
HeardIsReached == \A k \in Keys : Acted(k) => Over \/ k \in visited \/ Underway(k)
RejectedIsOut == \A n \in Nodes : audit[n] = "rejected" => Over /\ (n \in Keys => ~Acted(n) /\ late[n] = 0)

Path == <<wf, visited, audit>>

\* The run goes on from a node or ends, and a conclusion is taken at the node whose gate is open.
LEMMA PathGoesOn ==
  ASSUME FlowInv, StartInv, Next
  PROVE  /\ Over => Over'
         /\ visited \subseteq visited'
         /\ \A k \in Keys : Underway(k) => Underway(k)' \/ k \in visited' \/ Over'
         /\ \/ UNCHANGED audit
            \/ /\ wf.step = "gate" /\ audit' = [audit EXCEPT ![wf.node] = gate.signal]
               /\ gate.signal = "rejected" => Over'
<1> DEFINE Goes == /\ Over => Over'
                   /\ visited \subseteq visited'
                   /\ \A k \in Keys : Underway(k) => Underway(k)' \/ k \in visited' \/ Over'
                   /\ \/ UNCHANGED audit
                      \/ /\ wf.step = "gate" /\ audit' = [audit EXCEPT ![wf.node] = gate.signal]
                         /\ gate.signal = "rejected" => Over'
<1>0. wf \in [status : Active \cup Closed, node : Nodes \cup {NoNode}, step : Steps \cup {"unstarted", "closed"}]
  BY DEF FlowInv, FlowTypeOK
<1>1. ASSUME UNCHANGED Path PROVE Goes
  BY <1>1 DEF Path, Over, Underway
<1>2. CASE Aside
  BY <1>1, <1>2, AsideLeavesFlow DEF flow, Path
<1>3. ASSUME Throw PROVE Goes
  BY <1>0, <1>3 DEF Throw, Over
<1>4. CASE StartAccepted
  <2>1. wf.step = "unstarted" /\ UNCHANGED <<visited, audit>>
    BY <1>4 DEF StartAccepted, StartInv
  <2>2. QED BY <2>1 DEF Over, Underway
<1>5. ASSUME NEW n \in Nodes, NextNode(n) PROVE Goes
  <2>1. wf.step = "idle" /\ UNCHANGED <<visited, audit>>
    BY <1>5 DEF NextNode
  <2>2. QED BY <2>1 DEF Over, Underway
<1>6. CASE OpenGate \/ EventOrTimeout \/ Finish
  <2>1. wf.step \in {"telling", "gate", "idle"} /\ UNCHANGED <<visited, audit>>
    BY <1>6 DEF OpenGate, EventOrTimeout, Finish
  <2>2. QED BY <2>1 DEF Over, Underway
<1>7. CASE Decide
  <2>1. /\ wf.step = "gate" /\ UNCHANGED visited /\ audit' = [audit EXCEPT ![wf.node] = gate.signal]
        /\ gate.signal = "rejected" => wf' = [wf EXCEPT !.status = "rejected", !.step = "report"]
    BY <1>7 DEF Decide
  <2>2. gate.signal = "rejected" => Over'
    BY <1>0, <2>1 DEF Over
  <2>3. QED BY <2>1, <2>2 DEF Over, Underway
<1>8. CASE NodeDone
  <2>1. wf.step = "node" /\ visited' = visited \cup {wf.node} /\ UNCHANGED audit
    BY <1>8 DEF NodeDone
  <2>2. QED BY <2>1 DEF Over, Underway
<1>9. CASE Report \/ Cancel
  <2>1. wf'.step = "closed" /\ UNCHANGED <<visited, audit>>
    BY <1>0, <1>9 DEF Report, Cancel
  <2>2. QED BY <2>1 DEF Over
<1>10. CASE UpdateRunFails \/ ActivityFails \/ AnswerLost
  BY <1>1, <1>3, <1>10 DEF UpdateRunFails, ActivityFails, AnswerLost, RetryOrThrow, Path
<1>11. CASE StartNodeRun \/ CallGateway \/ \E k \in Keys : GatewayAnswers(k) \/ LateCall(k)
  BY <1>1, <1>11 DEF StartNodeRun, CallGateway, GatewayAnswers, LateCall, workflow, Path
<1>12. Goes
  BY <1>2, <1>4, <1>5, <1>6, <1>7, <1>8, <1>9, <1>10, <1>11 DEF Next, Aside
<1>13. QED BY <1>12

LEMMA RejectionStep ==
  ASSUME Inv, Inv', HeardIsReached, RejectedIsOut, Next
  PROVE  HeardIsReached' /\ RejectedIsOut'
<1>1. /\ Over => Over'
      /\ visited \subseteq visited'
      /\ \A k \in Keys : Underway(k) => Underway(k)' \/ k \in visited' \/ Over'
      /\ \/ UNCHANGED audit
         \/ /\ wf.step = "gate" /\ audit' = [audit EXCEPT ![wf.node] = gate.signal]
            /\ gate.signal = "rejected" => Over'
  BY PathGoesOn DEF Inv
<1>2. /\ \A k \in Keys : Acted(k)' => Acted(k) \/ Underway(k) \/ late[k] > 0
      /\ \A k \in Keys : late'[k] > 0 => late[k] > 0 \/ Underway(k)
  BY ActedStep, LateStep DEF Inv
<1>3. \A k \in Keys : late[k] > 0 => Over \/ k \in visited \/ Underway(k)
  BY DEF Inv, FlowInv, LateInv
<1>4. HeardIsReached'
  <2>1. \A k \in Keys : Acted(k)' => Over \/ k \in visited \/ Underway(k)
    BY <1>2, <1>3 DEF HeardIsReached
  <2>2. \A k \in Keys : Acted(k)' => Over' \/ k \in visited' \/ Underway(k)'
    BY <1>1, <2>1
  <2>3. QED BY <2>2 DEF HeardIsReached
<1>5. late \in [Keys -> 0..MaxActivity] /\ late' \in [Keys -> 0..MaxActivity] /\ MaxActivity \in Nat
  BY RunBoundsAssumption DEF Inv, FlowInv, FlowTypeOK
<1>6. ASSUME NEW n \in Nodes, audit'[n] = "rejected"
      PROVE  Over' /\ (n \in Keys => ~Underway(n) /\ ~Acted(n) /\ late[n] = 0)
  <2>1. CASE audit[n] = "rejected"
    <3>1. Over /\ (n \in Keys => ~Acted(n) /\ late[n] = 0)
      BY <2>1 DEF RejectedIsOut
    <3>2. QED BY <1>1, <3>1 DEF Over, Underway
  <2>2. CASE audit[n] # "rejected"
    <3>1. wf.step = "gate" /\ audit' = [audit EXCEPT ![wf.node] = gate.signal] /\ (gate.signal = "rejected" => Over')
      BY <1>1, <1>6, <2>2
    <3>2. wf.node \in Nodes \ visited /\ audit \in [Nodes -> Decisions \cup {"none"}]
      BY <3>1 DEF Inv, FlowInv, FlowTypeOK, PathInv
    <3>3. n = wf.node /\ gate.signal = "rejected"
      BY <1>6, <2>2, <3>1, <3>2
    <3>4. ~Over /\ n \notin visited /\ ~Underway(n)
      BY <3>1, <3>2, <3>3 DEF Over, Underway
    <3>5. n \in Keys => ~Acted(n) /\ ~(late[n] > 0)
      BY <1>3, <3>4 DEF HeardIsReached
    <3>6. n \in Keys => late[n] = 0
      BY <1>5, <3>5
    <3>7. QED BY <3>1, <3>3, <3>4, <3>5, <3>6
  <2>3. QED BY <2>1, <2>2
<1>7. ASSUME NEW n \in Nodes, audit'[n] = "rejected"
      PROVE  Over' /\ (n \in Keys => ~Acted(n)' /\ late'[n] = 0)
  <2>1. n \in Keys => ~(late[n] > 0)
    BY <1>5, <1>6, <1>7
  <2>2. n \in Keys => ~Acted(n)' /\ ~(late'[n] > 0)
    BY <1>2, <1>6, <1>7, <2>1
  <2>3. n \in Keys => late'[n] = 0
    BY <1>5, <2>2
  <2>4. QED BY <1>6, <1>7, <2>2, <2>3
<1>8. QED BY <1>4, <1>7 DEF RejectedIsOut

\* A rejected action has no effect and none on its way, for good, and its run is over: for any
\* graph, approvers, attempts and crashes.
THEOREM RejectionIsObeyed == Spec => []RejectedNeverActs
<1>1. Init => HeardIsReached /\ RejectedIsOut
  BY DEF Init, GatewayInit, HeardIsReached, RejectedIsOut, Acted
<1>2. Inv /\ Inv' /\ HeardIsReached /\ RejectedIsOut /\ [Next]_vars => HeardIsReached' /\ RejectedIsOut'
  <2>1. ASSUME UNCHANGED vars, HeardIsReached, RejectedIsOut PROVE HeardIsReached' /\ RejectedIsOut'
    BY <2>1 DEF vars, gateway, workflow, worker, HeardIsReached, RejectedIsOut, Acted, Over, Underway
  <2>2. QED BY <2>1, RejectionStep
<1>3. Inv /\ RejectedIsOut => RejectedNeverActs
  <2> SUFFICES ASSUME Inv, RejectedIsOut, NEW n \in Nodes, audit[n] = "rejected"
               PROVE  Over /\ (n \in Keys => n \notin Released /\ effects[n] = 0)
    BY DEF RejectedNeverActs
  <2>1. Over /\ (n \in Keys => ~Acted(n) /\ late[n] = 0)
    BY DEF RejectedIsOut
  <2>2. ~Underway(n)
    BY <2>1 DEF Over, Underway
  <2>3. n \in Keys => n \notin Released
    BY <2>1, <2>2 DEF Released
  <2>4. n \in Keys => effects[n] \in Nat
    BY DEF Inv, GatewayInv, GatewayTypeOK
  <2>5. n \in Keys => effects[n] = 0
    BY <2>1, <2>4 DEF Acted
  <2>6. QED BY <2>1, <2>3, <2>5
<1>4. QED BY <1>1, <1>2, <1>3, InvHolds, PTL DEF Spec

=============================================================================
