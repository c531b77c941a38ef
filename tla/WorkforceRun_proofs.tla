------------------------- MODULE WorkforceRun_proofs -------------------------
(***************************************************************************)
(* Proofs about WorkforceRun and its ActionGateway, for any graph, any     *)
(* approvers and any limits: an effect happens once, a receipt stands, and *)
(* the conclusion acted on is the one recorded.                            *)
(***************************************************************************)
EXTENDS WorkforceRun, FiniteSetTheorems, TLAPS

-----------------------------------------------------------------------------
(***************************************************************************)
(* The gateway.                                                            *)
(***************************************************************************)
Row == [status : RowStatus, leased : BOOLEAN, attempt : Nat]

\* One key: what the other system holds and has done, against what the row says of it.
KeyOK(k) ==
  /\ effects[k] <= 1
  /\ outstanding[k] = TRUE => effects[k] = 0
  /\ row[k].status \in {"absent", "retryable_failed"} => outstanding[k] = FALSE /\ effects[k] = 0
  /\ exec[k] # "none" => row[k].status \in {"pending", "recovering"}
  /\ exec[k] = "calling" => outstanding[k] = TRUE \/ effects[k] > 0
  /\ row[k].status = "completed" => effects[k] > 0

GatewayInv == GatewayTypeOK /\ \A k \in Keys : KeyOK(k)

\* What a step makes of the key it is about, and what is asked of it.
KeyWrites(k, r, e, o, n) ==
  /\ row' = [row EXCEPT ![k] = r] /\ exec' = [exec EXCEPT ![k] = e]
  /\ outstanding' = [outstanding EXCEPT ![k] = o] /\ effects' = [effects EXCEPT ![k] = n]

KeyAllows(k, r, e, o, n) ==
  /\ n <= 1
  /\ o = TRUE => n = 0
  /\ r.status \in {"absent", "retryable_failed"} => o = FALSE /\ n = 0
  /\ e # "none" => r.status \in {"pending", "recovering"}
  /\ e = "calling" => o = TRUE \/ n > 0
  /\ r.status = "completed" => n > 0
  /\ row[k].status \in Settled => r.status = row[k].status

\* Such a step leaves the other keys alone and keeps the invariant.
LEMMA AllowedMove ==
  ASSUME GatewayInv, NEW k \in Keys,
         NEW r \in Row, NEW e \in {"none", "calling", "reconciling"}, NEW o \in BOOLEAN, NEW n \in Nat,
         KeyWrites(k, r, e, o, n), KeyAllows(k, r, e, o, n)
  PROVE  /\ GatewayInv'
         /\ \A j \in Keys : row[j].status \in Settled => row'[j].status = row[j].status
         /\ row'[k] = r /\ effects'[k] = n /\ exec'[k] = e
         /\ \A j \in Keys \ {k} : row'[j] = row[j] /\ effects'[j] = effects[j]
<1>1. /\ row \in [Keys -> Row] /\ exec \in [Keys -> {"none", "calling", "reconciling"}]
      /\ outstanding \in [Keys -> BOOLEAN] /\ effects \in [Keys -> Nat]
  BY DEF GatewayInv, GatewayTypeOK, Row
<1>2. GatewayTypeOK'
  BY <1>1 DEF GatewayTypeOK, Row, KeyWrites
<1>3. /\ row'[k] = r /\ exec'[k] = e /\ outstanding'[k] = o /\ effects'[k] = n
      /\ \A j \in Keys \ {k} : /\ row'[j] = row[j] /\ exec'[j] = exec[j]
                               /\ outstanding'[j] = outstanding[j] /\ effects'[j] = effects[j]
  BY <1>1 DEF KeyWrites
<1>4. KeyOK(k)'
  BY <1>3 DEF KeyOK, KeyAllows
<1>5. \A j \in Keys \ {k} : KeyOK(j)'
  BY <1>3 DEF GatewayInv, KeyOK
<1>6. \A j \in Keys : row[j].status \in Settled => row'[j].status = row[j].status
  BY <1>3 DEF KeyAllows
<1>7. QED BY <1>2, <1>3, <1>4, <1>5, <1>6 DEF GatewayInv

\* The same, with every condition a hypothesis.
LEMMA OneKeyMoves ==
  ASSUME GatewayInv, NEW k \in Keys,
         NEW r \in Row, NEW e \in {"none", "calling", "reconciling"}, NEW o \in BOOLEAN, NEW n \in Nat,
         row' = [row EXCEPT ![k] = r], exec' = [exec EXCEPT ![k] = e],
         outstanding' = [outstanding EXCEPT ![k] = o], effects' = [effects EXCEPT ![k] = n],
         n <= 1,
         o = TRUE => n = 0,
         r.status \in {"absent", "retryable_failed"} => o = FALSE /\ n = 0,
         e # "none" => r.status \in {"pending", "recovering"},
         e = "calling" => o = TRUE \/ n > 0,
         r.status = "completed" => n > 0,
         row[k].status \in Settled => r.status = row[k].status
  PROVE  /\ GatewayInv'
         /\ \A j \in Keys : row[j].status \in Settled => row'[j].status = row[j].status
         /\ row'[k] = r /\ effects'[k] = n /\ exec'[k] = e
         /\ \A j \in Keys \ {k} : row'[j] = row[j] /\ effects'[j] = effects[j]
<1>1. KeyWrites(k, r, e, o, n)
  BY DEF KeyWrites
<1>2. KeyAllows(k, r, e, o, n)
  BY DEF KeyAllows
<1>3. QED BY <1>1, <1>2, AllowedMove

\* The same for a step that writes only the row and the execution.
LEMMA OnlyRowMoves ==
  ASSUME GatewayInv, NEW k \in Keys,
         NEW r \in Row, NEW e \in {"none", "calling", "reconciling"},
         row' = [row EXCEPT ![k] = r], exec' = [exec EXCEPT ![k] = e], UNCHANGED <<outstanding, effects>>,
         r.status \in {"absent", "retryable_failed"} => r.status = row[k].status,
         e # "none" => r.status \in {"pending", "recovering"},
         e = "calling" => exec[k] = "calling",
         r.status = "completed" => effects[k] > 0,
         row[k].status \in Settled => r.status = row[k].status
  PROVE  /\ GatewayInv'
         /\ \A j \in Keys : row[j].status \in Settled => row'[j].status = row[j].status
         /\ row'[k] = r /\ effects'[k] = effects[k] /\ exec'[k] = e
         /\ \A j \in Keys \ {k} : row'[j] = row[j] /\ effects'[j] = effects[j]
<1>1. /\ outstanding' = [outstanding EXCEPT ![k] = outstanding[k]]
      /\ effects' = [effects EXCEPT ![k] = effects[k]]
      /\ outstanding[k] \in BOOLEAN /\ effects[k] \in Nat
  BY DEF GatewayInv, GatewayTypeOK
<1>2. /\ effects[k] <= 1
      /\ outstanding[k] = TRUE => effects[k] = 0
      /\ r.status \in {"absent", "retryable_failed"} => outstanding[k] = FALSE /\ effects[k] = 0
      /\ e = "calling" => outstanding[k] = TRUE \/ effects[k] > 0
  BY DEF GatewayInv, KeyOK
<1>3. KeyWrites(k, r, e, outstanding[k], effects[k])
  BY <1>1 DEF KeyWrites
<1>4. KeyAllows(k, r, e, outstanding[k], effects[k])
  BY <1>2 DEF KeyAllows
<1>5. QED BY <1>1, <1>3, <1>4, AllowedMove

LEMMA KeyFacts ==
  ASSUME GatewayInv, NEW k \in Keys
  PROVE  /\ row[k] \in Row /\ exec[k] \in {"none", "calling", "reconciling"}
         /\ outstanding[k] \in BOOLEAN /\ effects[k] \in Nat
         /\ row = [row EXCEPT ![k] = row[k]] /\ exec = [exec EXCEPT ![k] = exec[k]]
         /\ outstanding = [outstanding EXCEPT ![k] = outstanding[k]]
         /\ effects = [effects EXCEPT ![k] = effects[k]]
         /\ KeyOK(k)
BY DEF GatewayInv, GatewayTypeOK, Row

\* A settled row keeps its status.
Stays == \A k \in Keys : row[k].status \in Settled => row'[k].status = row[k].status

LEMMA GatewayIdle ==
  ASSUME GatewayInv, UNCHANGED gateway
  PROVE  GatewayInv' /\ Stays
BY DEF GatewayInv, GatewayTypeOK, KeyOK, Stays, gateway

\* A caller is told what the row says for good, or joins, or is told that it is not known.
LEMMA ExecuteStep ==
  ASSUME GatewayInv, NEW k \in Keys, NEW receipt, Execute(k, receipt)
  PROVE  /\ GatewayInv' /\ Stays
         /\ \A j \in Keys : effects'[j] = effects[j]
         /\ receipt \in {"ok", "manual"} => ReceiptOf(row'[k].status) = receipt /\ row'[k].status \in Settled
         /\ receipt = "failed" => row'[k].status = "failed"
<1> USE KeyFacts
<1>1. CASE Replay(k, receipt)
  <2>1. row' = row /\ effects' = effects /\ receipt = ReceiptOf(row[k].status) /\ row[k].status \in Settled
    BY <1>1 DEF Replay, gateway
  <2>2. receipt = "failed" => row[k].status = "failed"
    BY <2>1 DEF ReceiptOf, Settled
  <2>3. QED BY <1>1, <2>1, <2>2, GatewayIdle DEF Replay
<1>2. CASE Join(k, receipt) \/ Busy(k, receipt)
  <2>1. UNCHANGED gateway /\ receipt \notin {"ok", "manual", "failed"}
    BY <1>2 DEF Join, Busy
  <2>2. QED BY <2>1, GatewayIdle DEF gateway
<1>3. CASE Deny(k, receipt) \/ Exhaust(k, receipt)
  <2>1. /\ receipt = "failed" /\ exec[k] = "none" /\ row[k].status \notin Settled
        /\ exec' = [exec EXCEPT ![k] = "none"] /\ UNCHANGED <<outstanding, effects>>
    BY <1>3 DEF Deny, Exhaust, Settled
  <2>2. PICK r \in Row : r.status = "failed" /\ row' = [row EXCEPT ![k] = r]
    <3>1. CASE Deny(k, receipt)
      <4> DEFINE attempt == IF row[k].attempt = 0 THEN 1 ELSE row[k].attempt
                 r == [row[k] EXCEPT !.status = "failed", !.leased = FALSE, !.attempt = attempt]
      <4>1. row' = [row EXCEPT ![k] = r]
        BY <3>1 DEF Deny
      <4>2. attempt \in Nat
        BY DEF Row
      <4> HIDE DEF attempt
      <4>3. r \in Row /\ r.status = "failed"
        BY <4>2 DEF Row, RowStatus, Settled
      <4> HIDE DEF r
      <4>4. QED BY <4>1, <4>3
    <3>2. CASE Exhaust(k, receipt)
      <4> DEFINE r == [row[k] EXCEPT !.status = "failed"]
      <4>1. row' = [row EXCEPT ![k] = r]
        BY <3>2 DEF Exhaust
      <4>2. r \in Row /\ r.status = "failed"
        BY DEF Row, RowStatus, Settled
      <4> HIDE DEF r
      <4>3. QED BY <4>1, <4>2
    <3>3. QED BY <1>3, <3>1, <3>2
  <2>3. GatewayInv' /\ Stays /\ row'[k] = r
    BY <2>1, <2>2, OnlyRowMoves DEF Stays
  <2>4. QED BY <2>1, <2>2, <2>3
<1>4. CASE Reserve(k, receipt)
  <2> DEFINE r == [status |-> "pending", leased |-> TRUE, attempt |-> row[k].attempt + 1]
  <2>1. /\ row' = [row EXCEPT ![k] = r] /\ exec' = [exec EXCEPT ![k] = "calling"]
        /\ outstanding' = [outstanding EXCEPT ![k] = TRUE] /\ effects' = [effects EXCEPT ![k] = effects[k]]
        /\ receipt = "join" /\ row[k].status \in {"absent", "retryable_failed"}
        /\ UNCHANGED effects
    BY <1>4 DEF Reserve, CanCall
  <2>2. r \in Row /\ r.status = "pending"
    BY DEF Row, RowStatus, Settled
  <2>3. effects[k] = 0
    BY <2>1 DEF KeyOK
  <2> HIDE DEF r
  <2>4. TRUE \in BOOLEAN /\ effects[k] \in Nat /\ effects[k] <= 1
    BY <2>3
  <2>5. GatewayInv' /\ Stays
    BY <2>1, <2>2, <2>3, <2>4, OneKeyMoves DEF Stays, Settled
  <2>6. QED BY <2>1, <2>5
<1>5. CASE Recover(k, receipt)
  <2> DEFINE r == [status |-> "recovering", leased |-> TRUE, attempt |-> row[k].attempt + 1]
  <2>1. /\ row' = [row EXCEPT ![k] = r] /\ exec' = [exec EXCEPT ![k] = "reconciling"]
        /\ UNCHANGED <<outstanding, effects>> /\ receipt = "join"
        /\ row[k].status \in {"pending", "recovering"}
    BY <1>5 DEF Recover
  <2>2. r \in Row /\ r.status = "recovering"
    BY DEF Row, RowStatus, Settled
  <2> HIDE DEF r
  <2>3. GatewayInv' /\ Stays
    BY <2>1, <2>2, OnlyRowMoves DEF Stays, Settled
  <2>4. QED BY <2>1, <2>3
<1>6. QED BY <1>1, <1>2, <1>3, <1>4, <1>5 DEF Execute

\* An execution that ends settles its row, or lets it be tried again when nothing was done.
LEMMA ExecutionEndsStep ==
  ASSUME GatewayInv, NEW k \in Keys, ExecutionEnds(k)
  PROVE  /\ GatewayInv' /\ Stays
         /\ \A j \in Keys : effects'[j] = effects[j]
         /\ exec'[k] = "none" => row'[k].status \in Settled \cup {"retryable_failed"}
<1> USE KeyFacts
<1> DEFINE done(status) == [row[k] EXCEPT !.status = status, !.leased = FALSE]
<1>1. ASSUME NEW status \in Settled \cup {"retryable_failed"}
      PROVE  done(status) \in Row /\ done(status).status = status
  BY <1>1 DEF Row, RowStatus
<1>2. ASSUME NEW status, StoreFinal(k, status)
      PROVE  row' = [row EXCEPT ![k] = done(status)] /\ exec' = [exec EXCEPT ![k] = "none"]
  BY <1>2 DEF StoreFinal
<1>3. row[k].status \in {"pending", "recovering"}
  BY DEF ExecutionEnds, CallSucceeds, CallRefused, CallFails, CallUncertain, Confirmed, Unverified, KeyOK
<1> HIDE DEF done
<1>4. CASE CallSucceeds(k) \/ Confirmed(k)
  <2>1. StoreFinal(k, "completed") /\ UNCHANGED <<outstanding, effects>> /\ effects[k] > 0
    BY <1>4 DEF CallSucceeds, Confirmed, KeyOK
  <2>2. "completed" \in Settled
    BY DEF Settled
  <2>3. done("completed") \in Row /\ done("completed").status = "completed"
    BY <1>1, <2>2
  <2>4. row' = [row EXCEPT ![k] = done("completed")] /\ exec' = [exec EXCEPT ![k] = "none"]
    BY <1>2, <2>1
  <2>5. GatewayInv' /\ Stays /\ row'[k] = done("completed")
    BY <1>3, <2>1, <2>3, <2>4, OnlyRowMoves DEF Stays, Settled
  <2>6. QED BY <2>1, <2>2, <2>3, <2>5
<1>5. CASE Unverified(k)
  <2>1. StoreFinal(k, "manual_reconciliation") /\ UNCHANGED <<outstanding, effects>>
    BY <1>5 DEF Unverified
  <2>2. "manual_reconciliation" \in Settled
    BY DEF Settled
  <2>3. done("manual_reconciliation") \in Row /\ done("manual_reconciliation").status = "manual_reconciliation"
    BY <1>1, <2>2
  <2>4. row' = [row EXCEPT ![k] = done("manual_reconciliation")] /\ exec' = [exec EXCEPT ![k] = "none"]
    BY <1>2, <2>1
  <2>5. GatewayInv' /\ Stays /\ row'[k] = done("manual_reconciliation")
    BY <1>3, <2>1, <2>3, <2>4, OnlyRowMoves DEF Stays, Settled
  <2>6. QED BY <2>1, <2>2, <2>3, <2>5
<1>6. CASE CallRefused(k) \/ CallFails(k)
  <2>1. PICK status \in {"retryable_failed", "failed"} :
          /\ StoreFinal(k, status)
          /\ status = "retryable_failed" => outstanding[k] = TRUE
    BY <1>6 DEF CallRefused, CallFails
  <2>2. outstanding' = [outstanding EXCEPT ![k] = FALSE] /\ effects' = [effects EXCEPT ![k] = effects[k]]
        /\ UNCHANGED effects
    BY <1>6 DEF CallRefused, CallFails
  <2>3. status \in Settled \cup {"retryable_failed"} /\ status # "completed"
    BY <2>1 DEF Settled
  <2>4. done(status) \in Row /\ done(status).status = status
    BY <1>1, <2>3
  <2>5. row' = [row EXCEPT ![k] = done(status)] /\ exec' = [exec EXCEPT ![k] = "none"]
    BY <1>2, <2>1
  <2>6. effects[k] <= 1 /\ (status = "retryable_failed" => effects[k] = 0) /\ FALSE \in BOOLEAN
    BY <2>1 DEF KeyOK
  <2>7. GatewayInv' /\ Stays /\ row'[k] = done(status)
    BY <1>3, <2>2, <2>3, <2>4, <2>5, <2>6, OneKeyMoves DEF Stays, Settled
  <2>8. QED BY <2>2, <2>3, <2>4, <2>7
<1>7. CASE CallUncertain(k)
  <2>1. row' = [row EXCEPT ![k] = row[k]] /\ exec' = [exec EXCEPT ![k] = "reconciling"]
        /\ UNCHANGED <<outstanding, effects>>
    BY <1>7 DEF CallUncertain
  <2>2. row[k].status # "completed"
    BY <1>3
  <2> DEFINE r == row[k]
  <2> HIDE DEF r
  <2>3. GatewayInv' /\ Stays /\ exec'[k] = "reconciling"
    BY <1>3, <2>1, <2>2, OnlyRowMoves DEF Stays, r
  <2>4. QED BY <2>1, <2>3
<1>8. QED BY <1>4, <1>5, <1>6, <1>7 DEF ExecutionEnds

LEMMA EnvironmentStep ==
  ASSUME GatewayInv, NEW k \in Keys, ExternalActs(k) \/ LeaseExpires(k)
  PROVE  /\ GatewayInv' /\ Stays
         /\ \A j \in Keys : effects'[j] >= effects[j] /\ row'[j].status = row[j].status
<1>0. /\ row[k] \in Row /\ exec[k] \in {"none", "calling", "reconciling"}
      /\ outstanding[k] \in BOOLEAN /\ effects[k] \in Nat
      /\ row = [row EXCEPT ![k] = row[k]] /\ exec = [exec EXCEPT ![k] = exec[k]]
      /\ KeyOK(k)
  BY KeyFacts
<1>1. CASE ExternalActs(k)
  <2>0. outstanding[k] = TRUE /\ effects[k] = 0
    BY <1>0, <1>1 DEF ExternalActs, KeyOK
  <2>1. /\ row' = [row EXCEPT ![k] = row[k]] /\ exec' = [exec EXCEPT ![k] = exec[k]]
        /\ outstanding' = [outstanding EXCEPT ![k] = FALSE] /\ effects' = [effects EXCEPT ![k] = 1]
        /\ UNCHANGED row
    <3>1. /\ outstanding' = [outstanding EXCEPT ![k] = FALSE] /\ UNCHANGED <<row, exec>>
          /\ effects' = [effects EXCEPT ![k] = effects[k] + 1]
      BY <1>1 DEF ExternalActs
    <3>2. effects[k] + 1 = 1
      BY <2>0
    <3>3. QED BY <1>0, <3>1, <3>2
  <2>2. /\ row[k].status \notin {"absent", "retryable_failed"}
        /\ exec[k] # "none" => row[k].status \in {"pending", "recovering"}
    BY <1>0, <2>0 DEF KeyOK
  <2>3. GatewayInv' /\ Stays /\ effects'[k] = 1 /\ \A j \in Keys \ {k} : effects'[j] = effects[j]
    <3>1. PICK o \in BOOLEAN, n \in Nat : o = FALSE /\ n = 1
      OBVIOUS
    <3>2. KeyWrites(k, row[k], exec[k], o, n)
      BY <2>1, <3>1 DEF KeyWrites
    <3>3. KeyAllows(k, row[k], exec[k], o, n)
      BY <2>2, <3>1 DEF KeyAllows
    <3>4. /\ GatewayInv' /\ effects'[k] = n
          /\ \A j \in Keys : row[j].status \in Settled => row'[j].status = row[j].status
          /\ \A j \in Keys \ {k} : row'[j] = row[j] /\ effects'[j] = effects[j]
      BY <1>0, <3>2, <3>3, AllowedMove
    <3>5. QED BY <3>1, <3>4 DEF Stays
  <2>4. effects'[k] >= effects[k] /\ \A j \in Keys \ {k} : effects'[j] >= effects[j]
    BY <2>0, <2>3 DEF GatewayInv, GatewayTypeOK
  <2>5. row' = row
    BY <2>1
  <2>6. QED BY <2>3, <2>4, <2>5
<1>2. CASE LeaseExpires(k)
  <2> DEFINE r == [row[k] EXCEPT !.leased = FALSE]
  <2>1. /\ row' = [row EXCEPT ![k] = r] /\ exec' = [exec EXCEPT ![k] = exec[k]]
        /\ UNCHANGED <<outstanding, effects>>
    BY <1>0, <1>2 DEF LeaseExpires
  <2>2. r \in Row /\ r.status = row[k].status
    BY <1>0 DEF Row
  <2>3. /\ exec[k] # "none" => row[k].status \in {"pending", "recovering"}
        /\ row[k].status = "completed" => effects[k] > 0
    BY <1>0 DEF KeyOK
  <2> HIDE DEF r
  <2>4. /\ GatewayInv' /\ Stays /\ row'[k] = r /\ \A j \in Keys \ {k} : row'[j] = row[j]
    <3> DEFINE e == exec[k]
    <3>1. /\ e \in {"none", "calling", "reconciling"} /\ exec' = [exec EXCEPT ![k] = e]
          /\ e # "none" => r.status \in {"pending", "recovering"}
          /\ e = "calling" => exec[k] = "calling"
      BY <1>0, <2>1, <2>2, <2>3
    <3> HIDE DEF e
    <3>2. QED BY <2>1, <2>2, <2>3, <3>1, OnlyRowMoves DEF Stays
  <2>5. QED BY <1>0, <2>1, <2>2, <2>4 DEF GatewayInv, GatewayTypeOK
<1>3. QED BY <1>1, <1>2

LEMMA CrashStep ==
  ASSUME GatewayInv, GatewayCrash
  PROVE  GatewayInv' /\ Stays
BY DEF GatewayInv, GatewayTypeOK, KeyOK, GatewayCrash, Stays

-----------------------------------------------------------------------------
(***************************************************************************)
(* The workflow and its activity: where they stand, which nodes are behind *)
(* them, and what timed out attempts may still do.                         *)
(***************************************************************************)
FlowTypeOK ==
  /\ mode \in RunModes
  /\ wf \in [status : Active \cup Closed, node : Nodes \cup {NoNode}, step : Steps \cup {"unstarted", "closed"}]
  /\ todo \subseteq Nodes /\ visited \subseteq Nodes /\ budget \in {0, 1}
  /\ audit \in [Nodes -> Decisions \cup {"none"}]
  /\ activity \in [attempt : 0..MaxActivity, at : {"none", "started", "calling", "answered"}]
  /\ late \in [Keys -> 0..MaxActivity]

\* A node is met once: it is waiting, at hand or behind.
PathInv ==
  /\ todo \cap visited = {}
  /\ wf.step = "unstarted" => visited = {}
  /\ wf.step \in {"telling", "gate", "node"} => wf.node \in Nodes \ (todo \cup visited)

ActivityInv ==
  /\ activity.at \in {"started", "calling"} => wf.step = "node" /\ CallsGateway(wf.node)
  /\ wf.step = "node" => activity.attempt > 0

\* An attempt is left behind, and a decision is taken, at nodes that are under way or behind.
LateInv ==
  \A k \in Keys :
    /\ late[k] > 0 => mode # "shadow" /\ (Over \/ k \in visited \/ Underway(k))
    /\ Underway(k) => late[k] < activity.attempt

AuditInv == \A n \in Nodes : audit[n] # "none" => Over \/ n \in visited \/ Underway(n)

FlowInv == FlowTypeOK /\ PathInv /\ ActivityInv /\ LateInv /\ AuditInv
flow == <<mode, wf, todo, visited, budget, audit, activity, late>>

LEMMA FlowIdle ==
  ASSUME FlowInv, UNCHANGED flow PROVE FlowInv'
BY DEF FlowInv, FlowTypeOK, PathInv, ActivityInv, CallsGateway, LateInv, AuditInv, Underway, Over, flow

\* The workflow ends: nothing is under way any more.
LEMMA WorkflowEnds ==
  ASSUME FlowInv,
         wf' \in [status : Active \cup Closed, node : Nodes \cup {NoNode}, step : {"report", "closed"}],
         activity' \in [attempt : 0..MaxActivity, at : {"none"}] \/ (UNCHANGED activity /\ wf.step # "node"),
         late' \in [Keys -> 0..MaxActivity],
         \A k \in Keys : late'[k] > 0 => mode # "shadow",
         audit' \in [Nodes -> Decisions \cup {"none"}],
         UNCHANGED <<mode, todo, visited, budget>>
  PROVE  FlowInv'
<1>1. FlowTypeOK'
  BY DEF FlowInv, FlowTypeOK, Steps
<1>2. Over' /\ wf'.step \notin {"telling", "gate", "node"}
  BY DEF Over
<1>3. PathInv' /\ LateInv' /\ AuditInv'
  BY <1>2 DEF FlowInv, PathInv, LateInv, AuditInv, Underway
<1>4. ActivityInv'
  BY <1>2 DEF FlowInv, ActivityInv
<1>5. QED BY <1>1, <1>3, <1>4 DEF FlowInv

LEMMA LeftBehindIsCounted ==
  ASSUME FlowInv, wf.step = "node", LeftBehind
  PROVE  /\ late' \in [Keys -> 0..MaxActivity]
         /\ \A k \in Keys : late'[k] > 0 => mode # "shadow" /\ (k \in visited \/ Underway(k))
         /\ \A k \in Keys : Underway(k) => late'[k] <= activity.attempt
<1>1. /\ late \in [Keys -> 0..MaxActivity] /\ activity.attempt \in 0..MaxActivity /\ MaxActivity \in Nat
      /\ \A k \in Keys : late[k] > 0 => mode # "shadow" /\ (k \in visited \/ Underway(k))
      /\ \A k \in Keys : Underway(k) => late[k] < activity.attempt
  BY RunBoundsAssumption DEF FlowInv, FlowTypeOK, LateInv, Over
<1>2. CASE UNCHANGED late
  BY <1>1, <1>2
<1>3. CASE /\ CallsGateway(wf.node)
           /\ late' = [late EXCEPT ![wf.node] = late[wf.node] + 1]
  <2>1. wf.node \in Keys /\ mode # "shadow" /\ Underway(wf.node)
    BY <1>3 DEF CallsGateway, Underway
  <2>2. late[wf.node] + 1 \in 0..MaxActivity /\ late[wf.node] + 1 <= activity.attempt
    BY <1>1, <2>1
  <2>3. QED BY <1>1, <1>3, <2>1, <2>2 DEF Underway
<1>4. QED BY <1>2, <1>3 DEF LeftBehind

\* Another attempt, or the end.
LEMMA RetryStep ==
  ASSUME FlowInv, wf.step = "node", RetryOrThrow, UNCHANGED mode,
         late' \in [Keys -> 0..MaxActivity],
         \A k \in Keys : late'[k] > 0 => mode # "shadow" /\ (k \in visited \/ Underway(k)),
         \A k \in Keys : Underway(k) => late'[k] <= activity.attempt
  PROVE  FlowInv'
<1>1. CASE activity.attempt < MaxActivity
  <2>1. /\ activity' = [attempt |-> activity.attempt + 1, at |-> "none"]
        /\ UNCHANGED <<mode, wf, todo, visited, budget, audit>>
    BY <1>1 DEF RetryOrThrow
  <2>2. activity.attempt + 1 \in 0..MaxActivity /\ activity.attempt \in Nat
    BY <1>1, RunBoundsAssumption DEF FlowInv, FlowTypeOK
  <2>3. FlowTypeOK' /\ PathInv' /\ ActivityInv' /\ AuditInv'
    BY <2>1, <2>2 DEF FlowInv, FlowTypeOK, PathInv, ActivityInv, AuditInv, Underway, Over
  <2>4. LateInv'
    BY <2>1, <2>2 DEF LateInv, Underway
  <2>5. QED BY <2>3, <2>4 DEF FlowInv
<1>2. CASE ~(activity.attempt < MaxActivity)
  <2>1. /\ wf' = [wf EXCEPT !.status = "failed", !.step = "report"]
        /\ activity' = [attempt |-> 0, at |-> "none"]
        /\ UNCHANGED <<mode, todo, visited, budget, audit>>
    BY <1>2 DEF RetryOrThrow, Throw
  <2>2. /\ wf' \in [status : Active \cup Closed, node : Nodes \cup {NoNode}, step : {"report", "closed"}]
        /\ activity' \in [attempt : 0..MaxActivity, at : {"none"}]
    <3>1. 0 \in 0..MaxActivity
      BY RunBoundsAssumption
    <3>2. wf \in [status : Active \cup Closed, node : Nodes \cup {NoNode}, step : Steps \cup {"unstarted", "closed"}]
      BY DEF FlowInv, FlowTypeOK
    <3>3. "failed" \in Closed
      BY DEF Closed
    <3>4. QED BY <2>1, <3>1, <3>2, <3>3
  <2>3. audit' \in [Nodes -> Decisions \cup {"none"}]
    BY <2>1 DEF FlowInv, FlowTypeOK
  <2>4. QED BY <2>1, <2>2, <2>3, WorkflowEnds
<1>3. QED BY <1>1, <1>2

\* The row of the run, and the request that starts it.
StartInv ==
  /\ run \in [status : Active \cup Closed \cup {"absent"}, linked : BOOLEAN]
  /\ starting \in {"no", "asked", "accepted"}
  /\ run.status = "absent" => wf.step = "unstarted" /\ starting = "no"
  /\ starting = "asked" => wf.step = "unstarted"

\* Steps that leave the workflow and its activity alone.
Aside ==
  \/ ClaimRun \/ StartAnswered \/ StartFails \/ FreshRead \/ StaleRead \/ ApiCrash
  \/ \E s \in transit : HandleSignal(s)
  \/ \E n \in Nodes : ClaimExpires(n) \/ SignalEvent(n)
  \/ \E k \in Keys : Environment(k)
  \/ \E u \in Users :
       \/ \E n \in Nodes, d \in Decisions : Ask(u, n, d)
       \/ NotWaiting(u) \/ ClaimDecision(u)
       \/ SignalAccepted(u) \/ MarkSent(u) \/ MarkFailed(u)

LEMMA AsideLeavesFlow ==
  ASSUME Aside PROVE UNCHANGED flow
<1> USE DEF flow, workflow, worker
<1>1. CASE ClaimRun \/ StartAnswered \/ StartFails \/ FreshRead \/ StaleRead \/ ApiCrash
  BY <1>1 DEF ClaimRun, StartAnswered, StartFails, FreshRead, StaleRead, Reconcile, ApiCrash
<1>2. CASE \E s \in transit : HandleSignal(s)
  BY <1>2 DEF HandleSignal
<1>3. CASE \E n \in Nodes : ClaimExpires(n) \/ SignalEvent(n)
  BY <1>3 DEF ClaimExpires, SignalEvent
<1>4. CASE \E k \in Keys : Environment(k)
  BY <1>4 DEF Environment
<1>5. ASSUME NEW u \in Users,
             \/ \E n \in Nodes, d \in Decisions : Ask(u, n, d)
             \/ NotWaiting(u) \/ ClaimDecision(u)
             \/ SignalAccepted(u) \/ MarkSent(u) \/ MarkFailed(u)
      PROVE  UNCHANGED flow
  BY <1>5 DEF Ask, NotWaiting, ClaimDecision, SignalAccepted, MarkSent, MarkFailed
<1>6. QED BY <1>1, <1>2, <1>3, <1>4, <1>5 DEF Aside

LEMMA FlowStep ==
  ASSUME FlowInv, StartInv, Next PROVE FlowInv'
<1> USE DEF FlowInv
<1>0. /\ wf \in [status : Active \cup Closed, node : Nodes \cup {NoNode}, step : Steps \cup {"unstarted", "closed"}]
      /\ late \in [Keys -> 0..MaxActivity] /\ MaxActivity \in Nat \ {0} /\ 0 \in 0..MaxActivity /\ 1 \in 0..MaxActivity
      /\ audit \in [Nodes -> Decisions \cup {"none"}]
      /\ "failed" \in Closed /\ "completed" \in Closed /\ "rejected" \in Closed
      /\ {"running", "waiting_approval", "waiting_external"} \subseteq Active
  BY RunBoundsAssumption DEF FlowTypeOK, Closed, Active
<1>1. CASE Aside
  BY <1>1, AsideLeavesFlow, FlowIdle
<1>2. CASE StartAccepted
  <2>1. /\ wf.step = "unstarted" /\ wf' = [wf EXCEPT !.step = "idle"]
        /\ UNCHANGED <<mode, todo, visited, budget, audit, activity, late>>
    BY <1>2 DEF StartAccepted, StartInv, worker
  <2>2. QED BY <1>0, <2>1 DEF FlowTypeOK, PathInv, ActivityInv, LateInv, AuditInv, Underway, Over, Steps
<1>3. CASE OpenGate
  <2>1. /\ wf.step = "telling" /\ wf' = [wf EXCEPT !.step = "gate"]
        /\ UNCHANGED <<mode, todo, visited, budget, audit, activity, late>>
    BY <1>3 DEF OpenGate, worker
  <2>2. QED BY <1>0, <2>1 DEF FlowTypeOK, PathInv, ActivityInv, LateInv, AuditInv, Underway, Over, Steps
<1>4. ASSUME NEW n \in Nodes, NextNode(n) PROVE FlowInv'
  <2>1. /\ wf.step = "idle" /\ n \in todo /\ todo' = todo \ {n} /\ n \notin visited
        /\ UNCHANGED <<mode, visited, audit, late>>
    BY <1>4 DEF NextNode, PathInv
  <2>2. CASE /\ wf' \in {[status |-> "waiting_approval", node |-> n, step |-> "telling"],
                         [status |-> "waiting_external", node |-> n, step |-> "telling"]}
             /\ UNCHANGED <<budget, activity>>
    BY <1>0, <2>1, <2>2 DEF FlowTypeOK, PathInv, ActivityInv, LateInv, AuditInv, Underway, Over, Steps
  <2>3. CASE /\ wf' = [status |-> "running", node |-> n, step |-> "node"]
             /\ budget' = Spend(n)
             /\ activity' = [attempt |-> 1, at |-> "none"]
    <3>1. FlowTypeOK'
      BY <1>0, <2>1, <2>3 DEF FlowTypeOK, Spend, Steps
    <3>2. PathInv' /\ ActivityInv' /\ AuditInv'
      BY <2>1, <2>3 DEF FlowTypeOK, PathInv, ActivityInv, AuditInv, Underway, Over
    <3>3. n \in Keys => late[n] = 0
      BY <1>0, <2>1 DEF LateInv, Underway, Over
    <3>4. LateInv'
      BY <2>1, <2>3, <3>3 DEF LateInv, Underway, Over
    <3>5. QED BY <3>1, <3>2, <3>4
  <2>4. QED BY <1>4, <2>2, <2>3 DEF NextNode
<1>5. CASE Decide
  <2>1. /\ wf.step = "gate" /\ gate.signal \in Decisions
        /\ audit' = [audit EXCEPT ![wf.node] = gate.signal]
        /\ wf.node \in Nodes \ (todo \cup visited)
        /\ UNCHANGED <<mode, todo, visited, late>>
    BY <1>5 DEF Decide, PathInv
  <2>2. audit' \in [Nodes -> Decisions \cup {"none"}]
    BY <1>0, <2>1
  <2>3. CASE wf' = [wf EXCEPT !.status = "rejected", !.step = "report"] /\ UNCHANGED <<budget, activity>>
    BY <1>0, <2>1, <2>2, <2>3, WorkflowEnds DEF LateInv
  <2>4. CASE /\ wf' = [wf EXCEPT !.step = "node"]
             /\ budget' = IF wf.node \in Approvals THEN 1 ELSE budget
             /\ activity' = [attempt |-> 1, at |-> "none"]
    <3>1. FlowTypeOK'
      BY <1>0, <2>1, <2>2, <2>4 DEF FlowTypeOK, Steps
    <3>2. PathInv' /\ ActivityInv'
      BY <1>0, <2>1, <2>4 DEF PathInv, ActivityInv
    <3>3. AuditInv'
      BY <1>0, <2>1, <2>4 DEF AuditInv, Underway, Over
    <3>4. wf.node \in Keys => late[wf.node] = 0
      BY <1>0, <2>1 DEF LateInv, Underway, Over
    <3>5. LateInv'
      BY <1>0, <2>1, <2>4, <3>4 DEF LateInv, Underway, Over
    <3>6. QED BY <3>1, <3>2, <3>3, <3>5
  <2>5. QED BY <1>5, <2>3, <2>4 DEF Decide
<1>6. CASE EventOrTimeout
  <2>1. /\ wf.step = "gate" /\ wf' = [wf EXCEPT !.step = "node"]
        /\ activity' = [attempt |-> 1, at |-> "none"]
        /\ wf.node \in Nodes \ (todo \cup visited)
        /\ UNCHANGED <<mode, todo, visited, budget, audit, late>>
    BY <1>6 DEF EventOrTimeout, PathInv
  <2>2. wf.node \in Keys => late[wf.node] = 0
    BY <1>0, <2>1 DEF LateInv, Underway, Over
  <2>3. LateInv'
    BY <1>0, <2>1, <2>2 DEF LateInv, Underway, Over
  <2>4. QED BY <1>0, <2>1, <2>3 DEF FlowTypeOK, PathInv, ActivityInv, AuditInv, Underway, Over, Steps
<1>7. CASE NodeDone
  <2>1. /\ wf.step = "node" /\ activity.at = "answered" /\ visited' = visited \cup {wf.node}
        /\ activity' = [attempt |-> 0, at |-> "none"]
        /\ wf' = [wf EXCEPT !.step = "idle"]
        /\ wf.node \in Nodes \ (todo \cup visited)
        /\ UNCHANGED <<mode, budget, audit, late>>
    BY <1>7 DEF NodeDone, PathInv
  <2>2. PICK next \in SUBSET (Succ[wf.node] \ visited') : todo' = todo \cup next
    BY <1>7 DEF NodeDone
  <2>3. Succ[wf.node] \subseteq Nodes
    BY <2>1, GraphAssumption
  <2>4. FlowTypeOK'
    BY <1>0, <2>1, <2>2, <2>3 DEF FlowTypeOK, Steps
  <2>5. PathInv' /\ ActivityInv'
    BY <1>0, <2>1, <2>2 DEF PathInv, ActivityInv
  <2>6. LateInv' /\ AuditInv'
    BY <1>0, <2>1 DEF LateInv, AuditInv, Underway, Over
  <2>7. QED BY <2>4, <2>5, <2>6
<1>8. CASE Finish \/ Report \/ UpdateRunFails
  <2>1. /\ \/ wf' = [status |-> "completed", node |-> NoNode, step |-> "report"]
           \/ wf' = [wf EXCEPT !.step = "closed"]
           \/ wf' = [wf EXCEPT !.status = "failed", !.step = "report"]
        /\ wf.step # "node"
    BY <1>8 DEF Finish, Report, UpdateRunFails, Throw
  <2>2. wf' \in [status : Active \cup Closed, node : Nodes \cup {NoNode}, step : {"report", "closed"}]
    <3>1. CASE wf' = [status |-> "completed", node |-> NoNode, step |-> "report"]
      BY <1>0, <3>1
    <3>2. CASE wf' = [wf EXCEPT !.step = "closed"]
      BY <1>0, <3>2
    <3>3. CASE wf' = [wf EXCEPT !.status = "failed", !.step = "report"]
      BY <1>0, <3>3
    <3>4. QED BY <2>1, <3>1, <3>2, <3>3
  <2>3. /\ activity' \in [attempt : 0..MaxActivity, at : {"none"}] \/ UNCHANGED activity
        /\ UNCHANGED <<mode, todo, visited, budget, audit, late>>
    BY <1>0, <1>8 DEF Finish, Report, UpdateRunFails, Throw, worker
  <2>4. /\ late' \in [Keys -> 0..MaxActivity] /\ audit' \in [Nodes -> Decisions \cup {"none"}]
        /\ \A k \in Keys : late'[k] > 0 => mode # "shadow"
    BY <1>0, <2>3 DEF LateInv
  <2>5. activity' \in [attempt : 0..MaxActivity, at : {"none"}] \/ (UNCHANGED activity /\ wf.step # "node")
    BY <2>1, <2>3
  <2>6. QED BY <2>2, <2>3, <2>4, <2>5, WorkflowEnds
<1>9. CASE StartNodeRun
  <2>1. /\ wf.step = "node"
        /\ activity' = [activity EXCEPT !.at = IF CallsGateway(wf.node) THEN "started" ELSE "answered"]
        /\ UNCHANGED <<mode, wf, todo, visited, budget, audit, late>>
    BY <1>9 DEF StartNodeRun, workflow
  <2>2. QED BY <1>0, <2>1 DEF FlowTypeOK, PathInv, ActivityInv, LateInv, AuditInv, Underway, Over, CallsGateway
<1>10. CASE CallGateway \/ \E k \in Keys : GatewayAnswers(k)
  <2>1. /\ UNCHANGED <<mode, wf, todo, visited, budget, audit, late>>
        /\ \/ UNCHANGED activity
           \/ activity' = [activity EXCEPT !.at = "answered"]
           \/ activity' = [activity EXCEPT !.at = "calling"] /\ activity.at = "started"
    BY <1>10 DEF CallGateway, GatewayAnswers, workflow
  <2>2. QED BY <1>0, <2>1 DEF FlowTypeOK, PathInv, ActivityInv, LateInv, AuditInv, Underway, Over, CallsGateway
<1>11. CASE ActivityFails
  BY <1>11, LeftBehindIsCounted, RetryStep DEF ActivityFails
<1>12. CASE AnswerLost
  <2>1. /\ wf.step = "node" /\ RetryOrThrow /\ UNCHANGED <<mode, late>>
    BY <1>12 DEF AnswerLost
  <2>2. /\ \A k \in Keys : late'[k] > 0 => mode # "shadow" /\ (k \in visited \/ Underway(k))
        /\ \A k \in Keys : Underway(k) => late'[k] <= activity.attempt
    BY <1>0, <2>1 DEF FlowTypeOK, LateInv, Over
  <2>3. QED BY <1>0, <2>1, <2>2, RetryStep
<1>13. CASE Cancel
  <2>1. /\ wf' \in [status : Active \cup Closed, node : Nodes \cup {NoNode}, step : {"report", "closed"}]
        /\ activity' \in [attempt : 0..MaxActivity, at : {"none"}]
        /\ UNCHANGED <<mode, todo, visited, budget, audit>>
    BY <1>0, <1>13 DEF Cancel
  <2>2. late' \in [Keys -> 0..MaxActivity] /\ \A k \in Keys : late'[k] > 0 => mode # "shadow"
    BY <1>0, <1>13, LeftBehindIsCounted DEF Cancel, LateInv
  <2>3. QED BY <1>0, <2>1, <2>2, WorkflowEnds
<1>14. ASSUME NEW k \in Keys, LateCall(k) PROVE FlowInv'
  <2>1. /\ late[k] > 0 /\ late' = [late EXCEPT ![k] = late[k] - 1]
        /\ UNCHANGED <<mode, wf, todo, visited, budget, audit, activity>>
    BY <1>14 DEF LateCall, workflow
  <2>2. late[k] - 1 \in 0..MaxActivity /\ late[k] \in Nat
    BY <1>0, <2>1
  <2>3. FlowTypeOK' /\ PathInv' /\ ActivityInv' /\ AuditInv'
    BY <1>0, <2>1, <2>2 DEF FlowTypeOK, PathInv, ActivityInv, AuditInv, Underway, Over, CallsGateway
  <2>4. LateInv'
    BY <1>0, <2>1, <2>2 DEF LateInv, FlowTypeOK, Underway, Over
  <2>5. QED BY <2>3, <2>4
<1>15. QED
  BY <1>1, <1>2, <1>3, <1>4, <1>5, <1>6, <1>7, <1>8, <1>9, <1>10, <1>11, <1>12, <1>13, <1>14 DEF Next, Aside

LEMMA StartStep ==
  ASSUME FlowInv, StartInv, Next PROVE StartInv'
<1> USE DEF StartInv
<1>0. /\ wf \in [status : Active \cup Closed, node : Nodes \cup {NoNode}, step : Steps \cup {"unstarted", "closed"}]
      /\ "absent" \notin Active \cup Closed
      /\ {"queued", "running", "failed", "cancelled"} \subseteq Active \cup Closed
  BY DEF FlowInv, FlowTypeOK, Closed, Active
<1>1. ASSUME NEW status \in Active \cup Closed, run' = [run EXCEPT !.status = status], wf.step # "unstarted",
             wf'.step # "unstarted" \/ UNCHANGED wf, UNCHANGED starting
      PROVE  StartInv'
  BY <1>0, <1>1
<1>2. ASSUME UNCHANGED <<run, starting>>, wf.step # "unstarted" \/ UNCHANGED wf PROVE StartInv'
  BY <1>2
<1>3. CASE ClaimRun
  BY <1>0, <1>3 DEF ClaimRun, workflow
<1>4. CASE StartAccepted
  BY <1>0, <1>4 DEF StartAccepted
<1>5. CASE StartAnswered \/ StartFails
  <2>1. /\ \/ run' = [status |-> "running", linked |-> TRUE]
           \/ run' = [run EXCEPT !.status = "failed"]
        /\ starting' = "no" /\ UNCHANGED wf /\ starting # "no"
    BY <1>5 DEF StartAnswered, StartFails, workflow
  <2>2. CASE run' = [status |-> "running", linked |-> TRUE]
    BY <1>0, <2>1, <2>2
  <2>3. CASE run' = [run EXCEPT !.status = "failed"]
    BY <1>0, <2>1, <2>3
  <2>4. QED BY <2>1, <2>2, <2>3
<1>6. CASE OpenGate \/ Report
  <2>1. wf.step # "unstarted" /\ wf'.step # "unstarted" /\ UNCHANGED starting
        /\ run' = [run EXCEPT !.status = wf.status]
    BY <1>0, <1>6 DEF OpenGate, Report, Callback
  <2>2. QED BY <1>0, <1>1, <2>1
<1>7. CASE UpdateRunFails
  <2>1. wf.step # "unstarted" /\ wf'.step # "unstarted" /\ UNCHANGED starting
    BY <1>0, <1>7 DEF UpdateRunFails, Throw
  <2>2. run' = [run EXCEPT !.status = wf.status] \/ UNCHANGED run
    BY <1>7 DEF UpdateRunFails, Callback
  <2>3. QED BY <1>0, <1>1, <1>2, <2>1, <2>2
<1>8. CASE StartNodeRun
  <2>1. wf.step # "unstarted" /\ UNCHANGED <<wf, starting>> /\ run' = [run EXCEPT !.status = "running"]
    BY <1>8 DEF StartNodeRun, Callback, workflow
  <2>2. QED BY <1>0, <1>1, <2>1
<1>9. CASE Cancel
  <2>1. wf.step # "unstarted" /\ wf'.step # "unstarted" /\ UNCHANGED starting /\ run' = [run EXCEPT !.status = "cancelled"]
    BY <1>0, <1>9 DEF Cancel
  <2>2. QED BY <1>0, <1>1, <2>1
<1>10. CASE Decide \/ EventOrTimeout \/ NodeDone \/ Finish \/ CallGateway \/ ActivityFails \/ AnswerLost
  <2>1. wf.step # "unstarted" /\ UNCHANGED <<run, starting>>
    BY <1>10 DEF Decide, EventOrTimeout, NodeDone, Finish, CallGateway, ActivityFails, AnswerLost, api
  <2>2. QED BY <1>2, <2>1
<1>11. CASE FreshRead \/ StaleRead
  <2>1. PICK status \in Active \cup Closed : Reconcile(status)
    BY <1>0, <1>11 DEF FreshRead, StaleRead
  <2>2. run.status \in Active /\ run' = [run EXCEPT !.status = status] /\ UNCHANGED <<wf, starting>>
    BY <2>1 DEF Reconcile, workflow
  <2>3. QED BY <1>0, <2>2
<1>12. CASE ApiCrash
  BY <1>12 DEF ApiCrash, workflow
<1>13. ASSUME NEW n \in Nodes, NextNode(n) PROVE StartInv'
  <2>1. wf.step # "unstarted" /\ UNCHANGED <<run, starting>>
    BY <1>13 DEF NextNode, api
  <2>2. QED BY <1>2, <2>1
<1>14. ASSUME NEW k \in Keys, LateCall(k) PROVE StartInv'
  <2>1. UNCHANGED <<wf, starting>> /\ (run' = [run EXCEPT !.status = "running"] \/ UNCHANGED run)
    BY <1>14 DEF LateCall, Callback, workflow
  <2>2. late[k] > 0
    BY <1>14 DEF LateCall
  <2>3. wf.step # "unstarted"
    BY <2>2 DEF FlowInv, PathInv, LateInv, Underway, Over
  <2>4. QED BY <1>0, <1>1, <1>2, <2>1, <2>3
<1>15. ASSUME NEW k \in Keys, GatewayAnswers(k) \/ Environment(k) PROVE StartInv'
  BY <1>2, <1>15 DEF GatewayAnswers, Environment, workflow, api
<1>16. ASSUME NEW s \in transit, HandleSignal(s) PROVE StartInv'
  BY <1>2, <1>16 DEF HandleSignal, api
<1>17. ASSUME NEW n \in Nodes, ClaimExpires(n) \/ SignalEvent(n) PROVE StartInv'
  BY <1>2, <1>17 DEF ClaimExpires, SignalEvent, workflow, api
<1>18. ASSUME NEW u \in Users,
              \/ \E n \in Nodes, d \in Decisions : Ask(u, n, d)
              \/ NotWaiting(u) \/ ClaimDecision(u)
              \/ SignalAccepted(u) \/ MarkSent(u) \/ MarkFailed(u)
       PROVE  StartInv'
  <2>1. UNCHANGED <<wf, run, starting>>
    BY <1>18 DEF Ask, NotWaiting, ClaimDecision, SignalAccepted, MarkSent, MarkFailed, workflow
  <2>2. QED BY <1>2, <2>1
<1>19. QED
  BY <1>3, <1>4, <1>5, <1>6, <1>7, <1>8, <1>9, <1>10, <1>11, <1>12, <1>13, <1>14, <1>15, <1>16, <1>17, <1>18 DEF Next

\* A step of the run executes a key it is entitled to, ends an execution, lets the other
\* system act, loses the executions, or leaves the gateway alone.
LEMMA GatewayMoves ==
  ASSUME FlowInv, Next
  PROVE  \/ UNCHANGED gateway \/ GatewayCrash
         \/ \E k \in Keys : /\ Underway(k) \/ late[k] > 0
                            /\ mode # "shadow"
                            /\ \E receipt \in Receipts \cup {"join"} : Execute(k, receipt)
         \/ \E k \in Keys : ExecutionEnds(k) \/ ExternalActs(k) \/ LeaseExpires(k)
<1>1. CASE CallGateway
  <2>1. wf.node \in Keys /\ mode # "shadow" /\ Underway(wf.node)
    BY <1>1 DEF CallGateway, FlowInv, ActivityInv, CallsGateway, Underway
  <2>2. QED BY <1>1, <2>1 DEF CallGateway
<1>2. ASSUME NEW k \in Keys, LateCall(k)
      PROVE  /\ Underway(k) \/ late[k] > 0
             /\ mode # "shadow"
             /\ \E receipt \in Receipts \cup {"join"} : Execute(k, receipt)
  BY <1>2 DEF LateCall, FlowInv, LateInv
<1>3. ASSUME NEW k \in Keys, GatewayAnswers(k) \/ Environment(k)
      PROVE  ExecutionEnds(k) \/ ExternalActs(k) \/ LeaseExpires(k)
  BY <1>3 DEF GatewayAnswers, Environment
<1>4. CASE ApiCrash
  BY <1>4 DEF ApiCrash
<1>5. CASE ClaimRun \/ StartAccepted \/ StartAnswered \/ StartFails \/ OpenGate \/ Decide \/ EventOrTimeout
           \/ NodeDone \/ Finish \/ Report \/ UpdateRunFails \/ StartNodeRun \/ ActivityFails \/ AnswerLost
           \/ Cancel \/ FreshRead \/ StaleRead
  BY <1>5 DEF ClaimRun, StartAccepted, StartAnswered, StartFails, OpenGate, Decide, EventOrTimeout,
     NodeDone, Finish, Report, UpdateRunFails, StartNodeRun, ActivityFails, AnswerLost,
     Cancel, FreshRead, StaleRead, Reconcile
<1>6. CASE \E s \in transit : HandleSignal(s)
  BY <1>6 DEF HandleSignal
<1>7. ASSUME NEW n \in Nodes, NextNode(n) \/ ClaimExpires(n) \/ SignalEvent(n)
      PROVE  UNCHANGED gateway
  BY <1>7 DEF NextNode, ClaimExpires, SignalEvent
<1>8. ASSUME NEW u \in Users,
             \/ \E n \in Nodes, d \in Decisions : Ask(u, n, d)
             \/ NotWaiting(u) \/ ClaimDecision(u)
             \/ SignalAccepted(u) \/ MarkSent(u) \/ MarkFailed(u)
      PROVE  UNCHANGED gateway
  BY <1>8 DEF Ask, NotWaiting, ClaimDecision, SignalAccepted, MarkSent, MarkFailed
<1>9. QED BY <1>1, <1>2, <1>3, <1>4, <1>5, <1>6, <1>7, <1>8 DEF Next

LEMMA GatewayStep ==
  ASSUME GatewayInv, FlowInv, Next
  PROVE  GatewayInv' /\ Stays /\ \A k \in Keys : effects'[k] >= effects[k]
<1>0. \A k \in Keys : effects[k] \in Nat
  BY DEF GatewayInv, GatewayTypeOK
<1>1. CASE UNCHANGED gateway
  BY <1>0, <1>1, GatewayIdle DEF gateway
<1>2. CASE GatewayCrash
  BY <1>0, <1>2, CrashStep DEF GatewayCrash
<1>3. ASSUME NEW k \in Keys, NEW receipt, Execute(k, receipt)
      PROVE  GatewayInv' /\ Stays /\ \A j \in Keys : effects'[j] >= effects[j]
  <2>1. GatewayInv' /\ Stays /\ \A j \in Keys : effects'[j] = effects[j]
    BY <1>3, ExecuteStep
  <2>2. QED BY <1>0, <2>1
<1>4. ASSUME NEW k \in Keys, ExecutionEnds(k)
      PROVE  GatewayInv' /\ Stays /\ \A j \in Keys : effects'[j] >= effects[j]
  <2>1. GatewayInv' /\ Stays /\ \A j \in Keys : effects'[j] = effects[j]
    BY <1>4, ExecutionEndsStep
  <2>2. QED BY <1>0, <2>1
<1>5. ASSUME NEW k \in Keys, ExternalActs(k) \/ LeaseExpires(k)
      PROVE  GatewayInv' /\ Stays /\ \A j \in Keys : effects'[j] >= effects[j]
  BY <1>5, EnvironmentStep
<1>6. QED BY <1>1, <1>2, <1>3, <1>4, <1>5, GatewayMoves

\* A step acts for the key it is about only, and then for one that acted before or is executed.
LEMMA ActsForOne ==
  ASSUME GatewayInv, NEW k \in Keys,
         (\E receipt : Execute(k, receipt)) \/ ExecutionEnds(k) \/ ExternalActs(k) \/ LeaseExpires(k)
  PROVE  \A j \in Keys \ {k} : Acted(j)' <=> Acted(j)
<1>1. \A j \in Keys \ {k} : row'[j] = row[j] /\ outstanding'[j] = outstanding[j] /\ effects'[j] = effects[j]
  <2> USE DEF GatewayInv, GatewayTypeOK
  <2>1. ASSUME NEW receipt, Execute(k, receipt)
        PROVE  \A j \in Keys \ {k} : row'[j] = row[j] /\ outstanding'[j] = outstanding[j] /\ effects'[j] = effects[j]
    BY <2>1 DEF Execute, Replay, Join, Deny, Reserve, Exhaust, Busy, Recover, gateway
  <2>2. CASE ExecutionEnds(k)
    BY <2>2 DEF ExecutionEnds, CallSucceeds, CallRefused, CallFails, CallUncertain, Confirmed, Unverified, StoreFinal
  <2>3. CASE ExternalActs(k) \/ LeaseExpires(k)
    BY <2>3 DEF ExternalActs, LeaseExpires
  <2>4. QED BY <2>1, <2>2, <2>3
<1>2. QED BY <1>1 DEF Acted

LEMMA ActsAgain ==
  ASSUME GatewayInv, NEW k \in Keys, ExecutionEnds(k) \/ ExternalActs(k) \/ LeaseExpires(k)
  PROVE  \A j \in Keys : Acted(j)' => Acted(j)
<1>1. CASE ExecutionEnds(k)
  <2>1. exec[k] # "none"
    BY <1>1 DEF ExecutionEnds, CallSucceeds, CallRefused, CallFails, CallUncertain, Confirmed, Unverified
  <2>2. Acted(k)
    BY <2>1 DEF GatewayInv, KeyOK, Acted
  <2>3. QED BY <1>1, <2>2, ActsForOne
<1>2. CASE ExternalActs(k)
  <2>1. Acted(k)
    BY <1>2 DEF ExternalActs, Acted, GatewayInv, GatewayTypeOK
  <2>2. QED BY <1>2, <2>1, ActsForOne
<1>3. CASE LeaseExpires(k)
  <2>1. row'[k].status = row[k].status /\ UNCHANGED <<outstanding, effects>>
    BY <1>3, EnvironmentStep DEF LeaseExpires
  <2>2. QED BY <1>3, <2>1, ActsForOne DEF Acted
<1>4. QED BY <1>1, <1>2, <1>3

-----------------------------------------------------------------------------
(***************************************************************************)
(* What the nodes were told.                                               *)
(***************************************************************************)
\* A receipt stands: what it says of the row, the row says for good.
Stands(k) ==
  /\ told[k] \in {"ok", "manual"} => ReceiptOf(row[k].status) = told[k]
  /\ told[k] = "failed" => row[k].status = "failed"
  /\ told[k] = "ok" => effects[k] > 0

ToldInv == told \in [Keys -> Receipts] /\ \A k \in Keys : Stands(k)

LEMMA ReceiptFacts ==
  ASSUME NEW status
  PROVE  /\ ReceiptOf(status) \in Receipts
         /\ ReceiptOf(status) = "ok" => status = "completed"
         /\ ReceiptOf(status) = "manual" => status = "manual_reconciliation"
BY DEF ReceiptOf, Receipts

LEMMA StillStands ==
  ASSUME GatewayInv, GatewayInv', Stays, NEW k \in Keys, Stands(k), effects'[k] >= effects[k], told'[k] = told[k]
  PROVE  Stands(k)'
<1>1. effects[k] \in Nat /\ effects'[k] \in Nat
  BY DEF GatewayInv, GatewayTypeOK
<1>2. told[k] \in {"ok", "manual", "failed"} => row[k].status \in Settled
  BY ReceiptFacts DEF Stands, Settled
<1>3. told[k] \in {"ok", "manual", "failed"} => row'[k].status = row[k].status
  BY <1>2 DEF Stays
<1>4. QED BY <1>1, <1>3 DEF Stands

LEMMA ToldStep ==
  ASSUME ToldInv, GatewayInv, FlowInv, Next PROVE ToldInv'
<1>0. GatewayInv' /\ Stays /\ \A k \in Keys : effects'[k] >= effects[k]
  BY GatewayStep
<1>1. CASE UNCHANGED told
  BY <1>0, <1>1, StillStands DEF ToldInv
<1>2. ASSUME NEW k \in Keys, NEW receipt \in Receipts, told' = [told EXCEPT ![k] = receipt],
             receipt \in {"ok", "manual"} => ReceiptOf(row'[k].status) = receipt,
             receipt = "failed" => row'[k].status = "failed",
             receipt = "ok" => effects'[k] > 0
      PROVE  ToldInv'
  <2>1. told' \in [Keys -> Receipts] /\ told'[k] = receipt /\ \A j \in Keys \ {k} : told'[j] = told[j]
    BY <1>2 DEF ToldInv
  <2>2. Stands(k)'
    BY <1>2, <2>1 DEF Stands
  <2>3. \A j \in Keys \ {k} : Stands(j)'
    BY <1>0, <2>1, StillStands DEF ToldInv
  <2>4. QED BY <2>1, <2>2, <2>3 DEF ToldInv
<1>3. CASE CallGateway
  <2>1. wf.node \in Keys
    BY <1>3 DEF CallGateway, FlowInv, ActivityInv, CallsGateway
  <2>2. PICK receipt \in Receipts \cup {"join"} :
          /\ Execute(wf.node, receipt)
          /\ told' = [told EXCEPT ![wf.node] = IF receipt = "join" THEN told[wf.node] ELSE receipt]
    BY <1>3 DEF CallGateway
  <2>3. /\ receipt \in {"ok", "manual"} => ReceiptOf(row'[wf.node].status) = receipt
        /\ receipt = "failed" => row'[wf.node].status = "failed"
    BY <2>1, <2>2, ExecuteStep
  <2>4. receipt = "ok" => effects'[wf.node] > 0
    <3>1. receipt = "ok" => row'[wf.node].status = "completed"
      BY <2>3, ReceiptFacts
    <3>2. QED BY <1>0, <2>1, <3>1 DEF GatewayInv, KeyOK
  <2>5. CASE receipt = "join"
    <3>1. UNCHANGED told
      BY <2>1, <2>2, <2>5 DEF ToldInv
    <3>2. QED BY <1>1, <3>1
  <2>6. CASE receipt # "join"
    BY <1>2, <2>1, <2>2, <2>3, <2>4, <2>6
  <2>7. QED BY <2>5, <2>6
<1>4. ASSUME NEW k \in Keys, GatewayAnswers(k) PROVE ToldInv'
  <2>1. CASE exec'[k] = "none" /\ told' = [told EXCEPT ![k] = ReceiptOf(row'[k].status)]
    <3>1. row'[k].status \in Settled \cup {"retryable_failed"}
      BY <1>4, <2>1, ExecutionEndsStep DEF GatewayAnswers
    <3>2. ReceiptOf(row'[k].status) = "failed" => row'[k].status = "failed"
      BY <3>1 DEF ReceiptOf, Settled
    <3>3. ReceiptOf(row'[k].status) = "ok" => effects'[k] > 0
      BY <1>0, ReceiptFacts DEF GatewayInv, KeyOK
    <3>4. QED BY <1>2, <2>1, <3>2, <3>3, ReceiptFacts
  <2>2. CASE UNCHANGED told
    BY <1>1, <2>2
  <2>3. QED BY <1>4, <2>1, <2>2 DEF GatewayAnswers
<1>5. CASE Aside
  BY <1>1, <1>5 DEF Aside, ClaimRun, StartAnswered, StartFails, FreshRead, StaleRead, Reconcile, ApiCrash,
     HandleSignal, ClaimExpires, SignalEvent, Environment, Ask, NotWaiting, ClaimDecision,
     SignalAccepted, MarkSent, MarkFailed, worker
<1>6. ASSUME NEW n \in Nodes, NextNode(n) PROVE ToldInv'
  BY <1>1, <1>6 DEF NextNode
<1>7. ASSUME NEW k \in Keys, LateCall(k) PROVE ToldInv'
  BY <1>1, <1>7 DEF LateCall
<1>8. CASE StartAccepted \/ OpenGate \/ Decide \/ EventOrTimeout \/ NodeDone \/ Finish \/ Report
           \/ UpdateRunFails \/ StartNodeRun \/ ActivityFails \/ AnswerLost \/ Cancel
  BY <1>1, <1>8 DEF StartAccepted, OpenGate, Decide, EventOrTimeout, NodeDone, Finish, Report, UpdateRunFails,
     StartNodeRun, ActivityFails, AnswerLost, Cancel, worker
<1>9. QED BY <1>3, <1>4, <1>5, <1>6, <1>7, <1>8 DEF Next, Aside

-----------------------------------------------------------------------------
(***************************************************************************)
(* The approvals.                                                          *)
(***************************************************************************)
Claims == [status : {"absent", "pending", "sent", "failed"}, decision : Decisions \cup {"none"}, by : Users \cup {NoAsk}, leased : BOOLEAN]

SignalTypeOK ==
  /\ gate \in [wait : Nodes \cup {NoNode}, signal : Decisions \cup {"none", "event"}, early : SUBSET Waits]
  /\ transit \subseteq (Nodes \X (Decisions \cup {"event"}))
  /\ \A s \in transit : s[2] = "event" => s[1] \in Waits
  /\ claim \in [Nodes -> Claims]
  /\ ask \in [Users -> AskState \cup {NoAsk}]

\* A conclusion on its way to the workflow is the one recorded for its node.
Recorded(n, d) == claim[n].decision = d

ClaimInv ==
  /\ SignalTypeOK
  /\ \A n \in Nodes : claim[n].status = "absent" => claim[n].decision = "none"
  /\ \A u \in Users : (ask[u] # NoAsk /\ ask[u].phase \in {"signalling", "accepted"}) => Recorded(ask[u].node, ask[u].decision)
  /\ \A s \in transit : s[2] \in Decisions => Recorded(s[1], s[2])
  /\ gate.signal \in Decisions => gate.wait \in Nodes /\ Recorded(gate.wait, gate.signal)
  /\ wf.step = "gate" => gate.wait = wf.node
  /\ \A n \in Nodes : audit[n] # "none" => Recorded(n, audit[n])

\* What a request makes of the claims changes no conclusion that is recorded.
Kept == \A n \in Nodes : claim[n].decision # "none" => claim'[n].decision = claim[n].decision

LEMMA RequestKeeps ==
  ASSUME FlowInv, ClaimInv, Kept, UNCHANGED <<wf, gate, audit>>,
         claim' \in [Nodes -> Claims],
         \A n \in Nodes : claim'[n].status = "absent" => claim'[n].decision = "none",
         ask' \in [Users -> AskState \cup {NoAsk}],
         \A u \in Users : (ask'[u] # NoAsk /\ ask'[u].phase \in {"signalling", "accepted"})
                            => claim'[ask'[u].node].decision = ask'[u].decision,
         transit' \subseteq (Nodes \X (Decisions \cup {"event"})),
         \A s \in transit' : s[2] = "event" => s[1] \in Waits,
         \A s \in transit' \ transit : s[2] \in Decisions => Recorded(s[1], s[2])'
  PROVE  ClaimInv'
<1>1. SignalTypeOK'
  BY DEF ClaimInv, SignalTypeOK
<1>2. "none" \notin Decisions
  BY DEF Decisions
<1>3. \A s \in transit' : s[2] \in Decisions => Recorded(s[1], s[2])'
  <2>1. ASSUME NEW s \in transit, s[2] \in Decisions PROVE Recorded(s[1], s[2])'
    <3>1. s[1] \in Nodes /\ Recorded(s[1], s[2])
      BY <2>1 DEF ClaimInv, SignalTypeOK
    <3>2. QED BY <1>2, <2>1, <3>1 DEF Recorded, Kept
  <2>2. QED BY <2>1
<1>4. gate'.signal \in Decisions => gate'.wait \in Nodes /\ Recorded(gate.wait, gate.signal)'
  BY <1>2 DEF ClaimInv, Recorded, Kept
<1>5. \A n \in Nodes : audit'[n] # "none" => Recorded(n, audit[n])'
  BY <1>2 DEF ClaimInv, Recorded, Kept
<1>6. wf'.step = "gate" => gate'.wait = wf'.node
  BY DEF ClaimInv
<1>7. QED BY <1>1, <1>3, <1>4, <1>5, <1>6 DEF ClaimInv, Recorded

\* Steps that leave the approvals alone, whatever they make of the workflow outside its gate.
LEMMA ClaimIdle ==
  ASSUME ClaimInv, UNCHANGED <<gate, transit, claim, ask, audit>>,
         wf'.step # "gate" \/ UNCHANGED wf
  PROVE  ClaimInv'
BY DEF ClaimInv, SignalTypeOK, Recorded

LEMMA RequestStep ==
  ASSUME FlowInv, ClaimInv, NEW u \in Users,
         \/ \E n \in Nodes, d \in Decisions : Ask(u, n, d)
         \/ NotWaiting(u) \/ ClaimDecision(u)
         \/ SignalAccepted(u) \/ MarkSent(u) \/ MarkFailed(u)
  PROVE  ClaimInv'
<1>0. /\ "none" \notin Decisions /\ "event" \notin Decisions /\ UNCHANGED <<wf, gate, audit>>
      /\ claim \in [Nodes -> Claims] /\ ask \in [Users -> AskState \cup {NoAsk}]
      /\ transit \subseteq (Nodes \X (Decisions \cup {"event"}))
      /\ \A s \in transit : s[2] = "event" => s[1] \in Waits
      /\ \A n \in Nodes : claim[n].status = "absent" => claim[n].decision = "none"
      /\ \A w \in Users : (ask[w] # NoAsk /\ ask[w].phase \in {"signalling", "accepted"})
                            => claim[ask[w].node].decision = ask[w].decision
  BY DEF ClaimInv, SignalTypeOK, Recorded, Decisions, Ask, NotWaiting, ClaimDecision, SignalAccepted,
     MarkSent, MarkFailed, workflow
\* Requests that change neither the claims nor what is in transit.
<1>1. ASSUME NEW a \in AskState \cup {NoAsk}, ask' = [ask EXCEPT ![u] = a], UNCHANGED <<claim, transit>>,
             (a # NoAsk /\ a.phase \in {"signalling", "accepted"}) => claim[a.node].decision = a.decision
      PROVE  ClaimInv'
  <2>1. Kept /\ ask' \in [Users -> AskState \cup {NoAsk}]
    BY <1>0, <1>1 DEF Kept
  <2>2. \A w \in Users : (ask'[w] # NoAsk /\ ask'[w].phase \in {"signalling", "accepted"})
                           => claim'[ask'[w].node].decision = ask'[w].decision
    BY <1>0, <1>1 DEF Recorded
  <2>3. QED BY <1>0, <1>1, <2>1, <2>2, RequestKeeps
\* Requests that write the claim of one node, and keep its conclusion if there is one.
<1>2. ASSUME NEW n \in Nodes, NEW c \in Claims, claim' = [claim EXCEPT ![n] = c],
             claim[n].decision # "none" => c.decision = claim[n].decision,
             c.status = "absent" => c.decision = "none",
             NEW a \in AskState \cup {NoAsk}, ask' = [ask EXCEPT ![u] = a], UNCHANGED transit,
             a = NoAsk \/ (a.node = n /\ a.decision = c.decision)
      PROVE  ClaimInv'
  <2>1. Kept /\ ask' \in [Users -> AskState \cup {NoAsk}] /\ claim' \in [Nodes -> Claims]
    BY <1>0, <1>2 DEF Kept
  <2>2. \A m \in Nodes : claim'[m].status = "absent" => claim'[m].decision = "none"
    BY <1>0, <1>2
  <2>3. ASSUME NEW w \in Users, ask'[w] # NoAsk, ask'[w].phase \in {"signalling", "accepted"}
        PROVE  claim'[ask'[w].node].decision = ask'[w].decision
    <3>1. CASE w = u
      BY <1>0, <1>2, <2>3, <3>1 DEF Recorded
    <3>2. CASE w # u
      <4>1. ask'[w] = ask[w] /\ ask[w] \in AskState
        BY <1>0, <1>2, <2>3, <3>2
      <4>2. /\ ask[w].node \in Nodes /\ ask[w].decision \in Decisions
            /\ claim[ask[w].node].decision = ask[w].decision
        BY <1>0, <2>3, <4>1 DEF AskState
      <4>3. QED BY <1>0, <2>1, <4>1, <4>2 DEF Recorded, Kept
    <3>3. QED BY <3>1, <3>2
  <2>4. QED BY <1>0, <1>2, <2>1, <2>2, <2>3, RequestKeeps
<1>3. ASSUME ask[u] # NoAsk
      PROVE  ask[u] \in AskState /\ ask[u].node \in Nodes /\ ask[u].decision \in Decisions
             /\ claim[ask[u].node] \in Claims /\ claim = [claim EXCEPT ![ask[u].node] = claim[ask[u].node]]
  BY <1>0, <1>3 DEF AskState
<1>4. ASSUME NEW n \in Nodes, NEW d \in Decisions, Ask(u, n, d) PROVE ClaimInv'
  <2> DEFINE a == [node |-> n, decision |-> d, seen |-> Pending(n), phase |-> "answered"]
  <2>1. Pending(n) \in BOOLEAN
    BY DEF Pending
  <2>2. ask' = [ask EXCEPT ![u] = a] /\ UNCHANGED <<claim, transit>>
    BY <1>4 DEF Ask
  <2>3. a \in AskState /\ a.phase = "answered"
    BY <2>1 DEF AskState
  <2> HIDE DEF a
  <2>4. QED BY <1>1, <2>2, <2>3
<1>5. CASE NotWaiting(u)
  <2>1. /\ ask[u] # NoAsk /\ ask' = [ask EXCEPT ![u] = NoAsk] /\ UNCHANGED transit
        /\ \/ UNCHANGED claim
           \/ claim' = [claim EXCEPT ![ask[u].node].status = "sent"]
    BY <1>5 DEF NotWaiting
  <2>2. CASE UNCHANGED claim
    BY <1>1, <2>1, <2>2
  <2>3. CASE claim' = [claim EXCEPT ![ask[u].node].status = "sent"]
    <3> DEFINE c == [claim[ask[u].node] EXCEPT !.status = "sent"]
    <3>1. claim' = [claim EXCEPT ![ask[u].node] = c]
      BY <2>3
    <3>2. c \in Claims /\ c.status = "sent" /\ c.decision = claim[ask[u].node].decision
      BY <1>3, <2>1 DEF Claims
    <3> HIDE DEF c
    <3>3. QED BY <1>2, <1>3, <2>1, <3>1, <3>2
  <2>4. QED BY <2>1, <2>2, <2>3
<1>6. CASE ClaimDecision(u)
  <2>1. ask[u] # NoAsk /\ ask[u].phase = "answered" /\ UNCHANGED transit
    BY <1>6 DEF ClaimDecision
  <2>2. CASE ask' = [ask EXCEPT ![u] = NoAsk] /\ UNCHANGED claim
    BY <1>1, <2>1, <2>2
  <2>3. CASE /\ MayClaim(ask[u].node, ask[u].decision)
             /\ claim' = [claim EXCEPT ![ask[u].node] = [status |-> "pending", decision |-> ask[u].decision, by |-> u, leased |-> TRUE]]
             /\ ask' = [ask EXCEPT ![u].phase = "signalling"]
    <3>1. PICK c \in Claims : c = [status |-> "pending", decision |-> ask[u].decision, by |-> u, leased |-> TRUE]
      BY <1>3, <2>1 DEF Claims
    <3>2. PICK a \in AskState : a = [ask[u] EXCEPT !.phase = "signalling"]
      BY <1>3, <2>1 DEF AskState
    <3>3. PICK n \in Nodes : n = ask[u].node
      BY <1>3, <2>1
    <3>4. /\ claim' = [claim EXCEPT ![n] = c] /\ ask' = [ask EXCEPT ![u] = a]
          /\ a.node = n /\ a.decision = c.decision /\ c.status = "pending"
      BY <1>3, <2>1, <2>3, <3>1, <3>2, <3>3 DEF AskState
    <3>5. claim[n].decision # "none" => c.decision = claim[n].decision
      BY <1>0, <1>3, <2>1, <2>3, <3>1, <3>3 DEF MayClaim
    <3>6. a \in AskState \cup {NoAsk} /\ c.status # "absent" /\ UNCHANGED transit
      BY <2>1, <3>4
    <3>7. QED BY <1>2, <3>4, <3>5, <3>6
  <2>4. QED BY <1>6, <2>2, <2>3 DEF ClaimDecision
<1>7. CASE SignalAccepted(u)
  <2>1. /\ ask[u] # NoAsk /\ ask[u].phase = "signalling" /\ UNCHANGED claim
        /\ transit' = transit \cup {<<ask[u].node, ask[u].decision>>}
        /\ ask' = [ask EXCEPT ![u].phase = "accepted"]
    BY <1>7 DEF SignalAccepted
  <2>2. Kept
    BY <2>1 DEF Kept
  <2>3. ask' \in [Users -> AskState \cup {NoAsk}]
    BY <1>0, <1>3, <2>1 DEF AskState
  <2>4. claim[ask[u].node].decision = ask[u].decision
    BY <1>0, <2>1
  <2>5. \A w \in Users : (ask'[w] # NoAsk /\ ask'[w].phase \in {"signalling", "accepted"})
                           => claim'[ask'[w].node].decision = ask'[w].decision
    BY <1>0, <1>3, <2>1, <2>4 DEF Recorded, AskState
  <2>6. /\ transit' \subseteq (Nodes \X (Decisions \cup {"event"}))
        /\ \A s \in transit' : s[2] = "event" => s[1] \in Waits
    BY <1>0, <1>3, <2>1
  <2>7. \A s \in transit' \ transit : s[2] \in Decisions => Recorded(s[1], s[2])'
    BY <2>1, <2>4 DEF Recorded
  <2>8. QED BY <1>0, <2>1, <2>2, <2>3, <2>5, <2>6, <2>7, RequestKeeps
<1>8. CASE MarkSent(u) \/ MarkFailed(u)
  <2>1. PICK status \in {"sent", "failed"} :
          /\ ask[u] # NoAsk /\ UNCHANGED transit
          /\ claim' = [claim EXCEPT ![ask[u].node].status = status, ![ask[u].node].leased = FALSE]
          /\ ask' = [ask EXCEPT ![u] = NoAsk]
    BY <1>8 DEF MarkSent, MarkFailed
  <2> DEFINE c == [claim[ask[u].node] EXCEPT !.status = status, !.leased = FALSE]
  <2>2. claim' = [claim EXCEPT ![ask[u].node] = c]
    BY <1>0, <1>3, <2>1
  <2>3. c \in Claims /\ c.status # "absent" /\ c.decision = claim[ask[u].node].decision
    BY <1>3, <2>1 DEF Claims
  <2> HIDE DEF c
  <2>4. QED BY <1>2, <1>3, <2>1, <2>2, <2>3
<1>9. QED BY <1>4, <1>5, <1>6, <1>7, <1>8

LEMMA ClaimStep ==
  ASSUME FlowInv, ClaimInv, Next PROVE ClaimInv'
<1>0. /\ wf \in [status : Active \cup Closed, node : Nodes \cup {NoNode}, step : Steps \cup {"unstarted", "closed"}]
      /\ audit \in [Nodes -> Decisions \cup {"none"}] /\ "none" \notin Decisions /\ "event" \notin Decisions
      /\ claim \in [Nodes -> Claims] /\ ask \in [Users -> AskState \cup {NoAsk}]
      /\ gate \in [wait : Nodes \cup {NoNode}, signal : Decisions \cup {"none", "event"}, early : SUBSET Waits]
      /\ transit \subseteq (Nodes \X (Decisions \cup {"event"}))
      /\ \A s \in transit : s[2] = "event" => s[1] \in Waits
  BY DEF FlowInv, FlowTypeOK, ClaimInv, SignalTypeOK, Decisions
<1>1. CASE ClaimRun \/ StartAnswered \/ StartFails \/ FreshRead \/ StaleRead
           \/ StartNodeRun \/ CallGateway \/ \E k \in Keys : GatewayAnswers(k) \/ LateCall(k) \/ Environment(k)
  <2>1. UNCHANGED <<gate, transit, claim, ask, audit, wf>>
    BY <1>1 DEF ClaimRun, StartAnswered, StartFails, FreshRead, StaleRead, Reconcile,
       StartNodeRun, CallGateway, GatewayAnswers, LateCall, Environment, workflow, api
  <2>2. QED BY <2>1, ClaimIdle
<1>2. CASE StartAccepted \/ NodeDone \/ Finish \/ Report \/ UpdateRunFails \/ ActivityFails \/ AnswerLost \/ Cancel
  <2>1. UNCHANGED <<gate, transit, claim, ask, audit>>
    BY <1>2 DEF StartAccepted, NodeDone, Finish, Report, UpdateRunFails, ActivityFails, AnswerLost,
       RetryOrThrow, Throw, Cancel, api
  <2>2. wf'.step # "gate" \/ UNCHANGED wf
    <3>1. \/ wf' = [status |-> "completed", node |-> NoNode, step |-> "report"]
          \/ wf' = [wf EXCEPT !.status = "failed", !.step = "report"]
          \/ wf' = [wf EXCEPT !.status = "failed", !.step = "closed"]
          \/ wf' = [wf EXCEPT !.step = "closed"]
          \/ wf' = [wf EXCEPT !.step = "idle"]
          \/ wf' = wf
      BY <1>2 DEF StartAccepted, NodeDone, Finish, Report, UpdateRunFails, ActivityFails, AnswerLost,
         RetryOrThrow, Throw, Cancel
    <3>2. wf' = wf \/ wf'.step \in {"report", "closed", "idle"}
      <4>1. CASE wf' = [wf EXCEPT !.status = "failed", !.step = "report"] \/ wf' = [wf EXCEPT !.status = "failed", !.step = "closed"]
        BY <1>0, <4>1
      <4>2. CASE wf' = [wf EXCEPT !.step = "closed"] \/ wf' = [wf EXCEPT !.step = "idle"]
        BY <1>0, <4>2
      <4>3. QED BY <3>1, <4>1, <4>2
    <3>3. QED BY <3>2
  <2>3. QED BY <2>1, <2>2, ClaimIdle
<1>3. ASSUME NEW n \in Nodes, NextNode(n) PROVE ClaimInv'
  <2>1. UNCHANGED <<gate, transit, claim, ask, audit>> /\ wf'.step # "gate"
    BY <1>3 DEF NextNode, api
  <2>2. QED BY <2>1, ClaimIdle
<1>4. CASE OpenGate
  <2>1. /\ wf.step = "telling" /\ wf' = [wf EXCEPT !.step = "gate"] /\ wf.node \in Nodes
        /\ gate' = [wait |-> wf.node, signal |-> IF wf.node \in gate.early THEN "event" ELSE "none",
                    early |-> gate.early \ {wf.node}]
        /\ UNCHANGED <<transit, claim, ask, audit>>
    BY <1>4 DEF OpenGate, FlowInv, PathInv
  <2>2. SignalTypeOK'
    BY <1>0, <2>1 DEF ClaimInv, SignalTypeOK
  <2>3. gate'.signal \notin Decisions /\ gate'.wait = wf'.node
    BY <1>0, <2>1
  <2>4. QED BY <2>1, <2>2, <2>3 DEF ClaimInv, Recorded
<1>5. CASE Decide
  <2>1. /\ wf.step = "gate" /\ gate.signal \in Decisions
        /\ audit' = [audit EXCEPT ![wf.node] = gate.signal]
        /\ gate' = [gate EXCEPT !.wait = NoNode, !.signal = "none"]
        /\ wf'.step # "gate"
        /\ UNCHANGED <<transit, claim, ask>>
    BY <1>0, <1>5 DEF Decide, CloseGate, api
  <2>2. wf.node \in Nodes /\ Recorded(wf.node, gate.signal)
    BY <2>1 DEF ClaimInv
  <2>3. SignalTypeOK' /\ gate'.signal \notin Decisions
    BY <1>0, <2>1 DEF ClaimInv, SignalTypeOK
  <2>4. \A n \in Nodes : audit'[n] # "none" => Recorded(n, audit'[n])
    BY <1>0, <2>1, <2>2 DEF ClaimInv
  <2>5. QED BY <2>1, <2>3, <2>4 DEF ClaimInv, Recorded
<1>6. CASE EventOrTimeout
  <2>1. /\ gate' = [gate EXCEPT !.wait = NoNode, !.signal = "none"]
        /\ wf'.step # "gate"
        /\ UNCHANGED <<transit, claim, ask, audit>>
    BY <1>0, <1>6 DEF EventOrTimeout, CloseGate, api
  <2>2. SignalTypeOK' /\ gate'.signal \notin Decisions
    BY <1>0, <2>1 DEF ClaimInv, SignalTypeOK
  <2>3. QED BY <2>1, <2>2 DEF ClaimInv, Recorded
<1>7. ASSUME NEW s \in transit, HandleSignal(s) PROVE ClaimInv'
  <2>1. /\ transit' = transit \ {s} /\ UNCHANGED <<wf, claim, ask, audit>>
        /\ s[1] \in Nodes /\ s[2] \in Decisions \cup {"event"} /\ (s[2] = "event" => s[1] \in Waits)
        /\ s[2] \in Decisions => Recorded(s[1], s[2])
    BY <1>0, <1>7 DEF HandleSignal, ClaimInv, api
  <2>2. CASE gate.wait = s[1] /\ gate' = [gate EXCEPT !.signal = IF gate.signal = "none" THEN s[2] ELSE gate.signal]
    <3>1. /\ gate' \in [wait : Nodes \cup {NoNode}, signal : Decisions \cup {"none", "event"}, early : SUBSET Waits]
          /\ gate'.wait = gate.wait /\ gate'.signal \in {gate.signal, s[2]}
      BY <1>0, <2>1, <2>2
    <3>2. SignalTypeOK'
      BY <1>0, <2>1, <3>1 DEF SignalTypeOK
    <3>3. gate'.signal \in Decisions => gate'.wait \in Nodes /\ Recorded(gate'.wait, gate'.signal)
      BY <2>1, <2>2, <3>1 DEF ClaimInv
    <3>4. QED BY <2>1, <3>1, <3>2, <3>3 DEF ClaimInv, Recorded
  <2>3. CASE \/ s[2] = "event" /\ gate' = [gate EXCEPT !.early = gate.early \cup {s[1]}]
             \/ gate' = gate
    <3>1. /\ gate' \in [wait : Nodes \cup {NoNode}, signal : Decisions \cup {"none", "event"}, early : SUBSET Waits]
          /\ gate'.wait = gate.wait /\ gate'.signal = gate.signal
      BY <1>0, <2>1, <2>3
    <3>2. SignalTypeOK'
      BY <1>0, <2>1, <3>1 DEF SignalTypeOK
    <3>3. QED BY <2>1, <3>1, <3>2 DEF ClaimInv, Recorded
  <2>4. QED BY <1>7, <2>2, <2>3 DEF HandleSignal
<1>8. ASSUME NEW n \in Waits, SignalEvent(n) PROVE ClaimInv'
  <2>1. transit' = transit \cup {<<n, "event">>} /\ UNCHANGED <<wf, gate, audit, claim, ask>> /\ n \in Nodes
    BY <1>8, GraphAssumption DEF SignalEvent, workflow, api
  <2>2. /\ transit' \subseteq (Nodes \X (Decisions \cup {"event"}))
        /\ \A s \in transit' : s[2] = "event" => s[1] \in Waits
        /\ \A s \in transit' \ transit : s[2] \notin Decisions
    BY <1>0, <1>8, <2>1
  <2>3. QED BY <2>1, <2>2 DEF ClaimInv, SignalTypeOK, Recorded
<1>9. ASSUME NEW n \in Nodes, ClaimExpires(n) PROVE ClaimInv'
  <2>1. claim' = [claim EXCEPT ![n].leased = FALSE] /\ UNCHANGED <<wf, gate, audit, transit, ask>>
    BY <1>9 DEF ClaimExpires, workflow
  <2> DEFINE c == [claim[n] EXCEPT !.leased = FALSE]
  <2>2. claim' = [claim EXCEPT ![n] = c] /\ c \in Claims /\ c.status = claim[n].status /\ c.decision = claim[n].decision
    <3>1. claim[n] \in Claims
      BY <1>0
    <3>2. c \in Claims /\ c.status = claim[n].status /\ c.decision = claim[n].decision
      BY <3>1 DEF Claims
    <3>3. QED BY <2>1, <3>2
  <2> HIDE DEF c
  <2>3. claim' \in [Nodes -> Claims]
    BY <1>0, <2>2
  <2>4. \A m \in Nodes : claim'[m].status = claim[m].status /\ claim'[m].decision = claim[m].decision
    BY <1>0, <2>2
  <2>5. Kept
    BY <2>4 DEF Kept
  <2>6. /\ \A m \in Nodes : claim'[m].status = "absent" => claim'[m].decision = "none"
        /\ \A u \in Users : (ask'[u] # NoAsk /\ ask'[u].phase \in {"signalling", "accepted"})
                              => claim'[ask'[u].node].decision = ask'[u].decision
    BY <1>0, <2>1, <2>4 DEF ClaimInv, Recorded, AskState
  <2>7. QED BY <1>0, <2>1, <2>3, <2>5, <2>6, RequestKeeps
<1>10. CASE ApiCrash
  <2>1. ask' = [u \in Users |-> NoAsk] /\ UNCHANGED <<wf, gate, audit, transit, claim>>
    BY <1>10 DEF ApiCrash, workflow
  <2>2. QED BY <1>0, <2>1 DEF ClaimInv, SignalTypeOK, Recorded
<1>11. ASSUME NEW u \in Users,
              \/ \E n \in Nodes, d \in Decisions : Ask(u, n, d)
              \/ NotWaiting(u) \/ ClaimDecision(u)
              \/ SignalAccepted(u) \/ MarkSent(u) \/ MarkFailed(u)
       PROVE  ClaimInv'
  BY <1>11, RequestStep
<1>12. QED
  BY <1>1, <1>2, <1>3, <1>4, <1>5, <1>6, <1>7, <1>8, <1>9, <1>10, <1>11 DEF Next, SignalEvent

-----------------------------------------------------------------------------
(***************************************************************************)
(* Every effect is paid for.  A key is engaged once the gateway acted for   *)
(* it, or may still be asked to: each engaged key, and the budget that is   *)
(* left, has an approval of its own.                                        *)
(***************************************************************************)
Engaged == {k \in Keys : Acted(k) \/ late[k] > 0 \/ Underway(k)}
Approved == {n \in Nodes : audit[n] = "approved"}

PaidInv ==
  /\ mode = "supervised" => Cardinality(Engaged) + budget <= Cardinality(Approved)
  /\ mode = "shadow" => \A k \in Keys : ~Acted(k)

LEMMA Counting ==
  ASSUME NEW S, NEW T, NEW x, T \subseteq Nodes
  PROVE  /\ Cardinality(T) \in Nat
         /\ S \subseteq T => Cardinality(S) \in Nat /\ Cardinality(S) <= Cardinality(T)
         /\ S \subseteq T \cup {x} => Cardinality(S) \in Nat /\ Cardinality(S) <= Cardinality(T) + 1
         /\ x \notin T => Cardinality(T \cup {x}) = Cardinality(T) + 1
<1>1. IsFiniteSet(T)
  BY GraphAssumption, FS_Subset
<1>2. IsFiniteSet(T \cup {x}) /\ Cardinality(T) \in Nat
      /\ Cardinality(T \cup {x}) = IF x \in T THEN Cardinality(T) ELSE Cardinality(T) + 1
  BY <1>1, FS_AddElement, FS_CardinalityType
<1>3. ASSUME S \subseteq T PROVE Cardinality(S) \in Nat /\ Cardinality(S) <= Cardinality(T)
  BY <1>1, <1>3, FS_Subset, FS_CardinalityType
<1>4. ASSUME S \subseteq T \cup {x} PROVE Cardinality(S) \in Nat /\ Cardinality(S) <= Cardinality(T) + 1
  <2>1. Cardinality(S) \in Nat /\ Cardinality(S) <= Cardinality(T \cup {x})
    BY <1>2, <1>4, FS_Subset, FS_CardinalityType
  <2>2. QED BY <1>2, <2>1
<1>5. QED BY <1>2, <1>3, <1>4

LEMMA ActedStep ==
  ASSUME GatewayInv, FlowInv, Next
  PROVE  \A k \in Keys : Acted(k)' => Acted(k) \/ (mode # "shadow" /\ (Underway(k) \/ late[k] > 0))
<1>1. CASE UNCHANGED gateway \/ GatewayCrash
  BY <1>1 DEF Acted, gateway, GatewayCrash
<1>2. ASSUME NEW k \in Keys, Underway(k) \/ late[k] > 0, mode # "shadow", \E receipt : Execute(k, receipt)
      PROVE  \A j \in Keys : Acted(j)' => Acted(j) \/ (mode # "shadow" /\ (Underway(j) \/ late[j] > 0))
  <2>1. \A j \in Keys \ {k} : Acted(j)' <=> Acted(j)
    BY <1>2, ActsForOne
  <2>2. QED BY <1>2, <2>1
<1>3. ASSUME NEW k \in Keys, ExecutionEnds(k) \/ ExternalActs(k) \/ LeaseExpires(k)
      PROVE  \A j \in Keys : Acted(j)' => Acted(j)
  BY <1>3, ActsAgain
<1>4. QED BY <1>1, <1>2, <1>3, GatewayMoves

LEMMA LateStep ==
  ASSUME FlowInv, Next
  PROVE  \A k \in Keys : late'[k] > 0 => late[k] > 0 \/ Underway(k)
<1>0. late \in [Keys -> 0..MaxActivity] /\ MaxActivity \in Nat
  BY RunBoundsAssumption DEF FlowInv, FlowTypeOK
<1>1. CASE UNCHANGED late
  BY <1>1
<1>2. ASSUME LeftBehind, wf.step = "node" PROVE \A k \in Keys : late'[k] > 0 => late[k] > 0 \/ Underway(k)
  BY <1>0, <1>2 DEF LeftBehind, Underway
<1>3. ASSUME NEW k \in Keys, LateCall(k) PROVE \A j \in Keys : late'[j] > 0 => late[j] > 0
  BY <1>0, <1>3 DEF LateCall
<1>4. CASE ActivityFails
  BY <1>2, <1>4 DEF ActivityFails
<1>5. CASE Cancel
  BY <1>1, <1>2, <1>5 DEF Cancel
<1>6. CASE Aside
  BY <1>1, <1>6, AsideLeavesFlow DEF flow
<1>7. ASSUME NEW n \in Nodes, NextNode(n) PROVE UNCHANGED late
  BY <1>7 DEF NextNode
<1>8. CASE StartAccepted \/ OpenGate \/ Decide \/ EventOrTimeout \/ NodeDone \/ Finish \/ Report
           \/ UpdateRunFails \/ StartNodeRun \/ CallGateway \/ AnswerLost \/ \E k \in Keys : GatewayAnswers(k)
  BY <1>1, <1>8 DEF StartAccepted, OpenGate, Decide, EventOrTimeout, NodeDone, Finish, Report, UpdateRunFails,
     StartNodeRun, CallGateway, AnswerLost, GatewayAnswers, worker
<1>9. QED BY <1>1, <1>3, <1>4, <1>5, <1>6, <1>7, <1>8 DEF Next, Aside

\* Only what comes under way is newly engaged.
LEMMA EngagedStep ==
  ASSUME GatewayInv, FlowInv, Next
  PROVE  /\ \A k \in Keys : k \in Engaged' => k \in Engaged \/ Underway(k)'
         /\ PaidInv => (mode = "shadow" => \A k \in Keys : ~Acted(k)')
         /\ Engaged \subseteq Keys /\ Engaged' \subseteq Keys
BY ActedStep, LateStep DEF Engaged, PaidInv

LEMMA PaidKeeps ==
  ASSUME GatewayInv, FlowInv, Next, PaidInv, UNCHANGED <<mode, audit, budget>>,
         \A k \in Keys : Underway(k)' => Underway(k)
  PROVE  PaidInv'
<1>1. Engaged' \subseteq Engaged /\ Approved' = Approved
  BY EngagedStep DEF Engaged, Approved
<1>2. Engaged \subseteq Nodes /\ Approved \subseteq Nodes
  BY GraphAssumption DEF Engaged, Approved
<1>3. Cardinality(Engaged') <= Cardinality(Engaged) /\ Cardinality(Engaged') \in Nat /\ Cardinality(Engaged) \in Nat
  BY <1>1, <1>2, Counting
<1>4. Cardinality(Approved') = Cardinality(Approved) /\ Cardinality(Approved) \in Nat
  BY <1>1, <1>2, Counting
<1>5. budget \in {0, 1}
  BY DEF FlowInv, FlowTypeOK
<1>6. QED BY <1>3, <1>4, <1>5, EngagedStep DEF PaidInv

LEMMA PaidStep ==
  ASSUME GatewayInv, FlowInv, PaidInv, Next PROVE PaidInv'
<1>0. /\ Engaged \subseteq Nodes /\ Approved \subseteq Nodes /\ budget \in {0, 1}
      /\ wf \in [status : Active \cup Closed, node : Nodes \cup {NoNode}, step : Steps \cup {"unstarted", "closed"}]
      /\ audit \in [Nodes -> Decisions \cup {"none"}] /\ Keys \subseteq Nodes /\ Keys \cap (Approvals \cup Waits) = {}
      /\ Cardinality(Engaged) \in Nat /\ Cardinality(Approved) \in Nat
  <2>1. Engaged \subseteq Nodes /\ Approved \subseteq Nodes
    BY GraphAssumption DEF Engaged, Approved
  <2>2. QED BY <2>1, Counting, GraphAssumption DEF FlowInv, FlowTypeOK
<1>1. CASE Aside
  BY <1>1, AsideLeavesFlow, PaidKeeps DEF flow, Underway
<1>2. CASE \/ StartAccepted \/ OpenGate \/ NodeDone \/ Finish \/ Report \/ UpdateRunFails \/ StartNodeRun
           \/ CallGateway \/ ActivityFails \/ AnswerLost \/ Cancel \/ \E k \in Keys : GatewayAnswers(k) \/ LateCall(k)
  <2>1. UNCHANGED <<mode, audit, budget>>
    BY <1>2 DEF StartAccepted, OpenGate, NodeDone, Finish, Report, UpdateRunFails, StartNodeRun, CallGateway,
       ActivityFails, AnswerLost, RetryOrThrow, Throw, Cancel, GatewayAnswers, LateCall, workflow
  <2>2. \/ wf' = wf
        \/ wf' = [status |-> "completed", node |-> NoNode, step |-> "report"]
        \/ wf' = [wf EXCEPT !.status = "failed", !.step = "report"]
        \/ wf' = [wf EXCEPT !.status = "failed", !.step = "closed"]
        \/ wf' = [wf EXCEPT !.step = "closed"] \/ wf' = [wf EXCEPT !.step = "idle"] \/ wf' = [wf EXCEPT !.step = "gate"]
    BY <1>2 DEF StartAccepted, OpenGate, NodeDone, Finish, Report, UpdateRunFails, StartNodeRun, CallGateway,
       ActivityFails, AnswerLost, RetryOrThrow, Throw, Cancel, GatewayAnswers, LateCall, workflow
  <2>3. wf' = wf \/ wf'.step # "node"
    <3>1. CASE wf' = [wf EXCEPT !.status = "failed", !.step = "report"] \/ wf' = [wf EXCEPT !.status = "failed", !.step = "closed"]
      BY <1>0, <3>1
    <3>2. CASE wf' = [wf EXCEPT !.step = "closed"] \/ wf' = [wf EXCEPT !.step = "idle"] \/ wf' = [wf EXCEPT !.step = "gate"]
      BY <1>0, <3>2
    <3>3. QED BY <2>2, <3>1, <3>2
  <2>4. QED BY <2>1, <2>3, PaidKeeps DEF Underway
<1>3. CASE EventOrTimeout
  <2>1. /\ wf' = [wf EXCEPT !.step = "node"] /\ wf.node \in Waits /\ UNCHANGED <<mode, audit, budget>>
    BY <1>3 DEF EventOrTimeout
  <2>2. \A k \in Keys : ~Underway(k)'
    BY <1>0, <2>1 DEF Underway
  <2>3. QED BY <2>1, <2>2, PaidKeeps
<1>4. ASSUME NEW n \in Nodes, NextNode(n) PROVE PaidInv'
  <2>1. UNCHANGED <<mode, audit>>
    BY <1>4 DEF NextNode
  <2>2. CASE wf'.step # "node" /\ UNCHANGED budget
    BY <2>1, <2>2, PaidKeeps DEF Underway
  <2>3. CASE /\ wf' = [status |-> "running", node |-> n, step |-> "node"]
             /\ ~NeedsApproval(n) /\ budget' = Spend(n)
    <3>1. CASE n \notin Keys
      <4>1. UNCHANGED budget /\ \A k \in Keys : ~Underway(k)'
        BY <2>3, <3>1 DEF Spend, Underway
      <4>2. QED BY <2>1, <4>1, PaidKeeps
    <3>2. CASE n \in Keys /\ mode = "supervised"
      <4>1. budget = 1 /\ budget' = 0
        BY <1>0, <2>3, <3>2 DEF NeedsApproval, Spend
      <4>2. Engaged' \subseteq Engaged \cup {n} /\ Approved' = Approved
        BY <2>1, <2>3, EngagedStep DEF Underway, Approved
      <4>3. Cardinality(Engaged') \in Nat /\ Cardinality(Engaged') <= Cardinality(Engaged) + 1
        BY <1>0, <4>2, Counting
      <4>4. Cardinality(Approved') = Cardinality(Approved)
        BY <4>2
      <4>5. QED BY <1>0, <2>1, <3>2, <4>1, <4>3, <4>4 DEF PaidInv
    <3>3. CASE mode # "supervised"
      BY <2>1, <3>3, EngagedStep DEF PaidInv
    <3>4. QED BY <3>1, <3>2, <3>3
  <2>4. QED BY <1>4, <2>2, <2>3 DEF NextNode
<1>5. CASE Decide
  <2>1. /\ wf.step = "gate" /\ wf.node \in Nodes /\ audit[wf.node] = "none" /\ UNCHANGED mode
        /\ audit' = [audit EXCEPT ![wf.node] = gate.signal]
    BY <1>5 DEF Decide, FlowInv, PathInv, AuditInv, Underway, Over
  <2>2. CASE gate.signal = "rejected" /\ wf' = [wf EXCEPT !.status = "rejected", !.step = "report"] /\ UNCHANGED budget
    <3>1. Approved' = Approved
      BY <1>0, <2>1, <2>2 DEF Approved
    <3>2. \A k \in Keys : ~Underway(k)'
      BY <1>0, <2>2 DEF Underway
    <3>3. Engaged' \subseteq Engaged
      BY <3>2, EngagedStep
    <3>4. Cardinality(Engaged') <= Cardinality(Engaged) /\ Cardinality(Engaged') \in Nat
      BY <1>0, <3>3, Counting
    <3>5. Cardinality(Approved') = Cardinality(Approved)
      BY <3>1
    <3>6. QED BY <1>0, <2>1, <2>2, <3>4, <3>5, EngagedStep DEF PaidInv
  <2>3. CASE /\ gate.signal = "approved" /\ wf' = [wf EXCEPT !.step = "node"]
             /\ budget' = IF wf.node \in Approvals THEN 1 ELSE budget
    <3>1. Approved' = Approved \cup {wf.node} /\ wf.node \notin Approved
      BY <1>0, <2>1, <2>3 DEF Approved
    <3>2. Cardinality(Approved') = Cardinality(Approved) + 1
      <4>1. Cardinality(Approved \cup {wf.node}) = Cardinality(Approved) + 1
        BY <1>0, <3>1, Counting
      <4>2. QED BY <3>1, <4>1
    <3>3. \A k \in Keys : Underway(k)' => k = wf.node
      BY <1>0, <2>3 DEF Underway
    <3>4. CASE wf.node \in Approvals
      <4>1. Engaged' \subseteq Engaged
        BY <1>0, <3>3, <3>4, EngagedStep
      <4>2. Cardinality(Engaged') <= Cardinality(Engaged) /\ Cardinality(Engaged') \in Nat
        BY <1>0, <4>1, Counting
      <4>3. QED BY <1>0, <2>1, <2>3, <3>2, <3>4, <4>2, EngagedStep DEF PaidInv
    <3>5. CASE wf.node \notin Approvals
      <4>1. Engaged' \subseteq Engaged \cup {wf.node}
        BY <3>3, EngagedStep
      <4>2. Cardinality(Engaged') \in Nat /\ Cardinality(Engaged') <= Cardinality(Engaged) + 1
        BY <1>0, <4>1, Counting
      <4>3. QED BY <1>0, <2>1, <2>3, <3>2, <3>5, <4>2, EngagedStep DEF PaidInv
    <3>6. QED BY <3>4, <3>5
  <2>4. QED BY <1>5, <2>2, <2>3 DEF Decide
<1>6. QED BY <1>1, <1>2, <1>3, <1>4, <1>5 DEF Next, Aside

-----------------------------------------------------------------------------
(***************************************************************************)
(* The run.                                                                *)
(***************************************************************************)
FaultsInv == faults \in 0..MaxFaults
Inv == GatewayInv /\ FlowInv /\ StartInv /\ ToldInv /\ ClaimInv /\ PaidInv /\ FaultsInv

LEMMA FaultsStep ==
  ASSUME FaultsInv, Next PROVE FaultsInv'
<1>1. UNCHANGED faults \/ Fault
  BY DEF Next, ClaimRun, StartAccepted, StartAnswered, StartFails, OpenGate, Decide, EventOrTimeout, NodeDone,
     Finish, Report, UpdateRunFails, StartNodeRun, CallGateway, ActivityFails, AnswerLost, Cancel, FreshRead,
     StaleRead, ApiCrash, HandleSignal, NextNode, ClaimExpires, SignalEvent, GatewayAnswers, LateCall,
     Environment, Ask, NotWaiting, ClaimDecision, SignalAccepted, MarkSent, MarkFailed
<1>2. QED BY <1>1, RunBoundsAssumption DEF FaultsInv, Fault

LEMMA InitInv == Init => Inv
<1> SUFFICES ASSUME Init PROVE Inv
  OBVIOUS
<1> USE DEF Init
<1>1. GatewayInv
  BY DEF GatewayInit, GatewayInv, GatewayTypeOK, KeyOK, RowStatus
<1>2. FlowInv
  <2>1. wf.step = "unstarted" /\ wf.node = NoNode /\ wf.status = "running"
    OBVIOUS
  <2>2. FlowTypeOK
    BY GraphAssumption, RunBoundsAssumption DEF FlowTypeOK, Active
  <2>3. PathInv /\ ActivityInv /\ LateInv /\ AuditInv
    BY <2>1 DEF PathInv, ActivityInv, LateInv, AuditInv, Underway, Over
  <2>4. QED BY <2>2, <2>3 DEF FlowInv
<1>3. StartInv /\ FaultsInv
  BY RunBoundsAssumption DEF StartInv, FaultsInv
<1>4. ToldInv
  BY DEF ToldInv, Stands, Receipts
<1>5. ClaimInv
  <2>1. SignalTypeOK
    BY DEF SignalTypeOK, Claims
  <2>2. QED BY <2>1 DEF ClaimInv, Decisions
<1>6. PaidInv
  <2>1. Engaged = {} /\ \A k \in Keys : ~Acted(k)
    BY DEF GatewayInit, Engaged, Acted, Underway
  <2>2. Cardinality(Engaged) = 0
    BY <2>1, FS_EmptySet
  <2>3. Cardinality(Approved) \in Nat
    BY Counting DEF Approved
  <2>4. QED BY <2>1, <2>2, <2>3 DEF PaidInv
<1>7. QED BY <1>1, <1>2, <1>3, <1>4, <1>5, <1>6 DEF Inv

LEMMA NextInv ==
  ASSUME Inv, [Next]_vars PROVE Inv' /\ Stays
<1>1. CASE Next
  BY <1>1, GatewayStep, FlowStep, StartStep, ToldStep, ClaimStep, PaidStep, FaultsStep DEF Inv
<1>2. CASE UNCHANGED vars
  <2>1. UNCHANGED <<row, exec, outstanding, effects, mode, wf, todo, visited, budget, gate, audit, transit, activity,
                    late, told, run, starting, claim, ask, faults>>
    BY <1>2 DEF vars, gateway, workflow, worker, api
  <2>2. GatewayInv' /\ Stays
    BY <2>1, GatewayIdle DEF Inv, gateway
  <2>3. FlowInv'
    BY <2>1, FlowIdle DEF Inv, flow
  <2>4. ClaimInv'
    BY <2>1, ClaimIdle DEF Inv
  <2>5. ToldInv'
    BY <2>1 DEF Inv, ToldInv, Stands
  <2>6. PaidInv'
    BY <2>1 DEF Inv, PaidInv, Engaged, Approved, Acted, Underway
  <2>7. StartInv' /\ FaultsInv'
    BY <2>1 DEF Inv, StartInv, FaultsInv
  <2>8. QED BY <2>2, <2>3, <2>4, <2>5, <2>6, <2>7 DEF Inv
<1>3. QED BY <1>1, <1>2

LEMMA InvHolds == Spec => []Inv
BY InitInv, NextInv, PTL DEF Spec

\* Every variable keeps its type: in particular a node leaves behind no more attempts than
\* the retry policy allows, and no more faults are counted than the bound.
THEOREM TypeCorrect == Spec => []TypeOK
<1>1. Inv => TypeOK
  BY DEF Inv, GatewayInv, FlowInv, FlowTypeOK, StartInv, ToldInv, ClaimInv, SignalTypeOK, Claims, FaultsInv, TypeOK
<1>2. QED BY <1>1, InvHolds, PTL

\* An action's effect happens once at most, whatever is retried, left behind or recovered.
THEOREM EffectHappensOnce == Spec => []AtMostOneEffect
<1>1. Inv => AtMostOneEffect
  BY DEF Inv, GatewayInv, KeyOK, AtMostOneEffect
<1>2. QED BY <1>1, InvHolds, PTL

\* A result recorded as completed has its effect in the other system.
THEOREM CompletionIsTrue == Spec => []CompletedHasEffect
<1>1. Inv => CompletedHasEffect
  BY DEF Inv, GatewayInv, KeyOK, CompletedHasEffect
<1>2. QED BY <1>1, InvHolds, PTL

\* The receipt a node was given is what the gateway stands by.
THEOREM ReceiptStands == Spec => []ReportedOutcomeStands
<1>1. Inv => ReportedOutcomeStands
  BY DEF Inv, ToldInv, Stands, ReportedOutcomeStands
<1>2. QED BY <1>1, InvHolds, PTL

\* Supervised effects are paid for by approvals, one each; a shadow run causes none.
THEOREM EffectsArePaidFor == Spec => []EffectsAreApproved
<1>1. Inv => EffectsAreApproved
  <2> SUFFICES ASSUME Inv PROVE EffectsAreApproved
    OBVIOUS
  <2> DEFINE acted == {k \in Keys : row[k].status # "absent" \/ outstanding[k] \/ effects[k] > 0}
  <2>1. acted \subseteq Engaged
    BY DEF Inv, GatewayInv, GatewayTypeOK, Engaged, Acted
  <2>2. Engaged \subseteq Nodes /\ budget \in {0, 1}
    BY GraphAssumption DEF Inv, FlowInv, FlowTypeOK, Engaged
  <2>3. mode = "shadow" => acted = {}
    BY DEF Inv, PaidInv, GatewayInv, GatewayTypeOK, Acted
  <2> HIDE DEF acted
  <2>4. Cardinality(acted) <= Cardinality(Engaged) /\ Cardinality(acted) \in Nat /\ Cardinality(Engaged) \in Nat
    BY <2>1, <2>2, Counting
  <2>5. Cardinality(Approved) \in Nat
    BY Counting DEF Approved
  <2>6. mode = "supervised" => Cardinality(acted) <= Cardinality(Approved)
    BY <2>2, <2>4, <2>5 DEF Inv, PaidInv
  <2>7. QED BY <2>3, <2>6 DEF EffectsAreApproved, acted, Approved
<1>2. QED BY <1>1, InvHolds, PTL

\* The conclusion the workflow acted on is the one recorded, whoever competed for it.
THEOREM OneConclusionWins == Spec => []AuditMatchesClaim
<1>1. Inv => AuditMatchesClaim
  BY DEF Inv, ClaimInv, Recorded, AuditMatchesClaim
<1>2. QED BY <1>1, InvHolds, PTL

\* A settled result is the answer for good.
THEOREM SettledIsFinal == Spec => SettledActionStays
<1>1. Inv /\ [Next]_vars => [\A k \in Keys : row[k].status \in Settled => row'[k].status = row[k].status]_row
  BY NextInv DEF Stays
<1>2. QED BY <1>1, InvHolds, PTL DEF Spec, SettledActionStays

=============================================================================
