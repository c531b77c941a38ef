----------------------- MODULE MessageGateway_proofs -----------------------
(***************************************************************************)
(* Proofs about MessageGateway, for any number of keys and calls and any   *)
(* limits: types, honest receipts, and that it implements DeliveryPromise. *)
(***************************************************************************)
EXTENDS MessageGateway, TLAPS

-----------------------------------------------------------------------------
(***************************************************************************)
(* What the operators return.                                              *)
(***************************************************************************)

\* The countdowns a lease, a retry and a settled delivery are given.
LEMMA Countdowns ==
  /\ 0 \in 0..LeaseTicks /\ LeaseTicks \in 0..LeaseTicks
  /\ 0 \in 0..RetryTicks /\ RetryTicks \in 0..RetryTicks
  /\ -1 \in -1..WindowTicks /\ WindowTicks \in -1..WindowTicks
BY LimitsAssumption

\* Recovery gives a lost delivery up and leaves every other one alone.
LEMMA RecoveredDelivery ==
  ASSUME NEW d \in Delivery
  PROVE  /\ Recovered(d) \in Delivery
         /\ \/ Recovered(d) = d
            \/ d.status = "sending" /\ Recovered(d).status = "unknown"
         /\ \/ OutcomeOf(Recovered(d)) = OutcomeOf(d)
            \/ OutcomeOf(d) = "open" /\ OutcomeOf(Recovered(d)) = "unknown"
<1>1. CASE d.status = "sending" /\ d.lease = 0
  <2>1. d.version + 1 \in Nat
    BY DEF Delivery
  <2>2. Recovered(d) = [d EXCEPT !.status = "unknown", !.version = d.version + 1]
    BY <1>1 DEF Recovered
  <2>3. Recovered(d) \in Delivery /\ Recovered(d).status = "unknown"
    BY <2>1, <2>2 DEF Delivery, DeliveryStatus
  <2>4. QED BY <1>1, <2>3 DEF OutcomeOf
<1>2. CASE ~(d.status = "sending" /\ d.lease = 0)
  <2>1. Recovered(d) = d
    BY <1>2 DEF Recovered
  <2>2. QED BY <2>1
<1>3. QED BY <1>1, <1>2

\* A reserved delivery is pending if it was new, and is not touched otherwise.
LEMMA ReservedDelivery ==
  ASSUME NEW d \in Delivery
  PROVE  /\ Reserved(d) \in Delivery
         /\ Reserved(d).status = IF d.status = "absent" THEN "pending" ELSE d.status
<1>1. CASE d.status = "absent"
  BY <1>1 DEF Reserved, Delivery, DeliveryStatus
<1>2. CASE d.status # "absent"
  BY <1>2 DEF Reserved
<1>3. QED BY <1>1, <1>2

\* A refused delivery fails before anything is dispatched.
LEMMA FailedDelivery ==
  ASSUME NEW d \in Delivery
  PROVE  FailedBeforeDispatch(d) \in Delivery /\ FailedBeforeDispatch(d).status = "failed"
<1>1. d.version + 1 \in Nat
  BY DEF Delivery
<1>2. QED BY <1>1, Countdowns DEF FailedBeforeDispatch, Delivery, DeliveryStatus

\* A delivery about to be dispatched is marked as sending.
LEMMA SendingDelivery ==
  ASSUME NEW d \in Delivery
  PROVE  Sending(d) \in Delivery /\ Sending(d).status = "sending"
<1>1. d.version + 1 \in Nat /\ d.attempts + 1 \in Nat
  BY DEF Delivery
<1>2. QED BY <1>1, Countdowns DEF Sending, Delivery, DeliveryStatus

\* A settled delivery has the status it is given.
LEMMA SettledDelivery ==
  ASSUME NEW d \in Delivery, NEW status \in DeliveryStatus
  PROVE  Settled(d, status) \in Delivery /\ Settled(d, status).status = status
<1>1. d.version + 1 \in Nat
  BY DEF Delivery
<1>2. (IF status = "retry_wait" THEN RetryTicks ELSE 0) \in 0..RetryTicks
  BY Countdowns
<1>3. QED BY <1>1, <1>2 DEF Settled, Delivery

\* The circuit breaker returns states of the adapter.
LEMMA SuccessIsAdapter ==
  ASSUME NEW a \in Adapter, NEW fresh \in BOOLEAN
  PROVE  AfterSuccess(a, fresh) \in Adapter
BY Countdowns DEF AfterSuccess, Adapter, AdapterStatus, InService, HeldBack

\* Whatever the kind of the failure.
LEMMA FailureIsAdapter ==
  ASSUME NEW a \in Adapter, NEW kind
  PROVE  AfterFailure(a, kind) \in Adapter
<1> DEFINE failures == IF a.window >= 0 THEN a.failures + 1 ELSE 1
           status == IF failures >= BreakerThreshold THEN "paused_by_breaker" ELSE "degraded"
           window == IF a.window >= 0 THEN a.window ELSE WindowTicks
<1>1. failures \in Nat /\ window \in -1..WindowTicks
  BY Countdowns DEF Adapter
<1>2. status \in AdapterStatus /\ "degraded" \in AdapterStatus
  BY DEF AdapterStatus, InService, HeldBack
<1>3. [a EXCEPT !.status = status, !.failures = failures, !.window = window] \in Adapter
  BY <1>1, <1>2 DEF Adapter
<1>4. [a EXCEPT !.status = "degraded"] \in Adapter
  BY <1>2 DEF Adapter
<1>5. CASE Blocked(a) \/ kind = "permanent"
  BY <1>5 DEF AfterFailure
<1>6. CASE ~(Blocked(a) \/ kind = "permanent") /\ kind = "unknown"
  BY <1>4, <1>6 DEF AfterFailure
<1>7. CASE ~(Blocked(a) \/ kind = "permanent") /\ kind # "unknown"
  BY <1>3, <1>7 DEF AfterFailure
<1>8. QED BY <1>5, <1>6, <1>7

\* A save changes no call but for the state it has read.
LEMMA OutdatedCalls ==
  ASSUME NEW calls \in [Callers -> Call \cup {NoCall}]
  PROVE  /\ Outdated(calls) \in [Callers -> Call \cup {NoCall}]
         /\ \A c \in Callers :
              /\ Outdated(calls)[c] = NoCall <=> calls[c] = NoCall
              /\ calls[c] # NoCall => /\ Outdated(calls)[c].key = calls[c].key
                                      /\ Outdated(calls)[c].version = calls[c].version
<1>1. ASSUME NEW c \in Callers, calls[c] # NoCall
      PROVE  /\ [calls[c] EXCEPT !.fresh = FALSE] \in Call
             /\ [calls[c] EXCEPT !.fresh = FALSE].key = calls[c].key
             /\ [calls[c] EXCEPT !.fresh = FALSE].version = calls[c].version
  BY <1>1 DEF Call
<1>2. QED BY <1>1, NoCallAssumption DEF Outdated

-----------------------------------------------------------------------------
(***************************************************************************)
(* Types.                                                                  *)
(***************************************************************************)

\* Giving up the lost deliveries keeps their type.
LEMMA KnownType ==
  ASSUME TypeOK
  PROVE  Known \in [Keys -> Delivery] /\ \A k \in Keys : Known[k] = Recovered(delivery[k])
BY RecoveredDelivery DEF TypeOK, Known

\* The code of deliver before its await writes deliveries, calls and receipts.
LEMMA DeliverTypes ==
  ASSUME TypeOK, NEW k \in Keys, Deliver(k)
  PROVE  TypeOK'
<1>1. CASE Replay(k)
  <2>1. ReplayedReceipt(Known[k]) \in Receipt
    BY DEF ReplayedReceipt, Receipt
  <2>2. QED BY <1>1, <2>1, KnownType DEF Replay, TypeOK
<1>2. CASE Refuse(k)
  <2>1. FailedBeforeDispatch(Reserved(Known[k])) \in Delivery
    BY KnownType, ReservedDelivery, FailedDelivery
  <2>2. delivery' = [Known EXCEPT ![k] = FailedBeforeDispatch(Reserved(Known[k]))]
    BY <1>2, KnownType DEF Refuse
  <2>3. delivery' \in [Keys -> Delivery]
    BY <2>1, <2>2, KnownType
  <2>4. QED BY <1>2, <2>3 DEF Refuse, TypeOK, Receipt
<1>3. CASE HoldBack(k)
  <2>1. delivery' = [Known EXCEPT ![k] = Reserved(Known[k])]
    BY <1>3, KnownType DEF HoldBack
  <2>2. delivery' \in [Keys -> Delivery]
    BY <2>1, KnownType, ReservedDelivery
  <2>3. QED BY <1>3, <2>2 DEF HoldBack, TypeOK, Receipt
<1>4. ASSUME NEW c \in Callers, Send(c, k)
      PROVE  TypeOK'
  <2> DEFINE d == Sending(Reserved(Known[k]))
             new == [key |-> k, version |-> d.version, fresh |-> TRUE]
  <2>1. d \in Delivery
    BY KnownType, ReservedDelivery, SendingDelivery
  <2>2. delivery' = [Known EXCEPT ![k] = d]
    BY <1>4, KnownType DEF Send
  <2>3. delivery' \in [Keys -> Delivery]
    BY <2>1, <2>2, KnownType
  <2>4. new \in Call
    BY <2>1 DEF Call, Delivery
  <2>5. call' = [call EXCEPT ![c] = new]
    BY <1>4 DEF Send
  <2>6. call' \in [Callers -> Call \cup {NoCall}]
    BY <2>4, <2>5 DEF TypeOK
  <2>7. QED BY <1>4, <2>3, <2>6 DEF Send, TypeOK, Receipt
<1>5. QED BY <1>1, <1>2, <1>3, <1>4 DEF Deliver

\* What every return of a call writes.
LEMMA ReturnsTypes ==
  ASSUME TypeOK, NEW c \in Callers, NEW status \in DeliveryStatus, NEW receipt \in Receipt,
         NEW saved \in Adapter, Returns(c, status, receipt, saved)
  PROVE  TypeOK'
<1>1. call[c] \in Call /\ call[c].key \in Keys
  BY DEF Returns, TypeOK, Call
<1>2. delivery' = [delivery EXCEPT ![call[c].key] = Settled(delivery[call[c].key], status)]
  BY <1>1 DEF Returns, TypeOK
<1>3. delivery' \in [Keys -> Delivery]
  BY <1>1, <1>2, SettledDelivery DEF TypeOK
<1>4. told' \in [Keys -> Receipt]
  BY <1>1 DEF Returns, TypeOK
<1>5. adapter' \in Adapter /\ check' \in Check
  BY DEF Returns, AdapterSaved, TypeOK, Check
<1>6. call' \in [Callers -> Call \cup {NoCall}]
  <2>1. [call EXCEPT ![c] = NoCall] \in [Callers -> Call \cup {NoCall}]
    BY DEF TypeOK
  <2>2. QED BY <2>1, OutdatedCalls DEF Returns
<1>7. acted' \in [Callers -> BOOLEAN]
  BY DEF Returns, TypeOK
<1>8. QED BY <1>3, <1>4, <1>5, <1>6, <1>7 DEF Returns, TypeOK

\* The shapes a return can have, for this proof and those that follow.
LEMMA ReturnShapes ==
  ASSUME TypeOK, NEW c \in Callers, Return(c)
  PROVE  \/ /\ acted[c]
            /\ Returns(c, "accepted", "accepted", AfterSuccess(adapter, call[c].fresh))
         \/ /\ ~acted[c]
            /\ Returns(c, "retry_wait", "deferred", AfterFailure(adapter, "retryable"))
         \/ /\ ~acted[c]
            /\ \E kind \in {"retryable", "permanent"} :
                 Returns(c, "failed", "failed", AfterFailure(adapter, kind))
         \/ Returns(c, "unknown", "unknown", AfterFailure(adapter, "unknown"))
         \/ ReturnsTooLate(c)
BY DEF Return, ReturnsAccepted, ReturnsRetryable, ReturnsFailed, ReturnsUnknown

\* The code of deliver after its await.
LEMMA ReturnTypes ==
  ASSUME TypeOK, NEW c \in Callers, Return(c)
  PROVE  TypeOK'
<1>1. {"accepted", "retry_wait", "failed", "unknown"} \subseteq DeliveryStatus
      /\ {"accepted", "deferred", "failed", "unknown"} \subseteq Receipt
  BY DEF DeliveryStatus, Receipt
<1>2. \A kind : AfterFailure(adapter, kind) \in Adapter
  BY FailureIsAdapter DEF TypeOK
<1>3. ASSUME NEW status \in {"accepted", "retry_wait", "failed", "unknown"},
             NEW receipt \in {"accepted", "deferred", "failed", "unknown"},
             NEW saved \in Adapter, Returns(c, status, receipt, saved)
      PROVE  TypeOK'
  BY <1>1, <1>3, ReturnsTypes
<1>4. CASE Returns(c, "accepted", "accepted", AfterSuccess(adapter, call[c].fresh))
  <2>1. call[c] \in Call /\ call[c].fresh \in BOOLEAN
    BY <1>4 DEF Returns, TypeOK, Call
  <2>2. AfterSuccess(adapter, call[c].fresh) \in Adapter
    BY <2>1, SuccessIsAdapter DEF TypeOK
  <2>3. QED BY <1>3, <1>4, <2>2
<1>5. CASE ReturnsTooLate(c)
  BY <1>5 DEF ReturnsTooLate, TypeOK
<1>6. QED BY <1>2, <1>3, <1>4, <1>5, ReturnShapes

-----------------------------------------------------------------------------
\* What the operator, the configuration, health checks and polls write.
LEMMA AdapterTypes ==
  ASSUME TypeOK,
         Pause \/ Resume \/ Synchronize \/ BeginHealth \/ EndHealth \/ BeginPoll \/ EndPoll
  PROVE  TypeOK'
<1>1. ASSUME NEW a \in Adapter, Saves(a)
      PROVE  TypeOK'
  BY <1>1, OutdatedCalls DEF Saves, AdapterSaved, TypeOK, Check
<1>2. ASSUME NEW kind \in {"health", "poll"}, Begin(kind)
      PROVE  TypeOK'
  BY <1>2 DEF Begin, TypeOK, Check
<1>3. adapter \in Adapter /\ NoCheck \in Check
  BY DEF TypeOK, Check, NoCheck
<1>4. ASSUME NEW status \in AdapterStatus, NEW configured \in BOOLEAN
      PROVE  /\ [adapter EXCEPT !.status = status] \in Adapter
             /\ [adapter EXCEPT !.status = status, !.configured = configured] \in Adapter
  BY <1>3 DEF Adapter
<1>5. CASE Pause
  <2>1. [adapter EXCEPT !.status = "paused"] \in Adapter
    BY <1>4 DEF AdapterStatus, HeldBack
  <2>2. QED BY <1>1, <1>5, <2>1 DEF Pause
<1>6. CASE Resume
  <2>1. Resumed(adapter) \in Adapter
    BY <1>3, Countdowns DEF Resumed, Adapter, AdapterStatus, InService
  <2>2. QED BY <1>1, <1>6, <2>1 DEF Resume
<1>7. CASE Synchronize
  <2>1. PICK status \in InService \cup {"disabled", "unconfigured"}, configured \in BOOLEAN :
          Saves([adapter EXCEPT !.status = status, !.configured = configured])
    BY <1>7 DEF Synchronize
  <2>2. status \in AdapterStatus
    BY DEF AdapterStatus
  <2>3. QED BY <1>1, <1>4, <2>1, <2>2
<1>8. CASE EndHealth
  <2>1. call' \in [Callers -> Call \cup {NoCall}]
    BY <1>8, OutdatedCalls DEF EndHealth, TypeOK
  <2>2. adapter' \in Adapter
    <3>1. CASE adapter' = adapter
      BY <1>3, <3>1
    <3>2. CASE \E status \in InService : adapter' = [adapter EXCEPT !.status = status]
      BY <1>4, <3>2 DEF AdapterStatus
    <3>3. QED BY <1>8, <3>1, <3>2 DEF EndHealth
  <2>3. QED BY <1>3, <1>8, <2>1, <2>2 DEF EndHealth, TypeOK
<1>9. CASE EndPoll
  <2>1. call' \in [Callers -> Call \cup {NoCall}]
    BY <1>9, OutdatedCalls DEF EndPoll, TypeOK
  <2>2. adapter' \in Adapter
    <3>1. check.fresh \in BOOLEAN
      BY DEF TypeOK, Check
    <3>2. QED BY <1>3, <1>9, <3>1, SuccessIsAdapter, FailureIsAdapter DEF EndPoll
  <2>3. QED BY <1>3, <1>9, <2>1, <2>2 DEF EndPoll, TypeOK
<1>10. QED BY <1>2, <1>5, <1>6, <1>7, <1>8, <1>9 DEF BeginHealth, BeginPoll

\* Time shortens countdowns only.
LEMMA TickTypes ==
  ASSUME TypeOK, Tick
  PROVE  /\ TypeOK'
         /\ \A k \in Keys : /\ delivery'[k].status = delivery[k].status
                            /\ delivery'[k].version = delivery[k].version
<1>1. ASSUME NEW k \in Keys
      PROVE  /\ delivery'[k] \in Delivery /\ delivery'[k].status = delivery[k].status
             /\ delivery'[k].version = delivery[k].version
  <2>1. delivery'[k] =
          [delivery[k] EXCEPT !.lease = Elapse(delivery[k].lease), !.wait = Elapse(delivery[k].wait)]
    BY DEF Tick
  <2>2. /\ Elapse(delivery[k].lease) \in 0..LeaseTicks
        /\ Elapse(delivery[k].wait) \in 0..RetryTicks
    BY LimitsAssumption DEF TypeOK, Delivery, Elapse
  <2>3. QED BY <2>1, <2>2 DEF TypeOK, Delivery
<1>2. delivery' = [k \in Keys |-> delivery'[k]]
  BY DEF Tick
<1>3. delivery' \in [Keys -> Delivery]
  BY <1>1, <1>2
<1>4. adapter' \in Adapter
  <2>1. adapter \in Adapter /\ adapter.window \in -1..WindowTicks
    BY DEF TypeOK, Adapter
  <2>2. (IF adapter.window >= 0 THEN adapter.window - 1 ELSE adapter.window) \in -1..WindowTicks
    BY <2>1, LimitsAssumption
  <2>3. QED BY <2>1, <2>2 DEF Tick, Adapter
<1>5. QED BY <1>1, <1>3, <1>4 DEF Tick, TypeOK

\* Every step keeps the types.
LEMMA TypeStep ==
  ASSUME TypeOK, [Next]_vars
  PROVE  TypeOK'
<1>1. CASE \E k \in Keys : Deliver(k)
  BY <1>1, DeliverTypes
<1>2. ASSUME NEW c \in Callers, ProviderTakes(c)
      PROVE  TypeOK'
  <2>1. call[c].key \in Keys
    BY <1>2 DEF ProviderTakes, TypeOK, Call
  <2>2. effects' \in [Keys -> Nat]
    BY <1>2, <2>1 DEF ProviderTakes, TypeOK
  <2>3. acted' \in [Callers -> BOOLEAN]
    BY <1>2 DEF ProviderTakes, TypeOK
  <2>4. QED BY <1>2, <2>2, <2>3 DEF ProviderTakes, TypeOK
<1>3. CASE \E c \in Callers : Return(c)
  BY <1>3, ReturnTypes
<1>4. CASE RecoverExpired
  BY <1>4, KnownType DEF RecoverExpired, TypeOK
<1>5. CASE Restart
  BY <1>5, KnownType DEF Restart, TypeOK, Check, NoCheck
<1>6. CASE UNCHANGED vars
  BY <1>6 DEF vars, TypeOK
<1>7. CASE Tick
  BY <1>7, TickTypes
<1>8. CASE Pause \/ Resume \/ Synchronize \/ BeginHealth \/ EndHealth \/ BeginPoll \/ EndPoll
  BY <1>8, AdapterTypes
<1>9. QED BY <1>1, <1>2, <1>3, <1>4, <1>5, <1>6, <1>7, <1>8 DEF Next

\* The types hold from the start.
LEMMA TypeInit ==
  ASSUME Init
  PROVE  TypeOK
BY LimitsAssumption DEF Init, TypeOK, NoDelivery, Delivery, DeliveryStatus, Adapter, AdapterStatus,
   InService, HeldBack, Check, NoCheck, Receipt

\* The rows, the adapter's state and the calls under way keep their types,
\* whatever the operator, the provider, the clock and restarts do.
THEOREM TypeCorrect == Spec => []TypeOK
<1>1. Init => TypeOK
  BY TypeInit
<1>2. TypeOK /\ [Next]_vars => TypeOK'
  BY TypeStep
<1>3. QED BY <1>1, <1>2, PTL DEF Spec

-----------------------------------------------------------------------------
(***************************************************************************)
(* Receipts.                                                               *)
(***************************************************************************)

\* Recovery changes sending deliveries only, and only into unknown ones.
LEMMA GivenUp ==
  ASSUME TypeOK, NEW k \in Keys
  PROVE  Known[k] = delivery[k]
           \/ (delivery[k].status = "sending" /\ Known[k].status = "unknown")
BY KnownType, RecoveredDelivery DEF TypeOK

\* Nobody has the message of a delivery that may be sent, and nobody is sending it.
LEMMA SendableIsFree ==
  ASSUME GatewayInv, NEW k \in Keys, Sendable(Known[k])
  PROVE  /\ Known[k] = delivery[k]
         /\ delivery[k].status \in {"absent", "pending", "retry_wait"}
         /\ effects[k] = 0
         /\ \A c \in Callers : call[c] # NoCall => call[c].key # k
<1>1. Known[k].status \in {"absent", "pending", "retry_wait"}
  BY DEF Sendable
<1>2. Known[k] = delivery[k]
  BY <1>1, GivenUp DEF GatewayInv
<1>3. QED BY <1>1, <1>2 DEF GatewayInv, EffectsFollowStatus, CallsAreCurrent

\* A step that leaves deliveries, receipts and the provider alone, and of the
\* calls changes at most what they know of the adapter's state.
LEMMA QuietStep ==
  ASSUME GatewayInv, TypeOK', UNCHANGED <<acted, told, effects>>,
         \A k \in Keys : /\ delivery'[k].status = delivery[k].status
                         /\ delivery'[k].version = delivery[k].version,
         \A c \in Callers : /\ call'[c] = NoCall <=> call[c] = NoCall
                            /\ call[c] # NoCall => /\ call'[c].key = call[c].key
                                                   /\ call'[c].version = call[c].version
  PROVE  GatewayInv'
<1>1. \A c \in Callers : call[c] # NoCall => call[c].key \in Keys
  BY DEF GatewayInv, TypeOK, Call
<1>2. CallsAreCurrent'
  BY <1>1 DEF GatewayInv, CallsAreCurrent
<1>3. OneCallPerKey'
  BY DEF GatewayInv, OneCallPerKey
<1>4. EffectsFollowStatus' /\ ReceiptsAreHonest'
  BY DEF GatewayInv, EffectsFollowStatus, ReceiptsAreHonest
<1>5. QED BY <1>2, <1>3, <1>4 DEF GatewayInv

\* Giving deliveries up while the calls go on, or with all calls gone.
LEMMA RecoveryStep ==
  ASSUME GatewayInv, TypeOK', delivery' = Known, UNCHANGED <<told, effects>>,
         \/ UNCHANGED <<call, acted>>
         \/ call' = [c \in Callers |-> NoCall]
  PROVE  GatewayInv'
<1>1. \A c \in Callers : call[c] # NoCall => call[c].key \in Keys
  BY DEF GatewayInv, TypeOK, Call
<1>2. \A k \in Keys : delivery'[k] = delivery[k]
        \/ (delivery[k].status = "sending" /\ delivery'[k].status = "unknown")
  BY GivenUp DEF GatewayInv
<1>3. CallsAreCurrent' /\ OneCallPerKey'
  BY <1>1, <1>2 DEF GatewayInv, CallsAreCurrent, OneCallPerKey
<1>4. EffectsFollowStatus' /\ ReceiptsAreHonest'
  BY <1>2 DEF GatewayInv, EffectsFollowStatus, ReceiptsAreHonest
<1>5. QED BY <1>3, <1>4 DEF GatewayInv

\* Asking for a delivery.
LEMMA DeliverStep ==
  ASSUME GatewayInv, NEW k \in Keys, Deliver(k)
  PROVE  GatewayInv'
<1> USE DEF GatewayInv
<1>1. TypeOK'
  BY DeliverTypes
<1>2. \A c \in Callers : call[c] # NoCall => call[c].key \in Keys
  BY DEF TypeOK, Call
<1>3. \A j \in Keys : Known[j] = delivery[j]
        \/ (delivery[j].status = "sending" /\ Known[j].status = "unknown")
  BY GivenUp
<1>4. Known \in [Keys -> Delivery]
  BY KnownType
<1>5. CASE Replay(k)
  <2>1. /\ delivery' = Known /\ UNCHANGED <<call, acted, effects>>
        /\ told' = [told EXCEPT ![k] = ReplayedReceipt(Known[k])]
    BY <1>5 DEF Replay
  <2>2. told' \in [Keys -> Receipt] /\ told'[k] = ReplayedReceipt(Known[k])
        /\ \A j \in Keys \ {k} : told'[j] = told[j]
    BY <1>1, <2>1 DEF TypeOK
  <2>3. Known[k].status \in {"sending", "unknown"} => told'[k] = "unknown"
    BY <2>2 DEF ReplayedReceipt
  <2>4. CallsAreCurrent' /\ OneCallPerKey'
    BY <1>2, <1>3, <2>1, <2>2, <2>3 DEF CallsAreCurrent, OneCallPerKey
  <2>5. EffectsFollowStatus'
    BY <1>3, <2>1 DEF EffectsFollowStatus
  <2>6. Known[k].status \in DeliveryStatus
    BY <1>4 DEF Delivery
  <2>7. /\ told'[k] \in {"failed", "deferred", "blocked"} => effects[k] = 0
        /\ told'[k] = "accepted" => effects[k] = 1
    BY <2>1, <2>2, <2>5, <2>6 DEF ReplayedReceipt, EffectsFollowStatus, DeliveryStatus
  <2>8. ReceiptsAreHonest'
    BY <2>1, <2>2, <2>7 DEF ReceiptsAreHonest
  <2>9. QED BY <1>1, <2>4, <2>5, <2>8
<1>6. ASSUME NEW d \in Delivery, NEW receipt \in {"failed", "blocked"},
             d.status \in {"pending", "retry_wait", "failed"}, Sendable(Known[k]),
             delivery' = [Known EXCEPT ![k] = d], told' = [told EXCEPT ![k] = receipt],
             UNCHANGED <<call, acted, effects>>
      PROVE  GatewayInv'
  <2>1. /\ effects[k] = 0 /\ \A c \in Callers : call[c] # NoCall => call[c].key # k
    BY <1>6, SendableIsFree
  <2>2. /\ delivery'[k] = d /\ told'[k] = receipt
        /\ \A j \in Keys \ {k} : delivery'[j] = Known[j] /\ told'[j] = told[j]
    BY <1>4, <1>6 DEF TypeOK
  <2>3. CallsAreCurrent' /\ OneCallPerKey'
    BY <1>2, <1>3, <1>6, <2>1, <2>2 DEF CallsAreCurrent, OneCallPerKey
  <2>4. EffectsFollowStatus'
    BY <1>3, <1>6, <2>1, <2>2 DEF EffectsFollowStatus
  <2>5. ReceiptsAreHonest'
    BY <1>6, <2>1, <2>2 DEF ReceiptsAreHonest
  <2>6. QED BY <1>1, <2>3, <2>4, <2>5
<1>7. CASE Refuse(k)
  <2>1. Reserved(Known[k]) \in Delivery
    BY <1>4, ReservedDelivery
  <2>2. delivery' = [Known EXCEPT ![k] = FailedBeforeDispatch(Reserved(Known[k]))]
    BY <1>4, <1>7 DEF Refuse
  <2>3. QED BY <1>6, <1>7, <2>1, <2>2, FailedDelivery DEF Refuse
<1>8. CASE HoldBack(k)
  <2>1. delivery' = [Known EXCEPT ![k] = Reserved(Known[k])]
    BY <1>4, <1>8 DEF HoldBack
  <2>2. Known[k].status \in {"absent", "pending", "retry_wait"}
    BY <1>8 DEF HoldBack, Sendable
  <2>3. Reserved(Known[k]) \in Delivery /\ Reserved(Known[k]).status \in {"pending", "retry_wait"}
    BY <1>4, <2>2, ReservedDelivery
  <2>4. QED BY <1>6, <1>8, <2>1, <2>3 DEF HoldBack
<1>9. ASSUME NEW c \in Callers, Send(c, k)
      PROVE  GatewayInv'
  <2> DEFINE d == Sending(Reserved(Known[k]))
  <2>1. /\ effects[k] = 0 /\ \A b \in Callers : call[b] # NoCall => call[b].key # k
    BY <1>9, SendableIsFree DEF Send
  <2>2. d.status = "sending"
    BY <1>4, ReservedDelivery, SendingDelivery
  <2>3. /\ delivery'[k] = d /\ told'[k] = "none"
        /\ \A j \in Keys \ {k} : delivery'[j] = Known[j] /\ told'[j] = told[j]
    BY <1>4, <1>9 DEF Send, TypeOK
  <2>4. /\ call'[c] = [key |-> k, version |-> d.version, fresh |-> TRUE] /\ acted'[c] = FALSE
        /\ \A b \in Callers \ {c} : call'[b] = call[b] /\ acted'[b] = acted[b]
        /\ call[c] = NoCall /\ effects' = effects
    BY <1>9 DEF Send, TypeOK
  <2>5. call'[c].key = k /\ call'[c].version = d.version
    BY <2>4
  <2>6. CallsAreCurrent'
    <3>1. ASSUME NEW b \in Callers \ {c}, call'[b] # NoCall
          PROVE  /\ delivery'[call'[b].key].status \in {"sending", "unknown"}
                 /\ delivery'[call'[b].key].status = "sending"
                      => delivery'[call'[b].key].version = call'[b].version
                 /\ told'[call'[b].key] \in {"none", "unknown"}
                 /\ effects'[call'[b].key] = IF acted'[b] THEN 1 ELSE 0
      BY <1>2, <1>3, <2>1, <2>3, <2>4, <3>1 DEF CallsAreCurrent
    <3>2. /\ delivery'[call'[c].key].status \in {"sending", "unknown"}
          /\ delivery'[call'[c].key].status = "sending"
               => delivery'[call'[c].key].version = call'[c].version
          /\ told'[call'[c].key] \in {"none", "unknown"}
          /\ effects'[call'[c].key] = IF acted'[c] THEN 1 ELSE 0
      BY <2>1, <2>2, <2>3, <2>4, <2>5
    <3>3. QED BY <3>1, <3>2 DEF CallsAreCurrent
  <2>7. OneCallPerKey'
    BY <2>1, <2>4, <2>5 DEF OneCallPerKey
  <2>8. EffectsFollowStatus' /\ ReceiptsAreHonest'
    BY <1>3, <2>1, <2>2, <2>3, <2>4 DEF EffectsFollowStatus, ReceiptsAreHonest
  <2>9. QED BY <1>1, <2>6, <2>7, <2>8
<1>10. QED BY <1>5, <1>7, <1>8, <1>9 DEF Deliver

\* The provider takes a message that only its call can hand over.
LEMMA ProviderStep ==
  ASSUME GatewayInv, NEW c \in Callers, ProviderTakes(c)
  PROVE  /\ GatewayInv' /\ call[c].key \in Keys
         /\ effects[call[c].key] = 0 /\ effects' = [effects EXCEPT ![call[c].key] = 1]
         /\ OutcomeOf(delivery[call[c].key]) \in {"open", "unknown"}
         /\ told[call[c].key] \in {"none", "unknown"}
<1> USE DEF GatewayInv
<1> DEFINE k == call[c].key
<1>1. TypeOK'
  <2>1. [Next]_vars
    BY DEF Next
  <2>2. QED BY <2>1, TypeStep
<1>2. \A b \in Callers : call[b] # NoCall => call[b].key \in Keys
  BY DEF TypeOK, Call
<1>3. /\ k \in Keys /\ effects[k] = 0 /\ told[k] \in {"none", "unknown"}
      /\ delivery[k].status \in {"sending", "unknown"}
  BY <1>2 DEF ProviderTakes, CallsAreCurrent
<1>4. effects' = [effects EXCEPT ![k] = 1]
  BY <1>3 DEF ProviderTakes
<1>5. /\ effects'[k] = 1 /\ \A j \in Keys \ {k} : effects'[j] = effects[j]
      /\ acted'[c] = TRUE /\ \A b \in Callers \ {c} : acted'[b] = acted[b]
      /\ UNCHANGED <<delivery, call, told>>
  BY <1>3, <1>4 DEF ProviderTakes, TypeOK
<1>6. \A b \in Callers \ {c} : call[b] # NoCall => call[b].key # k
  BY DEF ProviderTakes, OneCallPerKey
<1>7. CallsAreCurrent' /\ OneCallPerKey'
  BY <1>2, <1>3, <1>5, <1>6 DEF CallsAreCurrent, OneCallPerKey
<1>8. EffectsFollowStatus' /\ ReceiptsAreHonest'
  BY <1>3, <1>5 DEF EffectsFollowStatus, ReceiptsAreHonest
<1>9. QED BY <1>1, <1>3, <1>4, <1>7, <1>8 DEF OutcomeOf

\* An answer that counts settles a delivery nobody else is sending.
LEMMA ReturnsStep ==
  ASSUME GatewayInv, TypeOK', NEW c \in Callers, NEW saved,
         NEW status \in DeliveryStatus, NEW receipt \in Receipt,
         Returns(c, status, receipt, saved),
         \/ status = "accepted" /\ receipt = "accepted" /\ acted[c]
         \/ status = "retry_wait" /\ receipt = "deferred" /\ ~acted[c]
         \/ status = "failed" /\ receipt = "failed" /\ ~acted[c]
         \/ status = "unknown" /\ receipt = "unknown"
  PROVE  /\ GatewayInv' /\ call[c].key \in Keys /\ effects' = effects
         /\ delivery[call[c].key].status = "sending" /\ delivery'[call[c].key].status = status
         /\ \A j \in Keys \ {call[c].key} : delivery'[j] = delivery[j] /\ told'[j] = told[j]
         /\ told'[call[c].key] = receipt
         /\ effects[call[c].key] = IF acted[c] THEN 1 ELSE 0
<1> USE DEF GatewayInv
<1> DEFINE k == call[c].key
<1>1. \A b \in Callers : call[b] # NoCall => call[b].key \in Keys
  BY DEF TypeOK, Call
<1>2. /\ k \in Keys /\ effects[k] = IF acted[c] THEN 1 ELSE 0
      /\ delivery[k].status = "sending" /\ effects' = effects
  BY <1>1 DEF Returns, StillSending, CallsAreCurrent
<1>3. delivery' = [delivery EXCEPT ![k] = Settled(delivery[k], status)]
  BY <1>2 DEF Returns, TypeOK
<1>4. delivery'[k].status = status /\ \A j \in Keys \ {k} : delivery'[j] = delivery[j]
  BY <1>2, <1>3, SettledDelivery DEF TypeOK
<1>5. told'[k] = receipt /\ \A j \in Keys \ {k} : told'[j] = told[j]
  BY <1>2 DEF Returns, TypeOK
<1>6. /\ call'[c] = NoCall
      /\ \A b \in Callers \ {c} : /\ call'[b] = NoCall <=> call[b] = NoCall
                                  /\ call[b] # NoCall => /\ call'[b].key = call[b].key
                                                         /\ call'[b].version = call[b].version
      /\ \A b \in Callers \ {c} : acted'[b] = acted[b]
  <2>1. [call EXCEPT ![c] = NoCall] \in [Callers -> Call \cup {NoCall}]
    BY DEF TypeOK
  <2>2. call' = Outdated([call EXCEPT ![c] = NoCall])
    BY DEF Returns
  <2>3. acted' = [acted EXCEPT ![c] = FALSE]
    BY DEF Returns
  <2>4. QED BY <2>1, <2>2, <2>3, OutdatedCalls DEF TypeOK
<1>7. \A b \in Callers \ {c} : call[b] # NoCall => call[b].key # k
  BY DEF Returns, OneCallPerKey
<1>8. CallsAreCurrent' /\ OneCallPerKey'
  <2>1. ASSUME NEW b \in Callers, call'[b] # NoCall
        PROVE  /\ b # c /\ call[b] # NoCall /\ acted'[b] = acted[b]
               /\ call'[b].key = call[b].key /\ call'[b].version = call[b].version
               /\ call[b].key \in Keys \ {k}
    BY <1>1, <1>6, <1>7, <2>1
  <2>2. OneCallPerKey'
    BY <2>1 DEF OneCallPerKey
  <2>3. ASSUME NEW b \in Callers, call'[b] # NoCall
        PROVE  /\ delivery'[call'[b].key] = delivery[call[b].key]
               /\ effects'[call'[b].key] = effects[call[b].key]
               /\ told'[call'[b].key] = told[call[b].key]
               /\ call'[b].version = call[b].version /\ acted'[b] = acted[b]
               /\ call[b] # NoCall
    BY <1>2, <1>4, <1>5, <2>1, <2>3
  <2>4. CallsAreCurrent'
    BY <2>3 DEF CallsAreCurrent
  <2>5. QED BY <2>2, <2>4
<1>9. EffectsFollowStatus' /\ ReceiptsAreHonest'
  BY <1>2, <1>4, <1>5 DEF EffectsFollowStatus, ReceiptsAreHonest
<1>10. QED BY <1>2, <1>4, <1>5, <1>8, <1>9

\* The invariant holds from the start.
LEMMA GatewayInit ==
  ASSUME Init
  PROVE  GatewayInv
BY TypeInit DEF Init, GatewayInv, CallsAreCurrent, OneCallPerKey, EffectsFollowStatus,
   ReceiptsAreHonest, NoDelivery

\* Every step keeps it.
LEMMA GatewayStep ==
  ASSUME GatewayInv, [Next]_vars
  PROVE  GatewayInv'
<1>1. TypeOK /\ TypeOK'
  BY TypeStep DEF GatewayInv
<1>2. call \in [Callers -> Call \cup {NoCall}]
  BY <1>1 DEF TypeOK
<1>3. ASSUME UNCHANGED <<delivery, acted, told, effects>>,
             call' = call \/ call' = Outdated(call)
      PROVE  GatewayInv'
  BY <1>1, <1>2, <1>3, OutdatedCalls, QuietStep
<1>4. CASE \E k \in Keys : Deliver(k)
  BY <1>4, DeliverStep
<1>5. CASE \E c \in Callers : ProviderTakes(c)
  BY <1>5, ProviderStep
<1>6. ASSUME NEW c \in Callers, Return(c)
      PROVE  GatewayInv'
  <2>1. CASE ReturnsTooLate(c)
    <3>1. call' = [call EXCEPT ![c] = NoCall] /\ UNCHANGED <<delivery, told, effects>>
          /\ acted' = [acted EXCEPT ![c] = FALSE]
      BY <2>1 DEF ReturnsTooLate
    <3>2. /\ call'[c] = NoCall
          /\ \A b \in Callers \ {c} : call'[b] = call[b] /\ acted'[b] = acted[b]
      BY <1>1, <1>2, <3>1 DEF TypeOK
    <3>3. CallsAreCurrent' /\ OneCallPerKey'
      BY <3>1, <3>2 DEF GatewayInv, CallsAreCurrent, OneCallPerKey
    <3>4. QED BY <1>1, <3>1, <3>3 DEF GatewayInv, EffectsFollowStatus, ReceiptsAreHonest
  <2>2. {"accepted", "retry_wait", "failed", "unknown"} \subseteq DeliveryStatus
        /\ {"accepted", "deferred", "failed", "unknown"} \subseteq Receipt
    BY DEF DeliveryStatus, Receipt
  <2>3. QED BY <1>1, <1>6, <2>1, <2>2, ReturnShapes, ReturnsStep
<1>7. CASE RecoverExpired \/ Restart
  BY <1>1, <1>7, RecoveryStep DEF RecoverExpired, Restart
<1>8. CASE Pause \/ Resume \/ Synchronize
  BY <1>3, <1>8 DEF Pause, Resume, Synchronize, Saves
<1>9. CASE BeginHealth \/ BeginPoll
  BY <1>3, <1>9 DEF BeginHealth, BeginPoll, Begin
<1>10. CASE EndHealth \/ EndPoll
  BY <1>3, <1>10 DEF EndHealth, EndPoll
<1>11. CASE Tick
  BY <1>1, <1>11, TickTypes, QuietStep DEF Tick
<1>12. CASE UNCHANGED vars
  BY <1>3, <1>12 DEF vars
<1>13. QED BY <1>4, <1>5, <1>6, <1>7, <1>8, <1>9, <1>10, <1>11, <1>12 DEF Next

\* The invariant of the gateway.
LEMMA GatewayInvariant == Spec => []GatewayInv
<1>1. Init => GatewayInv
  BY GatewayInit
<1>2. GatewayInv /\ [Next]_vars => GatewayInv'
  BY GatewayStep
<1>3. QED BY <1>1, <1>2, PTL DEF Spec

\* A receipt that says "failed", "deferred" or "blocked" is never given for a
\* message the provider has or will get from a call still under way, and
\* "accepted" only for one it has.
THEOREM HonestReceipts == Spec => []ReceiptsAreHonest
<1>1. GatewayInv => ReceiptsAreHonest
  BY DEF GatewayInv
<1>2. QED BY <1>1, GatewayInvariant, PTL

-----------------------------------------------------------------------------
(***************************************************************************)
(* The gateway implements its promise.                                     *)
(***************************************************************************)

\* The outcome of a key, before and after a step.
LEMMA Mapped ==
  \A k \in Keys : /\ Outcomes[k] = OutcomeOf(delivery[k])
                  /\ Outcomes'[k] = OutcomeOf(delivery'[k])
BY DEF Outcomes

\* Outcomes, copies and receipts have the types the promise gives them.
LEMMA PromisedTypes ==
  ASSUME TypeOK'
  PROVE  /\ Outcomes' \in [Keys -> P!Outcome] /\ effects' \in [Keys -> Nat]
         /\ told' \in [Keys -> P!Receipt]
<1>1. \A k \in Keys : OutcomeOf(delivery'[k]) \in P!Outcome
  BY DEF OutcomeOf, P!Outcome
<1>2. Receipt = P!Receipt
  BY DEF Receipt, P!Receipt, P!Waiting
<1>3. QED BY <1>1, <1>2 DEF Outcomes, TypeOK

\* What is left to show of a step: what it does to each key.
LEMMA ByKey ==
  ASSUME TypeOK, TypeOK',
         \A k \in Keys : P!Same(k) \/ P!Ask(k) \/ P!Hand(k) \/ P!Lose(k) \/ P!Answer(k)
  PROVE  P!Next
<1>1. Outcomes' \in [Keys -> P!Outcome] /\ effects' \in [Keys -> Nat] /\ told' \in [Keys -> P!Receipt]
  BY PromisedTypes
<1>2. QED BY <1>1 DEF P!Next

\* A key a step leaves alone, or whose delivery it gives up.
LEMMA KnownKey ==
  ASSUME TypeOK, TypeOK', NEW k \in Keys,
         delivery'[k] = Known[k] \/ OutcomeOf(delivery'[k]) = OutcomeOf(delivery[k]),
         effects'[k] = effects[k], told'[k] = told[k]
  PROVE  P!Same(k) \/ P!Lose(k)
<1>1. /\ Outcomes[k] = OutcomeOf(delivery[k])
      /\ Outcomes'[k] = OutcomeOf(delivery'[k])
  BY Mapped
<1>2. \/ OutcomeOf(delivery'[k]) = OutcomeOf(delivery[k])
      \/ OutcomeOf(delivery[k]) = "open" /\ OutcomeOf(delivery'[k]) = "unknown"
  BY KnownType, RecoveredDelivery DEF TypeOK
<1>3. QED BY <1>1, <1>2 DEF P!Same, P!Lose

\* Asking for a delivery answers at once or tries again.
LEMMA DeliverRefines ==
  ASSUME GatewayInv, NEW k \in Keys, Deliver(k)
  PROVE  P!Next
<1>1. TypeOK /\ TypeOK' /\ GatewayInv'
  BY DeliverStep DEF GatewayInv
<1>2. Known \in [Keys -> Delivery]
  BY <1>1, KnownType
<1>3. effects' = effects
  BY DEF Deliver, Replay, Refuse, HoldBack, Send
<1>4. \A j \in Keys \ {k} : delivery'[j] = Known[j] /\ told'[j] = told[j]
  BY <1>1, <1>2 DEF Deliver, Replay, Refuse, HoldBack, Send, TypeOK
<1>5. \A j \in Keys \ {k} : P!Same(j) \/ P!Lose(j)
  BY <1>1, <1>3, <1>4, KnownKey
<1>6. /\ Outcomes[k] = OutcomeOf(delivery[k])
      /\ Outcomes'[k] = OutcomeOf(delivery'[k])
  BY <1>1, Mapped
<1>7. \/ OutcomeOf(Known[k]) = OutcomeOf(delivery[k])
      \/ OutcomeOf(delivery[k]) = "open" /\ OutcomeOf(Known[k]) = "unknown"
  BY <1>1, KnownType, RecoveredDelivery DEF TypeOK
<1>8. CASE Replay(k)
  <2>1. delivery'[k] = Known[k] /\ told'[k] = ReplayedReceipt(Known[k])
    BY <1>1, <1>8 DEF Replay, TypeOK
  <2>2. Known[k].status \in DeliveryStatus
    BY <1>2 DEF Delivery
  <2>3. /\ told'[k] \in {"accepted", "failed", "unknown", "deferred"}
        /\ told'[k] \in {"accepted", "failed"} => OutcomeOf(Known[k]) = told'[k]
        /\ told'[k] = "deferred" => /\ OutcomeOf(Known[k]) = "open"
                                    /\ Known[k].status \in {"absent", "pending", "retry_wait"}
    BY <2>1, <2>2 DEF ReplayedReceipt, OutcomeOf, DeliveryStatus
  <2>4. /\ OutcomeOf(Known[k]) = "accepted" => effects[k] = 1
        /\ OutcomeOf(Known[k]) = "failed" => effects[k] = 0
        /\ Known[k].status \in {"absent", "pending", "retry_wait"} => effects[k] = 0
    BY <1>1, <1>3, <2>1 DEF OutcomeOf, GatewayInv, EffectsFollowStatus
  <2>5. P!Answer(k)
    BY <1>3, <1>6, <1>7, <2>1, <2>3, <2>4 DEF P!Answer, P!Decided, P!Receipt, P!Waiting
  <2>6. QED BY <1>1, <1>5, <2>5, ByKey
<1>9. CASE Refuse(k) \/ HoldBack(k) \/ \E c \in Callers : Send(c, k)
  <2>1. Sendable(Known[k])
    BY <1>9 DEF Refuse, HoldBack, Send
  <2>2. Known[k] = delivery[k] /\ OutcomeOf(delivery[k]) = "open" /\ effects[k] = 0
    BY <2>1, SendableIsFree DEF OutcomeOf
  <2>3. Known[k] \in Delivery /\ Reserved(Known[k]) \in Delivery
    BY <1>2, ReservedDelivery
  <2>4. CASE Refuse(k)
    <3>1. delivery'[k].status = "failed" /\ told'[k] = "failed"
      BY <1>1, <1>2, <2>3, <2>4, FailedDelivery DEF Refuse, TypeOK
    <3>2. P!Answer(k)
      BY <1>3, <1>6, <2>2, <3>1 DEF OutcomeOf, P!Answer, P!Decided, P!Receipt, P!Waiting
    <3>3. QED BY <1>1, <1>5, <3>2, ByKey
  <2>5. CASE HoldBack(k)
    <3>1. delivery'[k] = Reserved(Known[k]) /\ told'[k] = "blocked"
      BY <1>1, <1>2, <2>5 DEF HoldBack, TypeOK
    <3>2. delivery'[k].status \in {"pending", "retry_wait"}
      BY <2>1, <2>3, <3>1, ReservedDelivery DEF Sendable
    <3>3. P!Answer(k)
      BY <1>3, <1>6, <2>2, <3>1, <3>2 DEF OutcomeOf, P!Answer, P!Decided, P!Receipt, P!Waiting
    <3>4. QED BY <1>1, <1>5, <3>3, ByKey
  <2>6. CASE \E c \in Callers : Send(c, k)
    <3>1. delivery'[k].status = "sending" /\ told'[k] = "none"
      BY <1>1, <1>2, <2>3, <2>6, SendingDelivery DEF Send, TypeOK
    <3>2. P!Ask(k)
      BY <1>3, <1>6, <2>2, <3>1 DEF OutcomeOf, P!Ask
    <3>3. QED BY <1>1, <1>5, <3>2, ByKey
  <2>7. QED BY <1>9, <2>4, <2>5, <2>6
<1>10. QED BY <1>8, <1>9 DEF Deliver

\* The provider takes a message while its delivery is open or given up.
LEMMA ProviderRefines ==
  ASSUME GatewayInv, NEW c \in Callers, ProviderTakes(c)
  PROVE  P!Next
<1> DEFINE k == call[c].key
<1>1. /\ TypeOK /\ TypeOK' /\ k \in Keys
      /\ effects[k] = 0 /\ effects' = [effects EXCEPT ![k] = 1]
      /\ OutcomeOf(delivery[k]) \in {"open", "unknown"} /\ told[k] \in {"none", "unknown"}
  BY ProviderStep DEF GatewayInv
<1>2. delivery' = delivery /\ told' = told
  BY DEF ProviderTakes
<1>3. \A j \in Keys : Outcomes[j] = OutcomeOf(delivery[j]) /\ Outcomes'[j] = OutcomeOf(delivery'[j])
  BY <1>1, Mapped
<1>4. P!Hand(k)
  BY <1>1, <1>2, <1>3 DEF P!Hand, TypeOK
<1>5. \A j \in Keys \ {k} : P!Same(j)
  BY <1>1, <1>2, <1>3 DEF P!Same, TypeOK
<1>6. QED BY <1>1, <1>4, <1>5, ByKey

\* The end of a call answers its caller, or changes nothing a caller can see.
LEMMA ReturnRefines ==
  ASSUME GatewayInv, NEW c \in Callers, Return(c)
  PROVE  P!Next \/ UNCHANGED <<Outcomes, effects, told>>
<1> DEFINE k == call[c].key
<1>1. TypeOK /\ TypeOK'
  BY ReturnTypes DEF GatewayInv
<1>2. ASSUME NEW saved, NEW status \in DeliveryStatus, NEW receipt \in Receipt,
             Returns(c, status, receipt, saved),
             \/ status = "accepted" /\ receipt = "accepted" /\ acted[c]
             \/ status = "retry_wait" /\ receipt = "deferred" /\ ~acted[c]
             \/ status = "failed" /\ receipt = "failed" /\ ~acted[c]
             \/ status = "unknown" /\ receipt = "unknown"
      PROVE  P!Next
  <2>1. /\ k \in Keys /\ effects' = effects
        /\ delivery[k].status = "sending" /\ delivery'[k].status = status
        /\ \A j \in Keys \ {k} : delivery'[j] = delivery[j] /\ told'[j] = told[j]
        /\ told'[k] = receipt /\ effects[k] = IF acted[c] THEN 1 ELSE 0
    BY <1>1, <1>2, ReturnsStep
  <2>2. \A j \in Keys : /\ Outcomes[j] = OutcomeOf(delivery[j])
                        /\ Outcomes'[j] = OutcomeOf(delivery'[j])
    BY <1>1, Mapped
  <2>3. P!Answer(k)
    BY <1>2, <2>1, <2>2 DEF OutcomeOf, P!Answer, P!Decided, P!Receipt, P!Waiting
  <2>4. \A j \in Keys \ {k} : P!Same(j)
    BY <2>1, <2>2 DEF P!Same
  <2>5. QED BY <1>1, <2>3, <2>4, ByKey
<1>3. {"accepted", "retry_wait", "failed", "unknown"} \subseteq DeliveryStatus
      /\ {"accepted", "deferred", "failed", "unknown"} \subseteq Receipt
  BY DEF DeliveryStatus, Receipt
<1>4. CASE ReturnsTooLate(c)
  BY <1>4 DEF ReturnsTooLate, Outcomes
<1>5. QED BY <1>1, <1>2, <1>3, <1>4, ReturnShapes

\* Every step of the gateway is a step of the promise or none.
LEMMA StepRefines ==
  ASSUME GatewayInv, [Next]_vars
  PROVE  P!Next \/ UNCHANGED <<Outcomes, effects, told>>
<1>1. TypeOK /\ TypeOK'
  BY TypeStep DEF GatewayInv
<1>2. ASSUME delivery' = Known, UNCHANGED <<told, effects>>
      PROVE  P!Next
  <2>1. \A k \in Keys : P!Same(k) \/ P!Lose(k)
    BY <1>1, <1>2, KnownKey
  <2>2. QED BY <1>1, <2>1, ByKey
<1>3. CASE RecoverExpired \/ Restart
  BY <1>2, <1>3 DEF RecoverExpired, Restart
<1>4. CASE Tick
  <2>1. \A k \in Keys : OutcomeOf(delivery'[k]) = OutcomeOf(delivery[k])
    BY <1>1, <1>4, TickTypes DEF OutcomeOf
  <2>2. Outcomes' = Outcomes
    BY <2>1 DEF Outcomes
  <2>3. QED BY <1>4, <2>2 DEF Tick
<1>5. CASE Pause \/ Resume \/ Synchronize \/ BeginHealth \/ EndHealth \/ BeginPoll \/ EndPoll
  BY <1>5 DEF Pause, Resume, Synchronize, Saves, BeginHealth, BeginPoll, Begin, EndHealth, EndPoll,
     Outcomes
<1>6. CASE UNCHANGED vars
  BY <1>6 DEF vars, Outcomes
<1>7. QED BY <1>3, <1>4, <1>5, <1>6, DeliverRefines, ProviderRefines, ReturnRefines DEF Next

\* The message gateway implements its promise: whatever callers, restarts,
\* recoveries and late results do, each message reaches the provider once at
\* most, and a decided delivery stays decided.
THEOREM KeepsPromise == Spec => Promised
<1>1. Init => P!Init
  BY DEF Init, P!Init, Outcomes, OutcomeOf, NoDelivery
<1>2. GatewayInv /\ [Next]_vars => [P!Next]_(P!promise)
  BY StepRefines DEF P!promise
<1>3. QED BY <1>1, <1>2, GatewayInvariant, PTL DEF Spec, Promised, P!Spec

\* The provider gets a message once at most, and what the delivery's status says of it is
\* true: it has the message when the delivery is accepted, and not while one waits for the
\* next attempt or has failed (deliver, recordResult, recoverExpired).
THEOREM SentOnce == Spec => []EffectsFollowStatus
<1>1. GatewayInv => EffectsFollowStatus
  BY DEF GatewayInv
<1>2. QED BY <1>1, GatewayInvariant, PTL

\* A delivery that is decided stays decided, and what is accepted or failed is not sent again:
\* not by a caller that asks again, a late answer, a recovery or a restart.
DecidedDeliveryStands ==
  [][\A k \in Keys : delivery[k].status \in {"accepted", "failed", "unknown"} =>
       /\ delivery'[k].status = delivery[k].status
       /\ delivery[k].status # "unknown" => effects'[k] = effects[k]]_vars

\* What is decided is told by the outcome of the promise.
LEMMA DecidedOutcome ==
  ASSUME NEW k \in Keys
  PROVE  /\ delivery[k].status \in {"accepted", "failed", "unknown"} => Outcomes[k] = delivery[k].status
         /\ Outcomes'[k] \in {"accepted", "failed", "unknown"} => Outcomes'[k] = delivery'[k].status
BY DEF Outcomes, OutcomeOf

\* No step of the promise takes back what is decided.
LEMMA PromiseStands ==
  ASSUME P!Next, NEW k \in Keys, Outcomes[k] # "open"
  PROVE  /\ Outcomes'[k] = Outcomes[k]
         /\ Outcomes[k] # "unknown" => effects'[k] = effects[k]
<1>1. P!Same(k) \/ P!Ask(k) \/ P!Hand(k) \/ P!Lose(k) \/ P!Answer(k)
  BY DEF P!Next
<1>2. QED BY <1>1 DEF P!Same, P!Ask, P!Hand, P!Lose, P!Answer, P!Decided

\* Decided deliveries stand, for any number of callers, keys and attempts.
THEOREM DecisionsStand == Spec => DecidedDeliveryStands
<1>1. ASSUME P!Next \/ UNCHANGED <<Outcomes, effects>>, NEW k \in Keys,
             delivery[k].status \in {"accepted", "failed", "unknown"}
      PROVE  /\ delivery'[k].status = delivery[k].status
             /\ delivery[k].status # "unknown" => effects'[k] = effects[k]
  <2>1. Outcomes[k] = delivery[k].status /\ Outcomes[k] # "open"
    BY <1>1, DecidedOutcome
  <2>2. Outcomes'[k] = Outcomes[k] /\ (Outcomes[k] # "unknown" => effects'[k] = effects[k])
    BY <1>1, <2>1, PromiseStands
  <2>3. Outcomes'[k] \in {"accepted", "failed", "unknown"} => Outcomes'[k] = delivery'[k].status
    BY DecidedOutcome
  <2>4. QED BY <1>1, <2>1, <2>2, <2>3
<1>2. GatewayInv /\ [Next]_vars =>
        [\A k \in Keys : delivery[k].status \in {"accepted", "failed", "unknown"} =>
           /\ delivery'[k].status = delivery[k].status
           /\ delivery[k].status # "unknown" => effects'[k] = effects[k]]_vars
  BY <1>1, StepRefines
<1>3. QED BY <1>2, GatewayInvariant, PTL DEF Spec, DecidedDeliveryStands

-----------------------------------------------------------------------------
(***************************************************************************)
(* The breaker and the pause.                                              *)
(***************************************************************************)

\* What a success and a failure do to the status and the count.
LEMMA BreakerSteps ==
  ASSUME NEW a \in Adapter, NEW fresh, NEW kind
  PROVE  /\ a.status \in HeldBack => /\ AfterSuccess(a, fresh) = a
                                     /\ AfterFailure(a, kind) = a
         /\ (a.status \notin HeldBack => a.failures < BreakerThreshold) =>
              \A b \in {AfterSuccess(a, fresh), AfterFailure(a, kind)} :
                b.status \notin HeldBack => b.failures < BreakerThreshold
<1> DEFINE failures == IF a.window >= 0 THEN a.failures + 1 ELSE 1
           status == IF failures >= BreakerThreshold THEN "paused_by_breaker" ELSE "degraded"
           window == IF a.window >= 0 THEN a.window ELSE WindowTicks
           b == AfterFailure(a, kind)
           c == AfterSuccess(a, fresh)
<1>1. a.status \in HeldBack => Blocked(a)
  BY DEF HeldBack, Blocked, InService
<1>2. Blocked(a) => c = a /\ b = a
  BY DEF AfterSuccess, AfterFailure
<1>3. ASSUME a.status \notin HeldBack => a.failures < BreakerThreshold
      PROVE  c.status \notin HeldBack => c.failures < BreakerThreshold
  BY <1>3, LimitsAssumption DEF AfterSuccess, Adapter
<1>4. ASSUME a.status \notin HeldBack => a.failures < BreakerThreshold
      PROVE  b.status \notin HeldBack => b.failures < BreakerThreshold
  <2>1. failures \in Nat /\ BreakerThreshold \in Nat
    BY LimitsAssumption DEF Adapter
  <2>2. CASE Blocked(a) \/ kind = "permanent"
    BY <1>4, <2>2 DEF AfterFailure
  <2>3. CASE ~(Blocked(a) \/ kind = "permanent") /\ kind = "unknown"
    <3>1. b = [a EXCEPT !.status = "degraded"]
      BY <2>3 DEF AfterFailure
    <3>2. a.status \notin HeldBack
      BY <2>3, <1>1
    <3>3. QED BY <1>4, <3>1, <3>2 DEF Adapter
  <2>4. CASE ~(Blocked(a) \/ kind = "permanent") /\ kind # "unknown"
    <3>1. b = [a EXCEPT !.status = status, !.failures = failures, !.window = window]
      BY <2>4 DEF AfterFailure
    <3>2. b.status = status /\ b.failures = failures
      BY <3>1 DEF Adapter
    <3>3. failures >= BreakerThreshold => status \in HeldBack
      BY DEF HeldBack
    <3>4. QED BY <2>1, <3>2, <3>3
  <2>5. QED BY <2>2, <2>3, <2>4
<1>5. QED BY <1>1, <1>2, <1>3, <1>4

\* The ways a step can change the adapter's state, apart from the operator's.
LEMMA AdapterChanges ==
  ASSUME TypeOK, [Next]_vars
  PROVE  \/ Pause \/ Resume
         \/ \E fresh, kind : adapter' \in {AfterSuccess(adapter, fresh), AfterFailure(adapter, kind)}
         \/ /\ adapter'.status = adapter.status \/ adapter.status \notin HeldBack
            /\ adapter'.failures = adapter.failures
<1>1. CASE Synchronize
  BY <1>1 DEF Synchronize, Synchronizes, Saves, AdapterSaved, TypeOK, Adapter
<1>2. CASE EndHealth
  <2>1. ~Blocked(adapter) => adapter.status \notin HeldBack
    BY DEF Blocked, InService, HeldBack
  <2>2. QED BY <1>2, <2>1 DEF EndHealth, TypeOK, Adapter
<1>3. CASE EndPoll
  BY <1>3 DEF EndPoll
<1>4. CASE Tick
  BY <1>4 DEF Tick, TypeOK, Adapter
<1>5. CASE \E c \in Callers : Return(c)
  BY <1>5, ReturnShapes DEF Returns, AdapterSaved, ReturnsTooLate
<1>6. CASE UNCHANGED adapter
  BY <1>6
<1>7. CASE \/ \E k \in Keys : Deliver(k)
           \/ \E c \in Callers : ProviderTakes(c)
           \/ BeginHealth \/ BeginPoll \/ RecoverExpired \/ Restart \/ UNCHANGED vars
  BY <1>6, <1>7 DEF Deliver, Replay, Refuse, HoldBack, Send, ProviderTakes, BeginHealth, BeginPoll,
     Begin, RecoverExpired, Restart, vars
<1>8. QED BY <1>1, <1>2, <1>3, <1>4, <1>5, <1>7 DEF Next

\* No step brings an adapter with too many failures into service.
LEMMA BreakerStep ==
  ASSUME BreakerInv, [Next]_vars
  PROVE  BreakerInv'
<1>1. TypeOK /\ TypeOK' /\ adapter \in Adapter
  BY TypeStep DEF BreakerInv, TypeOK
<1>2. CASE Pause
  <2>1. adapter'.status = "paused"
    BY <1>1, <1>2 DEF Pause, Saves, AdapterSaved, Adapter
  <2>2. QED BY <1>1, <2>1 DEF BreakerInv, HeldBack
<1>3. CASE Resume
  <2>1. adapter'.failures = 0
    BY <1>1, <1>3 DEF Resume, Resumed, Saves, AdapterSaved, Adapter
  <2>2. QED BY <1>1, <2>1, LimitsAssumption DEF BreakerInv
<1>4. ASSUME NEW fresh, NEW kind,
             adapter' \in {AfterSuccess(adapter, fresh), AfterFailure(adapter, kind)}
      PROVE  BreakerInv'
  BY <1>1, <1>4, BreakerSteps DEF BreakerInv
<1>5. CASE /\ adapter'.status = adapter.status \/ adapter.status \notin HeldBack
           /\ adapter'.failures = adapter.failures
  BY <1>1, <1>5 DEF BreakerInv
<1>6. QED BY <1>1, <1>2, <1>3, <1>4, <1>5, AdapterChanges

\* Whatever results, polls and configurations arrive, an adapter in service has
\* had fewer failures than open the breaker.
THEOREM BreakerOpens == Spec => []BreakerTrips
<1>1. Init => BreakerInv
  <2>1. ASSUME Init
        PROVE  BreakerInv
    BY <2>1, TypeInit, LimitsAssumption DEF Init, BreakerInv
  <2>2. QED BY <2>1
<1>2. BreakerInv /\ [Next]_vars => BreakerInv'
  BY BreakerStep
<1>3. BreakerInv => BreakerTrips
  BY DEF BreakerInv, BreakerTrips, InService, HeldBack
<1>4. QED BY <1>1, <1>2, <1>3, PTL DEF Spec

\* A paused adapter, and one the breaker stopped, leaves that status by the
\* operator's hand only.
THEOREM PauseIsKept == Spec => PauseHolds
<1>1. ASSUME TypeOK, [Next]_vars
      PROVE  [adapter.status \in HeldBack /\ adapter'.status # adapter.status
                => Pause \/ Resume]_vars
  <2>1. adapter \in Adapter
    BY <1>1 DEF TypeOK
  <2>2. QED BY <1>1, <2>1, AdapterChanges, BreakerSteps
<1>2. QED BY <1>1, TypeCorrect, PTL DEF Spec, PauseHolds

=============================================================================
