--------------------------- MODULE MessageGateway ---------------------------
(***************************************************************************)
(* The message gateway of one tenant and one adapter: deliveries with      *)
(* their idempotency keys (MessagingRepository), the calls of the adapter  *)
(* that are under way (MessageGateway.deliver), and the adapter's state    *)
(* with its circuit breaker.                                               *)
(*                                                                         *)
(* The code before and after the one await of deliver, adapter.send, runs  *)
(* to completion: it is one action each.  Instants are countdowns.  The    *)
(* version of the adapter's state grows with every save; all the code does *)
(* with it is compare it with a version read earlier, so a call remembers  *)
(* only whether the state was saved since.                                 *)
(***************************************************************************)
EXTENDS Integers

CONSTANTS
  Keys,              \* idempotency keys
  Supported,         \* keys whose request the adapter has the capabilities for
  Callers,           \* deliveries that may be under way at once
  MaxSends,          \* attempts of one delivery (3 in the code)
  BreakerThreshold,  \* retryable failures that open the breaker (3 in the code)
  LeaseTicks,        \* length of the lease of a sending delivery
  RetryTicks,        \* wait before a retry
  WindowTicks,       \* length of the breaker's failure window
  NoCall             \* "no call under way"

ASSUME SupportedAssumption == Supported \subseteq Keys
ASSUME LimitsAssumption ==
  /\ MaxSends \in Nat \ {0} /\ BreakerThreshold \in Nat \ {0}
  /\ LeaseTicks \in Nat \ {0} /\ RetryTicks \in Nat \ {0} /\ WindowTicks \in Nat

DeliveryStatus == {"absent", "pending", "sending", "retry_wait", "accepted", "failed", "unknown"}
Delivery == [status : DeliveryStatus, attempts : Nat, version : Nat,
             lease : 0..LeaseTicks, wait : 0..RetryTicks]

InService == {"running", "degraded"}
HeldBack == {"paused", "paused_by_breaker"}
AdapterStatus == InService \cup HeldBack \cup {"disabled", "unconfigured"}
Adapter == [status : AdapterStatus, configured : BOOLEAN, failures : Nat,
            window : -1..WindowTicks]

Call == [key : Keys, version : Nat, fresh : BOOLEAN]
Check == [kind : {"none", "health", "poll"}, fresh : BOOLEAN]
ASSUME NoCallAssumption == NoCall \notin Call

NoCheck == [kind |-> "none", fresh |-> FALSE]

Receipt == {"none", "accepted", "failed", "unknown", "deferred", "blocked"}

VARIABLES
  delivery,  \* messaging_deliveries
  adapter,   \* messaging_adapter_states, one row
  call,      \* what a caller awaits, with the version markDeliverySending returned
  acted,     \* the provider has taken the message of the call
  check,     \* a health check or a poll under way
  told,      \* history: the last receipt since the last attempt began
  effects    \* history: messages the provider took

vars == <<delivery, adapter, call, acted, check, told, effects>>

TypeOK ==
  /\ delivery \in [Keys -> Delivery]
  /\ adapter \in Adapter
  /\ call \in [Callers -> Call \cup {NoCall}]
  /\ acted \in [Callers -> BOOLEAN]
  /\ check \in Check
  /\ told \in [Keys -> Receipt]
  /\ effects \in [Keys -> Nat]

NoDelivery == [status |-> "absent", attempts |-> 0, version |-> 0, lease |-> 0, wait |-> 0]

Init ==
  /\ delivery = [k \in Keys |-> NoDelivery]
  /\ adapter = [status |-> "degraded", configured |-> TRUE, failures |-> 0, window |-> -1]
  /\ call = [c \in Callers |-> NoCall]
  /\ acted = [c \in Callers |-> FALSE]
  /\ check = NoCheck
  /\ told = [k \in Keys |-> "none"]
  /\ effects = [k \in Keys |-> 0]

-----------------------------------------------------------------------------
(***************************************************************************)
(* The adapter's state.                                                    *)
(***************************************************************************)
Blocked(a) == a.status \notin InService

\* Every save makes what the calls and checks under way read before out of date.
Outdated(calls) ==
  [c \in Callers |-> IF calls[c] = NoCall THEN NoCall ELSE [calls[c] EXCEPT !.fresh = FALSE]]

AdapterSaved(a) == adapter' = a /\ check' = [check EXCEPT !.fresh = FALSE]

\* A success that began before the latest save clears nothing.
AfterSuccess(a, fresh) ==
  IF Blocked(a) \/ ~fresh THEN a
  ELSE [a EXCEPT !.status = "running", !.failures = 0, !.window = -1]

\* Wrong: a late result puts the adapter back in service.
FailureUnblocks(a, kind) ==
  IF kind = "unknown" THEN [a EXCEPT !.status = "degraded"] ELSE a

\* The window is counted from its first failure.
AfterFailure(a, kind) ==
  LET failures == IF a.window >= 0 THEN a.failures + 1 ELSE 1 IN
  CASE Blocked(a) \/ kind = "permanent" -> a
    [] ~Blocked(a) /\ kind = "unknown"  -> [a EXCEPT !.status = "degraded"]
    [] OTHER ->
         [a EXCEPT !.status = IF failures >= BreakerThreshold THEN "paused_by_breaker" ELSE "degraded",
                   !.failures = failures,
                   !.window = IF a.window >= 0 THEN a.window ELSE WindowTicks]

-----------------------------------------------------------------------------
(***************************************************************************)
(* deliver, up to the call of the adapter.  Every call first gives up the  *)
(* deliveries whose lease has run out.                                     *)
(***************************************************************************)
\* Wrong: what was lost is sent again.
RecoveredForRetry(d) ==
  IF d.status = "sending" /\ d.lease = 0
  THEN [d EXCEPT !.status = "retry_wait", !.version = @ + 1, !.wait = 0] ELSE d

\* Wrong: what was lost stays as it is.
NeverRecovered(d) == d

Recovered(d) ==
  IF d.status = "sending" /\ d.lease = 0
  THEN [d EXCEPT !.status = "unknown", !.version = @ + 1] ELSE d

Known == [k \in Keys |-> Recovered(delivery[k])]

Reserved(d) ==
  IF d.status = "absent" THEN [d EXCEPT !.status = "pending", !.version = 1] ELSE d

\* A new key, one that was held back, or one whose wait is over.
Sendable(d) ==
  d.status \in {"absent", "pending"} \/ (d.status = "retry_wait" /\ d.wait = 0)

Exhausted(d) == d.status = "retry_wait" /\ d.attempts >= MaxSends

ReplayedReceipt(d) ==
  CASE d.status \in {"accepted", "failed"}  -> d.status
    [] d.status \in {"unknown", "sending"}  -> "unknown"
    [] OTHER                                -> "deferred"

Replay(k) ==
  /\ ~Sendable(Known[k])
  /\ delivery' = Known
  /\ told' = [told EXCEPT ![k] = ReplayedReceipt(Known[k])]
  /\ UNCHANGED <<adapter, call, acted, check, effects>>

FailedBeforeDispatch(d) == [d EXCEPT !.status = "failed", !.version = @ + 1, !.wait = 0]

Refuse(k) ==
  /\ Sendable(Known[k]) /\ (Exhausted(Known[k]) \/ k \notin Supported)
  /\ delivery' = [Known EXCEPT ![k] = FailedBeforeDispatch(Reserved(@))]
  /\ told' = [told EXCEPT ![k] = "failed"]
  /\ UNCHANGED <<adapter, call, acted, check, effects>>

HoldBack(k) ==
  /\ Sendable(Known[k]) /\ ~Exhausted(Known[k]) /\ k \in Supported
  /\ Blocked(adapter)
  /\ delivery' = [Known EXCEPT ![k] = Reserved(@)]
  /\ told' = [told EXCEPT ![k] = "blocked"]
  /\ UNCHANGED <<adapter, call, acted, check, effects>>

\* The delivery is committed as sending before the adapter is called.
Sending(d) ==
  [d EXCEPT !.status = "sending", !.attempts = @ + 1, !.version = @ + 1,
            !.lease = LeaseTicks, !.wait = 0]

Send(c, k) ==
  /\ call[c] = NoCall
  /\ Sendable(Known[k]) /\ ~Exhausted(Known[k]) /\ k \in Supported
  /\ ~Blocked(adapter)
  /\ delivery' = [Known EXCEPT ![k] = Sending(Reserved(@))]
  /\ call' = [call EXCEPT ![c] =
       [key |-> k, version |-> Sending(Reserved(Known[k])).version, fresh |-> TRUE]]
  /\ acted' = [acted EXCEPT ![c] = FALSE]
  /\ told' = [told EXCEPT ![k] = "none"]
  /\ UNCHANGED <<adapter, check, effects>>

\* External: the provider may take the message at any time of the call.
ProviderTakes(c) ==
  /\ call[c] # NoCall /\ ~acted[c]
  /\ acted' = [acted EXCEPT ![c] = TRUE]
  /\ effects' = [effects EXCEPT ![call[c].key] = @ + 1]
  /\ UNCHANGED <<delivery, adapter, call, check, told>>

-----------------------------------------------------------------------------
(***************************************************************************)
(* The end of deliver.  Only the version decides whether the result still  *)
(* counts; the lease is not looked at.                                     *)
(***************************************************************************)
\* Wrong: a delivery that was given up takes the result after all.
StillAwaited(c) == delivery[call[c].key].status \in {"sending", "unknown"}

StillSending(c) ==
  LET d == delivery[call[c].key] IN d.status = "sending" /\ d.version = call[c].version

Settled(d, status) ==
  [d EXCEPT !.status = status, !.version = @ + 1,
            !.wait = IF status = "retry_wait" THEN RetryTicks ELSE 0]

Returns(c, status, receipt, saved) ==
  /\ call[c] # NoCall /\ StillSending(c)
  /\ delivery' = [delivery EXCEPT ![call[c].key] = Settled(@, status)]
  /\ told' = [told EXCEPT ![call[c].key] = receipt]
  /\ AdapterSaved(saved)
  /\ call' = Outdated([call EXCEPT ![c] = NoCall])
  /\ acted' = [acted EXCEPT ![c] = FALSE]
  /\ UNCHANGED effects

ReturnsAccepted(c) ==
  /\ acted[c]
  /\ Returns(c, "accepted", "accepted", AfterSuccess(adapter, call[c].fresh))

\* Adapters claim that nothing was dispatched only when nothing was.
ReturnsRetryable(c) ==
  /\ ~acted[c] /\ call[c] # NoCall
  /\ IF delivery[call[c].key].attempts < MaxSends
     THEN Returns(c, "retry_wait", "deferred", AfterFailure(adapter, "retryable"))
     ELSE Returns(c, "failed", "failed", AfterFailure(adapter, "retryable"))

ReturnsFailed(c) ==
  /\ ~acted[c]
  /\ Returns(c, "failed", "failed", AfterFailure(adapter, "permanent"))

ReturnsUnknown(c) ==
  Returns(c, "unknown", "unknown", AfterFailure(adapter, "unknown"))

\* The conflict is thrown before the adapter's state is saved.
ReturnsTooLate(c) ==
  /\ call[c] # NoCall /\ ~StillSending(c)
  /\ call' = [call EXCEPT ![c] = NoCall]
  /\ acted' = [acted EXCEPT ![c] = FALSE]
  /\ UNCHANGED <<delivery, adapter, check, told, effects>>

Return(c) ==
  \/ ReturnsAccepted(c)
  \/ ReturnsRetryable(c)
  \/ ReturnsFailed(c)
  \/ ReturnsUnknown(c)
  \/ ReturnsTooLate(c)

-----------------------------------------------------------------------------
(***************************************************************************)
(* What else changes the adapter's state: the operator, the configuration, *)
(* health checks and polls.                                                *)
(***************************************************************************)
Saves(a) ==
  /\ AdapterSaved(a)
  /\ call' = Outdated(call)
  /\ UNCHANGED <<delivery, acted, told, effects>>

Pause == Saves([adapter EXCEPT !.status = "paused"])

Resumed(a) ==
  [a EXCEPT !.status = IF a.configured THEN "degraded" ELSE "unconfigured",
            !.failures = 0, !.window = -1]

Resume == Saves(Resumed(adapter))

\* Wrong: only the operator's pause is respected.
SynchronizesUnlessPaused(a) == a.status # "paused"

Synchronizes(a) == a.status \notin HeldBack

Synchronize ==
  /\ Synchronizes(adapter)
  /\ \E status \in InService \cup {"disabled", "unconfigured"}, configured \in BOOLEAN :
       /\ status \in InService => configured
       /\ status = "unconfigured" => ~configured
       /\ Saves([adapter EXCEPT !.status = status, !.configured = configured])

Begin(kind) ==
  /\ check' = [kind |-> kind, fresh |-> TRUE]
  /\ UNCHANGED <<delivery, adapter, call, acted, told, effects>>

BeginHealth ==
  /\ check.kind = "none" /\ adapter.status \notin HeldBack \cup {"disabled"}
  /\ Begin("health")

\* A state that was saved meanwhile is left alone.
EndHealth ==
  /\ check.kind = "health"
  /\ check' = NoCheck
  /\ \/ ~check.fresh /\ UNCHANGED <<adapter, call>>
     \/ /\ check.fresh /\ call' = Outdated(call)
        /\ IF Blocked(adapter) THEN adapter' = adapter
           ELSE \E status \in InService : adapter' = [adapter EXCEPT !.status = status]
  /\ UNCHANGED <<delivery, acted, told, effects>>

BeginPoll == check.kind = "none" /\ ~Blocked(adapter) /\ Begin("poll")

EndPoll ==
  /\ check.kind = "poll"
  /\ check' = NoCheck /\ call' = Outdated(call)
  /\ \/ adapter' = AfterSuccess(adapter, check.fresh)
     \/ adapter' = AfterFailure(adapter, "retryable")
  /\ UNCHANGED <<delivery, acted, told, effects>>

-----------------------------------------------------------------------------
\* adapterStates: the page that lists the adapters also gives up lost deliveries.
RecoverExpired ==
  /\ delivery' = Known
  /\ UNCHANGED <<adapter, call, acted, check, told, effects>>

\* The calls die with the process; the gateway of the next one recovers.
Restart ==
  /\ delivery' = Known
  /\ call' = [c \in Callers |-> NoCall]
  /\ acted' = [c \in Callers |-> FALSE]
  /\ check' = NoCheck
  /\ UNCHANGED <<adapter, told, effects>>

\* Wrong: the lease is counted on past its end.
ElapseOn(n) == n - 1

Elapse(n) == IF n > 0 THEN n - 1 ELSE n

Tick ==
  /\ delivery' = [k \in Keys |->
       [delivery[k] EXCEPT !.lease = Elapse(@), !.wait = Elapse(@)]]
  /\ adapter' = [adapter EXCEPT !.window = IF @ >= 0 THEN @ - 1 ELSE @]
  /\ UNCHANGED <<call, acted, check, told, effects>>

Deliver(k) == Replay(k) \/ Refuse(k) \/ HoldBack(k) \/ \E c \in Callers : Send(c, k)

Next ==
  \/ \E k \in Keys : Deliver(k)
  \/ \E c \in Callers : ProviderTakes(c) \/ Return(c)
  \/ Pause \/ Resume \/ Synchronize
  \/ BeginHealth \/ EndHealth \/ BeginPoll \/ EndPoll
  \/ RecoverExpired \/ Restart \/ Tick

Spec == Init /\ [][Next]_vars

\* The outbox asks again until the delivery is decided; calls time out.
AsksAgain(k) == delivery[k].status # "absent" /\ Deliver(k)

Fairness ==
  /\ WF_vars(Tick)
  /\ \A c \in Callers : WF_vars(Return(c))
  /\ \A k \in Keys : WF_vars(AsksAgain(k))

FairSpec == Spec /\ Fairness

-----------------------------------------------------------------------------
(***************************************************************************)
(* What the gateway promises.                                              *)
(***************************************************************************)
OutcomeOf(d) == IF d.status \in {"accepted", "failed", "unknown"} THEN d.status ELSE "open"

Outcomes == [k \in Keys |-> OutcomeOf(delivery[k])]

P == INSTANCE DeliveryPromise WITH outcome <- Outcomes, copies <- effects, told <- told

\* The gateway implements its promise: however deliveries of one key, restarts,
\* late results and recoveries interleave, the provider gets each message once
\* at most, and decided deliveries stay decided.
Promised == P!Spec

\* A receipt that says "not sent", "later" or "blocked" is given only for a
\* message nobody has, one that says "accepted" only for a message the provider
\* has: the caller's outbox trusts them when it retries or closes its row.
ReceiptsAreHonest ==
  \A k \in Keys :
    /\ told[k] \in {"failed", "deferred", "blocked"} => effects[k] = 0
    /\ told[k] = "accepted" => effects[k] = 1

(***************************************************************************)
(* What makes receipts and refinement inductive: a call's delivery is      *)
(* still sending in the call's version or was given up, it is the only     *)
(* call of its key, and what the provider got is what the call or the      *)
(* delivery's status says.                                                 *)
(***************************************************************************)
CallsAreCurrent ==
  \A c \in Callers : call[c] # NoCall =>
    /\ delivery[call[c].key].status \in {"sending", "unknown"}
    /\ delivery[call[c].key].status = "sending" => delivery[call[c].key].version = call[c].version
    /\ told[call[c].key] \in {"none", "unknown"}
    /\ effects[call[c].key] = IF acted[c] THEN 1 ELSE 0

OneCallPerKey ==
  \A b, c \in Callers :
    call[b] # NoCall /\ call[c] # NoCall /\ call[b].key = call[c].key => b = c

EffectsFollowStatus ==
  \A k \in Keys :
    /\ effects[k] \in {0, 1}
    /\ delivery[k].status \in {"absent", "pending", "retry_wait", "failed"} => effects[k] = 0
    /\ delivery[k].status = "accepted" => effects[k] = 1

GatewayInv ==
  /\ TypeOK
  /\ CallsAreCurrent
  /\ OneCallPerKey
  /\ EffectsFollowStatus
  /\ ReceiptsAreHonest

\* Only the operator ends a pause or resets an open breaker: neither a late
\* result, a health check, a poll nor the configuration puts the adapter back.
PauseHolds ==
  [][adapter.status \in HeldBack /\ adapter'.status # adapter.status => Pause \/ Resume]_vars

\* An adapter in service has not had as many failures as open the breaker.
BreakerTrips == adapter.status \in InService => adapter.failures < BreakerThreshold

\* Inductively, also for an adapter out of service that no one holds back.
BreakerInv == TypeOK /\ (adapter.status \notin HeldBack => adapter.failures < BreakerThreshold)

\* Unless the adapter is held back again and again, what was asked for is decided.
DeliveriesAreDecided ==
  <>[]~Blocked(adapter) =>
    \A k \in Keys : delivery[k].status # "absent" ~> Outcomes[k] # "open"

=============================================================================
