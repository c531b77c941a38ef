-------------------------- MODULE DeliveryPromise --------------------------
(***************************************************************************)
(* What a caller of MessageGateway.deliver may rely on, for each           *)
(* idempotency key: the provider gets the message once at most, a decided  *)
(* delivery stays decided, and a receipt never says more than is known.    *)
(***************************************************************************)
EXTENDS Naturals

CONSTANT Keys    \* idempotency keys

Outcome == {"open", "accepted", "failed", "unknown"}
Waiting == {"deferred", "blocked"}
Receipt == {"none", "accepted", "failed", "unknown"} \cup Waiting

VARIABLES
  outcome,   \* what has been decided
  copies,    \* messages the provider got
  told       \* the last receipt, "none" since the caller asked again

promise == <<outcome, copies, told>>

Init ==
  /\ outcome = [k \in Keys |-> "open"]
  /\ copies = [k \in Keys |-> 0]
  /\ told = [k \in Keys |-> "none"]

Same(k) == outcome'[k] = outcome[k] /\ copies'[k] = copies[k] /\ told'[k] = told[k]

\* The caller tries again.
Ask(k) ==
  /\ outcome[k] = "open"
  /\ outcome'[k] = "open" /\ copies'[k] = copies[k] /\ told'[k] = "none"

\* The provider gets the message, possibly after the caller stopped waiting for it.
Hand(k) ==
  /\ outcome[k] \in {"open", "unknown"} /\ told[k] \in {"none", "unknown"}
  /\ copies[k] = 0 /\ copies'[k] = 1
  /\ outcome'[k] = outcome[k] /\ told'[k] = told[k]

Decided(k) ==
  /\ outcome[k] = "open" \/ outcome'[k] = outcome[k]
  /\ outcome'[k] = "accepted" => copies[k] = 1
  /\ outcome'[k] = "failed" => copies[k] = 0

\* Nobody is left to learn the answer.
Lose(k) ==
  /\ outcome[k] = "open" /\ outcome'[k] = "unknown"
  /\ copies'[k] = copies[k] /\ told'[k] = told[k]

Answer(k) ==
  /\ Decided(k) /\ copies'[k] = copies[k] /\ told'[k] \in Receipt \ {"none"}
  /\ told'[k] \in {"accepted", "failed"} => outcome'[k] = told'[k]
  /\ told'[k] \in Waiting => outcome'[k] = "open" /\ copies[k] = 0

\* One call may settle abandoned deliveries of other keys on its way.
Next ==
  /\ outcome' \in [Keys -> Outcome] /\ copies' \in [Keys -> Nat] /\ told' \in [Keys -> Receipt]
  /\ \A k \in Keys : Same(k) \/ Ask(k) \/ Hand(k) \/ Lose(k) \/ Answer(k)

Spec == Init /\ [][Next]_promise

=============================================================================
