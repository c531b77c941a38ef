---------------------------- MODULE ActionGateway ----------------------------
(***************************************************************************)
(* ActionGateway (apps/api/src/action-gateway.ts): the one entry by which   *)
(* the nodes of a workflow run cause effects in other systems.  A key is    *)
(* the idempotency key run:node:connector.action of one node.  The gateway  *)
(* reserves a row of action_executions, calls the connector and stores the  *)
(* final result; a reservation whose lease ran out is never called again,   *)
(* only looked up at the other system (reconcile).                          *)
(*                                                                         *)
(* One API process serves the callbacks of a run, so inFlight joins every   *)
(* caller of a key to the execution under way.  Keys are external writes    *)
(* (isExternalWrite holds of all actions but po.get).                       *)
(***************************************************************************)
EXTENDS Integers, FiniteSets

CONSTANTS
  Keys,               \* actions of the run
  MaxActionAttempts   \* node.retries + 1

ASSUME AttemptsAssumption == MaxActionAttempts \in Nat \ {0}

VARIABLES
  row,         \* action_executions: status, lease still running, attempt
  exec,        \* inFlight: what the execution of the key awaits
  outstanding, \* the other system holds a request it has not acted on yet
  effects      \* history: times the other system acted for the key

gateway == <<row, exec, outstanding, effects>>

Settled == {"completed", "failed", "manual_reconciliation"}
RowStatus == {"absent", "pending", "recovering", "retryable_failed"} \cup Settled

GatewayTypeOK ==
  /\ row \in [Keys -> [status : RowStatus, leased : BOOLEAN, attempt : Nat]]
  /\ exec \in [Keys -> {"none", "calling", "reconciling"}]
  /\ outstanding \in [Keys -> BOOLEAN]
  /\ effects \in [Keys -> Nat]

GatewayInit ==
  /\ row = [k \in Keys |-> [status |-> "absent", leased |-> FALSE, attempt |-> 0]]
  /\ exec = [k \in Keys |-> "none"]
  /\ outstanding = [k \in Keys |-> FALSE]
  /\ effects = [k \in Keys |-> 0]

-----------------------------------------------------------------------------
(***************************************************************************)
(* execute, up to its first await.  "join" is the answer of an execution    *)
(* that is under way; every other receipt is returned at once.              *)
(***************************************************************************)
ReceiptOf(status) ==
  CASE status = "completed" -> "ok"
    [] status = "manual_reconciliation" -> "manual"
    [] status = "retryable_failed" -> "retryable"
    [] OTHER -> "failed"

\* A final row is replayed, and a caller joins the execution under way.
Replay(k, receipt) ==
  /\ exec[k] = "none" /\ row[k].status \in Settled
  /\ receipt = ReceiptOf(row[k].status)
  /\ UNCHANGED gateway

Join(k, receipt) ==
  /\ exec[k] # "none" /\ row[k].status \notin Settled
  /\ receipt = "join"
  /\ UNCHANGED gateway

\* Wrong: the permission is read before the stored result is.
DenyFirst(k, receipt) ==
  /\ exec[k] = "none" /\ receipt = "failed"
  /\ row' = [row EXCEPT ![k].status = "failed", ![k].leased = FALSE,
                        ![k].attempt = IF @ = 0 THEN 1 ELSE @]
  /\ UNCHANGED <<exec, outstanding, effects>>

\* The employee's permissions are read anew: a refusal is stored as final.
Deny(k, receipt) ==
  /\ exec[k] = "none" /\ row[k].status \notin Settled
  /\ receipt = "failed"
  /\ row' = [row EXCEPT ![k].status = "failed", ![k].leased = FALSE,
                        ![k].attempt = IF @ = 0 THEN 1 ELSE @]
  /\ UNCHANGED <<exec, outstanding, effects>>

\* Wrong: an expired reservation is simply called again.
CanCallExpired(k) ==
  \/ row[k].status = "absent"
  \/ row[k].status = "retryable_failed" /\ row[k].attempt < MaxActionAttempts
  \/ row[k].status = "pending" /\ ~row[k].leased

\* reserve: a new row, or one whose last attempt never reached the other system.
CanCall(k) ==
  \/ row[k].status = "absent"
  \/ row[k].status = "retryable_failed" /\ row[k].attempt < MaxActionAttempts

Reserve(k, receipt) ==
  /\ exec[k] = "none" /\ CanCall(k)
  /\ receipt = "join"
  /\ row' = [row EXCEPT ![k] = [status |-> "pending", leased |-> TRUE, attempt |-> @.attempt + 1]]
  /\ exec' = [exec EXCEPT ![k] = "calling"]
  /\ outstanding' = [outstanding EXCEPT ![k] = TRUE]
  /\ UNCHANGED effects

Exhaust(k, receipt) ==
  /\ exec[k] = "none"
  /\ row[k].status = "retryable_failed" /\ row[k].attempt >= MaxActionAttempts
  /\ receipt = "failed"
  /\ row' = [row EXCEPT ![k].status = "failed"]
  /\ UNCHANGED <<exec, outstanding, effects>>

\* The row of a process that died: in doubt for as long as its lease runs ...
Busy(k, receipt) ==
  /\ exec[k] = "none" /\ row[k].status \in {"pending", "recovering"} /\ row[k].leased
  /\ receipt = "busy"
  /\ UNCHANGED gateway

\* ... then looked up, and not called again.
Recover(k, receipt) ==
  /\ exec[k] = "none" /\ row[k].status \in {"pending", "recovering"} /\ ~row[k].leased
  /\ receipt = "join"
  /\ row' = [row EXCEPT ![k] = [status |-> "recovering", leased |-> TRUE, attempt |-> @.attempt + 1]]
  /\ exec' = [exec EXCEPT ![k] = "reconciling"]
  /\ UNCHANGED <<outstanding, effects>>

Execute(k, receipt) ==
  \/ Replay(k, receipt) \/ Join(k, receipt) \/ Deny(k, receipt) \/ Reserve(k, receipt)
  \/ Exhaust(k, receipt) \/ Busy(k, receipt) \/ Recover(k, receipt)

-----------------------------------------------------------------------------
(***************************************************************************)
(* After the await: storeFinal writes whatever the row holds by then.       *)
(***************************************************************************)
StoreFinal(k, status) ==
  /\ row' = [row EXCEPT ![k].status = status, ![k].leased = FALSE]
  /\ exec' = [exec EXCEPT ![k] = "none"]

CallSucceeds(k) ==
  /\ exec[k] = "calling" /\ ~outstanding[k]
  /\ StoreFinal(k, "completed")
  /\ UNCHANGED <<outstanding, effects>>

\* isSafelyRetryable: connection refused, busy or rate limited, never begun.
CallRefused(k) ==
  /\ exec[k] = "calling" /\ outstanding[k]
  /\ StoreFinal(k, "retryable_failed")
  /\ outstanding' = [outstanding EXCEPT ![k] = FALSE]
  /\ UNCHANGED effects

\* Any other definite error: begun or not, it will do no more.
CallFails(k) ==
  /\ exec[k] = "calling"
  /\ StoreFinal(k, "failed")
  /\ outstanding' = [outstanding EXCEPT ![k] = FALSE]
  /\ UNCHANGED effects

\* isUncertainExternalWrite: timeout or a lost connection.
CallUncertain(k) ==
  /\ exec[k] = "calling"
  /\ exec' = [exec EXCEPT ![k] = "reconciling"]
  /\ UNCHANGED <<row, outstanding, effects>>

\* Wrong: whoever can be read back is taken as done.
ConfirmedUnread(k) ==
  /\ exec[k] = "reconciling"
  /\ StoreFinal(k, "completed")
  /\ UNCHANGED <<outstanding, effects>>

\* reconcile confirms only an effect it reads back.
Confirmed(k) ==
  /\ exec[k] = "reconciling" /\ effects[k] > 0
  /\ StoreFinal(k, "completed")
  /\ UNCHANGED <<outstanding, effects>>

Unverified(k) ==
  /\ exec[k] = "reconciling"
  /\ StoreFinal(k, "manual_reconciliation")
  /\ UNCHANGED <<outstanding, effects>>

ExecutionEnds(k) ==
  \/ CallSucceeds(k) \/ CallRefused(k) \/ CallFails(k) \/ CallUncertain(k)
  \/ Confirmed(k) \/ Unverified(k)

-----------------------------------------------------------------------------
\* The other system works on the request, whether or not anyone still waits.
ExternalActs(k) ==
  /\ outstanding[k]
  /\ outstanding' = [outstanding EXCEPT ![k] = FALSE]
  /\ effects' = [effects EXCEPT ![k] = @ + 1]
  /\ UNCHANGED <<row, exec>>

LeaseExpires(k) ==
  /\ row[k].leased
  /\ row' = [row EXCEPT ![k].leased = FALSE]
  /\ UNCHANGED <<exec, outstanding, effects>>

\* The API process dies: inFlight is gone, rows and requests remain.
GatewayCrash ==
  /\ exec' = [k \in Keys |-> "none"]
  /\ UNCHANGED <<row, outstanding, effects>>

-----------------------------------------------------------------------------
(* A node's effect is caused once at most, whatever is retried, joined,     *)
(* taken over after a crash or answered too late.                           *)
AtMostOneEffect == \A k \in Keys : effects[k] <= 1

(* A result recorded as completed has its effect in the other system.       *)
CompletedHasEffect == \A k \in Keys : row[k].status = "completed" => effects[k] > 0

(* Once settled, a result is the answer for good: no late execution, denial  *)
(* or recovery replaces what earlier callers were told.                     *)
SettledActionStays ==
  [][\A k \in Keys : row[k].status \in Settled => row'[k].status = row[k].status]_row

=============================================================================
