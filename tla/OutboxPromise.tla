--------------------------- MODULE OutboxPromise ---------------------------
(***************************************************************************)
(* What the people of a tenant may rely on, for each row of the            *)
(* procurement outbox: the record says what the external system did or     *)
(* that nobody knows, the system acts for an open row unless a lease has   *)
(* lapsed, and it acts once more at most for each lease that lapsed.       *)
(***************************************************************************)
EXTENDS Naturals

CONSTANT Rows    \* identities of outbox rows

Closed == {"done", "doubt", "failed", "overtaken"}

VARIABLES
  record,   \* what the row and the order show: see Closed, or "none", "open"
  copies,   \* times the external system acted
  lapses    \* leases that ran out under a run

promise == <<record, copies, lapses>>

Init ==
  /\ record = [m \in Rows |-> "none"]
  /\ copies = [m \in Rows |-> 0]
  /\ lapses = [m \in Rows |-> 0]

Same(m) == record'[m] = record[m] /\ copies'[m] = copies[m] /\ lapses'[m] = lapses[m]

Accept(m) ==
  /\ record[m] = "none" /\ record'[m] = "open"
  /\ copies'[m] = copies[m] /\ lapses'[m] = lapses[m]

\* A call whose lease lapsed may still be acted on when the row is closed.
Act(m) ==
  /\ record[m] = "open" \/ lapses[m] > 0
  /\ copies[m] <= lapses[m] /\ copies'[m] = copies[m] + 1
  /\ record'[m] = record[m] /\ lapses'[m] = lapses[m]

Lapse(m) ==
  /\ record[m] = "open" /\ record'[m] = "open"
  /\ lapses'[m] = lapses[m] + 1 /\ copies'[m] = copies[m]

Close(m) ==
  /\ record[m] = "open" /\ record'[m] \in Closed
  /\ record'[m] = "done" => copies[m] > 0
  /\ record'[m] = "failed" => copies[m] = 0 \/ lapses[m] > 0
  /\ copies'[m] = copies[m] /\ lapses'[m] = lapses[m]

\* The order moves past the version a failed amendment was frozen at.
Overtake(m) ==
  /\ record[m] = "failed" /\ record'[m] = "overtaken"
  /\ copies'[m] = copies[m] /\ lapses'[m] = lapses[m]

\* One run leases many rows, and settling one may move the order past another.
Next ==
  /\ record' \in [Rows -> Closed \cup {"none", "open"}]
  /\ copies' \in [Rows -> Nat] /\ lapses' \in [Rows -> Nat]
  /\ \A m \in Rows : Same(m) \/ Accept(m) \/ Act(m) \/ Lapse(m) \/ Close(m) \/ Overtake(m)

Spec == Init /\ [][Next]_promise

=============================================================================
