----------------------------- MODULE ReplyLedger -----------------------------
(***************************************************************************)
(* What a supplier and a buyer may rely on when replies are read from the  *)
(* mailbox: no mail is let go before it is stored, only the supplier's      *)
(* mails touch the order, each of them is entered once as a confirmation    *)
(* and once as progress, a mail is closed once and for a reason, and every  *)
(* change of the order is owed to its twin until the twin shows it.         *)
(***************************************************************************)
EXTENDS Naturals, Sequences

CONSTANTS Mails, Person

VARIABLES
  sender,     \* who wrote a mail
  stored,     \* mails the system keeps
  seen,       \* mails the mailbox will not hand out again
  closed,     \* how a mail was disposed of, or "open"
  linked,     \* mails filed with the order
  confirmed,  \* by whom each confirmation was entered
  reported,   \* by whom each progress was entered
  status,     \* of the order
  changes,    \* number of changes of the order and its file
  owed,       \* changes that someone is still charged with showing
  shown       \* the last change the twin shows

order == <<linked, confirmed, reported, status>>
register == <<changes, owed, shown>>
ledger == <<sender, stored, seen, closed, order, register>>

Init ==
  /\ sender \in [Mails -> {"supplier", "stranger"}]
  /\ stored = {} /\ seen = {} /\ closed = [m \in Mails |-> "open"]
  /\ linked = {} /\ confirmed = <<>> /\ reported = <<>>
  /\ status \in {"sent", "confirmed"}
  /\ changes = 0 /\ owed = {} /\ shown = 0

Change ==
  /\ changes' = changes + 1
  /\ owed' = owed \cup {changes + 1}
  /\ shown' = shown

Entered(m, entries) == \E i \in DOMAIN entries : entries[i] = m

Store(m) ==
  /\ m \notin stored /\ stored' = stored \cup {m}
  /\ UNCHANGED <<sender, seen, closed, order, register>>

LetGo(m) ==
  /\ m \in stored /\ seen' = seen \cup {m}
  /\ UNCHANGED <<sender, stored, closed, order, register>>

Link(m) ==
  /\ m \in stored \ linked /\ sender[m] = "supplier"
  /\ linked' = linked \cup {m} /\ Change
  /\ UNCHANGED <<sender, stored, seen, closed, confirmed, reported, status>>

\* A deviation is entered as well, and waits for an approval.
Confirm(m) ==
  /\ m \in linked /\ ~Entered(m, confirmed)
  /\ status \in {"sent", "awaiting_confirmation", "confirmed"}
  /\ status' \in {"awaiting_confirmation", "confirmed"}
  /\ confirmed' = Append(confirmed, m) /\ Change
  /\ UNCHANGED <<sender, stored, seen, closed, linked, reported>>

Progress(m) ==
  /\ m \in linked /\ ~Entered(m, reported)
  /\ status \in {"confirmed", "in_production"} /\ status' = "in_production"
  /\ reported' = Append(reported, m) /\ Change
  /\ UNCHANGED <<sender, stored, seen, closed, linked, confirmed>>

\* A person confirms, decides, cancels or edits, and reopens no cancelled order.
ByHand ==
  /\ status # "cancelled"
  /\ status' \in {status, "awaiting_confirmation", "confirmed", "rejected", "cancelled"}
  /\ confirmed' = confirmed \/ confirmed' = Append(confirmed, Person)
  /\ Change
  /\ UNCHANGED <<sender, stored, seen, closed, linked, reported>>

Close(m) ==
  /\ closed[m] = "open"
  /\ \/ m \in linked /\ closed' = [closed EXCEPT ![m] = "processed"]
     \/ m \in stored /\ sender[m] = "stranger" /\ closed' = [closed EXCEPT ![m] = "rejected"]
  /\ UNCHANGED <<sender, stored, seen, order, register>>

Show ==
  /\ shown' = changes
  /\ UNCHANGED <<sender, stored, seen, closed, order, changes, owed>>

Discharge(k) ==
  /\ k <= shown /\ owed' = owed \ {k}
  /\ UNCHANGED <<sender, stored, seen, closed, order, changes, shown>>

Next ==
  \/ \E m \in Mails : Store(m) \/ LetGo(m) \/ Link(m) \/ Confirm(m) \/ Progress(m) \/ Close(m)
  \/ ByHand \/ Show
  \/ \E k \in owed : Discharge(k)

Spec == Init /\ [][Next]_ledger

=============================================================================
