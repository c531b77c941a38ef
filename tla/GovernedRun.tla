---------------------------- MODULE GovernedRun ----------------------------
(***************************************************************************)
(* What the people who supervise a run may rely on: the conclusion recorded *)
(* first is the one the run acts on, an action is released by an approval   *)
(* of its own (supervised) or not at all (shadow), nothing is released once *)
(* the run is over, only what was released has an effect, once, and what is *)
(* said of its result is true for good.                                     *)
(***************************************************************************)
EXTENDS Naturals, FiniteSets

CONSTANTS
  Nodes,      \* nodes of the graph
  Keys,       \* those that act on another system
  RunModes

VARIABLES
  mode,
  over,       \* the run takes no further step
  recorded,   \* the conclusion the API holds for a node
  concluded,  \* the conclusion the run acted on
  released,   \* actions the run let go, and did not take back
  used,       \* released actions that were begun
  copies,     \* times the other system acted
  result,     \* "open", or what is stored of the action for good
  told        \* what the run was told of it

governed == <<mode, over, recorded, concluded, released, used, copies, result, told>>

Conclusions == {"approved", "rejected"}
Results == {"ok", "failed", "manual"}

Init ==
  /\ mode \in RunModes /\ over = FALSE
  /\ recorded = [n \in Nodes |-> "none"] /\ concluded = [n \in Nodes |-> "none"]
  /\ released = {} /\ used = {}
  /\ copies = [k \in Keys |-> 0]
  /\ result = [k \in Keys |-> "open"] /\ told = [k \in Keys |-> "open"]

\* One approval, one action.
Paid == mode = "supervised" =>
          Cardinality(released) <= Cardinality({n \in Nodes : concluded[n] = "approved"})

Record(n) ==
  /\ recorded[n] = "none"
  /\ \E conclusion \in Conclusions : recorded' = [recorded EXCEPT ![n] = conclusion]
  /\ UNCHANGED <<mode, over, concluded, released, used, copies, result, told>>

\* A rejection ends the run; the approval of an action releases it.
Conclude(n) ==
  /\ ~over /\ concluded[n] = "none" /\ recorded[n] \in Conclusions
  /\ concluded' = [concluded EXCEPT ![n] = recorded[n]]
  /\ over' = (recorded[n] = "rejected")
  /\ released' = IF recorded[n] = "approved" /\ n \in Keys /\ mode # "shadow" THEN released \cup {n} ELSE released
  /\ Paid'
  /\ UNCHANGED <<mode, recorded, used, copies, result, told>>

Release(k) ==
  /\ ~over /\ k \notin released /\ mode # "shadow"
  /\ released' = released \cup {k} /\ Paid'
  /\ UNCHANGED <<mode, over, recorded, concluded, used, copies, result, told>>

\* The run ends, or an action is given up before it was begun.
Stop ==
  /\ over => over'
  /\ released' \subseteq released /\ used \subseteq released'
  /\ UNCHANGED <<mode, recorded, concluded, used, copies, result, told>>

\* A settled result may be told in the same step, and is never told otherwise.
Tell(k) ==
  \/ UNCHANGED told
  \/ told' = [told EXCEPT ![k] = result'[k]]

\* Also when the run is over: an attempt that was left behind.  An action the
\* employee may no longer take ends at once.
Begin(k) ==
  /\ k \in released \ used /\ used' = used \cup {k}
  /\ \E outcome \in {"open", "failed"} : result' = [result EXCEPT ![k] = outcome]
  /\ Tell(k)
  /\ UNCHANGED <<mode, over, recorded, concluded, released, copies>>

Act(k) ==
  /\ k \in used /\ copies[k] = 0
  /\ copies' = [copies EXCEPT ![k] = 1]
  /\ UNCHANGED <<mode, over, recorded, concluded, released, used, result, told>>

Settle(k) ==
  /\ k \in used
  /\ \/ UNCHANGED result
     \/ /\ result[k] = "open"
        /\ \E outcome \in Results : /\ result' = [result EXCEPT ![k] = outcome]
                                    /\ outcome = "ok" => copies[k] = 1
  /\ Tell(k)
  /\ UNCHANGED <<mode, over, recorded, concluded, released, used, copies>>

Next ==
  \/ Stop
  \/ \E n \in Nodes : Record(n) \/ Conclude(n)
  \/ \E k \in Keys : Release(k) \/ Begin(k) \/ Act(k) \/ Settle(k)

Spec == Init /\ [][Next]_governed

=============================================================================
