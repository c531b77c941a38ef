----------------------------- MODULE MCSourcing -----------------------------
(* Two suppliers and two order lines; the second quote fits one of them.    *)
EXTENDS Sourcing, TLC

CONSTANTS near, far, bolt, plate, q1, q2

From == (q1 :> near) @@ (q2 :> far)
Both == (q1 :> {bolt, plate}) @@ (q2 :> {bolt, plate})
Fitting == (q1 :> {bolt, plate}) @@ (q2 :> {bolt})
Amounts == (bolt :> 2) @@ (plate :> 1)

=============================================================================
