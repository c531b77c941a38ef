--------------------------- MODULE MCWorkforceRun ---------------------------
(* A graph for TLC: an approval, the action it pays for, and what follows.  *)
EXTENDS WorkforceRun, TLC

CONSTANTS approve, act, wait, more, manager, director

Edges == (approve :> {wait}) @@ (wait :> {act}) @@ (act :> {more}) @@ (more :> {})
Competing == (manager :> {"approved"}) @@ (director :> {"rejected"})
Alone == manager :> {"approved", "rejected"}

====
