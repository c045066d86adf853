-------------------------- MODULE MCTaskExecution --------------------------
(***************************************************************************)
(* Instances of TaskExecution for TLC: one grant under one policy, or two   *)
(* grants, the second for some requests only, under a policy that moves the *)
(* period of both; with local provider budgets besides.                     *)
(***************************************************************************)
EXTENDS TaskExecution, TLC

CONSTANTS g1, g2, p1, k1, k2, e1, e2, t1, t2

Serving(kinds, from, to, limit) ==
    [from |-> from, to |-> to, limit |-> limit, serves |-> kinds \X Providers]

OnePolicy == <<[active |-> TRUE, grants |-> (g1 :> Serving(Kinds, 0, 1, 6))]>>

\* The node's grant, and a smaller one that counts requests of kind k2 only.
TwoGrants(from, to) ==
    [active |-> TRUE, grants |-> (g1 :> Serving(Kinds, from, to, 4))
                              @@ (g2 :> Serving({k2}, from, to, 2))]
NextPeriod == <<TwoGrants(0, 0), TwoGrants(1, 1)>>

CONSTANT Plan       \* which of these Core issues
MCIssued == CASE Plan = "one" -> OnePolicy
              [] Plan = "next" -> NextPeriod

CONSTANT Ids        \* whether clients give every task an id of its own
MCTaskOf == [e \in Executions |-> IF Ids = "own" /\ e = e2 THEN t2 ELSE t1]

\* With ids of their own, executions and their tasks change places together.
Swap == (e1 :> e2) @@ (e2 :> e1) @@ (t1 :> t2) @@ (t2 :> t1)
Places == {Swap, [x \in DOMAIN Swap |-> x]}
=============================================================================
