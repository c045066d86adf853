---------------------------- MODULE MCPromptRegistry ----------------------------
(***************************************************************************)
(* Instances of PromptRegistry for TLC: endpoint threads beside the event    *)
(* loop, a policy for everyone and one for whoever is listed, brings a       *)
(* schema and asks for an approved model, and the operations that conflict.  *)
(***************************************************************************)
EXTENDS PromptRegistry, TLC

CONSTANTS prov, mod, other

Pool == Permutations(Threads)

Open == [scope |-> "public", direct |-> TRUE, schema |-> FALSE,
         providers |-> {}, models |-> {}, overrides |-> {}]
Shared == [scope |-> "shared", direct |-> TRUE, schema |-> TRUE,
           providers |-> {prov}, models |-> {mod}, overrides |-> {other}]
MCPolicies == {Open, Shared}

Anyone == [caller |-> "other", version |-> None, provider |-> None, model |-> None,
           schema |-> FALSE]
MCRequests ==
    {Anyone, [caller |-> "listed", version |-> 2, provider |-> prov, model |-> mod,
              schema |-> TRUE]}

Op(kind) == [kind |-> kind, to |-> None, policy |-> None, define |-> FALSE, version |-> None]
MCOperations ==
    {[Op("create") EXCEPT !.policy = Open],
     [Op("update") EXCEPT !.policy = Shared, !.define = TRUE],
     [Op("update") EXCEPT !.policy = Shared, !.version = 1],
     [Op("transition") EXCEPT !.to = "retired"],
     Op("migrate")}
MCSuspensions ==
    {[Op("create") EXCEPT !.policy = Open], [Op("transition") EXCEPT !.to = "suspended"]}
=============================================================================
