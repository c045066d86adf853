------------------------- MODULE MCProviderRouting -------------------------
(***************************************************************************)
(* Instances of ProviderRouting for TLC: two providers, one of which lists   *)
(* models the operator selected from; a request of whatever serves, one for  *)
(* a provider and a model, and one that only approves the other provider.    *)
(***************************************************************************)
EXTENDS ProviderRouting, TLC

CONSTANTS local, openai, a, b

MCSorted == <<local, openai>>
MCListings == {<<>>, <<a, b>>}
MCPreferences == {<<>>, <<b>>}
MCDefaultModel == (local :> a) @@ (openai :> None)
MCLimit == (local :> None) @@ (openai :> 1)
MCEnabledLists == {<<openai, local>>, <<openai>>}
NoModels == [p \in Providers |-> <<>>]
MCBundles ==
    {[providers |-> {openai}, models |-> [NoModels EXCEPT ![openai] = <<b>>]]}
Plain == [provider |-> None, model |-> None, cost |-> None, providers |-> {},
        models |-> NoModels, listsModels |-> FALSE]
MCRequests ==
    {Plain,
     [Plain EXCEPT !.provider = openai, !.model = a, !.cost = 1],
     [Plain EXCEPT !.providers = {local}, !.cost = 2, !.listsModels = TRUE]}
=============================================================================
