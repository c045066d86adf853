-------------------------- MODULE MCPricingCatalog --------------------------
(***************************************************************************)
(* Instances of PricingCatalog for TLC: models priced by tokens, without    *)
(* rates in the code.                                                       *)
(***************************************************************************)
EXTENDS PricingCatalog, TLC

CONSTANTS m1, r1, r2

MCFamilyOf == [m \in Models |-> "llm"]
MCBuiltin == [m \in Models |-> NoRates]
MCScraped == {NoRates, [in |-> 1, out |-> 1]}
MCGiven == {[in |-> 2, out |-> 0], [in |-> 0, out |-> 2]}
MCEdited == {[in |-> 1, out |-> 2]}
Interchangeable == Permutations(Refreshes)
=============================================================================
