---------------------------- MODULE MCClientUsage ----------------------------
(* One client with two prompts, or two clients: the rows are what counts. *)
EXTENDS ClientUsage, TLC
CONSTANTS c1, c2, p1, m1, m2, e1, e2
MCPrimary == <<c1, p1>>
Symmetric == Permutations({e1, e2})
=============================================================================
