----------------------------- MODULE Settlement -----------------------------
(***************************************************************************)
(* What task execution and the budget manager promise together, whatever   *)
(* the order of their steps: work gets a hold on some accounts before it    *)
(* runs, the hold ends once, and an account's used amount grows only by     *)
(* ending a hold on that account.  An account may be started afresh, which  *)
(* ends all holds on it, only to make room for a new hold.  Work that is    *)
(* cut off keeps its holds.                                                 *)
(***************************************************************************)
EXTENDS Integers

CONSTANTS Work, Accounts

VARIABLES
    phase,      \* where a piece of work is
    holders,    \* who holds a reservation on an account
    used        \* what an account has been charged in its current period

Phases == {"new", "held", "settled", "dropped", "lost"}

Init == /\ phase = [w \in Work |-> "new"]
        /\ holders = [a \in Accounts |-> {}]
        /\ used = [a \in Accounts |-> 0]

\* The accounts in afresh are emptied first.
Hold(w) ==
    /\ phase[w] = "new"
    /\ phase' = [phase EXCEPT ![w] = "held"]
    /\ \E on \in SUBSET Accounts : \E afresh \in SUBSET on :
          /\ holders' = [a \in Accounts |->
                IF a \in afresh THEN {w}
                ELSE IF a \in on THEN holders[a] \cup {w} ELSE holders[a]]
          /\ used' = [a \in Accounts |-> IF a \in afresh THEN 0 ELSE used[a]]

EndHolds(w) == holders' = [a \in Accounts |-> holders[a] \ {w}]

Settle(w) ==
    /\ phase[w] = "held"
    /\ phase' = [phase EXCEPT ![w] = "settled"]
    /\ EndHolds(w)
    /\ used' \in [Accounts -> Nat]
    /\ \A a \in Accounts : IF w \in holders[a] THEN used'[a] >= used[a]
                           ELSE used'[a] = used[a]

Drop(w) ==
    /\ phase[w] = "held"
    /\ phase' = [phase EXCEPT ![w] = "dropped"]
    /\ EndHolds(w)
    /\ UNCHANGED used

\* Some work is cut off, all of it when the process ends: nothing of the accounts
\* changes.
Die ==
    /\ \E cut \in SUBSET Work :
          phase' = [w \in Work |-> IF w \in cut /\ phase[w] = "held" THEN "lost" ELSE phase[w]]
    /\ UNCHANGED <<holders, used>>

Next == Die \/ \E w \in Work : Hold(w) \/ Settle(w) \/ Drop(w)

Spec == Init /\ [][Next]_<<phase, holders, used>>
=============================================================================
