-------------------------- MODULE RegistrationRuns --------------------------
(***************************************************************************)
(* What OnboardingRuntime promises of its registration runs, whatever its   *)
(* threads do: runs are numbered, at most one of them owns the onboarding   *)
(* of the node, a new one begins only when none does, a run that lost the   *)
(* ownership never has it again, and the session shown to the operator is   *)
(* put there by the owner only.                                            *)
(***************************************************************************)
EXTENDS Naturals

VARIABLES
  owner,     \* the run that owns onboarding, or 0
  last,      \* number of the latest run or cancellation
  session    \* the run whose session is shown to the operator, or 0

vars == <<owner, last, session>>

Init == owner = 0 /\ last = 0 /\ session = 0

\* A run begins.
Begin ==
  /\ owner = 0
  /\ last' = last + 1
  /\ owner' = last + 1
  /\ UNCHANGED session

\* The owner is finished, or failed.
Finish == owner # 0 /\ owner' = 0 /\ UNCHANGED <<last, session>>

\* The operator restarts onboarding: whichever run there is loses it.
Cancel == owner' = 0 /\ last' = last + 1 /\ session' = 0

\* The owner shows its session; a session is dropped.
Show == owner # 0 /\ session' = owner /\ UNCHANGED <<owner, last>>
Drop == session' = 0 /\ UNCHANGED <<owner, last>>

\* The process ends; the numbering starts again.
Reset == owner' = 0 /\ last' = 0 /\ session' = 0

Next == Begin \/ Finish \/ Cancel \/ Show \/ Drop \/ Reset

Spec == Init /\ [][Next]_vars
=============================================================================
