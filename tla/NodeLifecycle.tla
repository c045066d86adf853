--------------------------- MODULE NodeLifecycle ---------------------------
(***************************************************************************)
(* The lifecycle table of the node (lifecycle/node_lifecycle.py): the      *)
(* thirteen states, the transitions `transition_to` accepts, and the two   *)
(* groups of states the control API and the onboarding runtime test for.   *)
(* The module has no variables: every module that drives the shared        *)
(* NodeLifecycle object takes these operators from here.                   *)
(***************************************************************************)

Unconfigured   == "unconfigured"
Connecting     == "bootstrap_connecting"
Connected      == "bootstrap_connected"
CoreDiscovered == "core_discovered"
RegPending     == "registration_pending"
PendingApproval == "pending_approval"
Trusted        == "trusted"
CapSetup       == "capability_setup_pending"
CapInProgress  == "capability_declaration_in_progress"
CapAccepted    == "capability_declaration_accepted"
CapRetry       == "capability_declaration_failed_retry_pending"
Operational    == "operational"
Degraded       == "degraded"

\* NodeLifecycleState
States == { Unconfigured, Connecting, Connected, CoreDiscovered, RegPending,
            PendingApproval, Trusted, CapSetup, CapInProgress, CapAccepted,
            CapRetry, Operational, Degraded }

\* ALLOWED_TRANSITIONS
AllowedTransitions ==
  { <<Unconfigured, Connecting>>, <<Unconfigured, Trusted>>,
    <<Connecting, Connected>>, <<Connecting, Unconfigured>>,
    <<Connected, CoreDiscovered>>, <<CoreDiscovered, RegPending>>,
    <<RegPending, PendingApproval>>, <<PendingApproval, Trusted>>,
    <<Trusted, CapSetup>>, <<CapSetup, CapInProgress>>,
    <<CapInProgress, CapAccepted>>, <<CapInProgress, CapRetry>>,
    <<CapAccepted, Operational>>, <<CapRetry, CapInProgress>>,
    <<Degraded, Operational>>, <<Degraded, CapSetup>>, <<Degraded, CapRetry>> }

\* DEGRADABLE_STATES
DegradableStates == States \ {Unconfigured, Degraded}

\* _can_transition
CanTransition(from, to) ==
  \/ to = Degraded /\ from \in DegradableStates
  \/ <<from, to>> \in AllowedTransitions

\* The states in which rerequest_trust answers that onboarding is in progress.
OnboardingStates ==
  {Connecting, Connected, CoreDiscovered, RegPending, PendingApproval}

\* The states in which a failed registration run degrades the node.
RegistrationStates == {CoreDiscovered, RegPending, PendingApproval}

=============================================================================
