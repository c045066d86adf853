----------------------------- MODULE Activation -----------------------------
(***************************************************************************)
(* From a stored trust state to `operational`, and back after trouble:     *)
(* CapabilityDeclarationRunner, the health job and the recovery of the     *)
(* operational MQTT connection, and the endpoints that take trust away.    *)
(*                                                                         *)
(* The runner's operations are coroutines of one event loop.  What one     *)
(* does between two awaits is one action; c \in Calls are the requests     *)
(* under way, `job` is the health job of the internal scheduler.  The      *)
(* endpoints that are plain functions run in other threads and may come    *)
(* between any two actions; each call rerequest_trust or                   *)
(* _reset_for_core_removal makes that clears something is an action.       *)
(*                                                                         *)
(* Onboarding is the subject of module Onboarding: here it is one state,   *)
(* Connecting, in which the node gets a trust state or is degraded.        *)
(***************************************************************************)
EXTENDS NodeLifecycle, MqttRecovery

CONSTANTS
  Calls,          \* requests to the runner under way at a time
  MaxTrusts,      \* bound: trust states Core ever issues
  MaxCrashes,     \* bound: process ends nobody scheduled
  QuietWipes      \* trust is taken away only while nothing else is under way

ASSUME ActivationAssumption ==
  /\ MaxTrusts \in Nat /\ MaxCrashes \in Nat
  /\ QuietWipes \in BOOLEAN

None == 0
Trusts == 1..MaxTrusts

VARIABLES
  lifecycle,   \* NodeLifecycle._state
  trust,       \* the trust state on disk, or None
  config,      \* a bootstrap config is stored
  profile,     \* the trust under which the stored profile was accepted, or None
  bundleFile,  \* the trust under which the stored governance was fetched, or None
  bundle,      \* the same of _governance_bundle
  gov,         \* _governance_status["state"]: only a load or a refresh evaluates it
  pc, held,    \* where a request is, and the trust_state it loaded
  job,         \* the health job, with what it read before it asked the broker
  recovery,    \* the recovery file
  wipe,        \* what the thread that takes trust away clears next, and its end
  broker,      \* the operational broker accepts the node
  kill,        \* a restart of the backend is scheduled
  \* history
  issued,      \* trust states issued so far
  crashes,     \* process ends nobody scheduled
  restarts     \* restarts scheduled since the node was last healthy or unmonitored

files  == <<trust, config, profile, bundleFile>>
memory == <<bundle, gov>>
calls  == <<pc, held>>
mqtt   == <<job, recovery, kill, restarts>>
world  == <<broker, issued, crashes>>

vars == <<lifecycle, files, memory, calls, mqtt, wipe, world>>
-----------------------------------------------------------------------------
Declaring == {"declaring", "governing", "activating"}   \* inside submit_once
Pcs == {"idle", "redeclaring", "refreshing"} \cup Declaring

\* monitorable_states of check_operational_mqtt_health_once
Monitorable == {Trusted, CapSetup, CapAccepted, Operational, Degraded}

Jobs == [at : {"idle", "asking", "resting"}, seen : States, troubled : BOOLEAN]
NoJob == [at |-> "idle", seen |-> Unconfigured, troubled |-> FALSE]

Wipes == [at : {"no", "trust", "governance", "runner", "lifecycle"},
          to : {Unconfigured, Connecting}]
NoWipe == [at |-> "no", to |-> Unconfigured]

Quiet == job.at # "asking" /\ \A c \in Calls : pc[c] = "idle"

\* evaluate_governance_freshness of a bundle fetched at some time in the past
Freshness(b) == IF b = None THEN {"unknown"} ELSE {"fresh", "stale"}

\* transition_to, and two of them in a row: an illegal one raises, the state stays.
Moved(from, to) == IF CanTransition(from, to) THEN to ELSE from
Via(from, through, to) == IF CanTransition(from, through) THEN to ELSE from

Init ==
  /\ lifecycle = Unconfigured
  /\ trust = None /\ config = FALSE /\ profile = None /\ bundleFile = None
  /\ bundle = None /\ gov = "unknown"
  /\ pc = [c \in Calls |-> "idle"] /\ held = [c \in Calls |-> None]
  /\ job = NoJob /\ recovery = NoTrouble /\ wipe = NoWipe
  /\ broker = TRUE /\ kill = FALSE
  /\ issued = 0 /\ crashes = 0 /\ restarts = 0
-----------------------------------------------------------------------------
(* Onboarding, seen from here.                                              *)

Initiate ==                                     \* initiate_onboarding
  /\ lifecycle = Unconfigured
  /\ lifecycle' = Connecting /\ config' = TRUE
  /\ UNCHANGED <<trust, profile, bundleFile, memory, calls, mqtt, wipe, world>>

\* A trust state is stored; nothing is done about what an earlier one left.
Onboarded ==
  /\ lifecycle = Connecting /\ issued < MaxTrusts
  /\ issued' = issued + 1 /\ trust' = issued + 1
  /\ lifecycle' = CapSetup
  /\ UNCHANGED <<config, profile, bundleFile, memory, calls, mqtt, wipe, broker,
                 crashes>>

OnboardingFails ==
  /\ lifecycle = Connecting
  /\ lifecycle' = Degraded
  /\ UNCHANGED <<files, memory, calls, mqtt, wipe, world>>

\* restart_setup keeps the trust state and what was accepted under it.
RestartSetup ==
  /\ lifecycle' = Unconfigured /\ config' = FALSE
  /\ UNCHANGED <<trust, profile, bundleFile, memory, calls, mqtt, wipe, world>>
-----------------------------------------------------------------------------
(* submit_once, redeclare_if_needed and refresh_governance_once: the part   *)
(* before the first await, and what follows each.                          *)

Goes(c, to) == pc' = [pc EXCEPT ![c] = to]
Starts(c, to) == Goes(c, to) /\ held' = [held EXCEPT ![c] = trust]
Ends(c) == Goes(c, "idle") /\ held' = [held EXCEPT ![c] = None]

Declare(c) ==
  /\ pc[c] = "idle" /\ trust # None
  /\ lifecycle \in {CapSetup, CapRetry}
  /\ lifecycle' = CapInProgress
  /\ Starts(c, "declaring")
  /\ UNCHANGED <<files, memory, mqtt, wipe, world>>

DeclarationAccepted(c) ==
  /\ pc[c] = "declaring"
  /\ profile' = held[c]
  /\ Goes(c, "governing")
  /\ UNCHANGED <<lifecycle, trust, config, bundleFile, memory, held, mqtt, wipe,
                 world>>

\* The refresh of a bundle: it is stored, cached and found fresh.
Sync(t) == bundle' = t /\ bundleFile' = t /\ gov' = "fresh"

GovernanceFetched(c) ==
  /\ pc[c] = "governing"
  /\ Sync(held[c])
  /\ Goes(c, "activating")
  /\ UNCHANGED <<lifecycle, trust, config, profile, held, mqtt, wipe, world>>

\* Core answers that it does not accept, or has no governance: through
\* failed_retry_pending to degraded.
DeclarationFails(c) ==
  /\ pc[c] \in {"declaring", "governing"}
  /\ lifecycle' = Via(lifecycle, CapRetry, Degraded)
  /\ Ends(c)
  /\ UNCHANGED <<files, memory, mqtt, wipe, world>>

\* The provider refresh and the readiness check are over, whatever the latter
\* said: through accepted to operational.
Activate(c) ==
  /\ pc[c] = "activating"
  /\ lifecycle' = Via(lifecycle, CapAccepted, Operational)
  /\ Ends(c)
  /\ UNCHANGED <<files, memory, mqtt, wipe, world>>

Redeclare(c) ==
  /\ pc[c] = "idle" /\ trust # None /\ profile # None
  /\ lifecycle \notin {CapSetup, CapRetry}
  /\ Starts(c, "redeclaring")
  /\ UNCHANGED <<lifecycle, files, memory, mqtt, wipe, world>>

Redeclared(c) ==
  /\ pc[c] = "redeclaring"
  /\ profile' \in {profile, held[c]}                 \* refused, or accepted
  /\ Ends(c)
  /\ UNCHANGED <<lifecycle, trust, config, bundleFile, memory, mqtt, wipe, world>>

Refresh(c) ==
  /\ pc[c] = "idle" /\ trust # None
  /\ Starts(c, "refreshing")
  /\ UNCHANGED <<lifecycle, files, memory, mqtt, wipe, world>>

\* A refresh that fails evaluates the old bundle again.
Refreshed(c) ==
  /\ pc[c] = "refreshing"
  /\ Ends(c)
  /\ \/ Sync(held[c])
     \/ /\ gov' \in IF gov = "stale" THEN {gov} ELSE Freshness(bundle)
        /\ UNCHANGED <<bundle, bundleFile>>
  /\ UNCHANGED <<lifecycle, trust, config, profile, mqtt, wipe, world>>

\* httpx raises (no connection, no answer in time) or a provider does: the
\* exception leaves the coroutine where it stands.  (Inside a declaration that
\* leaves the node in capability_declaration_in_progress, which accepts no
\* declaration, no recovery and no health check.)
Raises(c) ==
  /\ pc[c] # "idle"
  /\ Ends(c)
  /\ UNCHANGED <<lifecycle, files, memory, mqtt, wipe, world>>

Answered(c) ==
  \/ DeclarationAccepted(c) \/ GovernanceFetched(c) \/ DeclarationFails(c)
  \/ Activate(c) \/ Redeclared(c) \/ Refreshed(c) \/ Raises(c)

Called(c) == Declare(c) \/ Redeclare(c) \/ Refresh(c)

\* Fault: governance alone decides.
RecoveryTarget_ByGovernance == IF gov = "fresh" THEN Operational ELSE CapSetup

\* recover_from_degraded
RecoveryTarget == IF profile # None /\ gov = "fresh" THEN Operational ELSE CapSetup

Recover ==
  /\ lifecycle = Degraded
  /\ lifecycle' = RecoveryTarget
  /\ UNCHANGED <<files, memory, calls, mqtt, wipe, world>>
-----------------------------------------------------------------------------
(* The health job, check_operational_mqtt_health_once.                      *)

HealthSkips ==
  /\ job.at = "idle" /\ lifecycle \notin Monitorable
  /\ recovery' = IF recovery.active THEN NoTrouble ELSE recovery
  /\ restarts' = 0
  /\ UNCHANGED <<lifecycle, files, memory, calls, job, kill, wipe, world>>

\* Fault: an exhausted recovery is not looked at any more.
HealthAsks_WhileAttemptsLeft ==
  /\ job.at = "idle" /\ lifecycle \in Monitorable /\ trust # None
  /\ job' = [at |-> "asking", seen |-> lifecycle,
             troubled |-> recovery.active /\ ~recovery.exhausted]
  /\ UNCHANGED <<lifecycle, files, memory, calls, recovery, kill, restarts, wipe,
                 world>>

\* It asks the broker with what it read: without a trust state it does not.
HealthAsks ==
  /\ job.at = "idle" /\ lifecycle \in Monitorable /\ trust # None
  /\ job' = [at |-> "asking", seen |-> lifecycle,
             troubled |-> recovery.active \/ recovery.exhausted]
  /\ UNCHANGED <<lifecycle, files, memory, calls, recovery, kill, restarts, wipe,
                 world>>

Healthy ==
  /\ job.at = "asking" /\ broker
  /\ job' = NoJob
  /\ recovery' = IF job.troubled THEN NoTrouble ELSE recovery
  /\ restarts' = 0
  /\ lifecycle' = IF job.troubled /\ job.seen = Degraded /\ lifecycle = Degraded
                  THEN RecoveryTarget ELSE lifecycle
  /\ UNCHANGED <<files, memory, calls, kill, wipe, world>>

\* The node is degraded and, while attempts are left, has itself restarted;
\* schedule_restart may fail, which counts as the end of the attempts.
Unhealthy ==
  /\ job.at = "asking" /\ ~broker
  /\ lifecycle' = IF job.seen = Degraded THEN lifecycle
                  ELSE Moved(lifecycle, Degraded)
  /\ \/ /\ recovery.attempts < MaxAttempts
        /\ recovery' = RecordRestart(recovery)
        /\ kill' = TRUE /\ restarts' = restarts + 1
        /\ job' = [NoJob EXCEPT !.at = "resting"]
     \/ /\ recovery' = MarkExhausted(recovery)
        /\ job' = NoJob
        /\ UNCHANGED <<kill, restarts>>
  /\ UNCHANGED <<files, memory, calls, wipe, world>>

HealthRested ==
  /\ job.at = "resting"
  /\ job' = NoJob
  /\ UNCHANGED <<lifecycle, files, memory, calls, recovery, kill, restarts, wipe,
                 world>>

Health == HealthSkips \/ HealthAsks \/ Healthy \/ Unhealthy \/ HealthRested

BrokerChanges ==
  /\ broker' = ~broker
  /\ UNCHANGED <<lifecycle, files, memory, calls, mqtt, wipe, issued, crashes>>
-----------------------------------------------------------------------------
(* The process ends and starts again: main.run and the constructors load    *)
(* the files, and a trusted node resumes, all before the API is served.    *)

\* Nothing accepted, or governance that is not fresh and cannot be refreshed.
ResumeSetup ==
  /\ trust # None /\ lifecycle' = CapSetup
  /\ bundle' = bundleFile /\ gov' \in Freshness(bundleFile)
  /\ profile = None \/ gov' # "fresh"
  /\ UNCHANGED bundleFile

ResumeOperational ==
  /\ trust # None /\ profile # None /\ lifecycle' = Operational
  /\ bundle' = bundleFile /\ gov' \in Freshness(bundleFile) /\ gov' = "fresh"
  /\ UNCHANGED bundleFile

\* Stale governance is refreshed; the provider refresh after it may raise.
ResumeRefreshed ==
  /\ trust # None /\ profile # None /\ Sync(trust)
  /\ lifecycle' \in {Operational, CapSetup}

ResumeOnboarding ==
  /\ trust = None
  /\ lifecycle' = IF config THEN Connecting ELSE Unconfigured
  /\ bundle' = bundleFile /\ gov' \in Freshness(bundleFile)
  /\ UNCHANGED bundleFile

\* Fault: the attempts are counted in memory.
Boot_ForgetsAttempts ==
  /\ ResumeSetup \/ ResumeOperational \/ ResumeRefreshed \/ ResumeOnboarding
  /\ pc' = [c \in Calls |-> "idle"] /\ held' = [c \in Calls |-> None]
  /\ job' = NoJob /\ wipe' = NoWipe /\ recovery' = NoTrouble
  /\ UNCHANGED <<trust, config, profile, restarts, broker, issued>>

Boot ==
  /\ ResumeSetup \/ ResumeOperational \/ ResumeRefreshed \/ ResumeOnboarding
  /\ pc' = [c \in Calls |-> "idle"] /\ held' = [c \in Calls |-> None]
  /\ job' = NoJob /\ wipe' = NoWipe
  /\ UNCHANGED <<trust, config, profile, recovery, restarts, broker, issued>>

Crash == crashes < MaxCrashes /\ crashes' = crashes + 1 /\ Boot /\ UNCHANGED kill

ScheduledRestart == kill /\ kill' = FALSE /\ Boot /\ UNCHANGED crashes
-----------------------------------------------------------------------------
(* rerequest_trust and _reset_for_core_removal, in a thread of their own.   *)

Retrust ==
  /\ wipe.at = "no" /\ (QuietWipes => Quiet)
  /\ lifecycle \notin OnboardingStates /\ (trust # None \/ config)
  /\ wipe' = [at |-> "trust", to |-> Connecting] /\ config' = TRUE
  /\ UNCHANGED <<lifecycle, trust, profile, bundleFile, memory, calls, mqtt, world>>

Removal ==
  /\ wipe.at = "no" /\ (QuietWipes => Quiet)
  /\ lifecycle \notin OnboardingStates \cup {Unconfigured} /\ trust # None
  /\ wipe' = [at |-> "trust", to |-> Unconfigured] /\ config' = FALSE
  /\ UNCHANGED <<lifecycle, trust, profile, bundleFile, memory, calls, mqtt, world>>

Wiping(from, to) == wipe.at = from /\ wipe' = [wipe EXCEPT !.at = to]

WipeTrust ==
  /\ Wiping("trust", "governance")
  /\ trust' = None
  /\ UNCHANGED <<lifecycle, config, profile, bundleFile, memory, calls, mqtt, world>>

WipeGovernance ==
  /\ Wiping("governance", "runner")
  /\ bundleFile' = None
  /\ UNCHANGED <<lifecycle, trust, config, profile, memory, calls, mqtt, world>>

WipeRunner ==                        \* clear_local_state_for_reonboarding
  /\ Wiping("runner", "lifecycle")
  /\ profile' = None /\ bundle' = None /\ gov' = "unknown"
  /\ UNCHANGED <<lifecycle, trust, config, bundleFile, calls, mqtt, world>>

WipeLifecycle ==                     \* a re-trust goes on to connect
  /\ wipe.at = "lifecycle" /\ wipe' = NoWipe
  /\ lifecycle' = wipe.to
  /\ UNCHANGED <<files, memory, calls, mqtt, world>>

Wipe == WipeTrust \/ WipeGovernance \/ WipeRunner \/ WipeLifecycle
-----------------------------------------------------------------------------
Undisturbed == QuietWipes => wipe.at = "no"

Work ==
  \/ Initiate \/ Onboarded \/ OnboardingFails \/ RestartSetup
  \/ \E c \in Calls : Called(c) \/ Answered(c)
  \/ Recover \/ Health \/ Crash \/ ScheduledRestart
  \/ Retrust \/ Removal

Next == Wipe \/ BrokerChanges \/ (Undisturbed /\ Work)

Spec == Init /\ [][Next]_vars

\* The scheduler runs the health job again and again, a connection attempt has a
\* timeout, and a thread inside an endpoint keeps running.  Nothing is assumed of
\* Core, of requests or of the operator.
FairSpec == Spec /\ WF_vars(Undisturbed /\ Health) /\ WF_vars(Wipe)
-----------------------------------------------------------------------------
TypeOK ==
  /\ lifecycle \in States
  /\ trust \in Trusts \cup {None} /\ issued \in 0..MaxTrusts
  /\ config \in BOOLEAN /\ broker \in BOOLEAN /\ kill \in BOOLEAN
  /\ profile \in Trusts \cup {None}
  /\ bundle \in Trusts \cup {None} /\ bundleFile \in Trusts \cup {None}
  /\ gov \in {"unknown", "fresh", "stale"}
  /\ pc \in [Calls -> Pcs] /\ held \in [Calls -> Trusts \cup {None}]
  /\ job \in Jobs /\ recovery \in Recoveries
  /\ wipe \in Wipes
  /\ crashes \in 0..MaxCrashes /\ restarts \in Nat

\* Whatever is answered in which order, and over restarts, the node is
\* operational only with an accepted profile and governance.
OperationalIsAccepted ==
  lifecycle = Operational /\ wipe.at = "no" => profile # None /\ bundle # None

\* Between two times the connection was seen healthy (or was not monitored) the
\* node has itself restarted at most so many times, although each restart ends
\* the process that counts them.
RestartsBounded == restarts <= MaxAttempts

\* Once the broker accepts the node for good, a node degraded by the health job
\* leaves that state by itself, also when its attempts are exhausted.
HealsItself ==
  <>[](broker /\ trust # None) => <>[]~(lifecycle = Degraded /\ recovery.active)
=============================================================================
