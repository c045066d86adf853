-------------------------- MODULE ActivationProofs --------------------------
(***************************************************************************)
(* Theorems about Activation, for any number of requests, trust states,    *)
(* process ends and restart attempts.                                      *)
(***************************************************************************)
EXTENDS Activation, TLAPS

LEMMA StateNames ==
  {Unconfigured, Connecting, CapSetup, CapRetry, CapInProgress, CapAccepted,
   Operational, Degraded} \subseteq States
BY DEF States

LEMMA OptionNames == None \in Trusts \cup {None}
OBVIOUS

---------------------------------------------------------------------------
(* Types.                                                                   *)

LEMMA RecoveryTypes ==
  ASSUME NEW r \in Recoveries
  PROVE  /\ NoTrouble \in Recoveries
         /\ r.attempts < MaxAttempts => RecordRestart(r) \in Recoveries
         /\ MarkExhausted(r) \in Recoveries
<1>1. 0 \in 0..MaxAttempts /\ MaxAttempts \in 0..MaxAttempts
  BY RecoveryAssumption DEF RecoveryAssumption
<1>2. NoTrouble \in Recoveries
  BY <1>1 DEF NoTrouble, Recoveries
<1>3. NoteUnhealthy(r) \in Recoveries
  BY DEF Recoveries, NoteUnhealthy
<1>4. ASSUME r.attempts < MaxAttempts PROVE RecordRestart(r) \in Recoveries
  <2> DEFINE counted == r.attempts + 1
  <2>1. counted \in 0..MaxAttempts
    BY <1>4, RecoveryAssumption DEF RecoveryAssumption, Recoveries
  <2>2. (counted >= MaxAttempts) \in BOOLEAN
    OBVIOUS
  <2>3. RecordRestart(r) = [NoteUnhealthy(r) EXCEPT !.attempts = counted,
                                                    !.exhausted = counted >= MaxAttempts]
    BY <1>4 DEF RecordRestart
  <2> QED BY <1>3, <2>1, <2>2, <2>3 DEF Recoveries
<1>5. MarkExhausted(r) \in Recoveries
  BY <1>1, <1>3 DEF MarkExhausted, Recoveries
<1> QED BY <1>2, <1>4, <1>5

LEMMA MovedType ==
  ASSUME NEW from \in States, NEW through \in States, NEW to \in States
  PROVE  Moved(from, to) \in States /\ Via(from, through, to) \in States
BY DEF Moved, Via

LEMMA RecoveryTargetType == RecoveryTarget \in States
BY StateNames DEF RecoveryTarget

LEMMA JobTypes ==
  /\ NoJob \in Jobs /\ [NoJob EXCEPT !.at = "resting"] \in Jobs
  /\ NoWipe \in Wipes
BY StateNames DEF NoJob, Jobs, NoWipe, Wipes

LEMMA FreshnessType ==
  ASSUME NEW b, NEW g \in Freshness(b) PROVE g \in {"unknown", "fresh", "stale"}
BY DEF Freshness

LEMMA StartsType ==
  ASSUME TypeOK, NEW c \in Calls, NEW to \in Pcs, Starts(c, to)
  PROVE  pc' \in [Calls -> Pcs] /\ held' \in [Calls -> Trusts \cup {None}]
BY DEF TypeOK, Starts, Goes

LEMMA EndsType ==
  ASSUME TypeOK, NEW c \in Calls, Ends(c)
  PROVE  pc' \in [Calls -> Pcs] /\ held' \in [Calls -> Trusts \cup {None}]
BY DEF TypeOK, Ends, Goes, Pcs

LEMMA TypeInit == Init => TypeOK
<1> SUFFICES ASSUME Init PROVE TypeOK
  OBVIOUS
<1>1. issued \in 0..MaxTrusts /\ crashes \in 0..MaxCrashes /\ restarts \in Nat
  BY ActivationAssumption DEF Init, ActivationAssumption
<1>2. pc \in [Calls -> Pcs] /\ held \in [Calls -> Trusts \cup {None}]
  BY DEF Init, Pcs
<1>3. recovery \in Recoveries
  BY RecoveryAssumption DEF Init, RecoveryAssumption, Recoveries, NoTrouble
<1>4. job \in Jobs /\ wipe \in Wipes
  BY JobTypes DEF Init
<1> QED
  BY <1>1, <1>2, <1>3, <1>4, StateNames DEF Init, TypeOK

LEMMA TypeOnboarding ==
  ASSUME TypeOK, Initiate \/ Onboarded \/ OnboardingFails \/ RestartSetup
  PROVE  TypeOK'
<1> USE StateNames, ActivationAssumption
<1>1. CASE Initiate
  BY <1>1 DEF TypeOK, Initiate, memory, calls, mqtt, world
<1>2. CASE Onboarded
  BY <1>2 DEF TypeOK, Onboarded, memory, calls, mqtt, Trusts, ActivationAssumption
<1>3. CASE OnboardingFails
  BY <1>3 DEF TypeOK, OnboardingFails, files, memory, calls, mqtt, world
<1>4. CASE RestartSetup
  BY <1>4 DEF TypeOK, RestartSetup, memory, calls, mqtt, world
<1> QED BY <1>1, <1>2, <1>3, <1>4

LEMMA TypeCalled ==
  ASSUME TypeOK, NEW c \in Calls, Called(c) PROVE TypeOK'
<1>1. {"declaring", "redeclaring", "refreshing"} \subseteq Pcs
  BY DEF Pcs, Declaring
<1>2. pc' \in [Calls -> Pcs] /\ held' \in [Calls -> Trusts \cup {None}]
  BY <1>1, StartsType DEF Called, Declare, Redeclare, Refresh
<1>3. lifecycle' \in States
  BY StateNames DEF TypeOK, Called, Declare, Redeclare, Refresh
<1> QED
  BY <1>2, <1>3
     DEF TypeOK, Called, Declare, Redeclare, Refresh, files, memory, mqtt, world

LEMMA TypeAnswered ==
  ASSUME TypeOK, NEW c \in Calls, Answered(c) PROVE TypeOK'
<1>0. held[c] \in Trusts \cup {None}
  BY DEF TypeOK
<1>1. CASE DeclarationAccepted(c)
  <2>1. pc' \in [Calls -> Pcs]
    BY <1>1 DEF TypeOK, DeclarationAccepted, Goes, Pcs, Declaring
  <2> QED
    BY <1>0, <1>1, <2>1 DEF TypeOK, DeclarationAccepted, memory, mqtt, world
<1>2. CASE GovernanceFetched(c)
  <2>1. pc' \in [Calls -> Pcs]
    BY <1>2 DEF TypeOK, GovernanceFetched, Goes, Pcs, Declaring
  <2> QED
    BY <1>0, <1>2, <2>1 DEF TypeOK, GovernanceFetched, Sync, mqtt, world
<1>3. CASE DeclarationFails(c)
  <2>1. lifecycle' \in States
    BY <1>3, MovedType, StateNames DEF TypeOK, DeclarationFails
  <2> QED
    BY <1>3, <2>1, EndsType
       DEF TypeOK, DeclarationFails, files, memory, mqtt, world
<1>4. CASE Activate(c)
  <2>1. lifecycle' \in States
    BY <1>4, MovedType, StateNames DEF TypeOK, Activate
  <2> QED
    BY <1>4, <2>1, EndsType DEF TypeOK, Activate, files, memory, mqtt, world
<1>5. CASE Redeclared(c)
  BY <1>0, <1>5, EndsType DEF TypeOK, Redeclared, memory, mqtt, world
<1>6. CASE Refreshed(c)
  <2>1. /\ bundle' \in Trusts \cup {None} /\ bundleFile' \in Trusts \cup {None}
        /\ gov' \in {"unknown", "fresh", "stale"}
    BY <1>0, <1>6, FreshnessType DEF TypeOK, Refreshed, Sync
  <2> QED
    BY <1>6, <2>1, EndsType DEF TypeOK, Refreshed, mqtt, world
<1>7. CASE Raises(c)
  BY <1>7, EndsType DEF TypeOK, Raises, files, memory, mqtt, world
<1> QED BY <1>1, <1>2, <1>3, <1>4, <1>5, <1>6, <1>7 DEF Answered

LEMMA TypeRecover == ASSUME TypeOK, Recover PROVE TypeOK'
BY RecoveryTargetType DEF TypeOK, Recover, files, memory, calls, mqtt, world

LEMMA TypeHealth == ASSUME TypeOK, Health PROVE TypeOK'
<1>1. CASE HealthSkips
  BY <1>1, RecoveryTypes DEF TypeOK, HealthSkips, files, memory, calls, world
<1>2. CASE HealthAsks
  <2>1. job' \in Jobs
    BY <1>2 DEF TypeOK, HealthAsks, Jobs, Recoveries
  <2> QED
    BY <1>2, <2>1 DEF TypeOK, HealthAsks, files, memory, calls, world
<1>3. CASE Healthy
  <2>1. lifecycle' \in States
    BY <1>3, RecoveryTargetType DEF TypeOK, Healthy
  <2>2. recovery' \in Recoveries
    BY <1>3, RecoveryTypes DEF TypeOK, Healthy
  <2> QED
    BY <1>3, <2>1, <2>2, JobTypes
       DEF TypeOK, Healthy, files, memory, calls, world
<1>4. CASE Unhealthy
  <2>1. lifecycle' \in States
    BY <1>4, MovedType, StateNames DEF TypeOK, Unhealthy
  <2>2. recovery' \in Recoveries
    BY <1>4, RecoveryTypes DEF TypeOK, Unhealthy
  <2>3. job' \in Jobs /\ kill' \in BOOLEAN
    BY <1>4, JobTypes, Zenon DEF TypeOK, Unhealthy
  <2>4. restarts' \in Nat
    BY <1>4 DEF TypeOK, Unhealthy
  <2> QED
    BY <1>4, <2>1, <2>2, <2>3, <2>4 DEF TypeOK, Unhealthy, files, memory, calls, world
<1>5. CASE HealthRested
  BY <1>5, JobTypes DEF TypeOK, HealthRested, files, memory, calls, world
<1> QED BY <1>1, <1>2, <1>3, <1>4, <1>5 DEF Health

\* What a start leaves in memory, whichever way it resumes.
LEMMA BootTypes ==
  ASSUME TypeOK, Boot
  PROVE  /\ lifecycle' \in {CapSetup, Operational, Connecting, Unconfigured}
         /\ bundle' \in Trusts \cup {None} /\ bundleFile' \in Trusts \cup {None}
         /\ gov' \in {"unknown", "fresh", "stale"}
         /\ pc' = [c \in Calls |-> "idle"]
         /\ held' \in [Calls -> Trusts \cup {None}]
         /\ job' \in Jobs /\ wipe' \in Wipes
<1>1. CASE ResumeSetup
  BY <1>1, JobTypes, FreshnessType DEF TypeOK, Boot, ResumeSetup
<1>2. CASE ResumeOperational
  BY <1>2, JobTypes, FreshnessType DEF TypeOK, Boot, ResumeOperational
<1>3. CASE ResumeRefreshed
  BY <1>3, JobTypes DEF TypeOK, Boot, ResumeRefreshed, Sync
<1>4. CASE ResumeOnboarding
  BY <1>4, JobTypes, FreshnessType DEF TypeOK, Boot, ResumeOnboarding
<1> QED BY <1>1, <1>2, <1>3, <1>4 DEF Boot

LEMMA TypeRestart ==
  ASSUME TypeOK, Crash \/ ScheduledRestart PROVE TypeOK'
<1>1. Boot
  BY DEF Crash, ScheduledRestart
<1>2. pc' \in [Calls -> Pcs]
  BY <1>1, BootTypes DEF Pcs
<1>3. lifecycle' \in States
  BY <1>1, BootTypes, StateNames
<1>4. crashes' \in 0..MaxCrashes
  BY ActivationAssumption DEF ActivationAssumption, TypeOK, Crash, ScheduledRestart
<1>5. kill' \in BOOLEAN
  BY Zenon DEF TypeOK, Crash, ScheduledRestart
<1> QED
  BY <1>1, <1>2, <1>3, <1>4, <1>5, BootTypes DEF TypeOK, Boot

LEMMA TypeWipe ==
  ASSUME TypeOK, Retrust \/ Removal \/ Wipe PROVE TypeOK'
<1> USE StateNames DEF Wipes
<1>1. CASE Retrust
  BY <1>1 DEF TypeOK, Retrust, memory, calls, mqtt, world
<1>2. CASE Removal
  BY <1>2 DEF TypeOK, Removal, memory, calls, mqtt, world
<1>3. CASE WipeTrust
  BY <1>3 DEF TypeOK, WipeTrust, Wiping, memory, calls, mqtt, world
<1>4. CASE WipeGovernance
  BY <1>4 DEF TypeOK, WipeGovernance, Wiping, memory, calls, mqtt, world
<1>5. CASE WipeRunner
  BY <1>5 DEF TypeOK, WipeRunner, Wiping, calls, mqtt, world
<1>6. CASE WipeLifecycle
  BY <1>6, JobTypes DEF TypeOK, WipeLifecycle, files, memory, calls, mqtt, world
<1> QED BY <1>1, <1>2, <1>3, <1>4, <1>5, <1>6 DEF Wipe

LEMMA TypeNext == TypeOK /\ [Next]_vars => TypeOK'
<1> SUFFICES ASSUME TypeOK, [Next]_vars PROVE TypeOK'
  OBVIOUS
<1>1. CASE Work
  BY <1>1, TypeOnboarding, TypeCalled, TypeAnswered, TypeRecover, TypeHealth,
     TypeRestart, TypeWipe DEF Work
<1>2. CASE Wipe
  BY <1>2, TypeWipe
<1>3. CASE BrokerChanges
  BY <1>3 DEF TypeOK, BrokerChanges, files, memory, calls, mqtt
<1>4. CASE UNCHANGED vars
  BY <1>4 DEF TypeOK, vars, files, memory, calls, mqtt, world
<1> QED BY <1>1, <1>2, <1>3, <1>4 DEF Next

\* Every variable keeps its type, the counters within their bounds: no restart
\* is counted beyond the limit, whatever the job, the requests and the operator do.
THEOREM ActivationTypeCorrect == Spec => []TypeOK
<1>1. Init => TypeOK
  BY TypeInit
<1>2. TypeOK /\ [Next]_vars => TypeOK'
  BY TypeNext
<1> QED BY <1>1, <1>2, PTL DEF Spec

---------------------------------------------------------------------------
(* The restarts.  The file counts every restart the history counts, and the *)
(* process that ends does not take it along.                                *)

RestartsAreCounted == restarts <= recovery.attempts

LEMMA CountedNext ==
  ASSUME TypeOK, RestartsAreCounted, [Next]_vars PROVE RestartsAreCounted'
<1>0. recovery.attempts \in 0..MaxAttempts /\ restarts \in Nat
  BY DEF TypeOK, Recoveries
<1>1. CASE Health
  <2>1. CASE HealthSkips \/ Healthy
    BY <1>0, <2>1
       DEF RestartsAreCounted, HealthSkips, Healthy, NoTrouble
  <2>2. CASE Unhealthy
    <3>1. CASE /\ recovery.attempts < MaxAttempts
               /\ recovery' = RecordRestart(recovery) /\ restarts' = restarts + 1
      <4>1. recovery'.attempts = recovery.attempts + 1
        BY <3>1 DEF RecordRestart, NoteUnhealthy, TypeOK, Recoveries
      <4> QED BY <1>0, <3>1, <4>1 DEF RestartsAreCounted
    <3>2. CASE recovery' = MarkExhausted(recovery) /\ UNCHANGED restarts
      <4>1. recovery'.attempts = MaxAttempts
        BY <3>2 DEF MarkExhausted, NoteUnhealthy, TypeOK, Recoveries
      <4> QED BY <1>0, <3>2, <4>1, RecoveryAssumption
                 DEF RestartsAreCounted, RecoveryAssumption
    <3> QED BY <2>2, <3>1, <3>2 DEF Unhealthy
  <2>3. CASE HealthAsks \/ HealthRested
    BY <2>3 DEF RestartsAreCounted, HealthAsks, HealthRested
  <2> QED BY <1>1, <2>1, <2>2, <2>3 DEF Health
<1>2. CASE UNCHANGED <<recovery, restarts>>
  BY <1>2 DEF RestartsAreCounted
<1>3. CASE Crash \/ ScheduledRestart
  BY <1>2, <1>3 DEF Crash, ScheduledRestart, Boot
<1>4. ASSUME NEW c \in Calls, Called(c) \/ Answered(c)
      PROVE  UNCHANGED <<recovery, restarts>>
  BY <1>4 DEF Called, Declare, Redeclare, Refresh, Answered, DeclarationAccepted,
       GovernanceFetched, DeclarationFails, Activate, Redeclared, Refreshed, Raises,
       mqtt
<1>5. CASE Wipe \/ BrokerChanges \/ UNCHANGED vars
  BY <1>2, <1>5 DEF Wipe, WipeTrust, WipeGovernance, WipeRunner, WipeLifecycle,
       BrokerChanges, vars, mqtt
<1>6. CASE Initiate \/ Onboarded \/ OnboardingFails \/ RestartSetup \/ Recover
           \/ Retrust \/ Removal
  BY <1>2, <1>6 DEF Initiate, Onboarded, OnboardingFails, RestartSetup, Recover,
       Retrust, Removal, mqtt
<1> QED
  BY <1>1, <1>2, <1>3, <1>4, <1>5, <1>6 DEF Next, Work

\* However often the process ends, by itself or by a restart it scheduled, at most
\* MaxAttempts restarts follow each other without a sign of health in between.
THEOREM RestartsStayBounded == Spec => []RestartsBounded
<1>1. Init => TypeOK /\ RestartsAreCounted
  BY TypeInit DEF Init, RestartsAreCounted, NoTrouble
<1>2. TypeOK /\ RestartsAreCounted /\ [Next]_vars => TypeOK' /\ RestartsAreCounted'
  BY TypeNext, CountedNext
<1>3. TypeOK /\ RestartsAreCounted => RestartsBounded
  BY RecoveryAssumption
     DEF RecoveryAssumption, TypeOK, Recoveries, RestartsAreCounted, RestartsBounded
<1> QED BY <1>1, <1>2, <1>3, PTL DEF Spec

---------------------------------------------------------------------------
(* An operational node has something accepted.  What each await relies on,  *)
(* and that nothing is under way while trust is taken away.                 *)

Relies ==
  \A c \in Calls :
    /\ pc[c] # "idle" => held[c] # None
    /\ pc[c] \in {"governing", "activating"} => profile # None
    /\ pc[c] = "activating" => bundle # None

GovernanceIsHeld == gov # "unknown" => bundle # None

WipesAlone == wipe.at # "no" => \A c \in Calls : pc[c] = "idle"

Accepted == Relies /\ GovernanceIsHeld /\ WipesAlone /\ OperationalIsAccepted

\* The parts of a state the invariant speaks of.
LEMMA AcceptedSame ==
  ASSUME Accepted, UNCHANGED <<profile, memory, calls, wipe>>,
         lifecycle' = lifecycle \/ lifecycle' # Operational
         \/ (profile # None /\ bundle # None)
  PROVE  Accepted'
BY DEF Accepted, Relies, GovernanceIsHeld, WipesAlone, OperationalIsAccepted, memory,
       calls

LEMMA RecoveryIsAccepted ==
  ASSUME Accepted, RecoveryTarget = Operational
  PROVE  profile # None /\ bundle # None
BY DEF Accepted, GovernanceIsHeld, RecoveryTarget, Operational, CapSetup

LEMMA AcceptedCalls ==
  ASSUME TypeOK, Accepted, wipe.at = "no", NEW c \in Calls, Called(c) \/ Answered(c)
  PROVE  Accepted'
<1> USE DEF TypeOK, Accepted, Relies, GovernanceIsHeld, WipesAlone,
          OperationalIsAccepted, files, memory
<1>1. CASE Declare(c)
  BY <1>1 DEF Declare, Starts, Goes, CapInProgress, Operational
<1>2. CASE Redeclare(c) \/ Refresh(c)
  BY <1>2 DEF Redeclare, Refresh, Starts, Goes
<1>3. CASE DeclarationAccepted(c)
  BY <1>3 DEF DeclarationAccepted, Goes
<1>4. CASE GovernanceFetched(c)
  BY <1>4 DEF GovernanceFetched, Sync, Goes
<1>5. CASE DeclarationFails(c)
  BY <1>5 DEF DeclarationFails, Ends, Goes, Via, Degraded, Operational
<1>6. CASE Activate(c)
  BY <1>6 DEF Activate, Ends, Goes, Via
<1>7. CASE Redeclared(c)
  BY <1>7 DEF Redeclared, Ends, Goes
<1>8. CASE Refreshed(c)
  BY <1>8 DEF Refreshed, Sync, Freshness, Ends, Goes
<1>9. CASE Raises(c)
  BY <1>9 DEF Raises, Ends, Goes
<1> QED
  BY <1>1, <1>2, <1>3, <1>4, <1>5, <1>6, <1>7, <1>8, <1>9 DEF Called, Answered

LEMMA AcceptedBoot == ASSUME TypeOK, Accepted, Boot PROVE Accepted'
<1>1. /\ \A c \in Calls : pc'[c] = "idle"
      /\ wipe'.at = "no" /\ profile' = profile
  BY DEF Boot, NoWipe
<1>2. gov' # "unknown" => bundle' # None
  BY DEF Boot, ResumeSetup, ResumeOperational, ResumeRefreshed, ResumeOnboarding,
       Sync, Freshness
<1>3. lifecycle' = Operational => profile # None /\ bundle' # None
  BY <1>2 DEF Boot, ResumeSetup, ResumeOperational, ResumeRefreshed,
       ResumeOnboarding, Sync, CapSetup, Operational, Connecting, Unconfigured
<1> QED
  BY <1>1, <1>2, <1>3
     DEF Accepted, Relies, GovernanceIsHeld, WipesAlone, OperationalIsAccepted

LEMMA AcceptedWipes ==
  ASSUME TypeOK, Accepted, QuietWipes, Retrust \/ Removal \/ Wipe
  PROVE  Accepted'
<1> USE DEF Accepted, Relies, GovernanceIsHeld, WipesAlone, OperationalIsAccepted,
          memory, calls, mqtt
<1>1. CASE Retrust
  BY <1>1 DEF Retrust, Quiet
<1>2. CASE Removal
  BY <1>2 DEF Removal, Quiet
<1>3. CASE WipeTrust \/ WipeGovernance
  BY <1>3 DEF WipeTrust, WipeGovernance, Wiping, TypeOK, Wipes
<1>4. CASE WipeRunner
  BY <1>4 DEF WipeRunner, Wiping, TypeOK, Wipes
<1>5. CASE WipeLifecycle
  BY <1>5 DEF WipeLifecycle, NoWipe, TypeOK, Wipes, Unconfigured, Connecting,
       Operational
<1> QED BY <1>1, <1>2, <1>3, <1>4, <1>5 DEF Wipe

LEMMA AcceptedNext ==
  ASSUME TypeOK, Accepted, QuietWipes, [Next]_vars PROVE Accepted'
<1> USE DEF Unconfigured, Connecting, CapSetup, Degraded, Operational, files
<1>1. CASE Retrust \/ Removal \/ Wipe
  BY <1>1, AcceptedWipes
<1>2. CASE Crash \/ ScheduledRestart
  BY <1>2, AcceptedBoot DEF Crash, ScheduledRestart
<1>3. CASE Undisturbed /\ \E c \in Calls : Called(c) \/ Answered(c)
  BY <1>3, AcceptedCalls DEF Undisturbed
<1>4. CASE Initiate \/ Onboarded \/ OnboardingFails \/ RestartSetup
  BY <1>4, AcceptedSame DEF Initiate, Onboarded, OnboardingFails, RestartSetup
<1>5. CASE Recover \/ Healthy
  BY <1>5, AcceptedSame, RecoveryIsAccepted DEF Recover, Healthy
<1>6. CASE Unhealthy
  BY <1>6, AcceptedSame DEF Unhealthy, Moved
<1>7. CASE HealthSkips \/ HealthAsks \/ HealthRested
  BY <1>7, AcceptedSame DEF HealthSkips, HealthAsks, HealthRested
<1>8. CASE BrokerChanges \/ UNCHANGED vars
  BY <1>8, AcceptedSame DEF BrokerChanges, vars, files
<1> QED
  BY <1>1, <1>2, <1>3, <1>4, <1>5, <1>6, <1>7, <1>8 DEF Next, Work, Health

\* However declarations, refreshes, health checks and restarts follow each other, a
\* node is operational only with an accepted profile and governance, as long as
\* trust is taken away while nothing else is under way.
THEOREM OperationalStaysAccepted ==
  ASSUME QuietWipes PROVE Spec => []OperationalIsAccepted
<1>1. Init => TypeOK /\ Accepted
  <2>1. Init => Accepted
    BY DEF Init, Accepted, Relies, GovernanceIsHeld, WipesAlone, NoWipe,
         OperationalIsAccepted, Unconfigured, Operational
  <2> QED BY <2>1, TypeInit
<1>2. TypeOK /\ Accepted /\ [Next]_vars => TypeOK' /\ Accepted'
  BY TypeNext, AcceptedNext
<1>3. Accepted => OperationalIsAccepted
  BY DEF Accepted
<1> QED BY <1>1, <1>2, <1>3, PTL DEF Spec

=============================================================================
