----------------------------- MODULE Onboarding -----------------------------
(***************************************************************************)
(* How the node gets from `unconfigured` to a persisted trust state.       *)
(*                                                                         *)
(* Five kinds of threads share the state and take steps in any order:      *)
(*   - Boot      main.run: loads the files, builds the objects;            *)
(*   - a \in Apis  threads serving the onboarding endpoints of             *)
(*               NodeControlState (they are plain `def` endpoints, so each *)
(*               request runs in a thread of the pool);                    *)
(*   - mqtt      the paho thread that runs BootstrapMqttRunner's callbacks;*)
(*   - monitor   the thread of BootstrapConnectTimeoutMonitor;             *)
(*   - w \in Runs  the worker thread of OnboardingRuntime that was started *)
(*               with run id w.                                            *)
(*                                                                         *)
(* NodeLifecycle.transition_to takes no lock: it tests the current state   *)
(* and then assigns the new one.  The test is the end of one step here and *)
(* the assignment the next ("...Set") step of the same thread.             *)
(* PreemptTransition says whether another thread may run between a test    *)
(* and the transition that rests on it (a matter of a few bytecodes).      *)
(***************************************************************************)
EXTENDS NodeLifecycle, Integers, FiniteSets

CONSTANTS
  Apis,               \* threads of the pool that serve the control API
  MaxRuns,            \* bound: values _run_id takes in one process
  MaxIds,             \* bound: node ids ever created
  MaxCrashes,         \* bound: process ends
  MaxPollErrors,      \* max_consecutive_poll_errors (30 in the code)
  PreemptTransition   \* may a thread switch split a test and its transition?

ASSUME OnboardingAssumption ==
  /\ MaxRuns \in Nat \ {0}
  /\ MaxIds \in Nat \ {0}
  /\ MaxCrashes \in Nat
  /\ MaxPollErrors \in Nat \ {0}
  /\ PreemptTransition \in BOOLEAN

Runs == 1..MaxRuns
Ids  == 1..MaxIds
None == 0             \* no file, no id, no session

VARIABLES
  \* in memory
  proc,        \* "down", "up", or "refused" (main.run returned 1)
  lifecycle,   \* NodeLifecycle._state
  deadline,    \* BootstrapConnectTimeoutMonitor._deadline
  monitor,     \* where the monitor thread is in _run
  runner,      \* BootstrapMqttRunner._client: off, started, subscribed
  mqtt,        \* where the paho thread is in a callback
  inflight,    \* OnboardingRuntime._inflight
  runId,       \* OnboardingRuntime._run_id
  pending,     \* the run whose session _pending_session_id is, or None
  allowReset,  \* OnboardingRuntime._allow_duplicate_identity_reset
  memId,       \* OnboardingRuntime._node_id
  ctlId,       \* NodeControlState._node_id
  bootCfg,     \* NodeControlState._bootstrap_config is not None
  api,         \* where each API thread is in its handler
  wpc,         \* where each worker is
  sid,         \* the node id the worker's session was registered with
  tried,       \* attempted_identity_reset of the worker
  errs,        \* consecutive_poll_errors of the worker
  \* on disk
  trust,       \* trust_state.json: its node_id, or None
  identity,    \* node_identity.json: its node_id, or None
  config,      \* bootstrap_config.json exists
  accepted,    \* an accepted profile and a governance bundle are stored
  \* history
  lastId,      \* node ids created so far (uuid4 never repeats one)
  crashes      \* process ends so far

disk    == <<trust, identity, config, accepted, lastId>>
worker  == <<wpc, sid, tried, errs>>
runtime == <<inflight, runId, pending, allowReset>>
boot    == <<runner, mqtt>>
timer   == <<deadline, monitor>>
control == <<ctlId, bootCfg>>
life    == <<proc, crashes>>

vars == <<life, lifecycle, timer, boot, runtime, memId, control, api, worker,
          disk>>
-----------------------------------------------------------------------------
(* The pcs.  A "...Set" pc is a thread inside transition_to that has passed *)
(* the test and has not yet assigned the state.                            *)

ApiSets  == {"initSet", "rtSet", "rcSetupSet", "rcOperSet"}
ApiResets ==   \* between stopping the runner and reset_to_unconfigured
  {"rsCancel", "rsConfig", "rsReset", "rtCancel", "rtConfig", "rtTrust",
   "rtAccepted", "rtReset", "rmCancel", "rmConfig", "rmTrust", "rmIdentity",
   "rmAccepted", "rmForget", "rmReset"}
ApiPcs   == {"idle", "initCheck", "initStart", "rtStop", "rtCheck", "rtStart",
             "status", "stFetch", "rmStop"} \cup ApiSets \cup ApiResets

WorkerSets == {"regSet", "pendSet", "trustedSet", "setupSet", "degradeSet"}
WorkerPcs  == {"none", "start", "register", "post", "rotate", "adopt",
               "registered", "publish", "poll", "await", "approve", "save",
               "toTrusted", "toSetup", "clear", "fail", "end", "done"}
              \cup WorkerSets

Alive(w)  == wpc[w] \notin {"none", "done"}
Active(w) == w = runId                               \* _is_run_active

MidTransition ==
  \/ monitor = "set"
  \/ mqtt \in {"connectedSet", "discoveredSet"}
  \/ \E a \in Apis : api[a] \in ApiSets
  \/ \E w \in Runs : wpc[w] \in WorkerSets \cup {"register"}

\* The assignment of transition_to and reset_to_unconfigured, with the
\* on_transition callback that arms or disarms the timeout monitor.
Assign(s) ==
  /\ lifecycle' = s
  /\ deadline' = IF s = Connecting THEN "armed" ELSE "none"

\* Bound: run ids that handlers already under way may still take.
CancelAhead == {"rtStop", "rtCancel", "rsCancel", "stFetch", "rmStop", "rmCancel"}
RunsLeft ==
  MaxRuns - runId - Cardinality({a \in Apis : api[a] \in CancelAhead})
          - (IF mqtt \in {"discoveredSet", "notify"} THEN 1 ELSE 0)
-----------------------------------------------------------------------------
\* The files a process may find: a first start, an interrupted onboarding, or
\* a trusted node, whose identity and trust state carry the same node id.
Init ==
  /\ proc = "down" /\ crashes = 0
  /\ lifecycle = Unconfigured
  /\ deadline = "none" /\ monitor = "wait"
  /\ runner = "off" /\ mqtt = "idle"
  /\ inflight = FALSE /\ runId = 0 /\ pending = None /\ allowReset = FALSE
  /\ memId = None /\ ctlId = None /\ bootCfg = FALSE
  /\ api = [a \in Apis |-> "idle"]
  /\ wpc = [w \in Runs |-> "none"]
  /\ sid = [w \in Runs |-> None]
  /\ tried = [w \in Runs |-> FALSE]
  /\ errs = [w \in Runs |-> 0]
  /\ lastId = 1 /\ identity = 1
  /\ trust \in {None, 1}
  /\ config \in BOOLEAN
  /\ accepted \in BOOLEAN /\ (accepted => trust = 1)

\* main.run up to the control API being served.  An identity file that is
\* missing is created, from the trust state when there is one; a trust state
\* of another node id stops the process.  A trusted node goes through
\* `trusted` to `capability_setup_pending` and, when a profile was accepted
\* and governance is (or can be made) fresh, resumes to `operational`.
\* Otherwise a stored bootstrap config starts onboarding again.
Boot ==
  /\ proc # "up"
  /\ identity = None /\ trust = None => lastId < MaxIds
  /\ LET created == identity = None /\ trust = None
         id == CASE identity # None -> identity
                 [] created         -> lastId + 1
                 [] OTHER           -> trust
     IN /\ identity' = id
        /\ lastId' = IF created THEN lastId + 1 ELSE lastId
        /\ IF trust \notin {None, id}
           THEN /\ proc' = "refused"
                /\ UNCHANGED <<lifecycle, deadline, runner, memId, ctlId, bootCfg>>
           ELSE /\ proc' = "up"
                /\ memId' = id /\ ctlId' = id
                /\ bootCfg' = (config /\ trust = None)
                /\ runner' = IF config \/ trust # None THEN "started" ELSE "off"
                /\ \/ /\ trust # None /\ Assign(CapSetup)
                   \/ /\ trust # None /\ accepted /\ Assign(Operational)
                   \/ /\ trust = None /\ config /\ Assign(Connecting)
                   \/ /\ trust = None /\ ~config
                      /\ UNCHANGED <<lifecycle, deadline>>
  /\ UNCHANGED <<crashes, monitor, mqtt, runtime, api, worker, trust, config,
                 accepted>>

\* The process ends at any point, or is restarted: every thread and all
\* memory is gone, the files stay.
Crash ==
  /\ proc = "up" /\ crashes < MaxCrashes
  /\ crashes' = crashes + 1
  /\ proc' = "down"
  /\ lifecycle' = Unconfigured
  /\ deadline' = "none" /\ monitor' = "wait"
  /\ runner' = "off" /\ mqtt' = "idle"
  /\ inflight' = FALSE /\ runId' = 0 /\ pending' = None /\ allowReset' = FALSE
  /\ memId' = None /\ ctlId' = None /\ bootCfg' = FALSE
  /\ api' = [a \in Apis |-> "idle"]
  /\ wpc' = [w \in Runs |-> "none"]
  /\ sid' = [w \in Runs |-> None]
  /\ tried' = [w \in Runs |-> FALSE]
  /\ errs' = [w \in Runs |-> 0]
  /\ UNCHANGED disk
-----------------------------------------------------------------------------
(* BootstrapConnectTimeoutMonitor.  Time is abstract: an armed deadline     *)
(* expires at any moment.                                                  *)

Tick ==
  /\ deadline = "armed"
  /\ deadline' = "expired"
  /\ UNCHANGED <<life, lifecycle, monitor, boot, runtime, memId, control, api,
                 worker, disk>>

\* _run copies the deadline under its lock and compares it with the clock ...
MonitorRead ==
  /\ monitor = "wait" /\ deadline = "expired"
  /\ monitor' = "fired"
  /\ UNCHANGED <<life, lifecycle, deadline, boot, runtime, memId, control, api,
                 worker, disk>>

\* ... then tests the lifecycle state, without the lock ...
MonitorTest ==
  /\ monitor = "fired"
  /\ monitor' = IF lifecycle = Connecting THEN "set" ELSE "clear"
  /\ UNCHANGED <<life, lifecycle, deadline, boot, runtime, memId, control, api,
                 worker, disk>>

MonitorSet ==
  /\ monitor = "set"
  /\ Assign(Unconfigured)
  /\ monitor' = "clear"
  /\ UNCHANGED <<life, boot, runtime, memId, control, api, worker, disk>>

\* ... and last clears whatever deadline is set by now.
MonitorClear ==
  /\ monitor = "clear"
  /\ deadline' = "none"
  /\ monitor' = "wait"
  /\ UNCHANGED <<life, lifecycle, boot, runtime, memId, control, api, worker,
                 disk>>
-----------------------------------------------------------------------------
(* BootstrapMqttRunner's callbacks.                                        *)

\* _on_connect with rc = 0, on the first connection or a reconnection.
OnConnect ==
  /\ runner # "off" /\ mqtt = "idle"
  /\ runner' = "subscribed"
  /\ mqtt' = IF lifecycle = Connecting THEN "connectedSet" ELSE "idle"
  /\ UNCHANGED <<life, lifecycle, timer, runtime, memId, control, api, worker,
                 disk>>

ConnectedSet ==
  /\ mqtt = "connectedSet"
  /\ Assign(Connected)
  /\ mqtt' = "idle"
  /\ UNCHANGED <<life, monitor, runner, runtime, memId, control, api, worker,
                 disk>>

\* _on_message with a valid bootstrap payload; in any other state, and for
\* any other payload, the callback changes nothing.
OnMessage ==
  /\ runner = "subscribed" /\ mqtt = "idle"
  /\ lifecycle = Connected
  /\ RunsLeft > 0
  /\ mqtt' = "discoveredSet"
  /\ UNCHANGED <<life, lifecycle, timer, runner, runtime, memId, control, api,
                 worker, disk>>

DiscoveredSet ==
  /\ mqtt = "discoveredSet"
  /\ Assign(CoreDiscovered)
  /\ mqtt' = "notify"
  /\ UNCHANGED <<life, monitor, runner, runtime, memId, control, api, worker,
                 disk>>

\* Fault: on_core_discovered without the test of _inflight.
OnCoreDiscovered_NoInflightTest ==
  /\ mqtt = "notify"
  /\ mqtt' = "idle"
  /\ IF lifecycle # CoreDiscovered
     THEN UNCHANGED <<inflight, runId, wpc>>
     ELSE /\ runId < MaxRuns
          /\ inflight' = TRUE
          /\ runId' = runId + 1
          /\ wpc' = [wpc EXCEPT ![runId + 1] = "start"]
  /\ UNCHANGED <<life, lifecycle, timer, runner, pending, allowReset, memId,
                 control, api, sid, tried, errs, disk>>

\* OnboardingRuntime.on_core_discovered, called by the callback: the tests and
\* the new run id are taken under the lock, then the worker thread starts.
OnCoreDiscovered ==
  /\ mqtt = "notify"
  /\ mqtt' = "idle"
  /\ IF inflight \/ lifecycle # CoreDiscovered
     THEN UNCHANGED <<inflight, runId, wpc>>
     ELSE /\ runId < MaxRuns
          /\ inflight' = TRUE
          /\ runId' = runId + 1
          /\ wpc' = [wpc EXCEPT ![runId + 1] = "start"]
  /\ UNCHANGED <<life, lifecycle, timer, runner, pending, allowReset, memId,
                 control, api, sid, tried, errs, disk>>
-----------------------------------------------------------------------------
(* OnboardingRuntime's worker thread, _run_registration.  The frame every   *)
(* step shares is in WorkerStep and WorkerSet.                             *)

Goto(w, pc) == wpc' = [wpc EXCEPT ![w] = pc]

locals == <<sid, tried, errs>>
common == <<runtime, memId, ctlId, disk>>

\* transition_to(s) up to its assignment; a refused transition raises.
TryTransition(w, s, pc) ==
  Goto(w, IF CanTransition(lifecycle, s) THEN pc ELSE "fail")

\* _run_registration_async
Start(w) ==
  /\ wpc[w] = "start"
  /\ Goto(w, IF Active(w) THEN "register" ELSE "end")
  /\ UNCHANGED <<locals, common>>

\* RegistrationClient.register with set_pending_state: the request carries
\* the node id the runtime has now.
Register(w) ==
  /\ wpc[w] = "register"
  /\ sid' = [sid EXCEPT ![w] = memId]
  /\ TryTransition(w, RegPending, "regSet")
  /\ UNCHANGED <<tried, errs, common>>

\* The answer to the registration request.  A session to be approved makes
\* the run go on; Core may report the node id as a duplicate, or fail.
RegisterAnswer(w) ==
  /\ wpc[w] = "post"
  /\ \/ allowReset' = FALSE /\ Goto(w, "registered")
     \/ allowReset' = FALSE /\ Goto(w, "fail")        \* unexpected session
     \/ /\ Goto(w, IF allowReset /\ ~tried[w] THEN "rotate" ELSE "fail")
        /\ UNCHANGED allowReset                       \* duplicate_node_identity
     \/ Goto(w, "fail") /\ UNCHANGED allowReset       \* any other error
  /\ UNCHANGED <<inflight, runId, pending, memId, ctlId, locals, disk>>

\* _rotate_node_identity_for_retry: the identity store writes a new id ...
Rotate(w) ==
  /\ wpc[w] = "rotate" /\ lastId < MaxIds
  /\ lastId' = lastId + 1
  /\ identity' = lastId + 1
  /\ sid' = [sid EXCEPT ![w] = lastId + 1]
  /\ tried' = [tried EXCEPT ![w] = TRUE]
  /\ Goto(w, "adopt")
  /\ UNCHANGED <<runtime, memId, ctlId, errs, trust, config, accepted>>

\* ... the runtime adopts it, drops the pending session, tells the control
\* state (handle_node_identity_change), and registers again without setting
\* the lifecycle state.
Adopt(w) ==
  /\ wpc[w] = "adopt"
  /\ memId' = sid[w] /\ ctlId' = sid[w]
  /\ pending' = None
  /\ Goto(w, "post")
  /\ UNCHANGED <<inflight, runId, allowReset, locals, disk>>

Registered(w) ==
  /\ wpc[w] = "registered"
  /\ IF Active(w) THEN TryTransition(w, PendingApproval, "pendSet")
                  ELSE Goto(w, "end")
  /\ UNCHANGED <<locals, common>>

\* Fault: the session is published whichever run is current.
Publish_NoRunTest(w) ==
  /\ wpc[w] = "publish"
  /\ pending' = w
  /\ Goto(w, "poll")
  /\ UNCHANGED <<inflight, runId, allowReset, memId, ctlId, locals, disk>>

\* The session is published under the lock, and only by the current run.
Publish(w) ==
  /\ wpc[w] = "publish"
  /\ pending' = IF Active(w) THEN w ELSE pending
  /\ Goto(w, "poll")
  /\ UNCHANGED <<inflight, runId, allowReset, memId, ctlId, locals, disk>>

\* _wait_for_finalize: the run id is tested before the request is sent ...
Poll(w) ==
  /\ wpc[w] = "poll"
  /\ Goto(w, IF Active(w) THEN "await" ELSE "end")
  /\ UNCHANGED <<locals, common>>

\* Fault: the error limit is off by one.
PollAnswer_LimitOffByOne(w) ==
  /\ wpc[w] = "await"
  /\ \/ /\ errs' = [errs EXCEPT ![w] = @ + 1]
        /\ Goto(w, IF errs[w] + 1 > MaxPollErrors THEN "fail" ELSE "poll")
     \/ /\ errs' = [errs EXCEPT ![w] = 0]
        /\ \E pc \in {"poll", "approve", "fail"} : Goto(w, pc)
  /\ UNCHANGED <<sid, tried, common>>

\* ... and its answer is handled whatever happened meanwhile.
PollAnswer(w) ==
  /\ wpc[w] = "await"
  /\ \/ /\ errs' = [errs EXCEPT ![w] = @ + 1]         \* the request failed
        /\ Goto(w, IF errs[w] + 1 >= MaxPollErrors THEN "fail" ELSE "poll")
     \/ /\ errs' = [errs EXCEPT ![w] = 0]
        /\ \E pc \in {"poll", "approve", "fail"} :    \* pending, approved, other
             Goto(w, pc)
  /\ UNCHANGED <<sid, tried, common>>

\* _finalize_approved: the node id of the activation is compared with the
\* runtime's, the trust state is saved, and the lifecycle moves on twice.
Approve(w) ==
  /\ wpc[w] = "approve"
  /\ Goto(w, IF sid[w] = memId THEN "save" ELSE "fail")
  /\ UNCHANGED <<locals, common>>

Save(w) ==
  /\ wpc[w] = "save"
  /\ trust' = sid[w]
  /\ Goto(w, "toTrusted")
  /\ UNCHANGED <<locals, runtime, memId, ctlId, identity, config, accepted, lastId>>

ToTrusted(w) ==
  /\ wpc[w] = "toTrusted"
  /\ TryTransition(w, Trusted, "trustedSet")
  /\ UNCHANGED <<locals, common>>

ToSetup(w) ==
  /\ wpc[w] = "toSetup"
  /\ TryTransition(w, CapSetup, "setupSet")
  /\ UNCHANGED <<locals, common>>

ClearSession(w) ==
  /\ wpc[w] = "clear"
  /\ pending' = None
  /\ Goto(w, "end")
  /\ UNCHANGED <<inflight, runId, allowReset, memId, ctlId, locals, disk>>

\* Fault: a failed run is degraded only before its request was sent.
Fail_OnlyBeforeRequest(w) ==
  /\ wpc[w] = "fail"
  /\ Goto(w, IF Active(w) /\ lifecycle = CoreDiscovered THEN "degradeSet" ELSE "end")
  /\ UNCHANGED <<locals, common>>

\* The except branch of _run_registration.
Fail(w) ==
  /\ wpc[w] = "fail"
  /\ Goto(w, IF Active(w) /\ lifecycle \in RegistrationStates
             THEN "degradeSet" ELSE "end")
  /\ UNCHANGED <<locals, common>>

\* Fault: the finally branch of any run lowers _inflight.
End_NoRunTest(w) ==
  /\ wpc[w] = "end"
  /\ inflight' = FALSE
  /\ Goto(w, "done")
  /\ UNCHANGED <<runId, pending, allowReset, memId, ctlId, locals, disk>>

\* The finally branch: only the current run gives up the onboarding.
End(w) ==
  /\ wpc[w] = "end"
  /\ inflight' = IF Active(w) THEN FALSE ELSE inflight
  /\ Goto(w, "done")
  /\ UNCHANGED <<runId, pending, allowReset, memId, ctlId, locals, disk>>

WorkerStep(w) ==
  /\ \/ Start(w) \/ RegisterAnswer(w) \/ Rotate(w) \/ Adopt(w)
     \/ Registered(w) \/ Publish(w) \/ Poll(w) \/ PollAnswer(w) \/ Approve(w)
     \/ Save(w) \/ ToTrusted(w) \/ ToSetup(w) \/ ClearSession(w) \/ Fail(w)
     \/ End(w)
  /\ UNCHANGED <<life, lifecycle, timer, boot, api, bootCfg>>

\* The steps that complete a transition whose test was passed.
SetAndGo(w, pc, s, next) == wpc[w] = pc /\ Assign(s) /\ Goto(w, next)

WorkerSet(w) ==
  /\ \/ Register(w) /\ UNCHANGED <<lifecycle, deadline>>
     \/ /\ \/ SetAndGo(w, "regSet", RegPending, "post")
           \/ SetAndGo(w, "pendSet", PendingApproval, "publish")
           \/ SetAndGo(w, "trustedSet", Trusted, "toSetup")
           \/ SetAndGo(w, "setupSet", CapSetup, "clear")
           \/ SetAndGo(w, "degradeSet", Degraded, "end")
        /\ UNCHANGED <<locals, common>>
  /\ UNCHANGED <<life, monitor, boot, api, bootCfg>>
-----------------------------------------------------------------------------
(* The endpoints of NodeControlState that steer onboarding.  The frame      *)
(* every step shares is in ApiStep.                                        *)

Move(a, from, to) == api[a] = from /\ api' = [api EXCEPT ![a] = to]

running == <<lifecycle, timer, boot, runtime>>

\* BootstrapMqttRunner.stop joins the paho thread, so it waits for a callback
\* in progress; start stops the old client first.
SwitchRunner(to) ==
  /\ mqtt = "idle" /\ runner' = to
  /\ UNCHANGED <<lifecycle, timer, mqtt, runtime, control, disk>>

\* OnboardingRuntime.cancel, and prepare_retrust when `allow` is TRUE.
CancelRun(allow) ==
  /\ runId < MaxRuns
  /\ runId' = runId + 1
  /\ inflight' = FALSE
  /\ pending' = None
  /\ allowReset' = allow
  /\ UNCHANGED <<lifecycle, timer, boot, control, disk>>

\* The bootstrap config, in memory and on disk, is stored or dropped.
StoreConfig(b) ==
  /\ bootCfg' = b /\ config' = b
  /\ UNCHANGED <<running, ctlId, trust, identity, accepted, lastId>>

\* _delete_store_file(self._trust_state_store)
DeleteTrust ==
  /\ trust' = None
  /\ UNCHANGED <<running, control, identity, config, accepted, lastId>>

\* CapabilityDeclarationRunner.clear_local_state_for_reonboarding, with the
\* governance store.
ClearAccepted ==
  /\ accepted' = FALSE
  /\ UNCHANGED <<running, control, trust, identity, config, lastId>>

\* transition_to and reset_to_unconfigured, by an endpoint.
ApiAssign(s) ==
  /\ Assign(s)
  /\ UNCHANGED <<monitor, boot, runtime, control, disk>>

\* transition_to(bootstrap_connecting) up to its assignment; a refusal is
\* answered with an error.
TryConnecting(a, from, to) ==
  /\ Move(a, from, IF CanTransition(lifecycle, Connecting) THEN to ELSE "idle")
  /\ UNCHANGED <<running, control, disk>>

\* _start_bootstrap_runner_if_available
StartRunner == IF bootCfg THEN SwitchRunner("started")
                          ELSE UNCHANGED <<running, control, disk>>

\* initiate_onboarding: the state is tested, the config stored, and the
\* transition made; then the runner starts.  The answer is the status payload.
Initiate(a) ==
  \/ lifecycle = Unconfigured /\ Move(a, "idle", "initCheck") /\ StoreConfig(TRUE)
  \/ TryConnecting(a, "initCheck", "initSet")
  \/ Move(a, "initStart", "status") /\ StartRunner

\* restart_setup: stop the runner, cancel the run, drop the config, reset.
\* The trust state stays.
Restart(a) ==
  \/ RunsLeft > 0 /\ Move(a, "idle", "rsCancel") /\ SwitchRunner("off")
  \/ Move(a, "rsCancel", "rsConfig") /\ CancelRun(FALSE)
  \/ Move(a, "rsConfig", "rsReset") /\ StoreConfig(FALSE)
  \/ Move(a, "rsReset", "status") /\ ApiAssign(Unconfigured)

\* rerequest_trust: refused while onboarding, or when neither the trust state
\* nor the bootstrap config knows the host.  Otherwise onboarding is stopped,
\* the config stored, the trust state and what was accepted under it cleared,
\* and onboarding starts again from `unconfigured`.
Retrust(a) ==
  \/ /\ RunsLeft > 0 /\ Move(a, "idle", "rtStop")
     /\ lifecycle \notin OnboardingStates /\ (trust # None \/ bootCfg)
     /\ UNCHANGED <<running, control, disk>>
  \/ Move(a, "rtStop", "rtCancel") /\ SwitchRunner("off")
  \/ Move(a, "rtCancel", "rtConfig") /\ CancelRun(TRUE)
  \/ Move(a, "rtConfig", "rtTrust") /\ StoreConfig(TRUE)
  \/ Move(a, "rtTrust", "rtAccepted") /\ DeleteTrust
  \/ Move(a, "rtAccepted", "rtReset") /\ ClearAccepted
  \/ Move(a, "rtReset", "rtCheck") /\ ApiAssign(Unconfigured)
  \/ TryConnecting(a, "rtCheck", "rtSet")
  \/ Move(a, "rtStart", "idle") /\ StartRunner

\* recover_from_degraded: to `operational` when a profile was accepted and the
\* governance status is still fresh, else to `capability_setup_pending`.
Recover(a) ==
  /\ lifecycle = Degraded
  /\ \/ Move(a, "idle", "rcSetupSet")
     \/ accepted /\ Move(a, "idle", "rcOperSet")
  /\ UNCHANGED <<running, control, disk>>

\* status_payload, asked for or as the answer of another endpoint.  It first
\* gives a control state without a node id the one of the trust state, which
\* also creates a missing identity file; then, outside onboarding, it asks
\* Core whether the node is still supported.
Status(a) ==
  LET rehydrate == ctlId = None /\ trust # None
      asks == trust # None /\ lifecycle \notin OnboardingStates \cup {Unconfigured}
  IN /\ identity' = IF rehydrate /\ identity = None THEN trust ELSE identity
     /\ ctlId' = IF rehydrate THEN identity' ELSE ctlId
     /\ \E from \in {"idle", "status"} :
          Move(a, from, IF asks /\ RunsLeft > 0 THEN "stFetch" ELSE "idle")
     /\ UNCHANGED <<running, bootCfg, trust, config, accepted, lastId>>

\* The answer: the node is supported or the request failed, or the node was
\* removed and _reset_for_core_removal wipes it.
Removal(a) ==
  \/ /\ Move(a, "stFetch", "idle") \/ Move(a, "stFetch", "rmStop")
     /\ UNCHANGED <<running, control, disk>>
  \/ Move(a, "rmStop", "rmCancel") /\ SwitchRunner("off")
  \/ Move(a, "rmCancel", "rmConfig") /\ CancelRun(FALSE)
  \/ Move(a, "rmConfig", "rmTrust") /\ StoreConfig(FALSE)
  \/ Move(a, "rmTrust", "rmIdentity") /\ DeleteTrust
  \/ /\ Move(a, "rmIdentity", "rmAccepted")
     /\ identity' = None
     /\ UNCHANGED <<running, control, trust, config, accepted, lastId>>
  \/ Move(a, "rmAccepted", "rmForget") /\ ClearAccepted
  \/ /\ Move(a, "rmForget", "rmReset")
     /\ ctlId' = None
     /\ UNCHANGED <<running, bootCfg, disk>>
  \/ Move(a, "rmReset", "idle") /\ ApiAssign(Unconfigured)

ApiStep(a) ==
  /\ Initiate(a) \/ Restart(a) \/ Retrust(a) \/ Recover(a) \/ Status(a) \/ Removal(a)
  /\ UNCHANGED <<life, memId, worker>>

\* The assignments of the endpoints' transitions.
ApiSet(a) ==
  /\ \/ Move(a, "initSet", "initStart") /\ ApiAssign(Connecting)
     \/ Move(a, "rtSet", "rtStart") /\ ApiAssign(Connecting)
     \/ Move(a, "rcSetupSet", "idle") /\ ApiAssign(CapSetup)
     \/ Move(a, "rcOperSet", "idle") /\ ApiAssign(Operational)
  /\ UNCHANGED <<life, memId, worker>>
-----------------------------------------------------------------------------
\* A thread between a test and its transition may be preempted only if
\* PreemptTransition says so.
Interleaved(A) == (PreemptTransition \/ ~MidTransition) /\ A

MonitorStep == MonitorSet \/ Interleaved(MonitorRead \/ MonitorTest \/ MonitorClear)
CallbackStep ==
  ConnectedSet \/ DiscoveredSet \/ Interleaved(OnCoreDiscovered)

Up(A) == proc = "up" /\ A

Next ==
  \/ Interleaved(Boot)
  \/ Interleaved(Crash)
  \/ Up(Interleaved(Tick))
  \/ Up(MonitorStep)
  \/ Up(Interleaved(OnConnect \/ OnMessage))
  \/ Up(CallbackStep)
  \/ \E a \in Apis :
       \/ Up(ApiSet(a))
       \/ Up(Interleaved(ApiStep(a)))
  \/ \E w \in Runs :
       \/ Up(WorkerSet(w))
       \/ Up(Interleaved(WorkerStep(w)))

Spec == Init /\ [][Next]_vars

\* Every started thread keeps running, the clock advances, and an HTTP request
\* of a worker is answered or times out (httpx timeout of 10 s).  Nothing is
\* assumed of the broker, of Core, or of requests to the control API.  Strong
\* fairness, because a thread that waits for another one's transition is
\* disabled again and again, and is still given its turn.
Fairness ==
  /\ SF_vars(Interleaved(Boot))
  /\ SF_vars(Up(Interleaved(Tick)))
  /\ SF_vars(Up(MonitorStep))
  /\ SF_vars(Up(CallbackStep))
  /\ \A a \in Apis :
       SF_vars(Up(api[a] # "idle" /\ (ApiSet(a) \/ Interleaved(ApiStep(a)))))
  /\ \A w \in Runs : SF_vars(Up(WorkerSet(w) \/ Interleaved(WorkerStep(w))))

FairSpec == Spec /\ Fairness
-----------------------------------------------------------------------------
(* Properties                                                              *)

FlagTypeOK ==
  /\ bootCfg \in BOOLEAN
  /\ inflight \in BOOLEAN
  /\ allowReset \in BOOLEAN
  /\ config \in BOOLEAN
  /\ accepted \in BOOLEAN
  /\ tried \in [Runs -> BOOLEAN]

StateTypeOK ==
  /\ proc \in {"down", "up", "refused"}
  /\ lifecycle \in States
  /\ deadline \in {"none", "armed", "expired"}
  /\ monitor \in {"wait", "fired", "set", "clear"}
  /\ runner \in {"off", "started", "subscribed"}
  /\ mqtt \in {"idle", "connectedSet", "discoveredSet", "notify"}

RunTypeOK ==
  /\ runId \in 0..MaxRuns
  /\ pending \in Runs \cup {None}
  /\ crashes \in 0..MaxCrashes

IdTypeOK ==
  /\ {memId, ctlId, trust, identity} \subseteq Ids \cup {None}
  /\ sid \in [Runs -> Ids \cup {None}]
  /\ lastId \in Ids

PcTypeOK ==
  /\ api \in [Apis -> ApiPcs]
  /\ wpc \in [Runs -> WorkerPcs]

\* Every variable has its type; the poll errors of a run stay within their
\* limit because a run that reaches it leaves the polling loop.
TypeOK ==
  /\ FlagTypeOK /\ StateTypeOK /\ RunTypeOK /\ IdTypeOK /\ PcTypeOK
  /\ errs \in [Runs -> 0..MaxPollErrors]

\* _inflight is raised exactly while the worker of the current run id is
\* alive: on_core_discovered never starts a second registration beside a
\* current one, and a run that was cancelled, or that ends late, neither
\* keeps the next one from starting nor gives up its flag.
InflightIsCurrentRun ==
  proc = "up" => (inflight <=> \E w \in Runs : Active(w) /\ Alive(w))

\* The session shown to the operator (approval URL, session id, nonce) is the
\* one of the current run: cancel drops it, and a late run cannot put its own
\* back.
PendingIsCurrentSession == pending # None => pending = runId

\* Onboarding is never abandoned half-way: in the states that wait for the
\* registration, its current run is alive, or about to be started by the MQTT
\* callback, or an endpoint is on its way to reset the node.  (Otherwise only
\* a restart by hand would get the node out of that state.)
RegistrationIsDriven ==
  lifecycle \in RegistrationStates =>
    \/ inflight
    \/ mqtt = "notify"
    \/ \E a \in Apis : api[a] \in ApiResets

\* A registration request is settled: the node does not stay in
\* `registration_pending`.
RegistrationSettles == lifecycle = RegPending ~> lifecycle # RegPending

\* The onboarding threads keep the promise of RegistrationRuns: the run that
\* owns onboarding is the worker, still alive, that has the current run id.
Owner == IF runId \in Runs /\ Alive(runId) THEN runId ELSE None

RunsPromise == INSTANCE RegistrationRuns WITH owner <- Owner, last <- runId,
                                              session <- pending

KeepsRunsPromise == RunsPromise!Spec
=============================================================================
