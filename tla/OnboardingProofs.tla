-------------------------- MODULE OnboardingProofs --------------------------
(***************************************************************************)
(* Theorems about Onboarding, for any number of API threads, any bounds,    *)
(* and whether or not threads are preempted inside a transition.  The last  *)
(* two, on the session shown and on what drives a registration, are false   *)
(* of overlapping requests and of preempted transitions, and are proved for *)
(* one request at a time and transitions that are not preempted.            *)
(***************************************************************************)
EXTENDS Onboarding, TLAPS

\* The steps of Next without the conditions on when they may be interleaved.
LEMMA NextCases ==
  ASSUME Next
  PROVE  \/ Boot \/ Crash
         \/ Tick \/ MonitorRead \/ MonitorTest \/ MonitorSet \/ MonitorClear
         \/ OnConnect \/ ConnectedSet \/ OnMessage \/ DiscoveredSet
         \/ OnCoreDiscovered
         \/ \E a \in Apis : ApiSet(a) \/ ApiStep(a)
         \/ \E w \in Runs : WorkerSet(w) \/ WorkerStep(w)
BY DEF Next, Interleaved, Up, MonitorStep, CallbackStep

\* A worker that has reached the error limit only has its end before it.
ErrsBelowLimit ==
  /\ errs \in [Runs -> 0..MaxPollErrors]
  /\ \A w \in Runs : errs[w] = MaxPollErrors =>
                      wpc[w] \in {"fail", "degradeSet", "end", "done"}

\* No worker has a run id that was not taken yet.
FreshRuns == \A w \in Runs : w > runId => wpc[w] = "none"

TypeInv == TypeOK /\ ErrsBelowLimit /\ FreshRuns

LEMMA Bounds ==
  /\ MaxRuns \in Nat /\ MaxRuns >= 1 /\ MaxIds \in Nat /\ MaxIds >= 1
  /\ MaxCrashes \in Nat /\ MaxPollErrors \in Nat /\ MaxPollErrors >= 1
  /\ Runs = 1..MaxRuns /\ Ids = 1..MaxIds /\ None = 0
BY OnboardingAssumption DEF OnboardingAssumption, Runs, Ids, None

LEMMA StatesMembers ==
  {Unconfigured, Connecting, Connected, CoreDiscovered, RegPending,
   PendingApproval, Trusted, CapSetup, Operational, Degraded} \subseteq States
BY DEF States

LEMMA ApiPcsMembers ==
  {"idle", "initCheck", "initStart", "rtStop", "rtCheck", "rtStart", "status",
   "stFetch", "rmStop", "initSet", "rtSet", "rcSetupSet", "rcOperSet",
   "rsCancel", "rsConfig", "rsReset", "rtCancel", "rtConfig", "rtTrust",
   "rtAccepted", "rtReset", "rmCancel", "rmConfig", "rmTrust", "rmIdentity",
   "rmAccepted", "rmForget", "rmReset"} \subseteq ApiPcs
BY DEF ApiPcs, ApiSets, ApiResets

LEMMA WorkerPcsMembers ==
  {"none", "start", "register", "post", "rotate", "adopt", "registered",
   "publish", "poll", "await", "approve", "save", "toTrusted", "toSetup",
   "clear", "fail", "end", "done", "regSet", "pendSet", "trustedSet",
   "setupSet", "degradeSet"} \subseteq WorkerPcs
BY DEF WorkerPcs, WorkerSets

\* A thread that moves from one pc to another stays within the pcs.
LEMMA MoveTyped ==
  ASSUME NEW a \in Apis, NEW from, NEW to \in ApiPcs,
         api \in [Apis -> ApiPcs], Move(a, from, to)
  PROVE  api' \in [Apis -> ApiPcs]
BY DEF Move

LEMMA GotoTyped ==
  ASSUME NEW w \in Runs, NEW pc \in WorkerPcs,
         wpc \in [Runs -> WorkerPcs], Goto(w, pc)
  PROVE  /\ wpc' \in [Runs -> WorkerPcs] /\ wpc'[w] = pc
         /\ \A v \in Runs \ {w} : wpc'[v] = wpc[v]
BY DEF Goto

-----------------------------------------------------------------------------
(* Typing, for the initial states and for each thread's steps.             *)

LEMMA TypeInit == Init => TypeInv
<1> SUFFICES ASSUME Init PROVE TypeInv
  OBVIOUS
<1> USE DEF Init
<1>1. FlagTypeOK
  BY DEF FlagTypeOK
<1>2. StateTypeOK
  BY StatesMembers DEF StateTypeOK
<1>3. RunTypeOK
  BY Bounds DEF RunTypeOK
<1>4. IdTypeOK
  BY Bounds DEF IdTypeOK
<1>5. PcTypeOK
  BY ApiPcsMembers, WorkerPcsMembers DEF PcTypeOK
<1>6. ErrsBelowLimit
  BY Bounds DEF ErrsBelowLimit
<1>7. FreshRuns
  BY DEF FreshRuns
<1> QED BY <1>1, <1>2, <1>3, <1>4, <1>5, <1>6, <1>7 DEF TypeInv, TypeOK, ErrsBelowLimit

LEMMA TypeBoot ==
  ASSUME TypeInv, Boot
  PROVE  TypeInv'
<1> USE DEF TypeInv, TypeOK, Boot
<1>1. FlagTypeOK'
  BY DEF FlagTypeOK, runtime, worker
<1>2. StateTypeOK'
  BY StatesMembers DEF StateTypeOK, Assign
<1>3. RunTypeOK'
  BY DEF RunTypeOK, runtime
<1>4. IdTypeOK'
  BY Bounds DEF IdTypeOK, worker
<1>5. PcTypeOK'
  BY DEF PcTypeOK, worker
<1>6. ErrsBelowLimit'
  BY DEF ErrsBelowLimit, worker
<1>7. FreshRuns'
  BY DEF FreshRuns, runtime, worker
<1> QED BY <1>1, <1>2, <1>3, <1>4, <1>5, <1>6, <1>7 DEF ErrsBelowLimit

LEMMA TypeCrash ==
  ASSUME TypeInv, Crash
  PROVE  TypeInv'
<1> USE DEF TypeInv, TypeOK, Crash
<1>1. FlagTypeOK'
  BY DEF FlagTypeOK, disk
<1>2. StateTypeOK'
  BY StatesMembers DEF StateTypeOK
<1>3. RunTypeOK'
  BY Bounds DEF RunTypeOK
<1>4. IdTypeOK'
  BY Bounds DEF IdTypeOK, disk
<1>5. PcTypeOK'
  BY ApiPcsMembers, WorkerPcsMembers DEF PcTypeOK
<1>6. ErrsBelowLimit'
  BY Bounds DEF ErrsBelowLimit
<1>7. FreshRuns'
  BY DEF FreshRuns
<1> QED BY <1>1, <1>2, <1>3, <1>4, <1>5, <1>6, <1>7 DEF ErrsBelowLimit

LEMMA TypeMonitor ==
  ASSUME TypeInv, Tick \/ MonitorRead \/ MonitorTest \/ MonitorSet \/ MonitorClear
  PROVE  TypeInv'
<1> USE DEF TypeInv, TypeOK, Tick, MonitorRead, MonitorTest, MonitorSet, MonitorClear
<1>1. FlagTypeOK'
  BY DEF FlagTypeOK, runtime, control, worker, disk
<1>2. StateTypeOK'
  BY StatesMembers DEF StateTypeOK, Assign, life, boot
<1>3. RunTypeOK'
  BY DEF RunTypeOK, runtime, life
<1>4. IdTypeOK'
  BY DEF IdTypeOK, worker, control, disk
<1>5. PcTypeOK'
  BY DEF PcTypeOK, worker
<1>6. ErrsBelowLimit'
  BY DEF ErrsBelowLimit, worker
<1>7. FreshRuns'
  BY DEF FreshRuns, runtime, worker
<1> QED BY <1>1, <1>2, <1>3, <1>4, <1>5, <1>6, <1>7 DEF ErrsBelowLimit

LEMMA TypeCallback ==
  ASSUME TypeInv, OnConnect \/ ConnectedSet \/ OnMessage \/ DiscoveredSet
  PROVE  TypeInv'
<1> USE DEF TypeInv, TypeOK, OnConnect, ConnectedSet, OnMessage, DiscoveredSet
<1>1. FlagTypeOK'
  BY DEF FlagTypeOK, runtime, control, worker, disk
<1>2. StateTypeOK'
  BY StatesMembers DEF StateTypeOK, Assign, life, timer
<1>3. RunTypeOK'
  BY DEF RunTypeOK, runtime, life
<1>4. IdTypeOK'
  BY DEF IdTypeOK, worker, control, disk
<1>5. PcTypeOK'
  BY DEF PcTypeOK, worker
<1>6. ErrsBelowLimit'
  BY DEF ErrsBelowLimit, worker
<1>7. FreshRuns'
  BY DEF FreshRuns, runtime, worker
<1> QED BY <1>1, <1>2, <1>3, <1>4, <1>5, <1>6, <1>7 DEF ErrsBelowLimit

LEMMA TypeDiscovered ==
  ASSUME TypeInv, OnCoreDiscovered
  PROVE  TypeInv'
<1> USE DEF TypeInv, TypeOK, OnCoreDiscovered
<1>1. FlagTypeOK'
  BY DEF FlagTypeOK, control, disk
<1>2. StateTypeOK'
  BY DEF StateTypeOK, life, timer
<1>3. RunTypeOK'
  BY Bounds DEF RunTypeOK, life
<1>4. IdTypeOK'
  BY DEF IdTypeOK, control, disk
<1>5. PcTypeOK'
  BY WorkerPcsMembers, Bounds DEF PcTypeOK
<1>6. ErrsBelowLimit'
  <2>1. ErrsBelowLimit /\ errs' = errs
    BY DEF ErrsBelowLimit
  <2>2. CASE wpc' = wpc
    BY <2>1, <2>2 DEF ErrsBelowLimit
  <2>3. CASE runId < MaxRuns /\ wpc' = [wpc EXCEPT ![runId + 1] = "start"]
    <3>1. runId + 1 \in Runs /\ wpc[runId + 1] = "none"
      BY <2>3, Bounds DEF RunTypeOK, FreshRuns
    <3>2. errs[runId + 1] # MaxPollErrors
      BY <2>1, <3>1 DEF ErrsBelowLimit
    <3> QED BY <2>1, <2>3, <3>1, <3>2 DEF ErrsBelowLimit, PcTypeOK
  <2> QED BY <2>2, <2>3
<1>7. FreshRuns'
  BY Bounds DEF FreshRuns, RunTypeOK, PcTypeOK
<1> QED BY <1>1, <1>2, <1>3, <1>4, <1>5, <1>6, <1>7 DEF ErrsBelowLimit

LEMMA TypeInitiate ==
  ASSUME TypeInv, NEW a \in Apis, Initiate(a),
         UNCHANGED <<life, memId, worker>>
  PROVE  TypeInv'
<1> USE DEF TypeInv, TypeOK, Initiate
<1>1. FlagTypeOK'
  BY DEF SwitchRunner, StoreConfig, TryConnecting, StartRunner, FlagTypeOK, worker, running, timer, boot, runtime, control, disk, life
<1>2. StateTypeOK'
  BY StatesMembers DEF SwitchRunner, StoreConfig, TryConnecting, StartRunner, StateTypeOK, running, timer, boot, runtime, control, disk, life
<1>3. RunTypeOK'
  BY Bounds DEF SwitchRunner, StoreConfig, TryConnecting, StartRunner, RunTypeOK, running, timer, boot, runtime, control, disk, life
<1>4. IdTypeOK'
  BY Bounds DEF SwitchRunner, StoreConfig, TryConnecting, StartRunner, IdTypeOK, worker, running, timer, boot, runtime, control, disk, life
<1>5. PcTypeOK'
  BY ApiPcsMembers, MoveTyped DEF TryConnecting, PcTypeOK, worker
<1>6. ErrsBelowLimit'
  BY DEF ErrsBelowLimit, worker
<1>7. FreshRuns'
  BY Bounds DEF SwitchRunner, StoreConfig, TryConnecting, StartRunner, FreshRuns, RunTypeOK, worker, running, timer, boot, runtime, control, disk, life
<1> QED BY <1>1, <1>2, <1>3, <1>4, <1>5, <1>6, <1>7 DEF ErrsBelowLimit

LEMMA TypeRestart ==
  ASSUME TypeInv, NEW a \in Apis, Restart(a),
         UNCHANGED <<life, memId, worker>>
  PROVE  TypeInv'
<1> USE DEF TypeInv, TypeOK, Restart
<1>1. FlagTypeOK'
  BY DEF SwitchRunner, StoreConfig, CancelRun, ApiAssign, Assign, FlagTypeOK, worker, running, timer, boot, runtime, control, disk, life
<1>2. StateTypeOK'
  BY StatesMembers DEF SwitchRunner, StoreConfig, CancelRun, ApiAssign, Assign, StateTypeOK, running, timer, boot, runtime, control, disk, life
<1>3. RunTypeOK'
  BY Bounds DEF SwitchRunner, StoreConfig, CancelRun, ApiAssign, Assign, RunTypeOK, running, timer, boot, runtime, control, disk, life
<1>4. IdTypeOK'
  BY Bounds DEF SwitchRunner, StoreConfig, CancelRun, ApiAssign, Assign, IdTypeOK, worker, running, timer, boot, runtime, control, disk, life
<1>5. PcTypeOK'
  BY ApiPcsMembers, MoveTyped DEF PcTypeOK, worker
<1>6. ErrsBelowLimit'
  BY DEF ErrsBelowLimit, worker
<1>7. FreshRuns'
  BY Bounds DEF SwitchRunner, StoreConfig, CancelRun, ApiAssign, Assign, FreshRuns, RunTypeOK, worker, running, timer, boot, runtime, control, disk, life
<1> QED BY <1>1, <1>2, <1>3, <1>4, <1>5, <1>6, <1>7 DEF ErrsBelowLimit

LEMMA TypeRetrust ==
  ASSUME TypeInv, NEW a \in Apis, Retrust(a),
         UNCHANGED <<life, memId, worker>>
  PROVE  TypeInv'
<1> USE DEF TypeInv, TypeOK, Retrust
<1>1. FlagTypeOK'
  BY DEF SwitchRunner, StoreConfig, CancelRun, ApiAssign, Assign, TryConnecting, StartRunner, DeleteTrust, ClearAccepted, FlagTypeOK, worker, running, timer, boot, runtime, control, disk, life
<1>2. StateTypeOK'
  BY StatesMembers DEF SwitchRunner, StoreConfig, CancelRun, ApiAssign, Assign, TryConnecting, StartRunner, DeleteTrust, ClearAccepted, StateTypeOK, running, timer, boot, runtime, control, disk, life
<1>3. RunTypeOK'
  BY Bounds DEF SwitchRunner, StoreConfig, CancelRun, ApiAssign, Assign, TryConnecting, StartRunner, DeleteTrust, ClearAccepted, RunTypeOK, running, timer, boot, runtime, control, disk, life
<1>4. IdTypeOK'
  BY Bounds DEF SwitchRunner, StoreConfig, CancelRun, ApiAssign, Assign, TryConnecting, StartRunner, DeleteTrust, ClearAccepted, IdTypeOK, worker, running, timer, boot, runtime, control, disk, life
<1>5. PcTypeOK'
  BY ApiPcsMembers, MoveTyped DEF TryConnecting, PcTypeOK, worker
<1>6. ErrsBelowLimit'
  BY DEF ErrsBelowLimit, worker
<1>7. FreshRuns'
  BY Bounds DEF SwitchRunner, StoreConfig, CancelRun, ApiAssign, Assign, TryConnecting, StartRunner, DeleteTrust, ClearAccepted, FreshRuns, RunTypeOK, worker, running, timer, boot, runtime, control, disk, life
<1> QED BY <1>1, <1>2, <1>3, <1>4, <1>5, <1>6, <1>7 DEF ErrsBelowLimit

LEMMA TypeRecover ==
  ASSUME TypeInv, NEW a \in Apis, Recover(a),
         UNCHANGED <<life, memId, worker>>
  PROVE  TypeInv'
<1> USE DEF TypeInv, TypeOK, Recover
<1>1. FlagTypeOK'
  BY DEF FlagTypeOK, worker, running, timer, boot, runtime, control, disk, life
<1>2. StateTypeOK'
  BY StatesMembers DEF StateTypeOK, running, timer, boot, runtime, control, disk, life
<1>3. RunTypeOK'
  BY Bounds DEF RunTypeOK, running, timer, boot, runtime, control, disk, life
<1>4. IdTypeOK'
  BY Bounds DEF IdTypeOK, worker, running, timer, boot, runtime, control, disk, life
<1>5. PcTypeOK'
  BY ApiPcsMembers, MoveTyped DEF PcTypeOK, worker
<1>6. ErrsBelowLimit'
  BY DEF ErrsBelowLimit, worker
<1>7. FreshRuns'
  BY Bounds DEF FreshRuns, RunTypeOK, worker, running, timer, boot, runtime, control, disk, life
<1> QED BY <1>1, <1>2, <1>3, <1>4, <1>5, <1>6, <1>7 DEF ErrsBelowLimit

LEMMA TypeStatus ==
  ASSUME TypeInv, NEW a \in Apis, Status(a),
         UNCHANGED <<life, memId, worker>>
  PROVE  TypeInv'
<1> USE DEF TypeInv, TypeOK, Status
<1>1. FlagTypeOK'
  BY DEF FlagTypeOK, worker, running, timer, boot, runtime, control, disk, life
<1>2. StateTypeOK'
  BY StatesMembers DEF StateTypeOK, running, timer, boot, runtime, control, disk, life
<1>3. RunTypeOK'
  BY Bounds DEF RunTypeOK, running, timer, boot, runtime, control, disk, life
<1>4. IdTypeOK'
  BY Bounds DEF IdTypeOK, worker, running, timer, boot, runtime, control, disk, life
<1>5. PcTypeOK'
  BY ApiPcsMembers, MoveTyped DEF PcTypeOK, worker
<1>6. ErrsBelowLimit'
  BY DEF ErrsBelowLimit, worker
<1>7. FreshRuns'
  BY Bounds DEF FreshRuns, RunTypeOK, worker, running, timer, boot, runtime, control, disk, life
<1> QED BY <1>1, <1>2, <1>3, <1>4, <1>5, <1>6, <1>7 DEF ErrsBelowLimit

LEMMA TypeRemoval ==
  ASSUME TypeInv, NEW a \in Apis, Removal(a),
         UNCHANGED <<life, memId, worker>>
  PROVE  TypeInv'
<1> USE DEF TypeInv, TypeOK, Removal
<1>1. FlagTypeOK'
  BY DEF SwitchRunner, StoreConfig, CancelRun, ApiAssign, Assign, DeleteTrust, ClearAccepted, FlagTypeOK, worker, running, timer, boot, runtime, control, disk, life
<1>2. StateTypeOK'
  BY StatesMembers DEF SwitchRunner, StoreConfig, CancelRun, ApiAssign, Assign, DeleteTrust, ClearAccepted, StateTypeOK, running, timer, boot, runtime, control, disk, life
<1>3. RunTypeOK'
  BY Bounds DEF SwitchRunner, StoreConfig, CancelRun, ApiAssign, Assign, DeleteTrust, ClearAccepted, RunTypeOK, running, timer, boot, runtime, control, disk, life
<1>4. IdTypeOK'
  BY Bounds DEF SwitchRunner, StoreConfig, CancelRun, ApiAssign, Assign, DeleteTrust, ClearAccepted, IdTypeOK, worker, running, timer, boot, runtime, control, disk, life
<1>5. PcTypeOK'
  BY ApiPcsMembers, MoveTyped DEF PcTypeOK, worker
<1>6. ErrsBelowLimit'
  BY DEF ErrsBelowLimit, worker
<1>7. FreshRuns'
  BY Bounds DEF SwitchRunner, StoreConfig, CancelRun, ApiAssign, Assign, DeleteTrust, ClearAccepted, FreshRuns, RunTypeOK, worker, running, timer, boot, runtime, control, disk, life
<1> QED BY <1>1, <1>2, <1>3, <1>4, <1>5, <1>6, <1>7 DEF ErrsBelowLimit

LEMMA TypeApiSet ==
  ASSUME TypeInv, NEW a \in Apis, ApiSet(a)
  PROVE  TypeInv'
<1> USE DEF TypeInv, TypeOK, ApiSet
<1>1. FlagTypeOK'
  BY DEF FlagTypeOK, ApiAssign, worker, running, timer, boot, runtime, control, disk, life
<1>2. StateTypeOK'
  BY StatesMembers DEF StateTypeOK, ApiAssign, Assign, running, timer, boot, runtime, control, disk, life
<1>3. RunTypeOK'
  BY DEF RunTypeOK, ApiAssign, running, timer, boot, runtime, control, disk, life
<1>4. IdTypeOK'
  BY DEF IdTypeOK, ApiAssign, worker, running, timer, boot, runtime, control, disk, life
<1>5. PcTypeOK'
  BY ApiPcsMembers, MoveTyped DEF PcTypeOK, worker
<1>6. ErrsBelowLimit'
  BY DEF ErrsBelowLimit, worker
<1>7. FreshRuns'
  BY DEF FreshRuns, ApiAssign, worker, running, timer, boot, runtime, control, disk, life
<1> QED BY <1>1, <1>2, <1>3, <1>4, <1>5, <1>6, <1>7 DEF ErrsBelowLimit

\* A worker step moves a worker that is alive to a pc that is not "none", and
\* the worker counts a poll error only where the limit was not reached.
WorkerMoves(w) ==
  \E pc \in WorkerPcs :
    /\ Goto(w, pc)
    /\ wpc[w] \notin {"none", "done"} /\ pc # "none"
    /\ \/ errs' = errs /\ wpc[w] \notin {"fail", "degradeSet", "end", "done"}
       \/ errs' = errs /\ pc \in {"degradeSet", "end", "done"}
       \/ /\ errs' = [errs EXCEPT ![w] = @ + 1]
          /\ wpc[w] = "await"
          /\ pc = "fail" \/ errs[w] + 1 < MaxPollErrors
       \/ errs' = [errs EXCEPT ![w] = 0]

LEMMA MovesTyped ==
  ASSUME TypeInv, NEW w \in Runs, WorkerMoves(w), UNCHANGED <<runId, api>>
  PROVE  PcTypeOK' /\ ErrsBelowLimit' /\ FreshRuns'
<1> USE DEF TypeInv, TypeOK
<1> PICK pc \in WorkerPcs :
       /\ Goto(w, pc)
       /\ wpc[w] \notin {"none", "done"} /\ pc # "none"
       /\ \/ errs' = errs /\ wpc[w] \notin {"fail", "degradeSet", "end", "done"}
          \/ errs' = errs /\ pc \in {"degradeSet", "end", "done"}
          \/ /\ errs' = [errs EXCEPT ![w] = @ + 1]
             /\ wpc[w] = "await"
             /\ pc = "fail" \/ errs[w] + 1 < MaxPollErrors
          \/ errs' = [errs EXCEPT ![w] = 0]
  BY DEF WorkerMoves
<1>1. /\ wpc' \in [Runs -> WorkerPcs] /\ wpc'[w] = pc
      /\ \A v \in Runs \ {w} : wpc'[v] = wpc[v]
  BY GotoTyped DEF PcTypeOK
<1>2. ErrsBelowLimit'
  BY <1>1, Bounds DEF ErrsBelowLimit
<1>3. FreshRuns'
  BY <1>1 DEF FreshRuns
<1> QED BY <1>1, <1>2, <1>3 DEF PcTypeOK

LEMMA StepMoves ==
  ASSUME TypeInv, NEW w \in Runs, WorkerStep(w)
  PROVE  WorkerMoves(w)
<1> USE WorkerPcsMembers DEF WorkerMoves, locals
<1>1. CASE Start(w)
  BY <1>1 DEF Start
<1>2. CASE RegisterAnswer(w)
  BY <1>2 DEF RegisterAnswer
<1>3. CASE Rotate(w)
  BY <1>3 DEF Rotate
<1>4. CASE Adopt(w)
  BY <1>4 DEF Adopt
<1>5. CASE Registered(w)
  BY <1>5 DEF Registered, TryTransition
<1>6. CASE Publish(w)
  BY <1>6 DEF Publish
<1>7. CASE Poll(w)
  BY <1>7 DEF Poll
<1>8. CASE PollAnswer(w)
  BY <1>8, Bounds DEF PollAnswer, TypeInv, ErrsBelowLimit
<1>9. CASE Approve(w)
  BY <1>9 DEF Approve
<1>10. CASE Save(w)
  BY <1>10 DEF Save
<1>11. CASE ToTrusted(w)
  BY <1>11 DEF ToTrusted, TryTransition
<1>12. CASE ToSetup(w)
  BY <1>12 DEF ToSetup, TryTransition
<1>13. CASE ClearSession(w)
  BY <1>13 DEF ClearSession
<1>14. CASE Fail(w)
  BY <1>14 DEF Fail
<1>15. CASE End(w)
  BY <1>15 DEF End
<1> QED BY <1>1, <1>2, <1>3, <1>4, <1>5, <1>6, <1>7, <1>8, <1>9, <1>10, <1>11, <1>12, <1>13, <1>14, <1>15 DEF WorkerStep

LEMMA TypeWorkerStep ==
  ASSUME TypeInv, NEW w \in Runs, WorkerStep(w)
  PROVE  TypeInv'
<1> USE DEF TypeInv, TypeOK
<1>1. FlagTypeOK'
  BY DEF FlagTypeOK, WorkerStep, Start, RegisterAnswer, Rotate, Adopt, Registered, Publish, Poll, PollAnswer, Approve, Save, ToTrusted, ToSetup, ClearSession, Fail, End,
         common, locals, runtime, disk
<1>2. StateTypeOK'
  BY DEF StateTypeOK, WorkerStep, life, timer, boot
<1>3. RunTypeOK' /\ UNCHANGED <<runId, api>>
  BY DEF RunTypeOK, WorkerStep, Start, RegisterAnswer, Rotate, Adopt, Registered, Publish, Poll, PollAnswer, Approve, Save, ToTrusted, ToSetup, ClearSession, Fail, End,
         common, runtime, life
<1>4. IdTypeOK'
  <2>1. IdTypeOK /\ sid[w] \in Ids \cup {None}
    BY DEF IdTypeOK
  <2>2. CASE Rotate(w)
    BY <2>1, <2>2, Bounds DEF Rotate, IdTypeOK
  <2>3. CASE Adopt(w)
    BY <2>1, <2>3 DEF Adopt, IdTypeOK, locals, disk
  <2>4. CASE Save(w)
    BY <2>1, <2>4 DEF Save, IdTypeOK, locals
  <2>5. CASE UNCHANGED <<sid, memId, ctlId, disk>>
    BY <2>5, <2>1 DEF IdTypeOK, disk
  <2> QED BY <2>2, <2>3, <2>4, <2>5
          DEF WorkerStep, Start, RegisterAnswer, Registered, Publish, Poll, PollAnswer, Approve, ToTrusted, ToSetup, ClearSession, Fail, End,
              common, locals
<1>5. PcTypeOK' /\ ErrsBelowLimit' /\ FreshRuns'
  BY <1>3, StepMoves, MovesTyped
<1> QED BY <1>1, <1>2, <1>3, <1>4, <1>5 DEF ErrsBelowLimit

LEMMA TypeWorkerSet ==
  ASSUME TypeInv, NEW w \in Runs, WorkerSet(w)
  PROVE  TypeInv'
<1> USE DEF TypeInv, TypeOK
<1>1. FlagTypeOK'
  BY DEF FlagTypeOK, WorkerSet, Register, SetAndGo, common, locals, runtime, disk
<1>2. StateTypeOK'
  BY StatesMembers DEF StateTypeOK, WorkerSet, SetAndGo, Assign, life, boot
<1>3. RunTypeOK' /\ UNCHANGED <<runId, api>>
  BY DEF RunTypeOK, WorkerSet, Register, SetAndGo, common, runtime, life
<1>4. IdTypeOK'
  BY DEF IdTypeOK, WorkerSet, Register, SetAndGo, common, locals, disk
<1>5. WorkerMoves(w)
  BY WorkerPcsMembers DEF WorkerMoves, WorkerSet, Register, SetAndGo,
     TryTransition, locals
<1>6. PcTypeOK' /\ ErrsBelowLimit' /\ FreshRuns'
  BY <1>3, <1>5, MovesTyped
<1> QED BY <1>1, <1>2, <1>3, <1>4, <1>6 DEF ErrsBelowLimit

LEMMA TypeApiStep ==
  ASSUME TypeInv, NEW a \in Apis, ApiStep(a)
  PROVE  TypeInv'
BY TypeInitiate, TypeRestart, TypeRetrust, TypeRecover, TypeStatus, TypeRemoval
   DEF ApiStep

LEMMA TypeStutter == ASSUME TypeInv, UNCHANGED vars PROVE TypeInv'
BY DEF TypeInv, TypeOK, FlagTypeOK, StateTypeOK, RunTypeOK, IdTypeOK, PcTypeOK,
       ErrsBelowLimit, FreshRuns, vars, life, timer, boot, runtime, control,
       worker, disk

LEMMA TypeNext == ASSUME TypeInv, [Next]_vars PROVE TypeInv'
<1>1. CASE Next
  BY <1>1, NextCases, TypeBoot, TypeCrash, TypeMonitor, TypeCallback,
     TypeDiscovered, TypeApiSet, TypeApiStep, TypeWorkerSet, TypeWorkerStep
<1>2. CASE UNCHANGED vars
  BY <1>2, TypeStutter
<1> QED BY <1>1, <1>2

LEMMA TypeInvariant == Spec => []TypeInv
BY TypeInit, TypeNext, PTL DEF Spec

\* Every variable keeps its type, and no run polls on after
\* max_consecutive_poll_errors failures in a row (_wait_for_finalize).
THEOREM TypeCorrect == Spec => []TypeOK
<1>1. TypeInv => TypeOK
  BY DEF TypeInv
<1> QED BY <1>1, TypeInvariant, PTL

-----------------------------------------------------------------------------
(* The current run and its flag, and the refinement of RegistrationRuns.    *)

\* The flag is up exactly while a worker owns onboarding.
OwnerInflight == inflight <=> Owner # None

RunInv == TypeInv /\ OwnerInflight

\* A step of RegistrationRuns, or a stutter, that leaves the flag right.
RunsStep == [RunsPromise!Next]_(RunsPromise!vars)

LEMMA OwnerValue ==
  ASSUME TypeInv
  PROVE  /\ None \notin Runs
         /\ Owner # None <=> runId \in Runs /\ Alive(runId)
         /\ Owner # None => Owner = runId
BY Bounds DEF Owner

\* A step that changes neither the workers nor the runtime's fields.
LEMMA RunsIdle ==
  ASSUME RunInv, UNCHANGED <<wpc, inflight, runId, pending>>
  PROVE  RunsStep /\ OwnerInflight'
<1>1. Owner' = Owner
  BY DEF Owner, Alive
<1> QED BY <1>1 DEF RunInv, OwnerInflight, RunsStep, RunsPromise!vars

LEMMA RunsCancel ==
  ASSUME RunInv, NEW b, CancelRun(b), UNCHANGED wpc
  PROVE  RunsStep /\ OwnerInflight'
<1>1. runId' = runId + 1 /\ pending' = None /\ inflight' = FALSE
  BY DEF CancelRun
<1>2. wpc[runId + 1] = "none"
  BY Bounds DEF CancelRun, RunInv, TypeInv, TypeOK, RunTypeOK, FreshRuns
<1>3. Owner' = None
  BY <1>1, <1>2 DEF Owner, Alive
<1>4. RunsPromise!Cancel
  BY <1>1, <1>3 DEF RunsPromise!Cancel, None
<1> QED BY <1>1, <1>3, <1>4 DEF OwnerInflight, RunsStep, RunsPromise!Next

LEMMA RunsBegin ==
  ASSUME RunInv, OnCoreDiscovered
  PROVE  RunsStep /\ OwnerInflight'
<1>1. CASE inflight \/ lifecycle # CoreDiscovered
  BY <1>1, RunsIdle DEF OnCoreDiscovered
<1>2. CASE ~(inflight \/ lifecycle # CoreDiscovered)
  <2>1. /\ runId < MaxRuns /\ inflight' = TRUE /\ runId' = runId + 1
        /\ wpc' = [wpc EXCEPT ![runId + 1] = "start"] /\ pending' = pending
    BY <1>2 DEF OnCoreDiscovered
  <2>2. Owner = None
    BY <1>2 DEF RunInv, OwnerInflight
  <2>3. runId + 1 \in Runs
    BY <2>1, Bounds DEF RunInv, TypeInv, TypeOK, RunTypeOK
  <2>4. Owner' = runId + 1 /\ Owner' # None
    BY <2>1, <2>3, Bounds DEF Owner, Alive, RunInv, TypeInv, TypeOK, PcTypeOK
  <2>5. RunsPromise!Begin
    BY <2>1, <2>2, <2>4 DEF RunsPromise!Begin, None
  <2> QED BY <2>1, <2>4, <2>5 DEF OwnerInflight, RunsStep, RunsPromise!Next
<1> QED BY <1>1, <1>2

LEMMA RunsCrash ==
  ASSUME RunInv, Crash
  PROVE  RunsStep /\ OwnerInflight'
<1>1. runId' = 0 /\ pending' = 0 /\ inflight' = FALSE
  BY DEF Crash, None
<1>2. Owner' = 0
  BY <1>1, Bounds DEF Owner
<1>3. RunsPromise!Reset
  BY <1>1, <1>2 DEF RunsPromise!Reset
<1> QED BY <1>1, <1>2, <1>3 DEF OwnerInflight, RunsStep, RunsPromise!Next, None

\* A worker that goes on, or ends without being current, leaves the owner.
LEMMA OwnerKept ==
  ASSUME TypeInv, NEW w \in Runs, WorkerMoves(w), UNCHANGED runId,
         w # runId \/ wpc'[w] # "done"
  PROVE  Owner' = Owner
<1>1. PICK pc \in WorkerPcs :
        Goto(w, pc) /\ wpc[w] \notin {"none", "done"} /\ pc # "none"
  BY DEF WorkerMoves
<1>2. /\ wpc'[w] = pc
      /\ \A v \in Runs \ {w} : wpc'[v] = wpc[v]
  BY <1>1, GotoTyped DEF TypeInv, TypeOK, PcTypeOK
<1> QED BY <1>1, <1>2 DEF Owner, Alive

LEMMA RunsWorker ==
  ASSUME RunInv, NEW w \in Runs, WorkerMoves(w),
         wpc'[w] # "done", runId' = runId, inflight' = inflight,
         pending' \in {pending, None} \/ (Active(w) /\ pending' = w)
  PROVE  RunsStep /\ OwnerInflight'
<1>1. Owner' = Owner
  BY OwnerKept DEF RunInv
<1>2. OwnerInflight'
  BY <1>1 DEF RunInv, OwnerInflight
<1>3. CASE pending' = pending
  BY <1>1, <1>2, <1>3 DEF RunsStep, RunsPromise!vars
<1>4. CASE pending' = None
  BY <1>1, <1>2, <1>4 DEF RunsStep, RunsPromise!Next, RunsPromise!Drop, None
<1>5. CASE Active(w) /\ pending' = w
  <2>1. Owner = w /\ w # 0
    BY <1>5, Bounds DEF Owner, Active, Alive, WorkerMoves
  <2> QED BY <1>1, <1>2, <1>5, <2>1 DEF RunsStep, RunsPromise!Next, RunsPromise!Show
<1> QED BY <1>2, <1>3, <1>4, <1>5

LEMMA RunsEnd ==
  ASSUME RunInv, NEW w \in Runs, WorkerMoves(w), End(w)
  PROVE  RunsStep /\ OwnerInflight'
<1>1. runId' = runId /\ pending' = pending /\ wpc'[w] = "done"
  BY GotoTyped, WorkerPcsMembers DEF End, RunInv, TypeInv, TypeOK, PcTypeOK
<1>2. CASE Active(w)
  <2>1. Owner = w /\ w # 0 /\ w = runId
    BY <1>2, Bounds DEF Owner, Active, Alive, End
  <2>2. Owner' = 0
    BY <1>1, <2>1 DEF Owner, Alive, None
  <2>3. inflight' = FALSE
    BY <1>2 DEF End
  <2>4. RunsPromise!Finish
    BY <1>1, <2>1, <2>2 DEF RunsPromise!Finish
  <2> QED BY <2>2, <2>3, <2>4 DEF RunsStep, RunsPromise!Next, OwnerInflight, None
<1>3. CASE ~Active(w)
  <2>1. Owner' = Owner
    BY <1>1, <1>3, OwnerKept DEF Active, RunInv
  <2>2. inflight' = inflight
    BY <1>3 DEF End
  <2>3. OwnerInflight'
    BY <2>1, <2>2 DEF RunInv, OwnerInflight
  <2> QED BY <1>1, <2>1, <2>3 DEF RunsStep, RunsPromise!vars
<1> QED BY <1>2, <1>3

LEMMA RunsWorkerStep ==
  ASSUME RunInv, NEW w \in Runs, WorkerStep(w)
  PROVE  RunsStep /\ OwnerInflight'
<1>1. WorkerMoves(w)
  BY StepMoves DEF RunInv
<1>2. CASE End(w)
  BY <1>1, <1>2, RunsEnd
<1>3. CASE ~End(w)
  <2>1. /\ runId' = runId /\ inflight' = inflight
        /\ pending' \in {pending, None} \/ (Active(w) /\ pending' = w)
    BY <1>3 DEF WorkerStep, Start, RegisterAnswer, Rotate, Adopt, Registered,
       Publish, Poll, PollAnswer, Approve, Save, ToTrusted, ToSetup,
       ClearSession, Fail, common, runtime
  <2>2. wpc'[w] # "done"
    BY <1>3, GotoTyped, WorkerPcsMembers
       DEF WorkerStep, Start, RegisterAnswer, Rotate, Adopt, Registered,
           Publish, Poll, PollAnswer, Approve, Save, ToTrusted, ToSetup,
           ClearSession, Fail, TryTransition, Goto, RunInv, TypeInv, TypeOK, PcTypeOK
  <2> QED BY <1>1, <2>1, <2>2, RunsWorker
<1> QED BY <1>2, <1>3

LEMMA RunsWorkerSet ==
  ASSUME RunInv, NEW w \in Runs, WorkerSet(w)
  PROVE  RunsStep /\ OwnerInflight'
<1>1. WorkerMoves(w)
  BY WorkerPcsMembers DEF WorkerMoves, WorkerSet, Register, SetAndGo,
     TryTransition, locals
<1>2. runId' = runId /\ inflight' = inflight /\ pending' = pending
  BY DEF WorkerSet, Register, common, runtime
<1>3. wpc'[w] # "done"
  BY DEF WorkerSet, Register, SetAndGo, TryTransition, Goto, RunInv, TypeInv,
         TypeOK, PcTypeOK
<1> QED BY <1>1, <1>2, <1>3, RunsWorker

LEMMA RunsApiStep ==
  ASSUME RunInv, NEW a \in Apis, ApiStep(a)
  PROVE  RunsStep /\ OwnerInflight'
<1>1. wpc' = wpc
  BY DEF ApiStep, worker
<1>2. CASE \E b \in BOOLEAN : CancelRun(b)
  BY <1>1, <1>2, RunsCancel
<1>3. CASE ~\E b \in BOOLEAN : CancelRun(b)
  <2>1. UNCHANGED <<inflight, runId, pending>>
    BY <1>3 DEF ApiStep, Initiate, Restart, Retrust, Recover, Status, Removal,
       SwitchRunner, StoreConfig, TryConnecting, StartRunner, ApiAssign,
       DeleteTrust, ClearAccepted, running, runtime
  <2> QED BY <1>1, <2>1, RunsIdle
<1> QED BY <1>2, <1>3

LEMMA RunsNext ==
  ASSUME RunInv, [Next]_vars
  PROVE  RunsStep /\ RunInv'
<1>1. TypeInv'
  BY TypeNext DEF RunInv
<1>2. RunsStep /\ OwnerInflight'
  <2>1. CASE Boot
    BY <2>1, RunsIdle DEF Boot, runtime, worker
  <2>2. CASE Tick \/ MonitorRead \/ MonitorTest \/ MonitorSet \/ MonitorClear
    BY <2>2, RunsIdle DEF Tick, MonitorRead, MonitorTest, MonitorSet,
       MonitorClear, runtime, worker
  <2>3. CASE OnConnect \/ ConnectedSet \/ OnMessage \/ DiscoveredSet
    BY <2>3, RunsIdle DEF OnConnect, ConnectedSet, OnMessage, DiscoveredSet,
       runtime, worker
  <2>4. CASE \E a \in Apis : ApiSet(a)
    BY <2>4, RunsIdle DEF ApiSet, ApiAssign, runtime, worker
  <2>5. CASE UNCHANGED vars
    BY <2>5, RunsIdle DEF vars, runtime, worker
  <2> QED BY <2>1, <2>2, <2>3, <2>4, <2>5, NextCases, RunsCrash, RunsBegin,
             RunsApiStep, RunsWorkerSet, RunsWorkerStep
<1> QED BY <1>1, <1>2 DEF RunInv

LEMMA RunsInit ==
  ASSUME Init
  PROVE  RunInv /\ RunsPromise!Init
<1>1. Owner = 0
  BY Bounds DEF Init, Owner
<1>2. OwnerInflight
  BY <1>1 DEF Init, OwnerInflight, None
<1> QED BY <1>1, <1>2, TypeInit DEF RunInv, RunsPromise!Init, Init, None

LEMMA RunInvariant == Spec => []RunInv
BY RunsInit, RunsNext, PTL DEF Spec

\* _inflight is up exactly while the worker of the current run is alive
\* (OnboardingRuntime), whatever threads interleave with it.
THEOREM InflightCorrect == Spec => []InflightIsCurrentRun
<1>1. RunInv => InflightIsCurrentRun
  <2> SUFFICES ASSUME RunInv
               PROVE  inflight <=> \E w \in Runs : Active(w) /\ Alive(w)
    BY DEF InflightIsCurrentRun
  <2>1. Owner # None <=> \E w \in Runs : Active(w) /\ Alive(w)
    BY OwnerValue DEF RunInv, Active
  <2> QED BY <2>1 DEF RunInv, OwnerInflight
<1> QED BY <1>1, RunInvariant, PTL

\* The onboarding threads implement RegistrationRuns: a run owns onboarding
\* alone, a cancelled run never regains it, and only the owner's session is
\* shown (on_core_discovered, cancel, _is_run_active).
THEOREM RunsRefinement == Spec => KeepsRunsPromise
<1>1. RunInv /\ [Next]_vars => RunsStep
  BY RunsNext
<1> QED BY <1>1, RunsInit, RunInvariant, PTL
        DEF Spec, KeepsRunsPromise, RunsPromise!Spec, RunsStep
-----------------------------------------------------------------------------
(* One request at a time, and transitions that are not preempted: the       *)
(* session shown, and that onboarding goes on.                              *)

\* The endpoints are called one at a time.
OneRequest == \A a, b \in Apis : a = b

Early == {Unconfigured, Connecting, Connected}
ToCancel == {"rsCancel", "rtCancel", "rmCancel"}
Cancelled == ApiResets \ ToCancel

MidMonitor == monitor = "set"
MidCallback == mqtt \in {"connectedSet", "discoveredSet"}
MidRequest(a) == api[a] \in ApiSets
MidWorker(w) == wpc[w] \in WorkerSets \cup {"register"}

\* One thread at a time is between a test and its transition ...
OneMid ==
  /\ MidMonitor => ~MidCallback
  /\ \A a \in Apis : MidRequest(a) => ~MidMonitor /\ ~MidCallback
  /\ \A w \in Runs : MidWorker(w) => ~MidMonitor /\ ~MidCallback
                                     /\ \A a \in Apis : ~MidRequest(a)
  /\ \A v, w \in Runs : MidWorker(v) /\ MidWorker(w) => v = w

\* ... so that what it tested still holds.
Tested ==
  /\ monitor = "set" => lifecycle = Connecting
  /\ mqtt = "connectedSet" => lifecycle = Connecting
  /\ mqtt = "discoveredSet" => lifecycle = Connected
  /\ \A a \in Apis : api[a] \in {"initSet", "rtSet"} => lifecycle = Unconfigured
  /\ \A w \in Runs : wpc[w] \in {"register", "regSet", "pendSet"} => Active(w)

\* A process that is not up has no thread.
NoThreads ==
  proc # "up" =>
    /\ mqtt = "idle" /\ monitor = "wait" /\ pending = None /\ ~inflight
    /\ lifecycle = Unconfigured
    /\ \A a \in Apis : api[a] = "idle"
    /\ \A w \in Runs : wpc[w] = "none"

\* While an endpoint resets the node the broker is not listened to, and once it
\* has cancelled the run there is none.
Stopped ==
  \A a \in Apis :
    /\ api[a] \in ApiResets => runner = "off" /\ mqtt = "idle"
    /\ api[a] \in Cancelled => pending = None /\ ~inflight

\* A session is that of the current run, and is gone before a node starts anew.
Shown == pending # None => pending = runId /\ lifecycle \notin Early \cup {CoreDiscovered}

\* Where the lifecycle cannot be, with the current run where it is.
RunPast ==
  \A w \in Runs : Active(w) /\ Alive(w) =>
    /\ lifecycle \notin Early
    /\ wpc[w] \notin {"start", "register", "regSet"} => lifecycle # CoreDiscovered
    /\ wpc[w] \in {"end", "clear"} => lifecycle \notin RegistrationStates

InReset == \E a \in Apis : api[a] \in ApiResets

Driven ==
  /\ lifecycle = CoreDiscovered => inflight \/ mqtt = "notify" \/ InReset
  /\ lifecycle \in {RegPending, PendingApproval} => inflight \/ InReset

Serial == OneMid /\ Tested /\ NoThreads /\ Stopped /\ Shown /\ RunPast /\ Driven

\* The steps of Next: a whole transition, or a step while nobody is inside one.
LEMMA SerialCases ==
  ASSUME Next, ~PreemptTransition
  PROVE  \/ Boot
         \/ ~MidTransition /\ Crash
         \/ /\ ~MidTransition /\ proc = "up"
            /\ \/ Tick \/ MonitorRead \/ MonitorTest \/ MonitorClear
               \/ OnConnect \/ OnMessage \/ OnCoreDiscovered
               \/ \E a \in Apis : ApiStep(a)
               \/ \E w \in Runs : WorkerStep(w)
         \/ /\ proc = "up"
            /\ \/ MonitorSet \/ ConnectedSet \/ DiscoveredSet
               \/ \E a \in Apis : ApiSet(a)
               \/ \E w \in Runs : WorkerSet(w)
BY DEF Next, Interleaved, Up, MonitorStep, CallbackStep

LEMMA NoneMid ==
  ASSUME ~MidTransition
  PROVE  /\ ~MidMonitor /\ ~MidCallback
         /\ \A a \in Apis : ~MidRequest(a)
         /\ \A w \in Runs : ~MidWorker(w)
BY DEF MidTransition, MidMonitor, MidCallback, MidRequest, MidWorker

\* The current run is alive exactly while the flag is up.
LEMMA AliveIsInflight ==
  ASSUME RunInv
  PROVE  /\ \A w \in Runs : Active(w) /\ Alive(w) => inflight
         /\ inflight => runId \in Runs /\ Alive(runId)
BY OwnerValue DEF RunInv, OwnerInflight, Active, Owner

LEMMA Names ==
  /\ ToCancel \subseteq ApiResets /\ Cancelled \subseteq ApiResets
  /\ ApiResets = ToCancel \cup Cancelled
  /\ \A s \in ApiSets : s \notin ApiResets /\ s # "idle"
  /\ \A s \in {"idle", "initCheck", "initStart", "rtStop", "rtCheck", "rtStart",
               "status", "stFetch", "rmStop"} : s \notin ApiResets /\ s \notin ApiSets
  /\ ApiSets = {"initSet", "rtSet", "rcSetupSet", "rcOperSet"}
BY DEF ToCancel, Cancelled, ApiResets, ApiSets

-----------------------------------------------------------------------------
(* The endpoints, by what their steps do to the onboarding.                 *)

LEMMA CanConnect == CanTransition(lifecycle, Connecting) => lifecycle = Unconfigured
BY DEF CanTransition, AllowedTransitions, Unconfigured, Connecting, Connected, CoreDiscovered,
       RegPending, PendingApproval, Trusted, CapSetup, CapInProgress, CapAccepted, CapRetry,
       Operational, Degraded

Steady == UNCHANGED <<lifecycle, monitor, mqtt>>
SameRun == UNCHANGED <<inflight, runId, pending>>

\* A step of a request is outside a reset, begins one, cancels the run, goes on
\* with a reset, or ends it.
LEMMA RequestCases ==
  ASSUME NEW a \in Apis, ApiStep(a)
  PROVE  /\ UNCHANGED <<proc, wpc>>
         /\ \E to \in ApiPcs :
              /\ api' = [api EXCEPT ![a] = to]
              /\ \/ /\ Steady /\ SameRun
                    /\ api[a] \notin ApiResets /\ to \notin ApiResets
                    /\ to \in {"initSet", "rtSet"} => lifecycle = Unconfigured
                 \/ /\ Steady /\ SameRun
                    /\ api[a] \notin ApiResets /\ to \in ToCancel
                    /\ runner' = "off" /\ mqtt = "idle"
                 \/ /\ Steady /\ UNCHANGED runner
                    /\ api[a] \in ToCancel /\ to \in Cancelled
                    /\ runId' = runId + 1 /\ inflight' = FALSE /\ pending' = None
                    /\ \E b \in BOOLEAN : CancelRun(b)
                 \/ /\ Steady /\ SameRun /\ UNCHANGED runner
                    /\ api[a] \in Cancelled /\ to \in Cancelled
                 \/ /\ SameRun /\ UNCHANGED <<monitor, mqtt, runner>>
                    /\ lifecycle' = Unconfigured
                    /\ api[a] \in Cancelled
                    /\ to \notin ApiResets /\ to \notin ApiSets
<1> USE DEF Move, Steady, SameRun
<1>1. UNCHANGED <<proc, wpc>>
  BY DEF ApiStep, life, worker
<1>2. CASE Initiate(a)
  BY <1>1, <1>2, ApiPcsMembers, CanConnect
     DEF Initiate, StoreConfig, TryConnecting, StartRunner, SwitchRunner, running, timer, boot,
         runtime, control, ApiResets, ToCancel, Cancelled
<1>3. CASE Restart(a)
  BY <1>1, <1>3, ApiPcsMembers
     DEF Restart, StoreConfig, SwitchRunner, CancelRun, ApiAssign, Assign, running, timer, boot,
         runtime, control, ApiResets, ApiSets, ToCancel, Cancelled
<1>4. CASE Retrust(a)
  <2> USE <1>1 DEF running, timer, boot, runtime, control, ApiResets, ApiSets, ToCancel, Cancelled
  <2>1. CASE Move(a, "idle", "rtStop") /\ UNCHANGED <<running, control, disk>>
    BY <2>1, ApiPcsMembers
  <2>2. CASE Move(a, "rtStop", "rtCancel") /\ SwitchRunner("off")
    BY <2>2, ApiPcsMembers DEF SwitchRunner
  <2>3. CASE Move(a, "rtCancel", "rtConfig") /\ CancelRun(TRUE)
    BY <2>3, ApiPcsMembers DEF CancelRun
  <2>4. CASE Move(a, "rtConfig", "rtTrust") /\ StoreConfig(TRUE)
    BY <2>4, ApiPcsMembers DEF StoreConfig
  <2>5. CASE Move(a, "rtTrust", "rtAccepted") /\ DeleteTrust
    BY <2>5, ApiPcsMembers DEF DeleteTrust
  <2>6. CASE Move(a, "rtAccepted", "rtReset") /\ ClearAccepted
    BY <2>6, ApiPcsMembers DEF ClearAccepted
  <2>7. CASE Move(a, "rtReset", "rtCheck") /\ ApiAssign(Unconfigured)
    BY <2>7, ApiPcsMembers DEF ApiAssign, Assign
  <2>8. CASE TryConnecting(a, "rtCheck", "rtSet")
    BY <2>8, ApiPcsMembers, CanConnect DEF TryConnecting
  <2>9. CASE Move(a, "rtStart", "idle") /\ StartRunner
    BY <2>9, ApiPcsMembers DEF StartRunner, SwitchRunner
  <2> QED BY <1>4, <2>1, <2>2, <2>3, <2>4, <2>5, <2>6, <2>7, <2>8, <2>9 DEF Retrust
<1>5. CASE Recover(a)
  BY <1>1, <1>5, ApiPcsMembers
     DEF Recover, running, timer, boot, runtime, ApiResets, ToCancel, Cancelled
<1>6. CASE Status(a)
  BY <1>1, <1>6, ApiPcsMembers
     DEF Status, running, timer, boot, runtime, ApiResets, ToCancel, Cancelled
<1>7. CASE Removal(a)
  BY <1>1, <1>7, ApiPcsMembers
     DEF Removal, StoreConfig, SwitchRunner, CancelRun, ApiAssign, Assign, DeleteTrust,
         ClearAccepted, running, timer, boot,
         runtime, control, ApiResets, ApiSets, ToCancel, Cancelled
<1> QED BY <1>2, <1>3, <1>4, <1>5, <1>6, <1>7 DEF ApiStep

-----------------------------------------------------------------------------
(* The workers, by what their steps do.                                     *)

\* Where a step of a worker may lead.
LEMMA WorkerCases ==
  ASSUME NEW w \in Runs, WorkerStep(w)
  PROVE  /\ UNCHANGED <<proc, lifecycle, monitor, mqtt, runner, api, runId>>
         /\ wpc[w] \notin {"none", "done"}
         /\ inflight' = (IF wpc[w] = "end" /\ Active(w) THEN FALSE ELSE inflight)
         /\ \/ pending' = pending
            \/ pending' = None
            \/ wpc[w] = "publish" /\ Active(w) /\ pending' = w
         /\ \E pc : /\ Goto(w, pc)
                    /\ pc \notin {"none", "start", "regSet", "clear"}
                    /\ pc \in {"register", "pendSet"} => Active(w)
                    /\ pc = "register" => wpc[w] = "start"
                    /\ wpc[w] \in {"start", "register", "regSet"} => pc = "register" \/ ~Active(w)
                    /\ pc = "end" /\ Active(w) =>
                          wpc[w] = "clear" \/ lifecycle \notin RegistrationStates
                    /\ pc = "done" => wpc[w] = "end"
<1> USE DEF common, runtime
<1>1. UNCHANGED <<proc, lifecycle, monitor, mqtt, runner, api>>
  BY DEF WorkerStep, life, timer, boot
<1>2. CASE Start(w)
  BY <1>1, <1>2 DEF Start
<1>3. CASE RegisterAnswer(w)
  BY <1>1, <1>3 DEF RegisterAnswer
<1>4. CASE Rotate(w)
  BY <1>1, <1>4 DEF Rotate
<1>5. CASE Adopt(w)
  BY <1>1, <1>5 DEF Adopt
<1>6. CASE Registered(w)
  BY <1>1, <1>6 DEF Registered, TryTransition
<1>7. CASE Publish(w)
  BY <1>1, <1>7 DEF Publish
<1>8. CASE Poll(w)
  BY <1>1, <1>8 DEF Poll
<1>9. CASE PollAnswer(w)
  BY <1>1, <1>9 DEF PollAnswer
<1>10. CASE Approve(w)
  BY <1>1, <1>10 DEF Approve
<1>11. CASE Save(w)
  BY <1>1, <1>11 DEF Save
<1>12. CASE ToTrusted(w)
  BY <1>1, <1>12 DEF ToTrusted, TryTransition
<1>13. CASE ToSetup(w)
  BY <1>1, <1>13 DEF ToSetup, TryTransition
<1>14. CASE ClearSession(w)
  BY <1>1, <1>14 DEF ClearSession
<1>15. CASE Fail(w)
  BY <1>1, <1>15 DEF Fail
<1>16. CASE End(w)
  BY <1>1, <1>16 DEF End
<1> QED BY <1>2, <1>3, <1>4, <1>5, <1>6, <1>7, <1>8, <1>9, <1>10, <1>11, <1>12, <1>13, <1>14,
           <1>15, <1>16 DEF WorkerStep

LEMMA CanRegister == CanTransition(lifecycle, RegPending) => lifecycle = CoreDiscovered
BY DEF CanTransition, AllowedTransitions, Unconfigured, Connecting, Connected, CoreDiscovered,
       RegPending, PendingApproval, Trusted, CapSetup, CapInProgress, CapAccepted, CapRetry,
       Operational, Degraded

\* A transition of a worker, or the test before the first one.
LEMMA TransitionCases ==
  ASSUME NEW w \in Runs, WorkerSet(w)
  PROVE  /\ UNCHANGED <<proc, monitor, mqtt, runner, api, runId, inflight, pending>>
         /\ \/ /\ wpc[w] = "register" /\ lifecycle' = lifecycle
               /\ \/ Goto(w, "regSet")
                  \/ Goto(w, "fail") /\ lifecycle # CoreDiscovered
            \/ wpc[w] = "regSet" /\ Goto(w, "post") /\ lifecycle' = RegPending
            \/ wpc[w] = "pendSet" /\ Goto(w, "publish") /\ lifecycle' = PendingApproval
            \/ /\ wpc[w] \in {"trustedSet", "setupSet", "degradeSet"}
               /\ lifecycle' \in {Trusted, CapSetup, Degraded}
               /\ \E pc \in {"toSetup", "clear", "end"} : Goto(w, pc)
<1>1. UNCHANGED <<proc, monitor, mqtt, runner, api, runId, inflight, pending>>
  BY DEF WorkerSet, Register, SetAndGo, common, runtime, life, boot
<1>2. CASE Register(w)
  <2>1. CanTransition(CoreDiscovered, RegPending)
    BY DEF CanTransition, AllowedTransitions
  <2>2. wpc[w] = "register"
    BY <1>2 DEF Register
  <2>3. lifecycle' = lifecycle
    BY <2>2 DEF WorkerSet, SetAndGo
  <2> QED BY <1>1, <1>2, <2>1, <2>2, <2>3, CanRegister DEF Register, TryTransition
<1>3. CASE SetAndGo(w, "regSet", RegPending, "post")
  BY <1>1, <1>3 DEF SetAndGo, Assign
<1>4. CASE SetAndGo(w, "pendSet", PendingApproval, "publish")
  BY <1>1, <1>4 DEF SetAndGo, Assign
<1>5. CASE \/ SetAndGo(w, "trustedSet", Trusted, "toSetup")
           \/ SetAndGo(w, "setupSet", CapSetup, "clear")
           \/ SetAndGo(w, "degradeSet", Degraded, "end")
  BY <1>1, <1>5 DEF SetAndGo, Assign
<1> QED BY <1>2, <1>3, <1>4, <1>5 DEF WorkerSet

-----------------------------------------------------------------------------
(* Each step keeps Serial.                                                  *)

\* Which states count as early, and which wait for the registration.
LEMMA StatesApart ==
  /\ {Unconfigured, Connecting, Connected} = Early
  /\ CoreDiscovered \notin Early
  /\ RegistrationStates = {CoreDiscovered, RegPending, PendingApproval}
  /\ \A s \in {RegPending, PendingApproval} : s \notin Early /\ s # CoreDiscovered
  /\ \A s \in {Trusted, CapSetup, Operational, Degraded} :
        s \notin Early /\ s \notin RegistrationStates
  /\ \A s \in Early : s \notin RegistrationStates
BY DEF Early, RegistrationStates, Unconfigured, Connecting, Connected, CoreDiscovered,
       RegPending, PendingApproval, Trusted, CapSetup, Operational, Degraded

Serially == UNCHANGED <<proc, lifecycle, monitor, runner, mqtt, inflight, runId, pending, api,
                        wpc>>

\* Serial speaks of these variables only.
LEMMA SerialStutter == ASSUME Serial, Serially PROVE Serial'
BY DEF Serial, Serially, OneMid, Tested, NoThreads, Stopped, Shown, RunPast, Driven, InReset,
       MidMonitor, MidCallback, MidRequest, MidWorker, Active, Alive

LEMMA SerialInit == Init => Serial
<1> SUFFICES ASSUME Init PROVE Serial
  OBVIOUS
<1>1. /\ monitor = "wait" /\ mqtt = "idle" /\ pending = None /\ inflight = FALSE
      /\ lifecycle = Unconfigured
      /\ \A a \in Apis : api[a] = "idle"
      /\ \A w \in Runs : wpc[w] = "none"
  BY DEF Init
<1>2. OneMid
  BY <1>1, Names DEF OneMid, MidMonitor, MidCallback, MidRequest, MidWorker, WorkerSets
<1>3. Tested /\ NoThreads
  BY <1>1 DEF Tested, NoThreads
<1>4. Stopped
  BY <1>1, Names DEF Stopped
<1>5. Shown /\ RunPast /\ Driven
  BY <1>1, StatesApart DEF Shown, RunPast, Driven, Alive
<1> QED BY <1>2, <1>3, <1>4, <1>5 DEF Serial

\* A process starts with no thread and no run.
LEMMA SerialBoot == ASSUME Serial, Boot PROVE Serial'
<1>1. /\ monitor' = "wait" /\ mqtt' = "idle" /\ pending' = None /\ inflight' = inflight
      /\ ~inflight
      /\ \A a \in Apis : api'[a] = "idle"
      /\ \A w \in Runs : wpc'[w] = "none"
  BY DEF Boot, Serial, NoThreads, runtime, worker
<1>2. lifecycle' \in {Unconfigured, CapSetup, Operational, Connecting}
      /\ (proc' # "up" => lifecycle' = Unconfigured)
  BY DEF Boot, Assign, Serial, NoThreads
<1>3. OneMid'
  BY <1>1, Names DEF OneMid, MidMonitor, MidCallback, MidRequest, MidWorker, WorkerSets
<1>4. Tested' /\ NoThreads'
  BY <1>1, <1>2 DEF Tested, NoThreads
<1>5. Stopped'
  BY <1>1, Names DEF Stopped
<1>6. Shown' /\ RunPast'
  BY <1>1 DEF Shown, RunPast, Alive
<1>7. Driven'
  BY <1>2, StatesApart DEF Driven
<1> QED BY <1>3, <1>4, <1>5, <1>6, <1>7 DEF Serial

LEMMA SerialCrash == ASSUME Crash PROVE Serial'
<1>1. /\ monitor' = "wait" /\ mqtt' = "idle" /\ pending' = None /\ inflight' = FALSE
      /\ lifecycle' = Unconfigured
      /\ \A a \in Apis : api'[a] = "idle"
      /\ \A w \in Runs : wpc'[w] = "none"
  BY DEF Crash
<1>2. OneMid'
  BY <1>1, Names DEF OneMid, MidMonitor, MidCallback, MidRequest, MidWorker, WorkerSets
<1>3. Tested' /\ NoThreads'
  BY <1>1 DEF Tested, NoThreads
<1>4. Stopped'
  BY <1>1, Names DEF Stopped
<1>5. Shown' /\ RunPast' /\ Driven'
  BY <1>1, StatesApart DEF Shown, RunPast, Driven, Alive
<1> QED BY <1>2, <1>3, <1>4, <1>5 DEF Serial

\* The monitor and the clock, up to the monitor's transition.
LEMMA SerialTimer ==
  ASSUME Serial, ~MidTransition, proc = "up",
         Tick \/ MonitorRead \/ MonitorTest \/ MonitorClear
  PROVE  Serial'
<1>1. UNCHANGED <<proc, lifecycle, runner, mqtt, inflight, runId, pending, api, wpc>>
  BY DEF Tick, MonitorRead, MonitorTest, MonitorClear, life, boot, runtime, worker
<1>2. monitor' = "set" => lifecycle = Connecting
  BY NoneMid DEF Tick, MonitorRead, MonitorTest, MonitorClear, MidMonitor
<1>3. OneMid'
  BY <1>1, NoneMid DEF OneMid, MidMonitor, MidCallback, MidRequest, MidWorker
<1>4. Tested' /\ NoThreads'
  BY <1>1, <1>2 DEF Serial, Tested, NoThreads, Active
<1>5. Stopped' /\ Shown' /\ RunPast' /\ Driven'
  BY <1>1 DEF Serial, Stopped, Shown, RunPast, Driven, InReset, Active, Alive
<1> QED BY <1>3, <1>4, <1>5 DEF Serial

\* A thread other than a request or a worker assigns an early state, or
\* core_discovered while it goes on to start the run.
LEMMA SerialEarly ==
  ASSUME Serial, proc = "up", MonitorSet \/ ConnectedSet \/ DiscoveredSet
  PROVE  Serial'
<1>1. UNCHANGED <<proc, runner, inflight, runId, pending, api, wpc>>
  BY DEF MonitorSet, ConnectedSet, DiscoveredSet, life, boot, runtime, worker
<1>2. /\ \A a \in Apis : ~MidRequest(a)
      /\ \A w \in Runs : ~MidWorker(w)
  BY DEF MonitorSet, ConnectedSet, DiscoveredSet, Serial, OneMid, MidMonitor, MidCallback
<1>3. monitor' # "set" /\ mqtt' \notin {"connectedSet", "discoveredSet"}
  BY DEF MonitorSet, ConnectedSet, DiscoveredSet, Serial, OneMid, MidMonitor, MidCallback, boot
<1>4. lifecycle \in Early
  BY DEF MonitorSet, ConnectedSet, DiscoveredSet, Serial, Tested, Early
<1>5. \/ lifecycle' \in Early /\ mqtt' \in {mqtt, "idle"}
      \/ /\ lifecycle' = CoreDiscovered /\ mqtt' = "notify"
         /\ \A a \in Apis : api[a] \notin ApiResets
  BY DEF MonitorSet, ConnectedSet, DiscoveredSet, Assign, boot, Early, Serial, Stopped
<1>6. pending = None /\ \A w \in Runs : ~(Active(w) /\ Alive(w))
  BY <1>4 DEF Serial, Shown, RunPast
<1>7. OneMid'
  BY <1>1, <1>2, <1>3 DEF OneMid, MidMonitor, MidCallback, MidRequest, MidWorker
<1>8. Tested'
  BY <1>1, <1>2, <1>3, Names DEF Tested, MidRequest, MidWorker, WorkerSets
<1>9. NoThreads' /\ Shown' /\ RunPast'
  BY <1>1, <1>6 DEF NoThreads, Shown, RunPast, Active, Alive
<1>10. Stopped'
  BY <1>1, <1>5 DEF Serial, Stopped
<1>11. Driven'
  BY <1>5, StatesApart DEF Driven
<1> QED BY <1>7, <1>8, <1>9, <1>10, <1>11 DEF Serial

\* The callbacks up to their transition: the broker is listened to, so no
\* endpoint is resetting the node.
LEMMA SerialCallback ==
  ASSUME Serial, ~MidTransition, proc = "up", OnConnect \/ OnMessage
  PROVE  Serial'
<1>1. UNCHANGED <<proc, lifecycle, monitor, inflight, runId, pending, api, wpc>>
  BY DEF OnConnect, OnMessage, life, timer, runtime, worker
<1>2. /\ mqtt = "idle"
      /\ \A a \in Apis : api[a] \notin ApiResets
      /\ mqtt' = "connectedSet" => lifecycle = Connecting
      /\ mqtt' = "discoveredSet" => lifecycle = Connected
  BY DEF OnConnect, OnMessage, Serial, Stopped
<1>3. OneMid'
  BY <1>1, NoneMid DEF OneMid, MidMonitor, MidCallback, MidRequest, MidWorker
<1>4. Tested' /\ NoThreads'
  BY <1>1, <1>2 DEF Serial, Tested, NoThreads, Active
<1>5. Stopped'
  BY <1>1, <1>2, Names DEF Stopped
<1>6. Shown' /\ RunPast'
  BY <1>1 DEF Serial, Shown, RunPast, Active, Alive
<1>7. Driven'
  BY <1>1, <1>2 DEF Serial, Driven, InReset
<1> QED BY <1>3, <1>4, <1>5, <1>6, <1>7 DEF Serial

\* on_core_discovered starts a run, or finds one in progress.
LEMMA SerialDiscovered ==
  ASSUME RunInv, Serial, ~MidTransition, proc = "up", OnCoreDiscovered
  PROVE  Serial'
<1>1. UNCHANGED <<proc, lifecycle, monitor, runner, pending, api>>
  BY DEF OnCoreDiscovered, life, timer
<1>2. mqtt = "notify" /\ mqtt' = "idle" /\ \A a \in Apis : api[a] \notin ApiResets
  BY DEF OnCoreDiscovered, Serial, Stopped
<1>3. CASE inflight \/ lifecycle # CoreDiscovered
  <2>1. UNCHANGED <<inflight, runId, wpc>>
    BY <1>3 DEF OnCoreDiscovered
  <2>2. OneMid'
    BY <1>1, <1>2, <2>1, NoneMid DEF OneMid, MidMonitor, MidCallback, MidRequest, MidWorker
  <2>3. Tested' /\ NoThreads'
    BY <1>1, <1>2, <2>1 DEF Serial, Tested, NoThreads, Active
  <2>4. Stopped' /\ Shown' /\ RunPast'
    BY <1>1, <1>2, <2>1 DEF Serial, Stopped, Shown, RunPast, Active, Alive
  <2>5. Driven'
    BY <1>1, <1>2, <1>3, <2>1 DEF Serial, Driven, InReset
  <2> QED BY <2>2, <2>3, <2>4, <2>5 DEF Serial
<1>4. CASE ~inflight /\ lifecycle = CoreDiscovered
  <2>1. /\ runId < MaxRuns /\ inflight' = TRUE /\ runId' = runId + 1
        /\ wpc' = [wpc EXCEPT ![runId + 1] = "start"]
    BY <1>4 DEF OnCoreDiscovered
  <2>2. runId + 1 \in Runs /\ wpc \in [Runs -> WorkerPcs] /\ runId \in Nat
    BY <2>1, Bounds DEF RunInv, TypeInv, TypeOK, RunTypeOK, PcTypeOK
  <2>3. \A w \in Runs : wpc'[w] = IF w = runId + 1 THEN "start" ELSE wpc[w]
    BY <2>1, <2>2
  <2>4. pending = None
    BY <1>4 DEF Serial, Shown
  <2>5. \A w \in Runs : ~(MidWorker(w)') /\ wpc'[w] \notin {"register", "regSet", "pendSet"}
    BY <2>3, NoneMid DEF MidWorker, WorkerSets
  <2>6. OneMid'
    BY <1>1, <1>2, <2>5, NoneMid DEF OneMid, MidMonitor, MidCallback, MidRequest
  <2>7. Tested' /\ NoThreads'
    BY <1>1, <1>2, <2>5 DEF Serial, Tested, NoThreads
  <2>8. Stopped' /\ Shown'
    BY <1>1, <1>2, <2>4, Names DEF Stopped, Shown
  <2>9. RunPast'
    BY <1>1, <1>4, <2>1, <2>3, StatesApart DEF RunPast, Active
  <2>10. Driven'
    BY <2>1 DEF Driven
  <2> QED BY <2>6, <2>7, <2>8, <2>9, <2>10 DEF Serial
<1> QED BY <1>3, <1>4

\* The transition of an endpoint: nothing else is inside one, and where it
\* starts onboarding no run is current.
LEMMA SerialApiSet ==
  ASSUME Serial, OneRequest, proc = "up", NEW a \in Apis, ApiSet(a),
         api \in [Apis -> ApiPcs]
  PROVE  Serial'
<1>1. UNCHANGED <<proc, monitor, runner, mqtt, inflight, runId, pending, wpc>>
  BY DEF ApiSet, ApiAssign, life, worker, boot, runtime
<1>2. \A b \in Apis : b = a
  BY DEF OneRequest
<1>3. MidRequest(a) /\ api'[a] \in {"initStart", "rtStart", "idle"}
  BY Names DEF ApiSet, Move, MidRequest
<1>4. ~MidMonitor /\ ~MidCallback /\ \A w \in Runs : ~MidWorker(w)
  BY <1>3 DEF Serial, OneMid
<1>5. \/ lifecycle = Unconfigured /\ lifecycle' = Connecting
      \/ lifecycle' \in {CapSetup, Operational}
  BY DEF ApiSet, ApiAssign, Assign, Move, Serial, Tested
<1>6. OneMid'
  BY <1>1, <1>2, <1>3, <1>4, Names DEF OneMid, MidMonitor, MidCallback, MidRequest, MidWorker
<1>7. Tested'
  BY <1>1, <1>2, <1>3, <1>4 DEF Tested, MidMonitor, MidCallback, MidWorker, WorkerSets
<1>8. NoThreads'
  BY <1>1 DEF NoThreads
<1>9. Stopped'
  BY <1>2, <1>3, Names DEF Stopped
<1>10. Shown'
  BY <1>1, <1>5, StatesApart DEF Serial, Shown
<1>11. RunPast'
  BY <1>1, <1>5, StatesApart DEF Serial, RunPast, Active, Alive
<1>12. Driven'
  BY <1>5, StatesApart DEF Driven
<1> QED BY <1>6, <1>7, <1>8, <1>9, <1>10, <1>11, <1>12 DEF Serial

\* Any other step of an endpoint.  Only the one that cancels the run changes
\* the run, and the reset of the lifecycle comes after it.
LEMMA SerialApiStep ==
  ASSUME RunInv, Serial, OneRequest, ~MidTransition, proc = "up", NEW a \in Apis, ApiStep(a)
  PROVE  Serial'
<1> DEFINE From == api[a]
<1>1. PICK to \in ApiPcs :
        /\ api' = [api EXCEPT ![a] = to]
        /\ \/ /\ Steady /\ SameRun
              /\ From \notin ApiResets /\ to \notin ApiResets
              /\ to \in {"initSet", "rtSet"} => lifecycle = Unconfigured
           \/ /\ Steady /\ SameRun
              /\ From \notin ApiResets /\ to \in ToCancel
              /\ runner' = "off" /\ mqtt = "idle"
           \/ /\ Steady /\ UNCHANGED runner
              /\ From \in ToCancel /\ to \in Cancelled
              /\ runId' = runId + 1 /\ inflight' = FALSE /\ pending' = None
              /\ \E b \in BOOLEAN : CancelRun(b)
           \/ /\ Steady /\ SameRun /\ UNCHANGED runner
              /\ From \in Cancelled /\ to \in Cancelled
           \/ /\ SameRun /\ UNCHANGED <<monitor, mqtt, runner>>
              /\ lifecycle' = Unconfigured
              /\ From \in Cancelled
              /\ to \notin ApiResets /\ to \notin ApiSets
  BY RequestCases
<1>2. UNCHANGED <<proc, wpc>>
  BY RequestCases
<1>3. /\ \A b \in Apis : b = a
      /\ api'[a] = to
  BY <1>1 DEF OneRequest, RunInv, TypeInv, TypeOK, PcTypeOK
<1>4. UNCHANGED <<monitor, mqtt>>
  BY <1>1 DEF Steady
<1>5. OneMid'
  BY <1>2, <1>4, NoneMid DEF OneMid, MidMonitor, MidCallback, MidRequest, MidWorker
<1>6. NoThreads'
  BY <1>2 DEF NoThreads
<1>7. Tested'
  <2>1. \A w \in Runs : wpc'[w] \notin {"register", "regSet", "pendSet"}
    BY <1>2, NoneMid DEF MidWorker, WorkerSets
  <2>2. monitor' # "set" /\ mqtt' \notin {"connectedSet", "discoveredSet"}
    BY <1>4, NoneMid DEF MidMonitor, MidCallback
  <2>3. to \in {"initSet", "rtSet"} => lifecycle' = Unconfigured
    BY <1>1, Names DEF Steady
  <2> QED BY <1>3, <2>1, <2>2, <2>3 DEF Tested
<1>8. Stopped'
  <2>1. From \in ApiResets => runner = "off" /\ mqtt = "idle"
    BY DEF Serial, Stopped
  <2>2. From \in Cancelled => pending = None /\ ~inflight
    BY DEF Serial, Stopped
  <2>3. to \in ApiResets => runner' = "off" /\ mqtt' = "idle"
    BY <1>1, <1>4, <2>1, Names
  <2>4. to \in Cancelled => pending' = None /\ ~inflight'
    <3>1. \A s \in ToCancel : s \notin Cancelled
      BY DEF Cancelled
    <3> QED BY <1>1, <2>2, <3>1, Names DEF SameRun
  <2> QED BY <1>3, <2>3, <2>4 DEF Stopped
<1>9. From \in ApiResets => InReset
  BY DEF InReset
<1>10. InReset => From \in ApiResets
  BY <1>3 DEF InReset
<1>11. to \in ApiResets => InReset'
  BY <1>3 DEF InReset
<1>12. CASE Steady /\ SameRun /\ (From \in ApiResets => to \in ApiResets)
  <2>1. Shown' /\ RunPast'
    BY <1>2, <1>12 DEF Serial, Shown, RunPast, Active, Alive, Steady, SameRun
  <2>2. Driven'
    BY <1>10, <1>11, <1>12 DEF Serial, Driven, Steady, SameRun
  <2> QED BY <1>5, <1>6, <1>7, <1>8, <2>1, <2>2 DEF Serial
<1>13. CASE /\ Steady /\ to \in Cancelled
            /\ runId' = runId + 1 /\ pending' = None
            /\ \E b \in BOOLEAN : CancelRun(b)
  <2>1. wpc'[runId + 1] = "none"
    BY <1>2, <1>13, Bounds DEF CancelRun, RunInv, TypeInv, TypeOK, RunTypeOK, FreshRuns
  <2>2. Shown' /\ RunPast'
    BY <1>13, <2>1 DEF Shown, RunPast, Active, Alive
  <2>3. Driven'
    BY <1>11, <1>13, Names DEF Driven
  <2> QED BY <1>5, <1>6, <1>7, <1>8, <2>2, <2>3 DEF Serial
<1>14. CASE SameRun /\ lifecycle' = Unconfigured /\ From \in Cancelled
  <2>1. pending = None /\ ~inflight
    BY <1>14 DEF Serial, Stopped
  <2>2. \A w \in Runs : ~(Active(w) /\ Alive(w))
    BY <2>1, AliveIsInflight
  <2>3. Shown' /\ RunPast'
    BY <1>2, <1>14, <2>1, <2>2 DEF Shown, RunPast, Active, Alive, SameRun
  <2>4. Driven'
    BY <1>14, StatesApart DEF Driven
  <2> QED BY <1>5, <1>6, <1>7, <1>8, <2>3, <2>4 DEF Serial
<1> QED BY <1>1, <1>12, <1>13, <1>14, Names

\* A step of a worker outside its transitions.  A worker of a late run changes
\* nothing that the current run rests on.
LEMMA SerialWorkerStep ==
  ASSUME RunInv, Serial, ~MidTransition, proc = "up", NEW w \in Runs, WorkerStep(w)
  PROVE  Serial'
<1>1. UNCHANGED <<proc, lifecycle, monitor, mqtt, runner, api, runId>>
  BY WorkerCases
<1>2. PICK pc :
        /\ Goto(w, pc)
        /\ pc \notin {"none", "start", "regSet", "clear"}
        /\ pc \in {"register", "pendSet"} => Active(w)
        /\ pc = "register" => wpc[w] = "start"
        /\ wpc[w] \in {"start", "register", "regSet"} => pc = "register" \/ ~Active(w)
        /\ pc = "end" /\ Active(w) => wpc[w] = "clear" \/ lifecycle \notin RegistrationStates
        /\ pc = "done" => wpc[w] = "end"
  BY WorkerCases
<1>3. wpc'[w] = pc /\ \A v \in Runs \ {w} : wpc'[v] = wpc[v]
  BY <1>2 DEF Goto, RunInv, TypeInv, TypeOK, PcTypeOK
<1>4. Alive(w)
  BY WorkerCases DEF Alive
<1>5. Active(w) => inflight /\ lifecycle \notin Early
  BY <1>4, AliveIsInflight DEF Serial, RunPast
<1>6. OneMid'
  BY <1>1, <1>3, NoneMid DEF OneMid, MidMonitor, MidCallback, MidRequest, MidWorker
<1>7. Tested'
  <2>1. \A v \in Runs : wpc'[v] \in {"register", "regSet", "pendSet"} => Active(v)
    BY <1>2, <1>3 DEF Serial, Tested
  <2> QED BY <1>1, <2>1 DEF Serial, Tested, Active
<1>8. NoThreads'
  BY <1>1 DEF NoThreads
<1>9. /\ inflight' = (IF wpc[w] = "end" /\ Active(w) THEN FALSE ELSE inflight)
      /\ \/ pending' = pending
         \/ pending' = None
         \/ wpc[w] = "publish" /\ Active(w) /\ pending' = w
  BY WorkerCases
<1>10. Stopped'
  BY <1>1, <1>5, <1>9 DEF Serial, Stopped
<1>11. Shown'
  BY <1>1, <1>5, <1>9, <1>4 DEF Serial, Shown, RunPast, Active
<1>12. RunPast'
  <2>1. ASSUME Active(w)
        PROVE  /\ pc \notin {"start", "register", "regSet"} => lifecycle # CoreDiscovered
               /\ pc \in {"end", "clear"} => lifecycle \notin RegistrationStates
    BY <1>2, <1>4, <2>1 DEF Serial, RunPast
  <2>2. \A v \in Runs \ {w} : Active(v)' /\ Alive(v)' => Active(v) /\ Alive(v)
    BY <1>1, <1>3 DEF Active, Alive
  <2> QED BY <1>1, <1>3, <1>5, <2>1, <2>2 DEF Serial, RunPast, Active
<1>13. Driven'
  <2>1. CASE wpc[w] = "end" /\ Active(w)
    BY <1>1, <1>4, <2>1, StatesApart DEF Serial, RunPast, Driven
  <2>2. CASE ~(wpc[w] = "end" /\ Active(w))
    BY <1>1, <1>9, <2>2 DEF Serial, Driven, InReset
  <2> QED BY <2>1, <2>2
<1> QED BY <1>6, <1>7, <1>8, <1>10, <1>11, <1>12, <1>13 DEF Serial

\* A transition of a worker.  The two that wait for Core are made by the
\* current run only; the others leave the states that wait.
LEMMA SerialWorkerSet ==
  ASSUME RunInv, Serial, proc = "up", NEW w \in Runs, WorkerSet(w)
  PROVE  Serial'
<1>1. UNCHANGED <<proc, monitor, mqtt, runner, api, runId, inflight, pending>>
  BY TransitionCases
<1>2. PICK pc :
        /\ Goto(w, pc) /\ pc \notin {"none", "start", "register", "pendSet"}
        /\ \/ /\ wpc[w] = "register" /\ lifecycle' = lifecycle
              /\ pc = "regSet" \/ (pc = "fail" /\ lifecycle # CoreDiscovered)
           \/ wpc[w] = "regSet" /\ pc = "post" /\ lifecycle' = RegPending
           \/ wpc[w] = "pendSet" /\ pc = "publish" /\ lifecycle' = PendingApproval
           \/ /\ wpc[w] \in {"trustedSet", "setupSet", "degradeSet"}
              /\ lifecycle' \in {Trusted, CapSetup, Degraded}
              /\ pc \in {"toSetup", "clear", "end"}
  <2>1. CASE wpc[w] = "register" /\ lifecycle' = lifecycle /\ Goto(w, "regSet")
    BY <2>1
  <2>2. CASE /\ wpc[w] = "register" /\ lifecycle' = lifecycle
             /\ Goto(w, "fail") /\ lifecycle # CoreDiscovered
    BY <2>2
  <2>3. CASE wpc[w] = "regSet" /\ Goto(w, "post") /\ lifecycle' = RegPending
    BY <2>3
  <2>4. CASE wpc[w] = "pendSet" /\ Goto(w, "publish") /\ lifecycle' = PendingApproval
    BY <2>4
  <2>5. CASE /\ wpc[w] \in {"trustedSet", "setupSet", "degradeSet"}
             /\ lifecycle' \in {Trusted, CapSetup, Degraded}
             /\ \E pc \in {"toSetup", "clear", "end"} : Goto(w, pc)
    BY <2>5
  <2> QED BY <2>1, <2>2, <2>3, <2>4, <2>5, TransitionCases
<1>3. wpc'[w] = pc /\ \A v \in Runs \ {w} : wpc'[v] = wpc[v]
  BY <1>2 DEF Goto, RunInv, TypeInv, TypeOK, PcTypeOK
<1>4. MidWorker(w) /\ Alive(w)
  BY <1>2 DEF MidWorker, WorkerSets, Alive
<1>5. /\ ~MidMonitor /\ ~MidCallback
      /\ \A a \in Apis : ~MidRequest(a)
      /\ \A v \in Runs \ {w} : ~MidWorker(v)
  BY <1>4 DEF Serial, OneMid
<1>6. wpc[w] \in {"register", "regSet", "pendSet"} => Active(w)
  BY DEF Serial, Tested
<1>7. Active(w) => inflight
  BY <1>4, AliveIsInflight
<1>8. OneMid'
  BY <1>1, <1>3, <1>5 DEF OneMid, MidMonitor, MidCallback, MidRequest, MidWorker
<1>9. Tested'
  <2>1. \A v \in Runs \ {w} : wpc[v] \notin {"register", "regSet", "pendSet"}
    BY <1>5 DEF MidWorker, WorkerSets
  <2>2. \A a \in Apis : api[a] \notin {"initSet", "rtSet"}
    BY <1>5 DEF MidRequest, ApiSets
  <2>3. pc = "regSet" => Active(w)
    BY <1>2, <1>6
  <2> QED BY <1>1, <1>2, <1>3, <1>5, <2>1, <2>2, <2>3
          DEF Tested, MidMonitor, MidCallback, Active
<1>10. NoThreads' /\ Stopped'
  BY <1>1 DEF Serial, NoThreads, Stopped
<1>11. lifecycle' = lifecycle \/ lifecycle' \notin Early \cup {CoreDiscovered}
  BY <1>2, StatesApart
<1>12. Shown'
  BY <1>1, <1>11 DEF Serial, Shown
<1>13. RunPast'
  <2>1. ASSUME Active(w)
        PROVE  /\ lifecycle' \notin Early
               /\ pc \notin {"start", "register", "regSet"} => lifecycle' # CoreDiscovered
               /\ pc \in {"end", "clear"} => lifecycle' \notin RegistrationStates
    <3>1. lifecycle' \notin Early
      BY <1>4, <1>11, <2>1 DEF Serial, RunPast
    <3>2. pc \notin {"start", "register", "regSet"} => lifecycle' # CoreDiscovered
      BY <1>2, StatesApart
    <3>3. pc \in {"end", "clear"} => lifecycle' \notin RegistrationStates
      BY <1>2, StatesApart
    <3> QED BY <3>1, <3>2, <3>3
  <2>2. \A v \in Runs \ {w} : Active(v)' => ~Active(w)
    BY <1>1 DEF Active
  <2>3. ASSUME NEW v \in Runs \ {w}, Active(v)', Alive(v)'
        PROVE  /\ lifecycle' \notin Early
               /\ wpc'[v] \notin {"start", "register", "regSet"} => lifecycle' # CoreDiscovered
               /\ wpc'[v] \in {"end", "clear"} => lifecycle' \notin RegistrationStates
    <3>1. Active(v) /\ Alive(v) /\ wpc'[v] = wpc[v]
      BY <1>1, <1>3, <2>3 DEF Active, Alive
    <3>2. \/ lifecycle' = lifecycle
          \/ lifecycle' \in {Trusted, CapSetup, Degraded}
      BY <1>2, <1>6, <2>2, <2>3
    <3> QED BY <3>1, <3>2, StatesApart DEF Serial, RunPast
  <2> QED BY <1>1, <1>3, <2>1, <2>3 DEF RunPast, Active
<1>14. Driven'
  <2>1. CASE lifecycle' = lifecycle
    BY <1>1, <2>1 DEF Serial, Driven, InReset
  <2>2. CASE lifecycle' \in {RegPending, PendingApproval} /\ Active(w)
    BY <1>1, <1>7, <2>2, StatesApart DEF Driven
  <2>3. CASE lifecycle' \in {Trusted, CapSetup, Degraded}
    BY <2>3, StatesApart DEF Driven
  <2> QED BY <1>2, <1>6, <2>1, <2>2, <2>3
<1> QED BY <1>8, <1>9, <1>10, <1>12, <1>13, <1>14 DEF Serial

LEMMA SerialNext ==
  ASSUME ~PreemptTransition, OneRequest, RunInv, Serial, [Next]_vars
  PROVE  Serial'
<1>1. CASE Next
  <2>1. api \in [Apis -> ApiPcs]
    BY DEF RunInv, TypeInv, TypeOK, PcTypeOK
  <2> QED BY <1>1, <2>1, SerialCases, SerialBoot, SerialCrash, SerialTimer, SerialEarly,
             SerialCallback, SerialDiscovered, SerialApiSet, SerialApiStep, SerialWorkerStep,
             SerialWorkerSet
<1>2. CASE UNCHANGED vars
  <2>1. Serially
    BY <1>2 DEF Serially, vars, life, timer, boot, runtime, worker
  <2> QED BY <2>1, SerialStutter
<1> QED BY <1>1, <1>2

LEMMA SerialInvariant ==
  ASSUME ~PreemptTransition, OneRequest
  PROVE  Spec => []Serial
BY RunInvariant, SerialInit, SerialNext, PTL DEF Spec

\* With one request at a time, and no thread switch between the test and the
\* assignment of a transition, the session shown to the operator is the one
\* of the current run (_publish_pending_session, cancel).
THEOREM SessionIsCurrent ==
  ASSUME ~PreemptTransition, OneRequest
  PROVE  Spec => []PendingIsCurrentSession
<1>1. Serial => PendingIsCurrentSession
  BY DEF Serial, Shown, PendingIsCurrentSession
<1> QED BY <1>1, SerialInvariant, PTL

\* Under the same conditions a node that waits for its registration has a run
\* that goes on, or is about to get one, or is being reset.
THEOREM RegistrationGoesOn ==
  ASSUME ~PreemptTransition, OneRequest
  PROVE  Spec => []RegistrationIsDriven
<1>1. Serial => RegistrationIsDriven
  BY StatesApart DEF Serial, Driven, InReset, RegistrationIsDriven
<1> QED BY <1>1, SerialInvariant, PTL

=============================================================================
