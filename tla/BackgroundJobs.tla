---------------------------- MODULE BackgroundJobs ----------------------------
(***************************************************************************)
(* The internal scheduler with two of its jobs: the benchmark's rotation   *)
(* (module LocalBenchmark), and the heartbeat that keeps the supervisor of *)
(* the host informed of this node.                                         *)
(*                                                                         *)
(* A loop for each job sleeps, runs it, notes how it ended and sleeps      *)
(* again, until the scheduler stops with the process.  A job waits for     *)
(* threads and subprocesses, and so do the others meanwhile.  What is      *)
(* noted of a job (its status, times, counts and errors, persisted at      *)
(* every change) is shown only, and left out.                              *)
(***************************************************************************)
EXTENDS LocalBenchmark

CONSTANTS
    NodeIds,        \* identities the node may get
    MaxStarts,      \* bound: starts of the process
    MaxOutages      \* bound: times the supervisor goes down

Jobs == {"benchmark", "supervisor"}

ASSUME JobsAssumption ==
    MaxStarts \in Nat /\ MaxOutages \in Nat /\ None \notin NodeIds

VARIABLES
    process,      \* "down", "starting" or "up"
    starts,
    loop,         \* the loop of each job
    node,         \* the identity of the node, or None
    registered,   \* whether the node takes itself as registered
    beat,         \* what the heartbeat job waits for
    payload,      \* the identity it sends
    supervisor    \* the supervisor: is it up, the identities it knows

schedule == <<process, starts, loop>>
heartbeat == <<node, registered, beat, payload, supervisor>>
vars == <<benchmark, schedule, heartbeat>>

---------------------------------------------------------------------------
(* The loops.                                                              *)

\* A job begins: its loop was asleep.
Wakes(j) ==
    /\ process = "up" /\ loop[j] = "sleeping"
    /\ loop' = [loop EXCEPT ![j] = "job"]
    /\ UNCHANGED <<process, starts>>

\* Fault: an exception ends the loop.
Sleeps_Dies(j, raised) ==
    /\ loop' = [loop EXCEPT ![j] = IF raised THEN "none" ELSE "sleeping"]
    /\ UNCHANGED <<process, starts>>

\* A job returned or raised: its loop notes which, and sleeps all the same.
Sleeps(j, raised) ==
    /\ loop' = [loop EXCEPT ![j] = "sleeping"]
    /\ UNCHANGED <<process, starts>>

---------------------------------------------------------------------------
(* The benchmark job.                                                      *)

BenchmarkBegins ==
    /\ Wakes("benchmark") /\ Rotate("job")
    /\ UNCHANGED <<captured, capturing, row, runs, rotated, calls, heartbeat>>

BenchmarkReturns == runner'["job"].at = "no"

Loaded ==
    /\ SwapEnds("job")
    /\ IF BenchmarkReturns THEN Sleeps("benchmark", FALSE) ELSE UNCHANGED schedule
    /\ UNCHANGED heartbeat
NotLoaded ==
    /\ SwapFails("job") /\ Sleeps("benchmark", TRUE)
    /\ UNCHANGED heartbeat
Replayed ==
    /\ Executed("job")
    /\ IF BenchmarkReturns THEN Sleeps("benchmark", FALSE) ELSE UNCHANGED schedule
    /\ UNCHANGED heartbeat

Interrupted ==
    /\ StoreFails("job") /\ Sleeps("benchmark", TRUE)
    /\ UNCHANGED heartbeat

\* What changes the benchmark outside of the job.
Elsewhere ==
    /\ process = "up"
    /\ \/ Capture \/ SetCapture \/ CycleCalled \/ LoadedCalled
       \/ SwapEnds("endpoint") \/ SwapFails("endpoint") \/ Executed("endpoint")
       \/ StoreFails("endpoint")
    /\ UNCHANGED <<schedule, heartbeat>>

---------------------------------------------------------------------------
(* The heartbeat of the supervisor.                                        *)

\* The payload has the identity the node has now.  Without one the job returns at once, and
\* leaves everything as it was.
HeartbeatBegins ==
    /\ node # None
    /\ Wakes("supervisor") /\ beat = "no" /\ beat' = "health" /\ payload' = node
    /\ UNCHANGED <<benchmark, node, registered, supervisor>>

\* The job returns, and says whether the node is registered: it never raises.
HeartbeatEnds(known) ==
    /\ beat' = "no" /\ payload' = None /\ registered' = known
    /\ Sleeps("supervisor", FALSE)
    /\ UNCHANGED <<benchmark, node>>

Healthy ==
    /\ beat = "health" /\ supervisor.up
    /\ beat' = IF registered THEN "heartbeat" ELSE "register"
    /\ UNCHANGED <<benchmark, schedule, node, registered, payload, supervisor>>
\* Not reached, not ready, or too late.
Unhealthy ==
    /\ beat = "health" /\ HeartbeatEnds(FALSE)
    /\ UNCHANGED supervisor

Registration == [supervisor EXCEPT !.knows = @ \cup {payload}]
Registers ==
    /\ beat = "register" /\ supervisor.up
    /\ supervisor' = Registration
    /\ registered' = TRUE /\ beat' = "heartbeat"
    /\ UNCHANGED <<benchmark, schedule, node, payload>>
\* The supervisor after a request whose answer is lost: with or without what a
\* registration asked for.
Unanswered ==
    {supervisor} \cup (IF beat = "register" /\ supervisor.up THEN {Registration} ELSE {})
NotRegistered ==
    /\ beat = "register" /\ HeartbeatEnds(FALSE)
    /\ supervisor' \in Unanswered

Accepted ==
    /\ beat = "heartbeat" /\ supervisor.up /\ payload \in supervisor.knows
    /\ HeartbeatEnds(registered)
    /\ UNCHANGED supervisor
\* Fault: refused, the node still takes itself as registered.
Refused_Keeps ==
    /\ beat = "heartbeat" /\ HeartbeatEnds(TRUE)
    /\ UNCHANGED supervisor

\* Refused (a supervisor that started since does not know the node), or lost.
Refused ==
    /\ beat = "heartbeat" /\ HeartbeatEnds(FALSE)
    /\ UNCHANGED supervisor

\* It keeps what it knows in memory.
SupervisorStops ==
    /\ supervisor.up /\ supervisor.outages < MaxOutages
    /\ supervisor' = [up |-> FALSE, knows |-> {}, outages |-> supervisor.outages + 1]
    /\ UNCHANGED <<benchmark, schedule, node, registered, beat, payload>>
SupervisorStarts ==
    /\ ~supervisor.up /\ supervisor' = [supervisor EXCEPT !.up = TRUE]
    /\ UNCHANGED <<benchmark, schedule, node, registered, beat, payload>>

---------------------------------------------------------------------------
(* The identity: an onboarding may change it, and a node that was removed   *)
(* from Core forgets it.  Neither touches what the heartbeat has noted.     *)

Named(i) ==
    /\ process # "down" /\ node # i /\ node' = i
    /\ UNCHANGED <<benchmark, schedule, registered, beat, payload, supervisor>>
Removed ==
    /\ process # "down" /\ node # None /\ node' = None
    /\ UNCHANGED <<benchmark, schedule, registered, beat, payload, supervisor>>

---------------------------------------------------------------------------
(* The process.                                                            *)

\* The jobs are registered, with what was persisted of them; a node without an identity
\* makes one.
Starts ==
    /\ process = "down" /\ starts < MaxStarts
    /\ process' = "starting" /\ starts' = starts + 1
    /\ registered' = FALSE
    /\ node' \in IF node = None THEN NodeIds ELSE {node}
    /\ UNCHANGED <<benchmark, loop, beat, payload, supervisor>>

\* After the first provider refresh, whatever comes of it, the loops begin.
JobsStart ==
    /\ process = "starting" /\ process' = "up"
    /\ loop' = [j \in Jobs |-> "sleeping"]
    /\ UNCHANGED <<benchmark, starts, heartbeat>>

\* Fault: the loops are forgotten, what they started goes on.
Gone_Detached ==
    /\ process # "down" /\ process' = "down"
    /\ loop' = [j \in Jobs |-> "none"]
    /\ UNCHANGED <<benchmark, starts, heartbeat>>

\* The process ends: it stops (stop_all cancels the loops where they wait), or dies.  A
\* request that was sent may still reach the supervisor.
Gone ==
    /\ process # "down"
    /\ process' = "down" /\ loop' = [j \in Jobs |-> "none"]
    /\ runner' = [w \in Runners |-> Resting] /\ beat' = "no" /\ payload' = None
    /\ supervisor' \in Unanswered
    /\ UNCHANGED <<captured, capturing, row, runs, rotated, calls,
                   starts, node, registered>>

---------------------------------------------------------------------------
Init ==
    /\ BenchmarkInit
    /\ process = "down" /\ starts = 0
    /\ loop = [j \in Jobs |-> "none"]
    /\ node = None /\ registered = FALSE /\ beat = "no" /\ payload = None
    /\ supervisor = [up |-> FALSE, knows |-> {}, outages |-> 0]

Benchmark ==
    BenchmarkBegins \/ Loaded \/ NotLoaded \/ Replayed \/ Interrupted
Heartbeat ==
    \/ HeartbeatBegins \/ Healthy \/ Unhealthy \/ Registers \/ NotRegistered
    \/ Accepted \/ Refused

Next ==
    \/ Benchmark \/ Heartbeat \/ Elsewhere
    \/ SupervisorStops \/ SupervisorStarts
    \/ (\E i \in NodeIds : Named(i)) \/ Removed
    \/ Starts \/ JobsStart \/ Gone

Spec == Init /\ [][Next]_vars

\* Loops wake, and what a job waits for answers or times out (the client of the supervisor
\* and the script have timeouts, the adapter's requests too).  A supervisor that is up
\* answers some time; of the loads of a model nothing of the kind is assumed.
FairSpec ==
    /\ Spec
    /\ WF_vars(JobsStart)
    /\ WF_vars(Benchmark) /\ WF_vars(Heartbeat)
    /\ SF_vars(Healthy) /\ SF_vars(Registers)

---------------------------------------------------------------------------
(* Properties.                                                             *)

\* What waits is what a loop is at.
TypeOK ==
    /\ BenchmarkTypeOK
    /\ loop["benchmark"] = "job" <=> runner["job"].at # "no"
    /\ loop["supervisor"] = "job" <=> beat # "no"
    /\ process \in {"down", "starting", "up"} /\ starts \in 0 .. MaxStarts
    /\ loop \in [Jobs -> {"none", "sleeping", "job"}]
    /\ node \in NodeIds \cup {None} /\ registered \in BOOLEAN
    /\ beat \in {"no", "health", "register", "heartbeat"} /\ payload \in NodeIds \cup {None}
    /\ supervisor \in [up : BOOLEAN, knows : SUBSET NodeIds, outages : 0 .. MaxOutages]

JobFails == NotLoaded \/ Interrupted
Endpoint == CycleCalled \/ LoadedCalled

\* If from some time on the job's runs do not fail and the endpoints are not called, every
\* captured execution is in the end replayed on every local model, while the process stays
\* up: runs that failed before, calls that overlapped the job, and a model loaded from
\* outside the rotation leave no row behind and no model out.  (A model that never loads
\* stays the next one, and the rows of the others wait.)
PendingIsReplayed ==
    <>[][~ (JobFails \/ Endpoint)]_vars =>
        \A r \in Records, m \in LocalModels :
            row[r][m] = "pending" ~> row[r][m] # "pending" \/ process # "up"

\* A supervisor that stays up knows the node in the end, by the identity the node keeps:
\* however often it was started again, losing what it knew, between two heartbeats, and
\* though the identity changed while the node took itself as registered or a heartbeat was
\* under way.
SupervisorKnowsNode ==
    \A i \in NodeIds :
        <>[](supervisor.up /\ process = "up" /\ node = i) => <>[](i \in supervisor.knows)
=============================================================================
