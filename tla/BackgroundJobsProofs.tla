------------------------- MODULE BackgroundJobsProofs -------------------------
(***************************************************************************)
(* Theorems about the scheduler's jobs and the local benchmark, for any    *)
(* rotation and any number of records, calls, starts and outages.          *)
(***************************************************************************)
EXTENDS BackgroundJobs, Sums

---------------------------------------------------------------------------
(* The oldest pending row, and the next model.                              *)

LEMMA ClaimableIsPending ==
  ASSUME NEW table, NEW m, Pending(table, m) # {}
  PROVE  Claimable(table, m) \in Records /\ table[Claimable(table, m)][m] = "pending"
<1>1. Pending(table, m) \in SUBSET Nat
  BY BenchmarkAssumption DEF Pending, Records, BenchmarkAssumption
<1>2. Claimable(table, m) \in Pending(table, m)
  BY <1>1, LeastExists DEF Claimable, Min
<1> QED BY <1>2 DEF Pending

LEMMA RotationNames ==
  /\ Len(Rotation) \in Nat \ {0}
  /\ \A i \in 1..Len(Rotation) : Rotation[i] \in LocalModels
  /\ \A m \in LocalModels : \E i \in 1..Len(Rotation) : Rotation[i] = m
  /\ DOMAIN Rotation = 1..Len(Rotation)
<1>1. Rotation \in Seq(LocalModels) /\ Rotation # <<>>
  BY BenchmarkAssumption DEF BenchmarkAssumption, LocalModels
<1>2. DOMAIN Rotation = 1..Len(Rotation) /\ Len(Rotation) \in Nat
  BY <1>1
<1>3. Len(Rotation) # 0
  BY <1>1
<1> QED BY <1>1, <1>2, <1>3 DEF LocalModels, Range

LEMMA NextModelIsLocal == NextModel \in LocalModels
<1> DEFINE at == IF rotated \in LocalModels
                 THEN CHOOSE i \in DOMAIN Rotation : Rotation[i] = rotated ELSE 0
<1>1. at \in Nat
  BY RotationNames
<1>2. (at % Len(Rotation)) + 1 \in 1..Len(Rotation)
  <2> HIDE DEF at
  <2>1. \A n \in Nat \ {0} : at % n \in 0..(n - 1)
    BY <1>1
  <2> QED BY <2>1, RotationNames
<1> HIDE DEF at
<1>3. Rotation[(at % Len(Rotation)) + 1] \in LocalModels
  BY <1>2, RotationNames
<1> QED BY <1>3 DEF NextModel, at

---------------------------------------------------------------------------
(* The inductive invariant.                                                 *)

\* A row that nobody claimed yet has not run; what is not captured yet has no row.
Claims(table, count, upto) ==
    \A r \in Records, m \in LocalModels :
        /\ count[r][m] <= 1
        /\ table[r][m] \in {None, "pending"} => count[r][m] = 0
        /\ r > upto => table[r][m] = None

\* Who executes has claimed a captured row of a local model.
RunnersSound ==
    \A w \in Runners :
        /\ runner[w].at # "no" => runner[w].model \in LocalModels
        /\ runner[w].at = "executing" => runner[w].record \in 1..captured

BenchmarkInv == BenchmarkTypeOK /\ RunnersSound /\ Claims(row, runs, captured)

\* Without a running process no loop runs.
LoopsOnlyUp == process # "up" => \A j \in Jobs : loop[j] = "none"

\* A heartbeat under way sends an identity.
BeatHasPayload == beat # "no" => payload # None

IInv == TypeOK /\ BenchmarkInv /\ LoopsOnlyUp /\ BeatHasPayload

---------------------------------------------------------------------------
(* The benchmark.                                                           *)

LEMMA RestingType ==
  Resting \in [at : {"no", "swapping", "executing"}, model : LocalModels \cup {None},
               record : Records \cup {0}, left : 0 .. Limit]
BY BenchmarkAssumption DEF Resting, BenchmarkAssumption

LEMMA BenchmarkStarts == BenchmarkInit => BenchmarkInv
<1> SUFFICES ASSUME BenchmarkInit PROVE BenchmarkInv
  OBVIOUS
<1>1. BenchmarkTypeOK
  BY BenchmarkAssumption, RestingType
     DEF BenchmarkInit, BenchmarkTypeOK, BenchmarkAssumption, Statuses
<1>2. RunnersSound
  BY DEF BenchmarkInit, RunnersSound, Resting
<1>3. Claims(row, runs, captured)
  BY DEF BenchmarkInit, Claims
<1> QED BY <1>1, <1>2, <1>3 DEF BenchmarkInv

\* A worker that goes on with a table of rows that agrees with the history claims a row
\* nobody claimed before, or rests.
LEMMA GoOnKeeps ==
  ASSUME BenchmarkInv, NEW w \in Runners, NEW m \in LocalModels, NEW left \in 0..Limit,
         NEW table \in [Records -> [LocalModels -> Statuses]],
         Claims(table, runs, captured), GoOn(w, m, left, table),
         UNCHANGED <<captured, capturing>>, calls' \in 0..MaxCalls
  PROVE  BenchmarkInv'
<1>1. CASE left > 0 /\ Pending(table, m) # {}
  <2> DEFINE r == Claimable(table, m)
  <2>1. r \in Records /\ table[r][m] = "pending"
    BY <1>1, ClaimableIsPending
  <2>2. r \in 1..captured
    BY <2>1 DEF Claims, Records, BenchmarkInv, BenchmarkTypeOK, None
  <2> HIDE DEF r
  <2>3. /\ row' = [table EXCEPT ![r][m] = "running"]
        /\ runs' = [runs EXCEPT ![r][m] = @ + 1]
        /\ runner' = [runner EXCEPT ![w] = [at |-> "executing", model |-> m,
                                            record |-> r, left |-> left - 1]]
        /\ rotated' = rotated
    BY <1>1 DEF GoOn, AfterClaim, r
  <2>4. left - 1 \in 0..Limit
    BY <1>1, BenchmarkAssumption DEF BenchmarkAssumption
  <2>5. BenchmarkTypeOK'
    <3>1. row' \in [Records -> [LocalModels -> Statuses]]
      BY <2>1, <2>3 DEF Statuses
    <3>2. runs' \in [Records -> [LocalModels -> Nat]]
      BY <2>1, <2>3 DEF BenchmarkInv, BenchmarkTypeOK
    <3> QED
      BY <2>1, <2>3, <2>4, <3>1, <3>2 DEF BenchmarkInv, BenchmarkTypeOK
  <2>6. RunnersSound'
    BY <2>2, <2>3 DEF BenchmarkInv, RunnersSound, BenchmarkTypeOK
  <2>7. Claims(row, runs, captured)'
    <3> SUFFICES ASSUME NEW q \in Records, NEW n \in LocalModels
                 PROVE  /\ runs'[q][n] <= 1
                        /\ row'[q][n] \in {None, "pending"} => runs'[q][n] = 0
                        /\ q > captured => row'[q][n] = None
      BY DEF Claims
    <3>1. CASE q = r /\ n = m
      <4>1. row'[q][n] = "running" /\ runs'[q][n] = runs[r][m] + 1
        BY <2>1, <2>3, <3>1 DEF BenchmarkInv, BenchmarkTypeOK
      <4>2. runs[r][m] = 0
        BY <2>1 DEF Claims
      <4>3. ~ (q > captured)
        BY <2>2, <3>1 DEF BenchmarkInv, BenchmarkTypeOK
      <4> QED BY <4>1, <4>2, <4>3 DEF None
    <3>2. CASE ~ (q = r /\ n = m)
      <4>1. row'[q][n] = table[q][n] /\ runs'[q][n] = runs[q][n]
        BY <2>1, <2>3, <3>2 DEF BenchmarkInv, BenchmarkTypeOK
      <4> QED BY <4>1 DEF Claims
    <3> QED BY <3>1, <3>2
  <2> QED BY <2>5, <2>6, <2>7 DEF BenchmarkInv
<1>2. CASE ~ (left > 0 /\ Pending(table, m) # {})
  <2>1. /\ row' = table /\ rotated' = m /\ runs' = runs
        /\ runner' = [runner EXCEPT ![w] = Resting]
    BY <1>2 DEF GoOn
  <2>2. BenchmarkTypeOK'
    BY <2>1, RestingType DEF BenchmarkInv, BenchmarkTypeOK
  <2>3. RunnersSound'
    BY <2>1 DEF BenchmarkInv, RunnersSound, BenchmarkTypeOK, Resting
  <2> QED BY <2>1, <2>2, <2>3 DEF BenchmarkInv
<1> QED BY <1>1, <1>2

LEMMA SwapEndsKeeps ==
  ASSUME BenchmarkInv, NEW w \in Runners, SwapEnds(w) PROVE BenchmarkInv'
<1>1. runner[w].model \in LocalModels
  BY DEF SwapEnds, BenchmarkInv, RunnersSound
<1>2. Limit \in 0..Limit
  BY BenchmarkAssumption DEF BenchmarkAssumption
<1>3. calls' \in 0..MaxCalls /\ row \in [Records -> [LocalModels -> Statuses]]
  BY DEF SwapEnds, BenchmarkInv, BenchmarkTypeOK
<1> QED BY <1>1, <1>2, <1>3, GoOnKeeps DEF SwapEnds, BenchmarkInv

LEMMA SwapFailsKeeps ==
  ASSUME BenchmarkInv, NEW w \in Runners, SwapFails(w) PROVE BenchmarkInv'
<1>1. runner[w].model \in LocalModels
  BY DEF SwapFails, BenchmarkInv, RunnersSound
<1>2. BenchmarkTypeOK'
  BY <1>1, RestingType DEF SwapFails, BenchmarkInv, BenchmarkTypeOK
<1>3. RunnersSound'
  BY DEF SwapFails, BenchmarkInv, RunnersSound, BenchmarkTypeOK, Resting
<1> QED BY <1>2, <1>3 DEF SwapFails, BenchmarkInv

LEMMA ExecutedKeeps ==
  ASSUME BenchmarkInv, NEW w \in Runners, Executed(w) PROVE BenchmarkInv'
<1> DEFINE m == runner[w].model
           r == runner[w].record
<1>1. m \in LocalModels /\ r \in 1..captured /\ r \in Records
  BY DEF Executed, BenchmarkInv, RunnersSound, BenchmarkTypeOK, Records
<1>2. runner[w].left \in 0..Limit
  BY DEF BenchmarkInv, BenchmarkTypeOK
<1> DEFINE table == [row EXCEPT ![r][m] = "done"]
<1>3. GoOn(w, m, runner[w].left, table)
  BY DEF Executed
<1>4. /\ table \in [Records -> [LocalModels -> Statuses]]
      /\ table[r][m] = "done"
      /\ \A q \in Records, n \in LocalModels :
            ~ (q = r /\ n = m) => table[q][n] = row[q][n]
  BY <1>1 DEF BenchmarkInv, BenchmarkTypeOK, Statuses
<1> HIDE DEF m, r
<1>5. Claims(table, runs, captured)
  <2> SUFFICES ASSUME NEW q \in Records, NEW n \in LocalModels
               PROVE  /\ runs[q][n] <= 1
                      /\ table[q][n] \in {None, "pending"} => runs[q][n] = 0
                      /\ q > captured => table[q][n] = None
    BY DEF Claims
  <2>1. CASE q = r /\ n = m
    BY <1>1, <1>4, <2>1 DEF BenchmarkInv, Claims, None, BenchmarkTypeOK
  <2>2. CASE ~ (q = r /\ n = m)
    BY <1>4, <2>2 DEF BenchmarkInv, Claims
  <2> QED BY <2>1, <2>2
<1>6. calls' \in 0..MaxCalls
  BY DEF Executed, BenchmarkInv, BenchmarkTypeOK
<1> HIDE DEF table
<1> QED BY <1>1, <1>2, <1>3, <1>4, <1>5, <1>6, GoOnKeeps DEF Executed

LEMMA StoreFailsKeeps ==
  ASSUME BenchmarkInv, NEW w \in Runners, StoreFails(w) PROVE BenchmarkInv'
<1>1. /\ runner' = [runner EXCEPT ![w] = Resting] /\ rotated' \in LocalModels \cup {None}
      /\ UNCHANGED <<captured, capturing, runs, calls>>
  BY DEF StoreFails, BenchmarkInv, BenchmarkTypeOK
<1>2. RunnersSound'
  BY <1>1 DEF BenchmarkInv, RunnersSound, BenchmarkTypeOK, Resting
<1>3. CASE row' = row
  BY <1>1, <1>2, <1>3, RestingType DEF BenchmarkInv, BenchmarkTypeOK, Claims
<1>4. CASE row' # row
  <2> DEFINE m == runner[w].model
             r == runner[w].record
  <2>1. runner[w].at = "executing"
    BY <1>4 DEF StoreFails
  <2>2. m \in LocalModels /\ r \in 1..captured /\ r \in Records
    BY <2>1 DEF BenchmarkInv, RunnersSound, BenchmarkTypeOK, Records
  <2>3. PICK status \in {"running", "done"} : row' = [row EXCEPT ![r][m] = status]
    BY <1>4 DEF StoreFails
  <2> HIDE DEF m, r
  <2>4. /\ row' \in [Records -> [LocalModels -> Statuses]]
        /\ row'[r][m] = status
        /\ \A q \in Records, n \in LocalModels :
              ~ (q = r /\ n = m) => row'[q][n] = row[q][n]
    BY <2>2, <2>3 DEF BenchmarkInv, BenchmarkTypeOK, Statuses
  <2>5. Claims(row, runs, captured)'
    <3> SUFFICES ASSUME NEW q \in Records, NEW n \in LocalModels
                 PROVE  /\ runs[q][n] <= 1
                        /\ row'[q][n] \in {None, "pending"} => runs[q][n] = 0
                        /\ q > captured => row'[q][n] = None
      BY <1>1 DEF Claims
    <3>1. CASE q = r /\ n = m
      BY <2>2, <2>4, <3>1 DEF BenchmarkInv, Claims, None, BenchmarkTypeOK
    <3>2. CASE ~ (q = r /\ n = m)
      BY <2>4, <3>2 DEF BenchmarkInv, Claims
    <3> QED BY <3>1, <3>2
  <2>6. BenchmarkTypeOK'
    BY <1>1, <2>4, RestingType DEF BenchmarkInv, BenchmarkTypeOK
  <2> QED BY <1>2, <2>5, <2>6 DEF BenchmarkInv
<1> QED BY <1>3, <1>4

LEMMA RotateKeeps ==
  ASSUME BenchmarkInv, NEW w \in Runners, Rotate(w),
         UNCHANGED <<captured, capturing, row, runs, rotated>>,
         calls' \in 0..MaxCalls
  PROVE  BenchmarkInv'
<1>1. /\ NextModel \in LocalModels
      /\ runner' = [runner EXCEPT ![w] = [Resting EXCEPT !.at = "swapping",
                                                         !.model = NextModel]]
  BY NextModelIsLocal DEF Rotate
<1>2. BenchmarkTypeOK'
  BY <1>1, RestingType DEF BenchmarkInv, BenchmarkTypeOK
<1>3. RunnersSound'
  BY <1>1 DEF BenchmarkInv, BenchmarkTypeOK, RunnersSound, Resting
<1> QED BY <1>2, <1>3 DEF BenchmarkInv

LEMMA LoadedCalledKeeps == ASSUME BenchmarkInv, LoadedCalled PROVE BenchmarkInv'
<1>1. "endpoint" \in Runners
  BY DEF Runners
<1>3. Limit \in 0..Limit
  BY BenchmarkAssumption DEF BenchmarkAssumption
<1>4. /\ calls' \in 0..MaxCalls
      /\ row \in [Records -> [LocalModels -> Statuses]]
      /\ UNCHANGED <<captured, capturing>>
  BY BenchmarkAssumption
     DEF LoadedCalled, RunLoaded, BenchmarkInv, BenchmarkTypeOK, BenchmarkAssumption
<1>2. ASSUME NEW m \in LocalModels, GoOn("endpoint", m, Limit, row) PROVE BenchmarkInv'
  BY <1>1, <1>2, <1>3, <1>4, GoOnKeeps DEF BenchmarkInv
<1>5. CASE rotated' = None /\ UNCHANGED <<row, runs, runner>>
  BY <1>4, <1>5 DEF BenchmarkInv, BenchmarkTypeOK, RunnersSound, Claims
<1> QED BY <1>2, <1>5 DEF LoadedCalled, RunLoaded

LEMMA CaptureKeeps == ASSUME BenchmarkInv, Capture PROVE BenchmarkInv'
<1>1. captured + 1 \in Records /\ captured' = captured + 1 /\ captured' \in 0..MaxRecords
  BY BenchmarkAssumption
     DEF Capture, BenchmarkInv, BenchmarkTypeOK, Records, BenchmarkAssumption
<1>2. BenchmarkTypeOK'
  BY <1>1 DEF Capture, BenchmarkInv, BenchmarkTypeOK, Statuses
<1>3. RunnersSound'
  BY <1>1 DEF Capture, BenchmarkInv, BenchmarkTypeOK, RunnersSound
<1>4. Claims(row, runs, captured)'
  <2> SUFFICES ASSUME NEW q \in Records, NEW n \in LocalModels
               PROVE  /\ runs'[q][n] <= 1
                      /\ row'[q][n] \in {None, "pending"} => runs'[q][n] = 0
                      /\ q > captured' => row'[q][n] = None
    BY DEF Claims
  <2>0. runs' = runs
    BY DEF Capture
  <2>1. CASE q = captured + 1
    <3>1. row[q][n] = None
      BY <2>1 DEF BenchmarkInv, BenchmarkTypeOK, Claims
    <3>2. runs[q][n] = 0
      BY <3>1 DEF BenchmarkInv, Claims
    <3> QED BY <1>1, <2>0, <2>1, <3>2 DEF BenchmarkInv, BenchmarkTypeOK
  <2>2. CASE q # captured + 1
    <3>1. row'[q][n] = row[q][n]
      BY <2>2 DEF Capture, BenchmarkInv, BenchmarkTypeOK
    <3> QED
      BY <1>1, <2>0, <3>1, <2>2 DEF BenchmarkInv, BenchmarkTypeOK, Claims, Records
  <2> QED BY <2>1, <2>2
<1> QED BY <1>2, <1>3, <1>4 DEF BenchmarkInv

LEMMA ElsewhereKeeps == ASSUME BenchmarkInv, Elsewhere PROVE BenchmarkInv'
<1> "endpoint" \in Runners
  BY DEF Runners
<1>1. CASE Capture
  BY <1>1, CaptureKeeps
<1>2. CASE SetCapture
  BY <1>2 DEF SetCapture, BenchmarkInv, BenchmarkTypeOK, RunnersSound, Claims
<1>3. CASE CycleCalled
  <2>1. calls' \in 0..MaxCalls
    BY <1>3, BenchmarkAssumption
       DEF CycleCalled, BenchmarkInv, BenchmarkTypeOK, BenchmarkAssumption
  <2> QED BY <1>3, <2>1, RotateKeeps DEF CycleCalled
<1>4. CASE LoadedCalled
  BY <1>4, LoadedCalledKeeps
<1>5. CASE SwapEnds("endpoint")
  BY <1>5, SwapEndsKeeps
<1>6. CASE SwapFails("endpoint")
  BY <1>6, SwapFailsKeeps
<1>7. CASE Executed("endpoint")
  BY <1>7, ExecutedKeeps
<1>8. CASE StoreFails("endpoint")
  BY <1>8, StoreFailsKeeps
<1> QED BY <1>1, <1>2, <1>3, <1>4, <1>5, <1>6, <1>7, <1>8 DEF Elsewhere

---------------------------------------------------------------------------
(* The scheduler.                                                           *)

\* The part of the type invariant that is about the scheduler and the heartbeat.
SchedulerTypeOK ==
    /\ loop["benchmark"] = "job" <=> runner["job"].at # "no"
    /\ loop["supervisor"] = "job" <=> beat # "no"
    /\ process \in {"down", "starting", "up"} /\ starts \in 0 .. MaxStarts
    /\ loop \in [Jobs -> {"none", "sleeping", "job"}]
    /\ node \in NodeIds \cup {None} /\ registered \in BOOLEAN
    /\ beat \in {"no", "health", "register", "heartbeat"} /\ payload \in NodeIds \cup {None}
    /\ supervisor \in [up : BOOLEAN, knows : SUBSET NodeIds, outages : 0 .. MaxOutages]

JInv == SchedulerTypeOK /\ LoopsOnlyUp /\ BeatHasPayload

LEMMA SameScheduler == ASSUME JInv, UNCHANGED <<schedule, heartbeat, runner["job"]>> PROVE JInv'
BY DEF JInv, SchedulerTypeOK, LoopsOnlyUp, BeatHasPayload, schedule, heartbeat

LEMMA SchedulerStarts == Init => JInv
<1> SUFFICES ASSUME Init PROVE JInv
  OBVIOUS
<1>1. starts \in 0..MaxStarts /\ supervisor.outages \in 0..MaxOutages
  BY JobsAssumption DEF Init, JobsAssumption
<1> QED
  BY <1>1 DEF Init, BenchmarkInit, JInv, SchedulerTypeOK, LoopsOnlyUp, BeatHasPayload, Jobs,
                Runners, Resting

LEMMA SchedulerBenchmark == ASSUME TypeOK, JInv, Benchmark PROVE JInv'
<1> USE DEF JInv, SchedulerTypeOK, LoopsOnlyUp, BeatHasPayload, Jobs, heartbeat
<1> "job" \in Runners
  BY DEF Runners
<1>0. runner \in [Runners -> [at : {"no", "swapping", "executing"},
                              model : LocalModels \cup {None},
                              record : Records \cup {0}, left : 0 .. Limit]]
  BY DEF TypeOK, BenchmarkTypeOK
<1>1. CASE BenchmarkBegins
  BY <1>0, <1>1 DEF BenchmarkBegins, Wakes, Rotate, Resting
<1>2. CASE Loaded
  <2>1. runner["job"].at = "swapping" /\ runner'["job"].at \in {"no", "executing"}
    BY <1>0, <1>2 DEF Loaded, SwapEnds, GoOn, Resting
  <2>0. process = "up"
    BY <2>1
  <2>2. CASE BenchmarkReturns
    BY <1>2, <2>0, <2>1, <2>2 DEF Loaded, BenchmarkReturns, Sleeps
  <2>3. CASE ~ BenchmarkReturns
    BY <1>2, <2>1, <2>3 DEF Loaded, BenchmarkReturns, schedule
  <2> QED BY <2>2, <2>3
<1>3. CASE NotLoaded
  BY <1>0, <1>3 DEF NotLoaded, SwapFails, Sleeps, Resting
<1>4. CASE Replayed
  <2>1. runner["job"].at = "executing" /\ runner'["job"].at \in {"no", "executing"}
    BY <1>0, <1>4 DEF Replayed, Executed, GoOn, Resting
  <2>0. process = "up"
    BY <2>1
  <2>2. CASE BenchmarkReturns
    BY <1>4, <2>0, <2>1, <2>2 DEF Replayed, BenchmarkReturns, Sleeps
  <2>3. CASE ~ BenchmarkReturns
    BY <1>4, <2>1, <2>3 DEF Replayed, BenchmarkReturns, schedule
  <2> QED BY <2>2, <2>3
<1>5. CASE Interrupted
  BY <1>0, <1>5 DEF Interrupted, StoreFails, Sleeps, Resting
<1> QED BY <1>1, <1>2, <1>3, <1>4, <1>5 DEF Benchmark

\* What a lost registration leaves of the supervisor.
LEMMA UnansweredType ==
  ASSUME JInv, NEW s \in Unanswered
  PROVE  s \in [up : BOOLEAN, knows : SUBSET NodeIds, outages : 0 .. MaxOutages]
<1>1. supervisor \in [up : BOOLEAN, knows : SUBSET NodeIds, outages : 0 .. MaxOutages]
  BY DEF JInv, SchedulerTypeOK
<1>2. CASE s = supervisor
  BY <1>1, <1>2
<1>3. CASE beat = "register" /\ s = Registration
  BY <1>1, <1>3 DEF JInv, SchedulerTypeOK, BeatHasPayload, Registration
<1> QED BY <1>2, <1>3 DEF Unanswered

LEMMA SchedulerHeartbeat == ASSUME JInv, Heartbeat PROVE JInv'
<1> USE DEF JInv, SchedulerTypeOK, LoopsOnlyUp, BeatHasPayload, Jobs, benchmark
<1>1. CASE HeartbeatBegins
  BY <1>1 DEF HeartbeatBegins, Wakes
<1>2. CASE Healthy
  BY <1>2 DEF Healthy, schedule
<1>3. CASE Unhealthy
  BY <1>3 DEF Unhealthy, HeartbeatEnds, Sleeps
<1>4. CASE Registers
  BY <1>4 DEF Registers, Registration, schedule
<1>5. CASE NotRegistered
  BY <1>5, UnansweredType DEF NotRegistered, HeartbeatEnds, Sleeps
<1>6. CASE Accepted
  BY <1>6 DEF Accepted, HeartbeatEnds, Sleeps
<1>7. CASE Refused
  BY <1>7 DEF Refused, HeartbeatEnds, Sleeps
<1> QED BY <1>1, <1>2, <1>3, <1>4, <1>5, <1>6, <1>7 DEF Heartbeat

LEMMA SchedulerElsewhere == ASSUME TypeOK, JInv, Elsewhere PROVE JInv'
<1>1. runner \in [Runners -> [at : {"no", "swapping", "executing"},
                              model : LocalModels \cup {None},
                              record : Records \cup {0}, left : 0 .. Limit]]
  BY DEF TypeOK, BenchmarkTypeOK
<1>2. "job" \in Runners /\ "job" # "endpoint"
  BY DEF Runners
<1>3. runner'["job"] = runner["job"]
  BY <1>1, <1>2
     DEF Elsewhere, Capture, SetCapture, CycleCalled, Rotate, LoadedCalled, RunLoaded,
         SwapEnds, SwapFails, StoreFails, Executed, GoOn
<1> QED BY <1>3, SameScheduler DEF Elsewhere

LEMMA SchedulerProcess ==
  ASSUME JInv, \/ SupervisorStops \/ SupervisorStarts \/ Starts \/ JobsStart \/ Gone
               \/ (\E i \in NodeIds : Named(i)) \/ Removed
  PROVE  JInv'
<1> USE JobsAssumption DEF JInv, SchedulerTypeOK, LoopsOnlyUp, BeatHasPayload, Jobs, Runners, benchmark,
                           JobsAssumption
<1>1. CASE SupervisorStops
  BY <1>1 DEF SupervisorStops, schedule
<1>2. CASE SupervisorStarts
  BY <1>2 DEF SupervisorStarts, schedule
<1>3. CASE Starts
  <2>1. starts' \in 0..MaxStarts
    BY <1>3 DEF Starts
  <2>2. LoopsOnlyUp'
    BY <1>3 DEF Starts
  <2> QED BY <1>3, <2>1, <2>2 DEF Starts
<1>4. CASE JobsStart
  BY <1>4 DEF JobsStart, heartbeat
<1>5. CASE Gone
  BY <1>5, UnansweredType DEF Gone, Resting
<1>6. CASE (\E i \in NodeIds : Named(i)) \/ Removed
  BY <1>6 DEF Named, Removed, schedule
<1> QED BY <1>1, <1>2, <1>3, <1>4, <1>5, <1>6

---------------------------------------------------------------------------
(* The theorems.                                                            *)

LEMMA GoneKeeps == ASSUME BenchmarkInv, Gone PROVE BenchmarkInv'
BY RestingType
   DEF BenchmarkInv, Gone, BenchmarkTypeOK, RunnersSound, Claims, Resting

LEMMA BenchmarkUnchanged == ASSUME BenchmarkInv, UNCHANGED benchmark PROVE BenchmarkInv'
BY DEF BenchmarkInv, benchmark, BenchmarkTypeOK, RunnersSound, Claims

LEMMA BenchmarkNext == ASSUME BenchmarkInv, Next PROVE BenchmarkInv'
<1> "job" \in Runners
  BY DEF Runners
<1>1. CASE Benchmark
  <2>1. CASE BenchmarkBegins
    <3>1. calls' \in 0..MaxCalls
      BY <2>1 DEF BenchmarkBegins, BenchmarkInv, BenchmarkTypeOK
    <3> QED BY <2>1, <3>1, RotateKeeps DEF BenchmarkBegins
  <2>2. CASE Loaded
    BY <2>2, SwapEndsKeeps DEF Loaded
  <2>3. CASE NotLoaded
    BY <2>3, SwapFailsKeeps DEF NotLoaded
  <2>4. CASE Replayed
    BY <2>4, ExecutedKeeps DEF Replayed
  <2>5. CASE Interrupted
    BY <2>5, StoreFailsKeeps DEF Interrupted
  <2> QED BY <1>1, <2>1, <2>2, <2>3, <2>4, <2>5 DEF Benchmark
<1>2. CASE Heartbeat
  <2>1. UNCHANGED benchmark
    BY <1>2 DEF Heartbeat, HeartbeatBegins, Healthy, Unhealthy, Registers, NotRegistered,
                Accepted, Refused, HeartbeatEnds
  <2> QED BY <2>1, BenchmarkUnchanged
<1>3. CASE Elsewhere
  BY <1>3, ElsewhereKeeps
<1>4. CASE \/ SupervisorStops \/ SupervisorStarts \/ Starts \/ JobsStart
           \/ (\E i \in NodeIds : Named(i)) \/ Removed
  BY <1>4, BenchmarkUnchanged
     DEF SupervisorStops, SupervisorStarts, Starts, JobsStart, Named, Removed
<1>5. CASE Gone
  BY <1>5, GoneKeeps
<1> QED BY <1>1, <1>2, <1>3, <1>4, <1>5 DEF Next

LEMMA TypeFromParts == TypeOK <=> BenchmarkTypeOK /\ SchedulerTypeOK
BY DEF TypeOK, SchedulerTypeOK

LEMMA IInvStarts == Init => IInv
BY BenchmarkStarts, SchedulerStarts, TypeFromParts DEF Init, IInv, BenchmarkInv, JInv

LEMMA IInvStep == IInv /\ [Next]_vars => IInv'
<1> SUFFICES ASSUME IInv, [Next]_vars PROVE IInv'
  OBVIOUS
<1>0. JInv /\ BenchmarkInv /\ TypeOK
  BY TypeFromParts DEF IInv, JInv
<1>1. CASE Next
  <2>1. BenchmarkInv'
    BY <1>0, <1>1, BenchmarkNext
  <2>2. JInv'
    BY <1>0, <1>1, SchedulerBenchmark, SchedulerHeartbeat, SchedulerElsewhere,
       SchedulerProcess DEF Next
  <2> QED BY <2>1, <2>2 DEF IInv, BenchmarkInv, JInv, TypeOK, SchedulerTypeOK
<1>2. CASE UNCHANGED vars
  <2>1. BenchmarkInv'
    BY <1>0, <1>2, BenchmarkUnchanged DEF vars
  <2>2. JInv'
    BY <1>0, <1>2, SameScheduler DEF vars, benchmark
  <2> QED BY <2>1, <2>2 DEF IInv, BenchmarkInv, JInv, TypeOK, SchedulerTypeOK
<1> QED BY <1>1, <1>2

\* The types, and that a loop is in its job exactly while the job has something under way
\* (InternalScheduler._run_interval_task awaits the job before it sleeps).
THEOREM JobsTypeCorrect == Spec => []TypeOK
<1>1. IInv => TypeOK
  BY DEF IInv
<1> QED BY IInvStarts, IInvStep, <1>1, PTL DEF Spec

\* However the job and the endpoints overlap and the process ends, a row is claimed by
\* one runner at most in all its life (claim_next_pending).
THEOREM RowsAreRunOnce == Spec => []RowsRunOnce
<1>1. IInv => RowsRunOnce
  BY DEF IInv, BenchmarkInv, Claims, RowsRunOnce
<1> QED BY IInvStarts, IInvStep, <1>1, PTL DEF Spec
=============================================================================
