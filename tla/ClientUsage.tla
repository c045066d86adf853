----------------------------- MODULE ClientUsage -----------------------------
(***************************************************************************)
(* The client usage database: what each client's prompts have cost, over   *)
(* their lifetime and in each month, in total and per model.               *)
(*                                                                         *)
(* An execution adds one to its rows when it ends.  What was executed      *)
(* before the database existed is seeded when the process starts, from the *)
(* log file (rotated, so a part of the executions) and the metrics file    *)
(* (which only counts what was saved): first what the log holds, then what *)
(* the metrics hold beyond it, then the same per model, each in a          *)
(* transaction of its own, then a mark.  The process may die between any   *)
(* two steps.  Calls stand for the tokens and the cost, which are added    *)
(* and seeded in the same statements.                                      *)
(***************************************************************************)
EXTENDS Integers, FiniteSets, FiniteSetsExt

CONSTANTS
    Clients, Prompts, Models,
    Primary,      \* the prompt, with its client, that history is charged to
    Executions,   \* bound: executions while the database exists
    MaxPast,      \* bound: executions before, of each model
    MaxMonth,     \* bound: months
    MaxStarts     \* bound: starts of the process

ASSUME UsageAssumption ==
    /\ Primary \in Clients \X Prompts
    /\ \A S \in {Clients, Prompts, Models, Executions} : IsFiniteSet(S)
    /\ Models # {}
    /\ MaxPast \in Nat /\ MaxMonth \in Nat \ {0} /\ MaxStarts \in Nat \ {0}

Lifetime == 0
Months == 1 .. MaxMonth
Periods == {Lifetime} \cup Months
Rows == Clients \X Prompts

VARIABLES
    usage,      \* the calls in usage_rollups, by row and period
    perModel,   \* the calls in model_usage_rollups, by row, model and period
    mark,       \* whether historical_seed_completed is set
    log,        \* the executions of each model in the log file
    logged,     \* the month of the last line of each model, or none
    metrics,    \* the executions of each model in the metrics file
    process,    \* where the process is, and what it is seeding
    executed,   \* the executions: where they are, of what
    today, starts,
    past        \* what was executed before the database existed (history)

vars == <<usage, perModel, mark, log, logged, metrics, process, executed, today,
          starts, past>>
files == <<log, logged, metrics>>
database == <<usage, perModel, mark>>

None == 0
Down == [at |-> "down", usage |-> FALSE, models |-> {}, delta |-> {}, month |-> None]
Steps == {"down", "log", "delta", "models", "serving"}
Phases == {"no", "answered", "metered", "logged", "recorded", "lost"}

---------------------------------------------------------------------------
(* The database.                                                           *)

Total(perM) == SumFunction(perM)

\* The rows one upsert touches: those of the lifetime and of the month.
Added(table, keys, n) ==
    [k \in DOMAIN table |-> IF k \in keys THEN table[k] + n ELSE table[k]]
InPeriods(row, month) == {<<row, Lifetime>>, <<row, month>>}

UpsertUsage(row, month, n) == usage' = Added(usage, InPeriods(row, month), n)
UpsertModel(row, m, month, n) ==
    perModel' = Added(perModel, {<<k, m>> : k \in InPeriods(row, month)}, n)

\* A row is there once something was added to it: nothing empty is seeded.
HasUsage == \E k \in DOMAIN usage : usage[k] > 0
HasModelUsage == \E k \in DOMAIN perModel : perModel[k] > 0

\* What the endpoint reports: of a client, the sums over its prompts.
ReportedCalls(c, period) == SumFunction([p \in Prompts |-> usage[<< <<c, p>>, period >>]])
ReportedOfModel(c, m, period) ==
    SumFunction([p \in Prompts |-> perModel[<< << <<c, p>>, period >>, m >>]])

---------------------------------------------------------------------------
(* The start of the process.                                               *)

\* What the log file and the metrics file know, in total and of each model.
FromLog == Total(log)
FromMetrics == Total(metrics)
FromLogOf(m) == log[m]
FromMetricsOf(m) == metrics[m]

Beyond(m, l) == IF m > l THEN m - l ELSE 0

\* Fault: a log with no line gives no month.
LastLogged_None == LET months == {logged[m] : m \in Models}
                   IN  Max(months)
Historical == {m \in Models : FromLogOf(m) > 0 \/ FromMetricsOf(m) > 0}

\* The month history goes to: that of the last line of the log, or this one.
LastLogged == LET months == {logged[m] : m \in Models} \ {None}
              IN  IF months = {} THEN today ELSE Max(months)

\* Fault: the mark alone says what was seeded.
NeedsUsage_MarkOnly == ~mark

NeedsUsage == ~HasUsage /\ ~mark

\* What there is to seed is decided once, before the first seed.
Start ==
    /\ process.at = "down" /\ starts < MaxStarts
    /\ process' = [at |-> CASE NeedsUsage -> "log"
                             [] ~NeedsUsage /\ ~HasModelUsage -> "models"
                             [] OTHER -> "serving",
                    usage |-> NeedsUsage, delta |-> {}, month |-> LastLogged,
                    models |-> IF HasModelUsage THEN {} ELSE Historical]
    /\ starts' = starts + 1
    /\ UNCHANGED <<database, files, executed, today, past>>

\* Fault: the mark is set with the first of the two seeds.
SeedLog_Marks ==
    /\ process.at = "log"
    /\ UpsertUsage(Primary, process.month, FromLog)
    /\ process' = [process EXCEPT !.at = "delta"]
    /\ mark' = TRUE
    /\ UNCHANGED <<perModel, files, executed, today, starts, past>>

SeedLog ==
    /\ process.at = "log"
    /\ UpsertUsage(Primary, process.month, FromLog)
    /\ process' = [process EXCEPT !.at = "delta"]
    /\ UNCHANGED <<perModel, mark, files, executed, today, starts, past>>

SeedDelta ==
    /\ process.at = "delta"
    /\ UpsertUsage(Primary, process.month, Beyond(FromMetrics, FromLog))
    /\ process' = [process EXCEPT !.at = "models"]
    /\ UNCHANGED <<perModel, mark, files, executed, today, starts, past>>

ModelMonth(m) == IF logged[m] = None THEN process.month ELSE logged[m]

SeedModelLog(m) ==
    /\ process.at = "models" /\ m \in process.models /\ process.delta = {}
    /\ UpsertModel(Primary, m, ModelMonth(m), FromLogOf(m))
    /\ process' = [process EXCEPT !.delta = {m}]
    /\ UNCHANGED <<usage, mark, files, executed, today, starts, past>>

SeedModelDelta(m) ==
    /\ process.at = "models" /\ m \in process.delta
    /\ UpsertModel(Primary, m, ModelMonth(m), Beyond(FromMetricsOf(m), FromLogOf(m)))
    /\ process' = [process EXCEPT !.delta = {}, !.models = @ \ {m}]
    /\ UNCHANGED <<usage, mark, files, executed, today, starts, past>>

Seeded ==
    /\ process.at = "models" /\ process.models = {}
    /\ mark' = (mark \/ process.usage)
    /\ process' = [process EXCEPT !.at = "serving"]
    /\ UNCHANGED <<usage, perModel, files, executed, today, starts, past>>

---------------------------------------------------------------------------
(* Executions.                                                             *)

\* A provider answers; then, with no other task in between, the metrics are
\* saved and the line is logged.
Execute(e) ==
    /\ process.at = "serving" /\ executed[e].at = "no"
    /\ \E row \in Rows, m \in Models :
        executed' = [executed EXCEPT ![e] = [at |-> "answered", row |-> row, model |-> m]]
    /\ UNCHANGED <<database, files, process, today, starts, past>>

Persist(e) ==
    /\ executed[e].at = "answered"
    /\ executed' = [executed EXCEPT ![e].at = "metered"]
    /\ metrics' = [metrics EXCEPT ![executed[e].model] = @ + 1]
    /\ UNCHANGED <<database, log, logged, process, today, starts, past>>

Log(e) ==
    /\ executed[e].at = "metered"
    /\ executed' = [executed EXCEPT ![e].at = "logged"]
    /\ log' = [log EXCEPT ![executed[e].model] = @ + 1]
    /\ logged' = [logged EXCEPT ![executed[e].model] = today]
    /\ UNCHANGED <<database, metrics, process, today, starts, past>>

\* The service settles the budget, and records the execution in one
\* transaction, in the month it was completed in. The row of the model is left
\* out for an empty model id, which no execution has: every adapter puts its
\* default in its place.
Record(e) ==
    /\ executed[e].at = "logged"
    /\ executed' = [executed EXCEPT ![e].at = "recorded"]
    /\ \E month \in {today, today - 1} \cap Months :
        /\ UpsertUsage(executed[e].row, month, 1)
        /\ UpsertModel(executed[e].row, executed[e].model, month, 1)
    /\ UNCHANGED <<mark, files, process, today, starts, past>>

\* The database raises: the transaction is rolled back, the error dropped.
RecordFails(e) ==
    /\ executed[e].at = "logged"
    /\ executed' = [executed EXCEPT ![e].at = "lost"]
    /\ UNCHANGED <<database, files, process, today, starts, past>>

---------------------------------------------------------------------------
(* The world.                                                              *)

\* The process dies, with the executions it was at.
Dies ==
    /\ process.at # "down"
    /\ process' = Down
    /\ executed' = [e \in Executions |->
                     IF executed[e].at \in {"answered", "metered", "logged"}
                     THEN [executed[e] EXCEPT !.at = "lost"] ELSE executed[e]]
    /\ UNCHANGED <<database, files, today, starts, past>>

\* The log file is full: what it held goes to a backup nobody reads.
Rotate ==
    /\ process.at = "serving" /\ Total(log) > 0
    /\ log' = [m \in Models |-> 0] /\ logged' = [m \in Models |-> None]
    /\ UNCHANGED <<database, metrics, process, executed, today, starts, past>>

NextMonth ==
    /\ today < MaxMonth /\ today' = today + 1
    /\ UNCHANGED <<database, files, process, executed, starts, past>>

---------------------------------------------------------------------------
Init ==
    /\ past \in [made : [Models -> 0 .. MaxPast], log : [Models -> 0 .. MaxPast],
                 metrics : [Models -> 0 .. MaxPast]]
    /\ \A m \in Models : past.log[m] <= past.made[m] /\ past.metrics[m] <= past.made[m]
    /\ log = past.log /\ metrics = past.metrics
    /\ logged = [m \in Models |-> IF log[m] = 0 THEN None ELSE 1]
    /\ usage = [k \in Rows \X Periods |-> 0]
    /\ perModel = [k \in (Rows \X Periods) \X Models |-> 0]
    /\ mark = FALSE
    /\ process = Down
    /\ executed = [e \in Executions |-> [at |-> "no", row |-> Primary,
                                        model |-> CHOOSE m \in Models : TRUE]]
    /\ today = 1 /\ starts = 0

Next ==
    \/ Start \/ SeedLog \/ SeedDelta \/ Seeded
    \/ \E m \in Models : SeedModelLog(m) \/ SeedModelDelta(m)
    \/ \E e \in Executions :
        Execute(e) \/ Persist(e) \/ Log(e) \/ Record(e) \/ RecordFails(e)
    \/ Dies \/ Rotate \/ NextMonth

Spec == Init /\ [][Next]_vars

---------------------------------------------------------------------------
(* Properties.                                                             *)

TypeOK ==
    /\ usage \in [Rows \X Periods -> Nat]
    /\ perModel \in [(Rows \X Periods) \X Models -> Nat]
    /\ mark \in BOOLEAN
    /\ log \in [Models -> Nat] /\ metrics \in [Models -> Nat]
    /\ logged \in [Models -> Months \cup {None}]
    /\ process \in [at : Steps, usage : BOOLEAN, models : SUBSET Models,
                    delta : SUBSET Models, month : Months \cup {None}]
    /\ process.at # "down" => process.month \in Months
    /\ executed \in [Executions -> [at : Phases, row : Rows, model : Models]]
    /\ today \in Months /\ starts \in 0 .. MaxStarts

Made(m) == past.made[m]
           + Cardinality({e \in Executions : executed[e].at # "no" /\ executed[e].model = m})
InTotal(period) == SumFunction([c \in Clients |-> ReportedCalls(c, period)])
InTotalOf(m, period) == SumFunction([c \in Clients |-> ReportedOfModel(c, m, period)])

\* However often the process dies while it seeds or records, and whatever log
\* and metrics hold, the rows of all clients together report no more calls than
\* were made, in total and of each model.
NeverOvercounted ==
    /\ InTotal(Lifetime) <= Total([m \in Models |-> Made(m)])
    /\ \A m \in Models : InTotalOf(m, Lifetime) <= Made(m)

\* Where the mark is set nothing known was left out: the rows hold what log and
\* metrics knew when the database was made, and every execution recorded since.
MarkedIsComplete ==
    mark => InTotal(Lifetime) =
            Max({Total(past.log), Total(past.metrics)})
            + Cardinality({e \in Executions : executed[e].at = "recorded"})
=============================================================================
