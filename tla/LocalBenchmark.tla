---------------------------- MODULE LocalBenchmark ----------------------------
(***************************************************************************)
(* The local benchmark: executions answered by OpenAI are captured, with a *)
(* row for each local model, and replayed on the one model the local       *)
(* server has loaded.  The scheduler's job loads the next model of the     *)
(* rotation and runs its pending rows; so does an endpoint, and another    *)
(* endpoint runs those of the model that happens to be loaded.  They run   *)
(* on one event loop, share the database, the rotation file and the server *)
(* without a lock, and overlap wherever they wait: for the script that     *)
(* swaps the model, and for an answer of the server.                       *)
(***************************************************************************)
EXTENDS Integers, Sequences, FiniteSets, FiniteSetsExt, SequencesExt

CONSTANTS
    Rotation,     \* the local models, in the order they are loaded
    Limit,        \* rows one run of the worker takes
    MaxRecords,   \* bound: captured executions
    MaxCalls      \* bound: calls of the two endpoints

ASSUME BenchmarkAssumption ==
    /\ Rotation \in Seq(Range(Rotation)) /\ Rotation # <<>> /\ IsInjective(Rotation)
    /\ Limit \in Nat \ {0} /\ MaxRecords \in Nat /\ MaxCalls \in Nat

LocalModels == Range(Rotation)
Records == 1 .. MaxRecords          \* by the time they were captured
Runners == {"job", "endpoint"}
None == "none"

VARIABLES
    captured,     \* how many executions were captured
    capturing,    \* whether capture is enabled
    row,          \* the status of each record's row for each model
    runs,         \* how often each row was claimed (history)
    rotated,      \* the model the rotation file has as the current one; None when it has
                  \* none, or one from outside the rotation
    runner,       \* where the job and the endpoint's call are
    calls         \* how many endpoint calls were made

benchmark == <<captured, capturing, row, runs, rotated, runner, calls>>

\* A row is done when it is completed or failed.
Statuses == {None, "pending", "running", "done"}
Resting == [at |-> "no", model |-> None, record |-> 0, left |-> 0]

---------------------------------------------------------------------------
(* The store.                                                              *)

\* An execution that OpenAI answered: a pending row for every local model.
Capture ==
    /\ capturing /\ captured < MaxRecords
    /\ captured' = captured + 1
    /\ row' = [row EXCEPT ![captured + 1] = [m \in LocalModels |-> "pending"]]
    /\ UNCHANGED <<capturing, runs, rotated, runner, calls>>

\* Of no effect any more when all the records of the bound are captured.
SetCapture ==
    /\ captured < MaxRecords
    /\ capturing' = ~capturing
    /\ UNCHANGED <<captured, row, runs, rotated, runner, calls>>

Pending(table, m) == {r \in Records : table[r][m] = "pending"}
\* The oldest pending row of the model is claimed.
Claimable(table, m) == Min(Pending(table, m))

\* Fault: the row stays pending until its result is there.
AfterClaim_Late(table, r, m) == table

AfterClaim(table, r, m) == [table EXCEPT ![r][m] = "running"]

---------------------------------------------------------------------------
(* The worker, and the rotation.                                           *)

\* With the rows as in table the runner w goes on: it claims the next row of its
\* model, or, with none pending or its limit reached, saves the model as the
\* current one and returns.
GoOn(w, m, left, table) ==
    IF left > 0 /\ Pending(table, m) # {}
    THEN LET r == Claimable(table, m) IN
         /\ row' = AfterClaim(table, r, m)
         /\ runs' = [runs EXCEPT ![r][m] = @ + 1]
         /\ runner' = [runner EXCEPT ![w] = [at |-> "executing", model |-> m,
                                            record |-> r, left |-> left - 1]]
         /\ UNCHANGED rotated
    ELSE /\ row' = table
         /\ rotated' = m
         /\ runner' = [runner EXCEPT ![w] = Resting]
         /\ UNCHANGED runs

\* The model after the current one; the first, when that is not one of them.
NextModel ==
    LET at == IF rotated \in LocalModels THEN CHOOSE i \in DOMAIN Rotation : Rotation[i] = rotated
              ELSE 0
    IN  Rotation[(at % Len(Rotation)) + 1]

\* run_once, up to the script it waits for.
Rotate(w) ==
    /\ runner[w].at = "no"
    /\ runner' = [runner EXCEPT ![w] = [Resting EXCEPT !.at = "swapping", !.model = NextModel]]

\* The script has loaded the model: the worker begins.
SwapEnds(w) ==
    /\ runner[w].at = "swapping"
    /\ GoOn(w, runner[w].model, Limit, row)
    /\ UNCHANGED <<captured, capturing, calls>>

\* It has not, within its time: the current model stays the one before.
SwapFails(w) ==
    /\ runner[w].at = "swapping"
    /\ runner' = [runner EXCEPT ![w] = Resting]
    /\ UNCHANGED <<captured, capturing, row, runs, rotated, calls>>

\* The database or the rotation file cannot be read or written.  The row of the worker is
\* as it was, or done; a state that is written half is read as none.
StoreFails(w) ==
    /\ \/ runner[w].at = "swapping" /\ UNCHANGED row
       \/ /\ runner[w].at = "executing"
          /\ \E status \in {"running", "done"} :
                row' = [row EXCEPT ![runner[w].record][runner[w].model] = status]
    /\ rotated' \in {rotated, None}
    /\ runner' = [runner EXCEPT ![w] = Resting]
    /\ UNCHANGED <<captured, capturing, runs, calls>>

\* run_loaded_model: the model the server names, or, when it does not answer, the current
\* one.  The server may have any: a load that failed leaves the old one, the new one or
\* none, and it may be started by hand with a model outside the rotation, which has no rows
\* and is saved as the current one all the same.
RunLoaded(w) ==
    /\ runner[w].at = "no"
    /\ \/ \E m \in LocalModels : GoOn(w, m, Limit, row)
       \/ rotated' = None /\ UNCHANGED <<row, runs, runner>>
    /\ UNCHANGED <<captured, capturing>>

\* The server answers, or fails: either is recorded, and the worker goes on.
Executed(w) ==
    /\ runner[w].at = "executing"
    /\ GoOn(w, runner[w].model, runner[w].left,
            [row EXCEPT ![runner[w].record][runner[w].model] = "done"])
    /\ UNCHANGED <<captured, capturing, calls>>

---------------------------------------------------------------------------
(* The endpoints.                                                          *)

CycleCalled ==
    /\ calls < MaxCalls /\ calls' = calls + 1
    /\ Rotate("endpoint")
    /\ UNCHANGED <<captured, capturing, row, runs, rotated>>
LoadedCalled ==
    /\ calls < MaxCalls /\ calls' = calls + 1
    /\ RunLoaded("endpoint")

BenchmarkInit ==
    /\ captured = 0 /\ capturing = TRUE
    /\ row = [r \in Records |-> [m \in LocalModels |-> None]]
    /\ runs = [r \in Records |-> [m \in LocalModels |-> 0]]
    /\ rotated = None
    /\ runner = [w \in Runners |-> Resting]
    /\ calls = 0

---------------------------------------------------------------------------
BenchmarkTypeOK ==
    /\ captured \in 0 .. MaxRecords /\ capturing \in BOOLEAN /\ calls \in 0 .. MaxCalls
    /\ row \in [Records -> [LocalModels -> Statuses]]
    /\ runs \in [Records -> [LocalModels -> Nat]]
    /\ rotated \in LocalModels \cup {None}
    /\ runner \in [Runners -> [at : {"no", "swapping", "executing"},
                              model : LocalModels \cup {None},
                              record : Records \cup {0}, left : 0 .. Limit]]

\* Each captured execution is replayed at most once on each local model, however
\* the job and the endpoints overlap, and over restarts.
RowsRunOnce == \A r \in Records, m \in LocalModels : runs[r][m] <= 1
=============================================================================
