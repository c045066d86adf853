# A verification of the Hexe AI node

TLA+ modules, TLC runs and TLAPS proofs about the Python node under `src/src/ai_node`
(paths below are relative to that directory unless they start with `docs/`). The node
onboards with a Core service, declares its capabilities, and then executes inference tasks
under budgets that Core grants.

## 1. Inventory

| Component | State it keeps | Operations | Interacts by | What makes it correct |
|---|---|---|---|---|
| Node lifecycle (`lifecycle/node_lifecycle.py`) | current state | `transition_to`, `reset_to_unconfigured` | one unlocked object shared by every thread; `on_transition` callback | only the steps of the table are taken |
| Bootstrap timeout (`runtime/bootstrap_timeout.py`) | deadline | arm/disarm on a transition, polling thread | lifecycle callback, own thread | a node does not stay in `bootstrap_connecting` |
| Bootstrap MQTT (`runtime/bootstrap_mqtt_runner.py`) | paho client | start, stop, `_on_connect`, `_on_message` | paho thread; calls the onboarding runtime | acts only in the states it expects |
| Onboarding runtime (`runtime/onboarding_runtime.py`, `registration/registration_client.py`) | in-flight flag, run id, pending session, node id | start a run, register, rotate the identity, poll, finalise, cancel | one worker thread per run; HTTP to Core; trust store | one current run; a cancelled one has no effect |
| Control API (`runtime/node_control_api.py`) | bootstrap config, node id | onboarding, capability, task, prompt, service endpoints | thread pool (`def` endpoints) and event loop (`async` ones) | every endpoint leaves the stores consistent |
| Stores (`identity`, `trust`, `config`, `persistence`) | JSON files, SQLite | load, save, delete | shared by all of the above | what is on disk can be resumed from |
| Capability declaration (`runtime/capability_declaration_runner.py`) | accepted profile, governance, readiness | submit, redeclare, refresh, recover | awaits Core in the middle of each operation | what is stored belongs to the current trust |
| Budget manager (`runtime/budget_manager.py`, `persistence/budget_state_store.py`) | policy, usage and reservations per grant and per provider budget | reserve, finalise, release, refresh policy | called by task execution; persisted on each call | reserved and used amounts add up, limits hold, nothing leaks |
| Task execution (`runtime/task_execution_service.py`, `execution/`) | active executions, history | execute | event loop; budget, gateway, provider runtime | each task settles its reservation exactly once |
| Lease execution (`runtime/lease_execution_mode.py`, `core_api/scheduler_lease_client.py`) | lease | request, heartbeat, complete | heartbeat task beside the execution; `main.py` does not wire it | a lost lease's result is not reported |
| Internal scheduler (`runtime/internal_scheduler.py`) | task states, handles, persisted state | register, start, stop, the loop of each job | asyncio tasks; state store | a job that fails or overlaps runs again; what stops leaves nothing running |
| Operational MQTT recovery (`runtime/operational_mqtt_recovery_store.py`, control API) | attempts, exhausted | health check, restart request | scheduler job; service manager | at most the allowed restarts, then it stops |
| Provider runtime (`providers/runtime_manager.py`, `provider_registry.py`, `execution_router.py`, adapters) | registry, health, models, router, metrics | refresh, execute with fallback, explicit comparison, reload of models | event loop; adapters; cut at every request | a refresh never loses a provider in use; an execution ends |
| Provider selection (`execution/provider_selection_policy.py`, `runtime/provider_resolver.py`, `execution/governance.py`) | - | policy, resolution, governance check | called by task execution | what some allowed provider can serve is resolved |
| OpenAI models (`providers/openai_model_catalog.py`, `model_capability_catalog.py`, `runtime/capability_resolver.py`) | catalog, classes, features, enabled models, node capabilities | list, classify, resolve, enable, rerun | files; refresh, endpoints | the node's capabilities follow the files |
| OpenAI pricing (`providers/openai_catalog.py`) | catalog, overrides, manual YAML file | refresh, manual save, choice of a price | event loop and endpoint threads on three files | a price somebody set is not lost |
| Prompts (`prompts/`, `execution/gateway.py`) | registered prompts, versions, states | register, update, transition, restart from probation, usage | endpoint threads and the event loop share one object, without a lock | calls take effect and stay |
| Client usage (`persistence/client_usage_store.py`, `main.py`) | SQLite counters, logs, metrics | seed at start, record | start of the process; task execution | nothing is counted twice |
| Local benchmark (`persistence/local_llm_benchmark_store.py`, `runtime/local_llm_benchmark_*.py`) | captured executions, rotation file | capture, claim, replay, rotate | scheduler job and endpoints on one local server | each row is replayed once on each model |
| Supervisor (`supervisor/client.py`, control API) | is the node registered | health, register, heartbeat | scheduler job; a service of the host | the supervisor knows the node |
| Notifications, telemetry, service manager | last publish; - | publish, systemctl | MQTT; subprocesses | output of the node |
| Capability data, UI, scripts | - | payloads, views | - | outside the models |

What is hard: five kinds of threads drive one unlocked lifecycle; handlers test state, await
an HTTP answer and then act; a run that was cancelled keeps going until it looks at its run
id; the process may end between two file writes or two transactions; reservations outlive the
period they were made in; a refresh writes back what it loaded before others wrote; threads
share a dictionary that one of them is saving. The list, line by line, is `hazards` in `PROJECT.json`.

## 2. Plan

Done, and described below:

1. `NodeLifecycle`, `RegistrationRuns`, `Onboarding`, `OnboardingProofs`.
2. `BudgetLedger` (reservations, settlement, periods, provider budgets).
3. `TaskExecution`, which composes `BudgetLedger` with the stages of
   `TaskExecutionService.execute`, the abstract `Settlement` it implements,
   `TaskExecutionProofs`.

4. `MqttRecovery` (the recovery file), `Activation` (from a stored trust state to
   `operational` and back after trouble), `ActivationProofs`.

5. `PricingCatalog`, `ModelCatalog`, `ProviderRouting`: the providers, from the files to an
   execution.
6. `PromptRegistry`, `ClientUsage`.
7. `LocalBenchmark`, and `BackgroundJobs`, which composes it with the scheduler and with the
   heartbeat of the supervisor.
8. `ProviderProofs`, `PromptRegistryProofs`, `ClientUsageProofs`, `BackgroundJobsProofs`,
   and `Sums`, the lemmas about sums that two of the proof modules rest on.

To do, in this order:

9. The refinement of `Settlement` when task ids are shared by calls that do not overlap.
10. `LeaseExecution` (heartbeat beside execution, an abstract lease that is completed, failed
   or lost once), should `main.py` come to use it.

Two or three actors per component, and counters of two or three, each named as a constant with
`Max`, keep every run within minutes.

## 3. Modules

### NodeLifecycle

The states, the table and the two groups of states that handlers test. It has no variables;
`CanTransition` is `_can_transition`.

### Onboarding

The path from `unconfigured` to a stored trust state, with all the threads that take part:

| Model | Code |
|---|---|
| `Boot`, `Crash` | `main.run`; the process ending at any point, files kept |
| `Tick`, `MonitorRead/Test/Set/Clear` | `BootstrapConnectTimeoutMonitor._run`, one action per access of the shared deadline or state |
| `OnConnect`, `ConnectedSet`, `OnMessage`, `DiscoveredSet`, `OnCoreDiscovered` | the paho thread in `BootstrapMqttRunner` up to the start of a worker |
| `Start ... End`, `Register`, `WorkerSet` | the worker thread of `OnboardingRuntime`, cut at its awaits, lock regions and file writes; `wpc[w]` is where run `w` is |
| `Initiate`, `Restart`, `Retrust`, `Recover`, `Status`, `Removal`, `ApiSet` | the endpoints, one step per call they make; `api[a]` is where thread `a` is |
| `trust`, `identity`, `config`, `accepted` | the files, as the node id in them or their existence |
| `inflight`, `runId`, `pending`, `allowReset`, `memId` | the runtime's fields; `pending` is the run whose session is shown |

`transition_to` takes no lock. The test ends one step and the assignment (`...Set`) is the
next one of the same thread. `PreemptTransition` says whether another thread may run between
the two; it is a window of a few bytecodes, so the runs about other matters close it, and the
runs about the lifecycle itself and about run ownership open it.

Abstracted: payloads (to the node id they carry), the clock (an armed deadline may expire at
any moment), the broker and Core (they may answer anything, or fail, at any time), the
governance freshness test (either outcome), the history and logs. `stop` of the MQTT runner
joins the paho thread, so it waits until a callback is over.

### RegistrationRuns

What the runtime promises whatever its threads do: runs are numbered, at most one owns
onboarding, a new one begins only when none does, one that lost it never has it again, and
only the owner's session is shown. `Onboarding` implements it with
`owner` = the current run's worker while it is alive.

### MCOnboarding, OnboardingProofs

The module TLC runs, and the theorems.

### BudgetLedger

The budget manager and the file it persists. Each of its methods loads the state, works and
saves it without an await, so it is one action. The module is a component of its own
(`LedgerSpec`: anyone calls any method at any time) and what `TaskExecution` extends.

| Model | Code |
|---|---|
| `book[a]` | an entry of `grant_usage` (`a` a grant) or `provider_budget_usage` (`a` a provider, the days and the start of a period), with its reservations by task id |
| `policy`, `bundle`, `core` | the cached policy, the one in the governance bundle, the last one Core issued |
| `replies` | answers of Core `refresh_policy_from_core` still awaits: they arrive in any order |
| `Entry` | `_ensure_usage_entry`, `_ensure_provider_budget_usage_entry`: an entry of another period is started afresh |
| `Admit`, `Deny` | the outcomes of `reserve_execution`; what a denial had changed is not saved |
| `Finalize`, `Release` | `finalize_execution` (completed tasks), `release_execution` |
| `RefreshPolicy`, `PolicyArrives` | the two sides of the await of the refresh |
| `Tick`, `IssuePolicy`, `GovernanceRefreshed`, `SetBudgets` | the clock, Core, the capability runner and the operator |

`ceiling` and `overrun` are history. Amounts are in half cents, the coarsest
unit in which an exact spend differs from one rounded up: a grant is charged whole cents, a
provider's budget the exact cost. A grant's status, service, scope and subject are put into
`serves`, the requests it applies to. Left out: the request and token counters, the list
of usage summaries (nothing sends or empties it), the list of recent denials.

### TaskExecution

`execute()` is a coroutine: what it does between two awaits is one action, and those of other
executions, of the refresh and of the operator come in between.

| Model | Code |
|---|---|
| `pc[e]` | the await call `e` is at, or how it ended |
| `Select`, `Reject`, `RejectSelected` | resolution and the governance tests |
| `Reserve`, `Refuse` | `reserve_execution` and the end of a refused task |
| `Dispatch` | the lifecycle events up to the call of the task router |
| `Answer`, `Fail` | what the router returns; a failure releases the reservation |
| `Settle`, `Finish` | `finalize_execution`, the metrics and the result |
| `ResultRaises` | the result of an answered task cannot be built: the reservation stays |
| `active` | `ExecutionLifecycleTracker._active_tasks` |
| `Restart` | the process ends; the books are kept, the coroutines are not |

`TaskOf` gives the task id of each call: clients choose it, so two calls may share one.
`reserved[e]`, `served[e]` and `spend[e]` are locals, kept after the end for the properties.

### Settlement

What the two promise together: work gets a hold on some accounts before it runs, the hold
ends once, an account's used amount grows only by ending a hold on it, and an account is
started afresh only to make room for a new hold. `TaskExecution` implements it when every call
has a task id of its own (`KeepsSettlement`).

### MCTaskExecution, TaskExecutionProofs, Sums

The instances TLC runs (which policies Core issues, whether task ids are shared), the
theorems about the ledger and about the tasks, and the lemmas on sums they need.

### MqttRecovery

The file that counts the restarts of the backend: each method of
`OperationalMqttRecoveryStore` is an operator on its content (`active`, `attempts`,
`exhausted`), because it loads, changes and saves in one go.

### Activation

What a node does once it has a trust state, composed of `NodeLifecycle` and `MqttRecovery`:

| Model | Code |
|---|---|
| `Declare`, `DeclarationAccepted`, `GovernanceFetched`, `Activate`, `DeclarationFails` | `submit_once`, cut at its awaits of Core; `pc[c]` is where request `c` is, `held[c]` the trust state it loaded first |
| `Redeclare`, `Redeclared` | `redeclare_if_needed` in the states that do not submit |
| `Refresh`, `Refreshed` | `refresh_governance_once` |
| `Raises` | an exception at an await: nothing between `httpx` and the endpoint catches it |
| `Recover` | `recover_from_degraded`; `RecoveryTarget` is the state it chooses |
| `HealthSkips/Asks`, `Healthy`, `Unhealthy`, `HealthRested` | `check_operational_mqtt_health_once` before and after it asks the broker; `job` has what it read before |
| `Crash`, `ScheduledRestart`, `Boot`, `Resume...` | the process ends and starts: `main.run`, the constructors, `resume_or_refresh_on_startup`, `_load_existing_config` |
| `Retrust`, `Removal`, `Wipe...` | `rerequest_trust` and `_reset_for_core_removal`, one action per store they clear |
| `Initiate`, `RestartSetup` | the two other onboarding endpoints |
| `trust`, `config`, `profile`, `bundleFile` | the files; `profile` and the bundles are the trust state they were obtained under |
| `gov` | `_governance_status["state"]`, which only a load or a refresh evaluates |

A transition that the table does not have raises, as in the code: `Moved` and `Via` leave the
state where it is and the request ends. Onboarding is one state here (`Onboarded`,
`OnboardingFails` are its ends, the subject of `Onboarding`). Abstracted: the provider report,
telemetry, readiness results and `_status`, which decide nothing about the lifecycle; the
contents of manifests; a second submission under the other node id, which is part of the
first one's await; the removal status request (`Removal` is its answer).

One constant chooses the environment. `QuietWipes` lets trust be taken away only while no
request and no health check is under way, and lets nothing but the broker move until it is
cleared; see the departures for what happens otherwise.

### ActivationProofs

The theorems about `Activation`, for any values of its constants.

### ProviderModels

The ids of models and their families, which the next three modules share. These three are
checked one by one; what they define besides has names of its own, so that `ProviderProofs`
extends them all.

### PricingCatalog

The prices of OpenAI models, in three files: the catalog a refresh scrapes, the operator's
overrides, and a YAML file the operator may edit, which comes first when a task is costed.

| Model | Code (`providers/openai_catalog.py`) |
|---|---|
| `prices`, `overrides`, `yaml` | the three files; an entry is two rates and a status |
| `RefreshBegins` | `refresh` up to its awaits: it loads the catalog, and stops if that is not due |
| `Targets`, `Prompts`, `Outcomes` | which families the pages list, which prompts ask for them, and what pages, prompts and the parser may give: rates, a failed family, nothing |
| `Merged`, `Refreshed`, `RefreshReads`, `RefreshWrites`, `RefreshFails` | what is found over what was loaded, the overrides last; the read of the overrides and the write of the catalog are two steps, since threads do not wait for the loop; a refresh that fails writes back what it loaded |
| `SaveReads`, `SaveWritesCatalog`, `SaveWritesOverride` | `save_manual_pricing`, in a thread, one step per file it writes |
| `MergeBegins`, `MergeEnds`, `ModelStatus` | `merge_model_capabilities`: a listing gets its prices and statuses; the catalog loaded is written back, and a save in its thread may come between |
| `Basis`, `Grouping` | the unit a family is priced by, and the families one prompt asks for |
| `FillLoads`, `FillReads`, `FillWrites`, `Offer`, `Scaffold` | the YAML file written from the other two, at the end of a save and whenever a service is made (`Fillers`), cut at the files |
| `PricingEntry` | the price of a model: YAML, then catalog, then the rates in the code |
| `Edit`, `Tick`, `PricingRestart` | the operator, the clock, the process |

A model may be in the catalog without rates (a normalized price only, or a free one): the code
accepts such an entry. `asked` and `owed` are history: the rates of the last save of each model,
and those a refresh found in the overrides when it began and that no save replaced since. The
operator saves one price at a time. A merge and a refresh are both on the event loop, and a merge does not wait: only
the thread of a save comes between its steps. Left out: what a save does to units other than
tokens, free moderation, the text of the pages, temporary files, diagnostics.

### ModelCatalog

What becomes of the models OpenAI lists: catalog (known families), classification (a
representative of each group), features, the operator's selection, and the union of the
features of the usable models, from which the tasks the node declares follow.

| Model | Code |
|---|---|
| `catalog`, `classes`, `features`, `caps`, `selected` | the files of `openai_model_catalog.py`, `model_capability_catalog.py`, `model_feature_catalog.py`, `node_capabilities.json`, the enabled models |
| `registered`, `saved`, `published` | the registry in memory, the copy on disk, what Core was told |
| `Begins`, `CredentialsSaved`, `RefreshRequested`, `ComparisonAsked`, `Answered`, `Raises` | a reload of credentials, a refresh or an explicit comparison, up to the provider's answer |
| `ListingSaved`, `Priced`, `Persisted`, `Submitted`, `ExplicitRegisters` | what each does between its further awaits |
| `RerunBegins`, `RerunListed` | `rerun_model_capabilities`, which classifies before and after it lists |
| `PricesRequested`, `PricesListed` | `refresh_pricing`, which stores a listing when there is no catalog |
| `Representatives`, `Classified`, `FeaturesOf` | the classifier, as functions of family, tier and rank |
| `Resolved`, `TasksOf` | `capability_resolver.py`, `feature_union.py` |
| `SetModels` | the registry's models by the status the prices leave them: only those `available` or `degraded` count |
| `SaveEnabled`, `Rebuild`, `CatalogRestart`, `ProviderChanges` | the operator, the rebuild endpoint, the process, the provider |

### ProviderRouting

From a request to the provider that answers it.

| Model | Code |
|---|---|
| `Eligible`, `Candidates`, `ProviderOrder`, `Listing`, `Allowlist`, `ModelFor`, `Resolve` | `provider_selection_policy.py`, `provider_resolver.py` |
| `Approves`, `Checks` | the governance check after the resolution |
| `Ordered`, `RouterOrder`, `FromReachable`, `Trying` | the order `execution_router.py` fixes at the start, and the next attempt in it |
| `Dispatches`, `Answers`, `Fails` | the router, cut at each attempt; `task[t]` holds the order and the attempts left |
| `Explicit`, `Compares`, `Probed`, `ProbedModels`, `Compared` | explicit comparisons, which register adapters and set health and models, and leave the router |
| `RefreshStarts`, `HealthChecked`, `Listed`, `ListingRaises` | the periodic refresh, cut at each provider's health and listing; it replaces the router |
| `ReloadStarts` | the reload of OpenAI with its saved credentials, cut alike; it leaves the router |
| `Changes`, `RoutingRestart` | the operator's settings and selection (`preferred`: the selected models that are classified); the process |

An order is a set of providers with the place of each (`Places`: those put in front, then the
others by name), and its next provider the `First` of the set; lists of which only the members
matter are sets.

`steady` (the providers that stayed registered and not unavailable since the dispatch) and
`tries` are history. `disk` is what was persisted, with which a restart begins: adapters are
not. The default model of a provider and the cost limits are constants.

### PromptRegistry

One prompt, its file, and the gateway that says who may execute it. The endpoints run on
threads and the executions of tasks on the event loop; they share the registry without a lock.

| Model | Code (`prompts/`) |
|---|---|
| `heap`, `state`, `file` | the state objects that calls still hold, the one that is the registry's, the file |
| `Begin`, `Operate`, `Authorize`, `Record` | a call finds its entry; what it found is in an object that may be replaced meanwhile |
| `Change`, `Define`, `Prefer`, `Refuse` | the changes of the entry, in the order they are made: a new version, then that it is the current one |
| `Copy`, `CopyOf`, `Install` | `save` normalises a copy, field by field in the order of the code, and makes it the state |
| `Take`, `Taken`, `Write` | the state of that moment is normalised once more for the file, field by field, and the file written |
| `Effect` | what the operation promises, applied at once: the sequential specification |
| `Authorizes` | `execution/gateway.py`: caller, scope, version, provider, model, schema |
| `Restart` | the process ends at any point; the file is loaded |

`expected` follows `Effect` as long as no two calls overlap (`alone`). An object nobody refers
to any more is reused (`Collected`), so the heap is bounded by the calls.

### ClientUsage

The database of what each client's prompts used, by month and over their lifetime.

| Model | Code (`persistence/client_usage_store.py`, `main.py`) |
|---|---|
| `usage`, `perModel`, `mark` | the tables and the mark that the models were seeded |
| `log`, `metrics`, `logged` | the execution log (rotated), the provider metrics (saved now and then), the month of the last line |
| `Start`, `SeedLog`, `SeedDelta`, `SeedModelLog`, `SeedModelDelta`, `Seeded` | the seeding of history when the process starts, one action per transaction |
| `Execute`, `Persist`, `Log`, `Record`, `RecordFails` | an execution from its answer to its row, each of them in a file of its own |
| `ReportedCalls`, `ReportedOfModel` | what the usage endpoint reports |
| `Dies`, `Rotate`, `NextMonth` | the process, the log's rotation, the calendar |

`past` is history. Calls stand for tokens and cost too, which the same statements add. The code
writes no model row for an empty model id; there is none, since every adapter puts its default
model in the place of a missing one (`openai_adapter.py:410`, `local_adapter.py:166`).

### LocalBenchmark, BackgroundJobs

Executions answered by OpenAI are captured with a row for each local model and replayed on the
model the local server has loaded. `LocalBenchmark` has the rows, the rotation and the two
runners that may overlap (the job, and one endpoint at a time); `BackgroundJobs` adds the
scheduler, the life of the process and the heartbeat to the supervisor.

| Model | Code |
|---|---|
| `row`, `rotated` | the rows of `local_llm_benchmark_store.py` (a row is done when it completed or failed), the rotation file |
| `runner[w]` | `local_llm_benchmark_rotation.py` and `local_llm_benchmark_worker.py`, cut where they wait: the script that swaps the model, an answer of the server |
| `Capture`, `Rotate`, `SwapEnds`, `SwapFails`, `Executed`, `AfterClaim` | capture, the choice of the next model, the two ends of a swap, the end of a row and the claim of the next one |
| `StoreFails`, `Interrupted` | an error of the database or of the rotation file inside a run; the job's loop goes on |
| `CycleCalled`, `LoadedCalled`, `RunLoaded` | the endpoints; the server may have any model, also one from outside the rotation |
| `Wakes`, `Sleeps`, `JobsStart`, `Gone` | `runtime/internal_scheduler.py`: a loop for each job, stop and crash |
| `Named`, `Removed` | the identity of the node: an onboarding changes it, a removal from Core takes it away, and the heartbeat without one does nothing |
| `HeartbeatBegins`, `Healthy`, `Registers`, `Unanswered`, `Accepted`, `Refused` ... | `_supervisor_heartbeat_job_once` in the control API and `supervisor/client.py` |
| `SupervisorStops`, `SupervisorStarts` | a service of the host that forgets its nodes when it ends |

`runs` (how often a row was executed) is history.

### MCPricingCatalog, MCModelCatalog, MCProviderRouting, MCPromptRegistry, MCClientUsage, MCBackgroundJobs

The instances TLC runs: which models, listings, requests and operations there are.

### ProviderProofs, PromptRegistryProofs, ClientUsageProofs, BackgroundJobsProofs

The theorems about these components, for any values of their constants.

## 4. What the runs check

| Run | Shows |
|---|---|
| `OnboardingRuns` | preemption everywhere: the in-flight flag is up exactly while the current run's worker is alive, and the threads implement `RegistrationRuns` |
| `OnboardingLive` | with restarts, re-trusts, removals, a crash and identity rotation, the session shown is the current run's, and a node that waits for a registration has a live run (or an endpoint about to reset it); `registration_pending` is left |
| `TaskBooks` | two executions compete for a grant and a provider budget the operator changes, over a restart: reservations have owners, admitted tasks keep their money, the books show what was spent; a reservation ends, unless its task was cut off by the process or by an error in its result |
| `TaskPeriods` | two executions of two kinds, two grants and a provider budget that each have money for some of them only: a task may be refused by its second grant or by the provider after the first was reserved, and the period of the grants changes between reservation and settlement. The two implement `Settlement`; the reserved totals are the sums of the reservations, within the ceilings |
| `Activation` | two overlapping requests, the health job, scheduled and other ends of the process, an exception at every await: an operational node has an accepted profile and governance, the restarts between two signs of health are bounded, and a degraded node heals once the broker accepts it, attempts left or not |
| `PricesKept` | overlapping refreshes and merges, saves and scaffoldings cut at every file, edits and restarts: a refresh that begins after a save shows what was saved, and the price of a model that is in the operator's file is changed by the operator only, as is its place in the listing |
| `ModelsKept` | overlapping listings, reloads, comparisons and reruns, with selections, models the prices make unavailable and restarts: the capabilities file is of one piece, and what is selected stays classified across a reload or a rerun |
| `Routing` | two executions or comparisons across a refresh or a reload, a change of settings or of the selection and a restart: the router gives up only after every attempt at every provider that stayed good, the resolver rejects only what no provider serves, executions end |
| `Prompts` | three calls on two threads and the event loop, cut at every step, and a restart: the current version exists in every copy and in the file; a call that overlaps no other leaves exactly what it promises |
| `Usage` | three starts that may die between any two transactions, executions, failed records, rotation, a new month: nothing is counted twice, and where the mark is set nothing is missing |
| `Jobs` | the benchmark job overlapped by its endpoints and interrupted by errors, and the heartbeat, over two starts of the process and of the supervisor and changes of the identity: no row is executed twice on a model, none is left out once runs do not fail, the supervisor learns the node by the identity it keeps |

One run expects a violation, of a statement of the repository the code departs from (quoted in
`findings`):

| Run | Statement | What happens |
|---|---|---|
| `PromptSuspended` | `docs/ai-node/prompt-lifecycle-and-access-policy.md`: a suspended prompt is not executable until it is restored | an execution copies the state while the suspension is made, and installs its copy after: the operator was answered, and the prompt stays executable |

### Bounds

Onboarding: `MaxRuns` (run ids, two or three: a run, one that replaces it, one after),
`MaxIds` (node ids: the first, and a rotation per re-trust), `MaxCrashes` (a crash and the
start after it), `MaxPollErrors` (1 or 2 in place of 30: the limit is met and passed), `Apis`
(request threads). A handler starts only when the run ids it will take are left (`RunsLeft`),
so a bound never stops a handler half-way.

Ledger and tasks: `MaxDay` (the clock stops; one day is enough for a period to end),
`NumPolicies` (two: one and its amendment), `MaxUsed` (a book used beyond it admits no more in
`LedgerSpec`; the number of executions bounds it otherwise), `MaxRestarts` (one in `TaskBooks`).
Every amount is chosen so that the tests of limits fail as well as hold. In `TaskBooks` two
tasks that reserve 2 each meet a grant of 6 and a provider limit of 4: one that spends 4 leaves
the grant, but not the provider, room for the second, which is then refused after its grant was
reserved in the draft. In `TaskPeriods` a task of kind `k2` needs both grants (limits 4 and 2)
and one of `k1` the first only, with spends of 3 and a provider limit of 3, so that either
grant and the provider refuse in some order, before and after the change of period. `TaskBooks`
has one policy and one day, because across a change of a grant's period `WorkIsFunded` and
`UsageIsSpend` do not hold (that of other policies they do, is proved). `TaskPeriods` has no
restart, and its two tasks are symmetric; restarts are covered by the theorems about the same
three properties, which have no bounds.

Activation: `Calls` (two requests, so that one overtakes the other at each await), `MaxTrusts`
(two: what the first left meets the second), `MaxCrashes` (one besides the scheduled
restarts), `MaxAttempts` (two in place of three: one attempt below the limit and one at it).
`restarts` needs no bound of its own: that it stays bounded is checked.

Pricing: `MaxRate` (2: a rate scraped and another saved), `MaxTime` (1: a catalog that is
fresh and one that is due or stale), `MaxBegun` (4: refreshes, merges, saves and
scaffoldings begun: two refreshes around a save, and one more of any), `Refreshes` (two: one ends
before the other; symmetric). Models: `Jobs` (two calls at a
time, symmetric), `MaxCalls` (4) and `Availables` (what the prices leave available: all, or one of
the models). Routing: two executions, one refresh or reload (`MaxRefreshes`), one change of
settings (`MaxChanges`), `Preferences` (none, or one model, selected), one restart, a retry (`Retries`); `Verdicts` leaves `degraded` out,
which the code treats as `available` here. Prompts: two threads and the event loop, `MaxCalls`
(3: a registration and two calls that meet), `MaxVersion` (4: each call adds one at most),
`MaxRestarts` (one); the threads are symmetric. Usage: two clients with a prompt each, two
models, two executions (symmetric), `MaxPast` (one execution of each model before the
database), `MaxMonth` (two), `MaxStarts` (three: two seedings cut off and one that completes).
Jobs: two local models, one captured execution, one call of an endpoint, `NodeIds` (two: one and
the one it changes to), `MaxStarts` (two), `MaxOutages` (one), `Limit` (one row a run of the
worker).

Deadlock is checked in the runs of onboarding, tasks, activation, prices and models. In
`Routing`, `Prompts`, `Usage` and `Jobs` everything stops when the bounds on calls, starts and
executions are used up.

### Fairness

Onboarding's `FairSpec`: every started thread keeps running and an HTTP request is answered or
times out (the client has a timeout of 10 s); strong, because a thread that waits for another
one's transition is disabled again and again and still gets its turn. Nothing is assumed of
the broker, of Core's answers or of the operator. Task execution's `FairSpec`: weak fairness of
`Advance(e)`, since the event loop resumes a coroutine whose await is over, publishing an event
swallows its failures, and the providers' HTTP clients time out. Nothing is assumed of
`Receive`, of the policy or of the operator. Activation's `FairSpec`: weak fairness of the
health job (the scheduler calls it at an interval, and the connection to the broker has a
timeout) and of a thread inside an endpoint that clears stores. Nothing is assumed of Core, of
requests or of the operator, and `HealsItself` asks only that the broker accepts the node from
some time on and that its trust stays. `ProviderRouting`: weak fairness of the next attempt of an
execution, whose HTTP client times out. `BackgroundJobs`: weak fairness of the start of the jobs
and of each job's next step (sleeps end, and the supervisor's client, the script and the
adapter have timeouts), and strong fairness of the supervisor's health answer and of its
registration: a supervisor that is up answers some time. Without it nothing can be promised,
since the job retries for ever. Of the load of a model nothing is assumed: a model that never
loads is tried for ever. `PendingIsReplayed` is about the runs after the last one that failed and
after the last call of an endpoint, which its premise names.

### Departures met while modelling

Not the subject of a run; each is a behaviour of the model.

Onboarding. With two overlapping requests `RegistrationIsDriven` and `PendingIsCurrentSession`
do not hold: an `initiate` that goes on after a `restart` starts the MQTT runner of a node that
was reset. The repository promises nothing about overlapping requests, so that run has one
request thread. Nor do they hold when another thread runs between the test and the assignment
of a transition, so it closes that window too; the theorems about the two properties have both
hypotheses. The timeout monitor clears the deadline it finds after its transition, which
may be that of the next attempt: the node then stays in `bootstrap_connecting`, although
`README.md` says it goes back to `unconfigured` on timeout. A cancelled run may take the
permission to rotate the identity, which then names another node than the trust state
(`docs/ai-node/trust-state.md`, one node in both). The duplicate-id retry rotates the identity
although `docs/ai-node/node-identity.md` says retries do not. Recovery of a failed first
onboarding reaches `capability_setup_pending` without a trust state. An approval that is
answered after `restart_setup` takes the reset node from `unconfigured` to `trusted`, against
the diagram in `docs/ai-node/lifecycle-states.md`. Two threads inside `transition_to` take a
step that is not in the table.

Budgets and tasks. A policy refreshed from Core is overridden by the one in the governance
bundle at the next use (`Cached`); an older policy that comes back starts its books afresh and
empties them, against `docs/ai-node/budget-enforcement-contract.md`. The cost of a fallback is
charged to the provider that was planned, while the same document has usage totals per
provider. A task that settles after its book was started afresh is charged to nobody, although
`docs/ai-node/phase-3.md` has spend finalised. Work cut off by the end of the process keeps its
reservation, and so does a task whose result raises after the provider answered
(`task_execution_service.py:373`): nothing releases it before the book's period ends. Two calls with one task id share a reservation and an entry of the tracker: the
first to end settles or releases it for both.

Activation. `docs/ai-node/phase2-review-handoff.md` says recovery from `degraded` is triggered
by hand, but the health job does it too; `docs/ai-node/phase2-implementation-plan.md` (task 072)
requires MQTT readiness for `operational`, but the code only warns; its task 074 has temporary
failures degrade the node, but an exception of a request leaves it in
`capability_declaration_in_progress`, which only a restart of setup, a re-trust or a new process
leaves. A bundle that went stale after it was loaded counts as fresh in a recovery. After a
restarted setup and a new trust the next start resumes with the acceptance of the old trust,
though in `docs/ai-node/lifecycle-states.md` `operational` means that Core accepted. With
`QuietWipes` FALSE, `OperationalIsAccepted` is violated: a declaration under way over a re-trust
saves the profile of the old trust, and a second one can reach `operational` after the profile
was cleared; a health answer that comes after a re-trust degrades a node without a trust state;
and the answer `removed` is acted upon although it may be about a trust replaced since. A
redeclaration Core rejected counts as the last manifest, and the same one is then skipped as
unchanged unless it is forced (`capability_declaration_runner.py:803`). A provider report whose
submission failed is not sent again while it stays the same. A periodic refresh changes the
node's capabilities without a redeclaration.

Providers. What a save promises for the catalog is kept by the overrides; the YAML file, which
is asked first, gets the price from what the catalog holds when the save ends. A refresh that ends
in between gives the file the scraped price, and a second save of that model does not reach it;
one that names the model without rates, or a merge that brings such an entry back, leaves the
file without a price. `docs/runtime.md` has later refreshes keep what was saved: a refresh that has read the
overrides when a save writes them, and writes the catalog after, does not, and the next one
does. The price goes on to be asked of a file that two scaffoldings, or one and an edit, may have
written at once: the one that read first and writes last loses what the other wrote. A save that leaves a rate
open stores the catalog's as the operator's. Two saves at once lose an override (they are modelled
one at a time). A merge writes back the catalog it loaded over the one a save wrote meanwhile. A price saved with one rate costs no task (`estimate_cost` wants both), and the other
rate saved later does not reach the file. The periodic refresh does not keep the selected models classified, which `tests/test_provider_runtime.py`
asks of a reload; an older listing may overwrite a newer one; with no usable model the union is
that of all models (`feature_union.py`); Core is told the registry's models that are in the
catalog, not only the usable ones of `docs/ai-node/phase-4.md`; a failed listing empties the
classes and leaves the capabilities as they were. The router falls back to any registered
provider with the first one's model (`docs/ai-node/phase-3.md`), also to a disabled one, which
stays registered; when no usable model is approved the resolver plans the default one and the
governance check rejects the task, though another provider fits; the approvals a request
brings replace the bundle's; a listing that raises ends the refresh before the router is
rebuilt; after a restart no adapter is registered until the first refresh.

Prompts. Overlapping calls lose updates (`AloneSticks` says that only they do). Two
registrations at once leave two entries of one id. An update refused for a version that exists
keeps its change of the policy in memory, and the next save persists it. The file may be older
than memory until the next save.

Usage and benchmark. A crash between the seeds from the log and from the metrics loses what the
metrics had beyond the log, and the rest of the models, for good. A record that fails is lost
(the execution is not). The rows per model may add up to less than the total. History is
charged to the first prompt. A crash or a stop leaves a row `running` for ever; overlapping
cycles record results under the model another one has loaded meanwhile, and rewind the
rotation, and a call while the server has a model from outside of it starts it over; a model
that never loads stays the next one and is tried for ever, and the others wait. A job's flag
`running` stays up while its loop sleeps, so an active benchmark is reported as long as the
scheduler runs; the persisted `running` survives a crash until the next start.

## 5. What is proved

### Onboarding

`OnboardingProofs`, for any set of API threads, any bounds and both values of
`PreemptTransition`; the only assumption is `OnboardingAssumption` (bounds are natural numbers).

- `TypeCorrect`: `Spec => []TypeOK`. `TypeOK` is not inductive: that `errs` stays within its
  limit needs to know that a worker at the limit has left the polling loop
  (`ErrsBelowLimit`), and that a worker about to start is a fresh one needs that no worker has
  a run id not yet taken (`FreshRuns`). `TypeInv` is the three together. One lemma per thread
  or endpoint; all worker steps go through `WorkerMoves`.
- `InflightCorrect`: `Spec => []InflightIsCurrentRun`, from `OwnerInflight`: the flag is up
  exactly when the run that owns onboarding is not `None`.
- `RunsRefinement`: `Spec => KeepsRunsPromise`. `OnCoreDiscovered` is `Begin`, the current
  run's `End` is `Finish`, `CancelRun` is `Cancel`, the current run's `Publish` is `Show`,
  `Adopt` and `ClearSession` are `Drop`, `Crash` is `Reset`; every other step stutters.
- `SessionIsCurrent` and `RegistrationGoesOn`: `ASSUME ~PreemptTransition, OneRequest` (the
  endpoints are called one at a time) `PROVE Spec => []PendingIsCurrentSession` and
  `Spec => []RegistrationIsDriven`. Neither hypothesis can go: TLC finds both properties
  violated without either (see the departures). The invariant is `Serial`: one thread at most
  is between a test and its transition (`OneMid`), so that what it tested still holds
  (`Tested`); while an endpoint resets the node nothing is listened to, and past its `cancel`
  there is neither run nor session (`Stopped`); a session shown is the current run's and is
  gone before the node starts anew (`Shown`); where the lifecycle cannot be while the current
  run is at each of its steps (`RunPast`); and what drives a node that waits (`Driven`).
  `RequestCases`, `WorkerCases` and `TransitionCases` say once what the steps of the endpoints
  and of a worker do to these parts; there is one lemma per kind of step.

### Sums

Several properties are sums over a set: the reservations of a book, the calls of all clients.
The library defines the sum as a recursive function on the subsets of the set, and what such a
function computes takes induction, whose theorems in the library the provers cannot
instantiate. `Sums` does it by minimal counterexamples, from the theorem that `<` on the
naturals is well founded: a nonempty set of naturals has a least member (`LeastExists`), so a
nonempty set of finite sets has a minimal one (`MinimalSet`). That the recursive function exists
at all is shown for the sets of at most `n` elements, `n` being the least for which it would not
(`SumsExists`). Then: a sum of naturals is one (`SumType`), is zero when all terms are
(`SumZero`), changes with one term by the difference (`SumChange`), covers each term
(`SumCovers`) and is monotone (`SumMonotone`).

### The ledger and task execution

`TaskExecutionProofs`. The ledger on its own first, for any tasks (finitely many), grants,
policies and bounds; the assumption is `LedgerAssumption` (amounts are natural, a period has at
least a day, a grant's id is not that of a provider's entry).

- `LedgerTypeCorrect`: `LedgerSpec => []LedgerTypeOK`, one lemma per method.
- `LedgerConserves`: `LedgerSpec => []Conservation`: the reserved amount of every book, which
  each method adds to and takes from, is the sum of its reservations.
- `LedgerWithinCeiling`: `LedgerSpec => []WithinCeiling`. `Finalize` takes a reservation off
  the total, `NonNegative` of the difference; the charge is covered by it only if the total
  was at least the reservation. So `WithinCeiling` is inductive only together with
  `Conservation` (`Solvent`: types, sums and ceilings).

Then the tasks, on `ExecutionAssumption` besides; the process may restart, and task ids may be
shared unless `OwnIds` is assumed (every execution has one of its own).

- `TaskTypeCorrect`: `Spec => []TypeOK`, with `Planned` (a call that reserves has a provider).
- `ReservationsOwned`: `Spec => []ReservationsAreOwned`. No step takes an execution out of
  `Owning` without ending its task's reservations (`OwnersKept`), and a new reservation is that
  of an execution just admitted (`NewOwned`).
- `TasksConserve`, `TaskWithinCeiling`: `Spec => []Conservation` and `Spec => []WithinCeiling`,
  from the ledger's lemmas.
- `SettlementRefinement`: `ASSUME OwnIds PROVE Spec => KeepsSettlement`. An admission is `Hold`
  on the accounts in `Targets`, those with another window being started afresh; `Fail` is
  `Drop`, `Settle` is `Settle`, `Restart` is `Die`; every other step stutters. Without `OwnIds`
  it is false: the end of one call would end the hold of the other.
- `WorkStaysFunded`: `ASSUME OwnIds, WindowsFixed PROVE Spec => []WorkIsFunded`, where
  `WindowsFixed` says that the policies Core issues may differ in limits and services but leave
  the grants' periods; a policy with another period starts a book afresh, and its reservations
  with it, so the hypothesis is needed. It is not that of one policy, as in the run. The
  invariant is `Funded`: a book is of its one period or as it was at the beginning
  (`BooksDated`), which the clock does not change, since a provider's account carries its period;
  and a task holds exactly the reservations in the books it was admitted to
  (`HoldsWhatItHas`).
- `BooksShowSpend`: `ASSUME OwnIds, WindowsFixed, OneCost PROVE Spec => []UsageIsSpend`. An
  execution whose cost is unknown is charged its reservation, which is gone by then; with one
  amount for all (`OneCost`) the property can name it. Each settlement changes one term of the
  sum, and no other step does.

### Activation

`ActivationProofs`, on `ActivationAssumption` (bounds are natural numbers) and
`RecoveryAssumption` (at least one attempt), for any set of requests.

- `ActivationTypeCorrect`: `Spec => []TypeOK`, one lemma per group of actions.
- `RestartsStayBounded`: `Spec => []RestartsBounded`. The bound is not inductive; that the file
  counts at least the restarts scheduled (`RestartsAreCounted`) is, since a start of the
  process keeps the file, and the file is bounded by its type.
- `OperationalStaysAccepted`: `ASSUME QuietWipes PROVE Spec => []OperationalIsAccepted`, by
  `Accepted`: what each await relies on (`Relies`: a declaration past its first answer has a
  profile, past its second a bundle), that a governance state other than `unknown` has a bundle
  (`GovernanceIsHeld`), and that nothing is under way while trust is cleared (`WipesAlone`).

### Prices

`ProviderProofs`, on `PricingAssumption` (rates are bounded, intervals positive), for any models,
rates, intervals and number of refreshes, merges, saves and scaffoldings. It does not exclude
entries without rates.

- `PricingTypeCorrect`: `PricingSpec => []PricingTypeOK`, with what each call under way has loaded.
- `SavedStaysShown`: `PricingSpec => LaterRefreshesKeep`, an action property. The overrides show
  what was asked for last (`AskedIsOverridden`): a save writes them from the ones it read, which
  nobody else changes (`SaveIsCurrent`). What a refresh owes is what is still asked for
  (`OwedIsAsked`), and from its read of the overrides on it is in the catalog it is about to
  write (`WritesOwed`); a save that comes in between settles the debt.
- `FileIsTheOperators`: `PricingSpec => EditsStand`, an action property. A scaffolding that has read the
  file before it was edited may still write (the edit is lost), so the property is about models
  for which none is under way with another price (`Settled`), and that stays so (`SettledStays`);
  the file's price is the one that is asked for and makes the model at least `degraded` in the
  listing (`PriceStays`).

### Models

`ProviderProofs`, on `CatalogAssumption`, for any models, families, tiers, groups, tasks, listings
and number of calls under way.

- `ModelsTypeCorrect`: `CatalogSpec => []CatalogTypeOK`.
- `CapabilitiesStayMatched`: `CatalogSpec => []CapabilitiesMatch`. Capabilities are resolved from the
  features that are stored; that the features and the classes always are of the same models
  (`SameModels`) is what makes the tasks those of the enabled models.
- `SelectedAreKept`: `CatalogSpec => SelectedStayClassified`, an action property of any state: each of
  these steps classifies the listed models that are selected, besides the representatives of
  the groups (`KeptAreClassified`).

### Routing

`ProviderProofs`, on `RoutingAssumption` (`None` is no provider, model or plan; listings are of
models; the operator has enabled somebody), for any providers, models, requests, governance, tasks
and number of refreshes.

- `RoutingTypeCorrect`: `RoutingSpec => []RoutingTypeOK`, which includes that a task in its attempts is at a
  provider that has an adapter: adapters are never removed but by a restart, which ends the
  attempts.
- `SteadyStayTried`: `RoutingSpec => []SteadyAreTried`. The property speaks of the end only. On the way
  (`Underway`), a steady provider is still registered and good, and was tried as often as its
  place says (`AttemptsMade`): never if it is still to come, all its attempts if it was
  left behind. A provider that can be tried is never skipped (`FromReachableIs`), because places
  are an order: no two providers have the same (`PlacesOrder`).
- `ServedStayResolved`: `RoutingSpec => []ResolvesIfServed`. The cases of the model
  (`ModelForIs`): with any allowed model the first of the lists is found (`FirstAllowed`), with none
  the default or the first listed one is taken.

### Prompts

`PromptRegistryProofs`, on `PromptAssumption`, for any finite set of threads, any policies,
requests and operations.

- `PromptTypeCorrect`: `Spec => []TypeOK`. A new state needs an object that no call refers to;
  there is one because calls are as many as callers, one less than the objects besides the
  state's (`UnusedExists`, by cardinalities).
- `CurrentStaysAVersion`: `Spec => []CurrentVersionExists`. It depends on two orders in the code:
  an update adds the version before it prefers it, and a copy takes the versions after the
  current one. `Refs` says what a call relies on while others change its object: the version it
  is about to prefer is in the entry it holds, and what it copies was in the object it copies
  from. Objects only grow while somebody refers to them (`Grows`, `RefGrows`); the one exception, a
  registration in place of a retired entry, detaches the calls that held it (`RegRegister`).
- `AloneCallsStick`: `Spec => []AloneSticks`: the calls that no other overlaps implement the
  sequential specification `Effect`. `Lone` says at each stage what is still missing:
  the change, the version, the preference, nothing. In particular the copy of an undisturbed
  call is the state it was made of (`LoneInstall`), and an update in two steps is the update
  (`UpdateInTwo`).

### Client usage

`ClientUsageProofs`, for any clients, prompts, models, executions, history, months and starts.

- `UsageTypeCorrect`: `Spec => []TypeOK`.
- `NothingCountedTwice`: `Spec => []NeverOvercounted`, in total and of each model. A process
  that dies while it seeds leaves rows without a mark, and the next one does not seed again
  because of the rows; that is `Seeding`, which relates where the process is to what the rows
  hold and to files that nothing has touched yet. `Over` and `OfModel` are the bounds
  themselves, with the executions still on their way to a row added; `Flow` says that those exist
  only while the process serves.
- `MarkMeansComplete`: `Spec => []MarkedIsComplete`, by `Marked`: with the mark the rows hold the
  larger of the two histories and every recorded execution.

What the endpoint reports is a sum over clients of sums over prompts; an upsert changes one row,
so one inner sum and one term of the outer (`GrandAdds`).

### Jobs

`BackgroundJobsProofs`, for any jobs, models, rows, calls, starts and outages.

- `JobsTypeCorrect`: `Spec => []TypeOK`, which includes that a loop is in its job exactly while
  the job has something under way (`LoopsOnlyUp` besides: no loop without a process).
- `RowsAreRunOnce`: `Spec => []RowsRunOnce`. A row that is pending, or not there yet, has never
  run, and no row has run more than once (`Claims`): a claim is one transaction, and nothing
  makes a row pending again. Who executes has a captured row of a local model (`RunnersSound`).

### Only model-checked

Liveness (`RegistrationSettles`, `ReservationsEnd`, `HealsItself`, `ExecutionsEnd`,
`PendingIsReplayed`, `SupervisorKnowsNode`), which is out of the prover's reach. Every invariant
and every action property that a passing run checks is proved, on the assumptions named above.

## 6. Not modelled

- Lease execution: `main.py` does not use it. The approval waiter: superseded by the onboarding
  runtime and not used either.
- Notifications and telemetry: output of the node; nothing in it reads them back.
- The service manager: a wrapper of systemctl, whose state is outside of the node; the restart
  the health job asks for is an action of `Activation`.
- The text of pricing pages, prompts and model answers; the adapters' payloads; the manifests'
  contents; the formats of files. They are data no property tells apart.
- The benchmark's summaries and latencies; request and token counts of budgets:
  counters with no effect on what is done. The list `pending_usage_summaries` of the budget
  state: each settlement adds to it and nothing reads, sends or empties it.
- The web UI, a view of the control API, and the scripts.

What is left out inside a modelled component is said in its section above, and in `components`
of `PROJECT.json`.
