--------------------------- MODULE ProviderRouting ---------------------------
(***************************************************************************)
(* How a task gets from a request to a provider that answers it: the         *)
(* selection policy and the resolver (execution/provider_selection_policy.py,*)
(* runtime/provider_resolver.py), the governance check after it, the router  *)
(* with its retries and fallbacks (providers/execution_router.py), and the   *)
(* registry that refreshes, reloads of saved credentials and explicit        *)
(* comparisons change meanwhile, with the router that refreshes replace      *)
(* (providers/runtime_manager.py).                                           *)
(*                                                                         *)
(* Everything runs on the event loop, cut at its awaits.  The admission of a *)
(* task before the resolution, its budget and its result are TaskExecution's, *)
(* the models of openai ModelCatalog's.  Timeouts, failures in the metrics,  *)
(* latencies and what is logged are left out.                               *)
(***************************************************************************)
EXTENDS Naturals, Sequences, SequencesExt, ProviderModels

CONSTANTS
    Sorted,         \* the providers, by name
    Openai,         \* the one whose listing may raise, and whose models are selected
    None,
    ModelLists,     \* the models of a provider that may be available or degraded
    Verdicts,       \* what a health check may find: available, degraded, unavailable
    Preferences,    \* the classified models the operator may have selected for Openai
    DefaultModel,   \* the default model of each provider, or None
    Limit,          \* the cost limit of each provider, or None
    Retries,        \* the highest retry count configured
    EnabledLists,   \* the providers the operator may enable, in the order stored
    Bundles,        \* what governance may approve
    Requests,
    Tasks,
    RefreshJobs,    \* refreshes and reloads that may be under way at once
    MaxRefreshes, MaxChanges, MaxRestarts     \* bounds

Providers == Range(Sorted)
Availability == {"none", "available", "degraded", "unavailable"}
Good == {"available", "degraded"}

ASSUME RoutingAssumption ==
    /\ Sorted \in Seq(Providers)
    /\ Openai \in Providers
    /\ None \notin Providers \cup Models \cup [provider : Providers, model : Models]
    /\ Verdicts \subseteq Availability \ {"none"}
    /\ ModelLists \subseteq Seq(Models) /\ Preferences \subseteq Seq(Models)
    /\ DefaultModel \in [Providers -> Models \cup {None}]
    /\ \A p \in Providers : Limit[p] \in Nat \cup {None}
    /\ EnabledLists \subseteq Seq(Providers) /\ <<>> \notin EnabledLists
    /\ \A b \in Bundles : b.providers \subseteq Providers
    /\ \A r \in Requests : /\ r.provider \in Providers \cup {None}
                           /\ r.model \in Models \cup {None}
                           /\ r.cost \in Nat \cup {None}
                           /\ r.providers \subseteq Providers
                           /\ r.models \in [Providers -> Seq(Models)]
    /\ {Retries, MaxRefreshes, MaxChanges, MaxRestarts} \subseteq Nat

VARIABLES
    enabled,    \* the selection store
    bundle,     \* what governance approves
    preferred,  \* the models selected for Openai that are classified, in their order
    adapters,   \* the providers with an adapter in the registry
    health, models,     \* the registry's
    router,
    counted,    \* the answered tasks the metrics count
    disk,       \* the registry and the metrics as persisted
    refresh,    \* the refreshes under way
    task,
    used        \* refreshes, changes and restarts so far

registryVars == <<adapters, health, models>>
config == <<enabled, bundle, preferred>>
routingVars == <<config, registryVars, router, counted, disk, refresh, task, used>>

NoRouter == [default |-> None, fallback |-> None, retries |-> 0]

---------------------------------------------------------------------------
(* The selection policy and the resolver.                                   *)

\* The place of each provider when those in front go before the others, which go by name.
Places(front) ==
    [p \in Providers |->
        LET list == front \o Sorted IN Min({i \in DOMAIN list : list[i] = p})]

\* The first of some providers.
First(ps, place) == CHOOSE p \in ps : \A q \in ps : place[p] <= place[q]
FirstByName(ps) == First(ps, Places(<<>>))

\* ProviderRuntimeConfigLoader.load, without SYNTHIA_DEFAULT_PROVIDER
Default == Head(enabled)

\* openai_usable_models_payload, provider_selection_context_payload: the list the models of a
\* task are taken from, which is the operator's if any of it is classified and registered.
Listing(p) ==
    IF p = Openai /\ Range(preferred) \cap Range(models[p]) # {} THEN preferred ELSE models[p]

\* Enabled, approved in the request, not known as unavailable, and within its limit.
Eligible(r, p) ==
    /\ p \in Range(enabled)
    /\ r.providers = {} \/ p \in r.providers
    /\ health[p] \in Good
    /\ r.cost = None \/ Limit[p] = None \/ r.cost <= Limit[p]

\* build_provider_selection_policy: the eligible ones, of which the requested goes first, then
\* the default, then the others.
Candidates(r) == {p \in Providers : Eligible(r, p)}
ProviderOrder(r) == Places(<<r.provider, Default>>)

\* build_provider_selection_policy: usable and approved models, narrowed to the requested one.
Allowlist(r, p) ==
    LET approved == Range(r.models[p])
        usable == Range(Listing(p)) \cap Range(models[p])
        allowed == IF usable = {} THEN approved
                   ELSE IF approved = {} THEN usable ELSE usable \cap approved
    IN  IF r.model # None /\ (allowed = {} \/ r.model \in allowed) THEN {r.model} ELSE allowed

\* The first of a list that is among ms.
FirstOf(list, ms) == list[Min({i \in DOMAIN list : list[i] \in ms})]

\* _select_model_for_provider: the requested one, the first allowed, the default, or any.
ModelFor(r, p) ==
    LET allowed == Allowlist(r, p)
        asked == IF p = r.provider THEN r.model ELSE None
    IN  CASE asked # None -> IF asked \in allowed THEN asked ELSE None
          [] asked = None /\ allowed # {} ->
                FirstOf(Listing(p) \o r.models[p] \o <<r.model>>, allowed)
          [] OTHER ->
                IF DefaultModel[p] # None /\ (models[p] # <<>> => DefaultModel[p] \in Range(models[p]))
                THEN DefaultModel[p]
                ELSE IF models[p] # <<>> THEN Head(models[p]) ELSE None

\* ProviderResolver.resolve: the first of some candidates.
ResolveAmong(r, ps) ==
    IF ps = {} THEN None
    ELSE LET p == First(ps, ProviderOrder(r)) IN [provider |-> p, model |-> ModelFor(r, p)]

\* ProviderResolver.resolve.  Fault: only the first candidate is looked at.
Resolve_FirstOnly(r) ==
    ResolveAmong(r, {p \in Candidates(r) : /\ p = First(Candidates(r), ProviderOrder(r))
                                           /\ ModelFor(r, p) # None})

\* ProviderResolver.resolve: the first of the candidates with a model.
Resolve(r) == ResolveAmong(r, {p \in Candidates(r) : ModelFor(r, p) # None})

\* evaluate_execution_governance: what the request approves goes before the bundle.
Approves(r, p, m) ==
    LET providers == IF r.providers # {} THEN r.providers ELSE bundle.providers
        ms == IF r.listsModels THEN r.models[p] ELSE bundle.models[p]
    IN  /\ providers = {} \/ p \in providers
        /\ ms = <<>> \/ m \in Range(ms)

---------------------------------------------------------------------------
(* The router.                                                              *)

\* ProviderExecutionRouter.execute: the order.
RouterOrder(p) == Places(<<p, router.default, router.fallback>>)

\* ProviderExecutionRouter.execute.  Fault: the other registered providers are forgotten.
Ordered_Configured(p) == {p, router.default, router.fallback} \ {None}

\* ProviderExecutionRouter.execute: who is in the order, of what is registered at its start.
Ordered(p) == ({p, router.default, router.fallback} \cup adapters) \ {None}

\* The rest of the order from the next provider that is not unavailable.  Fault: whether it
\* has an adapter is not looked at.
FromReachable_NoAdapter(ps, place) ==
    LET ok == {p \in ps : health[p] \in Good}
    IN  {p \in ps : ok # {} /\ place[First(ok, place)] <= place[p]}

\* The rest of the order from the next provider that has an adapter and is not unavailable.
FromReachable(ps, place) ==
    LET ok == {p \in ps \cap adapters : health[p] \in Good}
    IN  {p \in ps : ok # {} /\ place[First(ok, place)] <= place[p]}

\* What a task goes on with: attempts at the first of rest, or the failure.  Besides, for
\* the properties, the providers that were good ever since the dispatch, and the attempts.
Trying(t, rest, place, left, retries, steady, tries) ==
    task' = [task EXCEPT ![t] =
        [at |-> IF rest = {} THEN "failed" ELSE "trying", rest |-> rest, place |-> place,
         left |-> left, retries |-> retries, steady |-> steady, tries |-> tries]]

\* execute: resolution, then the events of it are awaited.
Resolves(t, r) ==
    /\ task[t] = Idle
    /\ task' = [task EXCEPT ![t] =
            IF Resolve(r) = None THEN [at |-> "rejected"]
            ELSE [at |-> "resolved", request |-> r, plan |-> Resolve(r)]]
    /\ UNCHANGED <<config, registryVars, router, counted, disk, refresh, used>>

\* execute: the governance check of the plan, then the reservation and its events.
Checks(t) ==
    /\ task[t].at = "resolved"
    /\ task' = [task EXCEPT ![t] =
            IF Approves(task[t].request, task[t].plan.provider, task[t].plan.model)
            THEN [at |-> "admitted", plan |-> task[t].plan]
            ELSE [at |-> "rejected"]]
    /\ UNCHANGED <<config, registryVars, router, counted, disk, refresh, used>>

\* _execute_provider_handler, with the router of this moment.
Dispatches(t) ==
    /\ task[t].at = "admitted"
    /\ LET p == task[t].plan.provider
       IN Trying(t, FromReachable(Ordered(p), RouterOrder(p)), RouterOrder(p), router.retries,
                 router.retries, {q \in adapters : health[q] \in Good}, [q \in Providers |-> 0])
    /\ UNCHANGED <<config, registryVars, router, counted, disk, refresh, used>>

\* The provider answers: counted, and the metrics are persisted.
Answers(t) ==
    /\ task[t].at = "trying"
    /\ task' = [task EXCEPT ![t] = [at |-> "answered"]]
    /\ counted' = counted \cup {t}
    /\ disk' = [disk EXCEPT !.counted = counted']
    /\ UNCHANGED <<config, registryVars, router, refresh, used>>

\* The provider raises: again, then the next.  Fault: the failed provider stays the next.
Fails_SameNext(t) ==
    /\ task[t].at = "trying"
    /\ LET now == task[t]
       IN Trying(t, now.rest, now.place, IF now.left > 0 THEN now.left - 1 ELSE now.retries,
                 now.retries, now.steady, now.tries)
    /\ UNCHANGED <<config, registryVars, router, counted, disk, refresh, used>>

\* The provider raises: again, then the next.
Fails(t) ==
    /\ task[t].at = "trying"
    /\ LET now == task[t]
           p == First(now.rest, now.place)
           tries == [now.tries EXCEPT ![p] = @ + 1]
       IN IF now.left > 0
          THEN Trying(t, now.rest, now.place, now.left - 1, now.retries, now.steady, tries)
          ELSE Trying(t, FromReachable(now.rest \ {p}, now.place), now.place, now.retries,
                      now.retries, now.steady, tries)
    /\ UNCHANGED <<config, registryVars, router, counted, disk, refresh, used>>

---------------------------------------------------------------------------
(* Explicit comparisons.                                                    *)

\* execute_explicit once it has an adapter: the attempt, or provider_unavailable.
Explicit(p) == IF health[p] \in Good \cup {"none"} THEN [at |-> "comparing"] ELSE [at |-> "rejected"]

\* execute_explicit: a provider without an adapter is registered first.
Compares(t, p) ==
    /\ task[t] = Idle
    /\ IF p \in adapters
       THEN task' = [task EXCEPT ![t] = Explicit(p)] /\ UNCHANGED adapters
       ELSE /\ task' = [task EXCEPT ![t] = [at |-> "probing", provider |-> p]]
            /\ adapters' = adapters \cup {p}
    /\ UNCHANGED <<config, health, models, router, counted, disk, refresh, used>>

\* A health check is answered: what was not good is no longer steady.
HealthSet(p, v) == health' = [health EXCEPT ![p] = v]

\* The tasks, once p is known to be v.
StillSteady(p, v) ==
    [t \in Tasks |->
        IF task[t].at \in {"trying", "failed"} /\ v \notin Good
        THEN [task[t] EXCEPT !.steady = @ \ {p}] ELSE task[t]]

\* execute_explicit: the health of the provider it has registered.
Probed(t, v) ==
    /\ task[t].at = "probing"
    /\ LET p == task[t].provider IN
        /\ HealthSet(p, v)
        /\ task' = [StillSteady(p, v) EXCEPT ![t] = [at |-> "probingModels", provider |-> p]]
    /\ UNCHANGED <<config, adapters, models, router, counted, disk, refresh, used>>

\* execute_explicit: its models, or an exception.
ProbedModels(t, ms) ==
    /\ task[t].at = "probingModels"
    /\ LET p == task[t].provider IN
        \/ /\ models' = [models EXCEPT ![p] = ms]
           /\ task' = [task EXCEPT ![t] = Explicit(p)]
        \/ /\ p = Openai /\ task' = [task EXCEPT ![t] = [at |-> "rejected"]]
           /\ UNCHANGED models
    /\ UNCHANGED <<config, adapters, health, router, counted, disk, refresh, used>>

\* One attempt, counted either way, and the metrics persisted.
Compared(t) ==
    /\ task[t].at = "comparing"
    /\ \/ task' = [task EXCEPT ![t] = [at |-> "answered"]] /\ counted' = counted \cup {t}
       \/ task' = [task EXCEPT ![t] = [at |-> "rejected"]] /\ UNCHANGED counted
    /\ disk' = [disk EXCEPT !.counted = counted']
    /\ UNCHANGED <<config, registryVars, router, refresh, used>>

---------------------------------------------------------------------------
(* Refreshes.                                                               *)

\* ProviderRegistry.persist: what has an adapter.
Snapshot ==
    [health |-> [p \in Providers |-> IF p \in adapters THEN health[p] ELSE "none"],
     models |-> [p \in Providers |-> IF p \in adapters THEN models'[p] ELSE <<>>],
     counted |-> counted]

\* The next provider is registered and asked for its health; after the last everything is
\* persisted, and a refresh replaces the router.
GoesOn(j, kind, todo, default, fallback) ==
    IF todo # {}
    THEN /\ adapters' = adapters \cup {FirstByName(todo)}
         /\ refresh' = [refresh EXCEPT ![j] = [at |-> "health", kind |-> kind, todo |-> todo,
                                               default |-> default, fallback |-> fallback]]
         /\ UNCHANGED <<router, disk>>
    ELSE /\ router' = IF kind = "reload" THEN router
                      ELSE [default |-> default, fallback |-> fallback, retries |-> Retries]
         /\ disk' = Snapshot
         /\ refresh' = [refresh EXCEPT ![j] = Idle]
         /\ UNCHANGED adapters

StartsRun(j, kind, todo, default) ==
    /\ refresh[j] = Idle /\ used.refreshes < MaxRefreshes
    /\ GoesOn(j, kind, todo, default, None)
    /\ used' = [used EXCEPT !.refreshes = @ + 1]
    /\ UNCHANGED <<config, health, models, counted, task>>

\* refresh: the configuration is read once, at its begin.
RefreshStarts(j) == StartsRun(j, "refresh", Range(enabled), Default)

\* refresh_openai_models_from_saved_credentials: Openai alone, also where it is not enabled.
ReloadStarts(j) == StartsRun(j, "reload", {Openai}, None)

HealthChecked(j, v) ==
    /\ refresh[j].at = "health"
    /\ LET p == FirstByName(refresh[j].todo) IN
        /\ HealthSet(p, v)
        /\ task' = StillSteady(p, v)
    /\ refresh' = [refresh EXCEPT ![j].at = "models"]
    /\ UNCHANGED <<config, adapters, models, router, counted, disk, used>>

\* The models of a provider; the first that is not the default is the fallback.
Listed(j, ms) ==
    /\ refresh[j].at = "models"
    /\ LET now == refresh[j]
           p == FirstByName(now.todo)
       IN /\ models' = [models EXCEPT ![p] = ms]
          /\ GoesOn(j, now.kind, now.todo \ {p}, now.default,
                    IF now.fallback = None /\ p # now.default THEN p ELSE now.fallback)
    /\ UNCHANGED <<config, health, counted, task, used>>

\* The listing raises, and the refresh or reload with it.
ListingRaises(j) ==
    /\ refresh[j].at = "models" /\ FirstByName(refresh[j].todo) = Openai
    /\ refresh' = [refresh EXCEPT ![j] = Idle]
    /\ UNCHANGED <<config, registryVars, router, counted, disk, task, used>>

---------------------------------------------------------------------------

\* The operator enables other providers, governance approves others, or the selection or the
\* classification of the models of Openai changes.
Changes ==
    /\ used.changes < MaxChanges
    /\ \/ enabled' \in EnabledLists /\ UNCHANGED <<bundle, preferred>>
       \/ bundle' \in Bundles /\ UNCHANGED <<enabled, preferred>>
       \/ preferred' \in Preferences /\ UNCHANGED <<enabled, bundle>>
    /\ used' = [used EXCEPT !.changes = @ + 1]
    /\ UNCHANGED <<registryVars, router, counted, disk, refresh, task>>

\* The process ends and starts: a router and a registry without adapters.
RoutingRestart ==
    /\ used.restarts < MaxRestarts
    /\ adapters' = {} /\ health' = disk.health /\ models' = disk.models
    /\ router' = NoRouter
    /\ counted' = disk.counted
    /\ refresh' = [j \in RefreshJobs |-> Idle]
    /\ task' = [t \in Tasks |-> IF task[t].at \in {"idle", "answered", "failed", "rejected"}
                                THEN task[t] ELSE [at |-> "gone"]]
    /\ used' = [used EXCEPT !.restarts = @ + 1]
    /\ UNCHANGED <<config, disk>>

RoutingInit ==
    /\ enabled \in EnabledLists /\ bundle \in Bundles /\ preferred \in Preferences
    /\ adapters = {} /\ health = [p \in Providers |-> "none"]
    /\ models = [p \in Providers |-> <<>>]
    /\ router = NoRouter /\ counted = {}
    /\ disk = [health |-> health, models |-> models, counted |-> {}]
    /\ refresh = [j \in RefreshJobs |-> Idle]
    /\ task = [t \in Tasks |-> Idle]
    /\ used = [refreshes |-> 0, changes |-> 0, restarts |-> 0]

Execution(t) ==
    \/ Checks(t) \/ Dispatches(t) \/ Answers(t) \/ Fails(t)
    \/ \E v \in Verdicts : Probed(t, v)
    \/ \E ms \in ModelLists : ProbedModels(t, ms)
    \/ Compared(t)

RoutingNext ==
    \/ \E t \in Tasks :
        \/ Execution(t)
        \/ \E r \in Requests : Resolves(t, r)
        \/ \E p \in Providers : Compares(t, p)
    \/ \E j \in RefreshJobs :
        \/ RefreshStarts(j) \/ ReloadStarts(j) \/ ListingRaises(j)
        \/ \E v \in Verdicts : HealthChecked(j, v)
        \/ \E ms \in ModelLists : Listed(j, ms)
    \/ Changes \/ RoutingRestart

\* A call to a provider ends: the adapters' clients have timeouts.
Fairness == \A t \in Tasks : WF_routingVars(Execution(t))

RoutingSpec == RoutingInit /\ [][RoutingNext]_routingVars /\ Fairness

---------------------------------------------------------------------------

\* The types; a task in its attempts has one left at a provider that has an adapter.
RoutingTypeOK ==
    /\ enabled \in EnabledLists /\ bundle \in Bundles /\ preferred \in Preferences
    /\ adapters \subseteq Providers
    /\ health \in [Providers -> Availability]
    /\ models \in [Providers -> ModelLists \cup {<<>>}]
    /\ router.default \in Providers \cup {None} /\ router.fallback \in Providers \cup {None}
    /\ router.retries \in {0, Retries}
    /\ counted \subseteq Tasks /\ disk.counted \subseteq Tasks
    /\ \A t \in Tasks : task[t].at = "trying" =>
            First(task[t].rest, task[t].place) \in adapters /\ task[t].left \in 0..task[t].retries

\* The router gives up only after it has used every attempt at every provider that was
\* registered and not unavailable from the dispatch on, whatever was registered, refreshed
\* or found unavailable meanwhile.
SteadyAreTried ==
    \A t \in Tasks : task[t].at = "failed" =>
        \A p \in task[t].steady : task[t].tries[p] = task[t].retries + 1

\* The resolver rejects a request only when no eligible provider knows any model: one that
\* the request names no model for, and that lists or defaults to one, is enough.
ResolvesIfServed ==
    \A r \in Requests :
        (\E p \in Providers : /\ Eligible(r, p)
                              /\ r.model = None \/ p # r.provider
                              /\ models[p] # <<>> \/ DefaultModel[p] # None)
        => Resolve(r) # None

\* An execution that was begun ends, whatever the providers answer.
ExecutionsEnd ==
    \A t \in Tasks : task[t].at \notin {"idle"}
        ~> task[t].at \in {"answered", "failed", "rejected", "gone"}
=============================================================================
