---------------------------- MODULE ModelCatalog ----------------------------
(***************************************************************************)
(* The OpenAI models of the node (providers/runtime_manager.py and the      *)
(* stores it uses).  What the provider lists goes through the model catalog *)
(* (known families only), the classification of some of these models, their *)
(* features, the selection of the operator, and the union of the features   *)
(* of the usable ones, to the tasks the node declares.  A report on the     *)
(* registry goes to Core besides.                                           *)
(*                                                                         *)
(* Everything runs on the event loop.  A call is cut at its awaits: the     *)
(* request to the provider, the price fetch (when it is enabled), the other *)
(* providers of a refresh, and the submission to Core.  The health of a     *)
(* provider and what a request executes are the matter of ProviderRouting,  *)
(* prices that of PricingCatalog: here they only decide which of the listed *)
(* models are available.  Texts and times are left out.                     *)
(***************************************************************************)
EXTENDS FiniteSets, Integers, ProviderModels

CONSTANTS
    PatternFamily,  \* the family a pattern gives a model, or "none"
    TierOf,         \* the suffix of its name: "pro", "mini", "nano" or "plain"
    Groups,         \* the sets of models one representative is chosen from
    Rank,           \* how the version numbers in the names compare
    TaskKinds,      \* the tasks a node may be capable of
    Graph,          \* capabilities/task_graph.json
    Listings,       \* what the provider may list
    Selections,     \* what the operator may select
    Availables,     \* the models the price catalog may leave available or degraded
    PricingFetch,   \* SYNTHIA_OPENAI_API_PRICING_FETCH_ENABLED
    Jobs,           \* calls that may be under way at once
    MaxCalls        \* bound: calls begun and selections saved

Features == {"chat", "code", "explain", "vision", "image", "voice", "audio_in",
             "audio_out", "embeddings", "moderation"}

ASSUME CatalogAssumption ==
    /\ PatternFamily \in [Models -> Families \cup {"none"}]
    /\ TierOf \in [Models -> {"pro", "mini", "nano", "plain"}]
    /\ Groups \subseteq SUBSET Models
    /\ Rank \in [Models -> Nat]
    /\ Graph \in [TaskKinds -> [all : SUBSET Features, any : SUBSET Features,
                                none : SUBSET Features]]
    /\ Listings \subseteq SUBSET Models /\ Selections \subseteq SUBSET Models
    /\ Availables \subseteq SUBSET Models /\ Availables # {}
    /\ PricingFetch \in BOOLEAN
    /\ MaxCalls \in Nat

VARIABLES
    listed,     \* what the provider lists now
    catalog,    \* provider_models.json
    classes,    \* provider_model_capabilities.json: the classified models
    features,   \* provider_model_features.json: the models with features
    selected,   \* provider_enabled_models.json
    caps,       \* node_capabilities.json
    adapter,    \* whether the registry has an adapter
    registered, \* the available or degraded models in the registry
    saved,      \* provider_registry.json
    published,  \* the models Core was told last
    job,        \* the calls under way
    calls

files == <<catalog, classes, features, caps>>
catalogVars == <<listed, files, selected, adapter, registered, saved, published, job, calls>>

Begun == calls < MaxCalls /\ calls' = calls + 1

---------------------------------------------------------------------------
(* Classification.                                                          *)

\* classify_openai_model_family, _is_filtered_out
Known == {m \in Models : PatternFamily[m] # "none"}

\* OpenAIProviderModelsDiscoveryService.  Fault: models of unknown families are kept.
Stored_All(got) == got

\* OpenAIProviderModelsDiscoveryService: what provider_models.json keeps of a listing.
Stored(got) == got \cap Known

\* _tier_heuristics
CodingStrength(m) ==
    IF PatternFamily[m] # "llm" THEN "none"
    ELSE CASE TierOf[m] = "pro" -> "high"
           [] TierOf[m] = "nano" -> "low"
           [] OTHER -> "medium"

\* _resolve_model_feature_flags
FeaturesOf(m) ==
    CASE PatternFamily[m] = "llm" ->
            {"chat", "explain", "vision"}
                \cup {f \in {"code"} : CodingStrength(m) \in {"medium", "high"}}
      [] PatternFamily[m] = "image_generation" -> {"image"}
      [] PatternFamily[m] = "realtime_voice" -> {"voice", "audio_in", "audio_out"}
      [] PatternFamily[m] = "speech_to_text" -> {"audio_in"}
      [] PatternFamily[m] = "text_to_speech" -> {"audio_out"}
      [] PatternFamily[m] = "embeddings" -> {"embeddings"}
      [] PatternFamily[m] = "moderation" -> {"moderation"}
      [] OTHER -> {}

\* select_representative_openai_model_ids: the best of each group.
Representatives(ms) ==
    {m \in ms : \E g \in Groups : m \in g /\ \A n \in g \cap ms : Rank[n] <= Rank[m]}

\* _openai_processing_model_ids
Scope(ms, preserve) ==
    LET chosen == Representatives(ms) \cup (preserve \cap ms)
    IN  IF chosen = {} THEN ms ELSE chosen

\* _filter_models_for_classification
Classified(ms, preserve) == Representatives(ms) \cup (preserve \cap ms)

---------------------------------------------------------------------------
(* From models to tasks.                                                    *)

\* openai_usable_models_payload: the registry must have the model as available or degraded.
UsableOf(sel, classified, available) == sel \cap classified \cap available

\* build_feature_union: all the models when none is enabled.
FeatureUnion(enabled, ms) ==
    UNION {FeaturesOf(m) : m \in IF enabled = {} THEN ms ELSE ms \cap enabled}

\* resolve_task_capabilities
TasksOf(union) ==
    {t \in TaskKinds : /\ Graph[t].all \subseteq union
                       /\ Graph[t].any = {} \/ Graph[t].any \cap union # {}
                       /\ Graph[t].none \cap union = {}}

\* resolve_node_capabilities
Resolved(enabled, ms) == [enabled |-> enabled, tasks |-> TasksOf(FeatureUnion(enabled, ms))]

\* _provider_intelligence_allowed_model_ids, intelligence_payload and the payload the client
\* builds of it: what Core is told are the available models.
Report == IF catalog = {} THEN registered ELSE registered \cap catalog

---------------------------------------------------------------------------
(* Calls.                                                                   *)

\* A call that asks the provider for its models: the background refresh, the reload after
\* the credentials were saved, and a comparison that finds no adapter.
Begins(j, kind) ==
    /\ job[j] = Idle
    /\ kind = "explicit" => ~ adapter
    /\ job' = [job EXCEPT ![j] = [at |-> "asking", kind |-> kind]]
    /\ adapter' = TRUE
    /\ Begun
    /\ UNCHANGED <<listed, files, selected, registered, saved, published>>

\* update_openai_credentials, and the reload that follows it when there is a token.
CredentialsSaved(j) == Begins(j, "credentials")

\* refresh_provider_capabilities: by the scheduler, or the operator.
RefreshRequested(j) == Begins(j, "job")

\* execute_explicit
ComparisonAsked(j) == Begins(j, "explicit")

\* list_models answers: what it lists now, or nothing after an error status.
Answered(j, got) ==
    /\ job[j].at = "asking"
    /\ got \in {listed, {}}
    /\ job' = [job EXCEPT ![j] = [at |-> "listed", kind |-> job[j].kind, got |-> got]]
    /\ UNCHANGED <<listed, files, selected, adapter, registered, saved, published, calls>>

\* list_models raises, and the call with it.
Raises(j) ==
    /\ job[j].at = "asking"
    /\ job' = [job EXCEPT ![j] = Idle]
    /\ UNCHANGED <<listed, files, selected, adapter, registered, saved, published, calls>>

\* _resolve_and_persist_node_capabilities, by a selection, the classes and the features.
ResolvesCaps(sel, classified, featured) ==
    caps' = Resolved(UsableOf(sel, classified, registered), featured)

\* _refresh_openai_model_capabilities.  Fault: the node's capabilities are resolved before the
\* features are saved.
Classify_FeaturesLast(scoped) ==
    IF scoped = {}
    THEN classes' = {} /\ features' = {} /\ UNCHANGED caps
    ELSE /\ classes' = Classified(scoped, selected)
         /\ features' = classes'
         /\ ResolvesCaps(selected, classes', features)

\* _refresh_openai_model_capabilities: with no models the files are emptied and the node's
\* capabilities stay as they are.
Classify(scoped) ==
    IF scoped = {}
    THEN classes' = {} /\ features' = {} /\ UNCHANGED caps
    ELSE /\ classes' = Classified(scoped, selected)
         /\ features' = classes'
         /\ ResolvesCaps(selected, classes', features')

\* What is kept in the scope besides the representatives.  Fault: nothing ever is.
Preserve_Nothing(kind) == {}

\* What is kept in the scope besides the representatives.
Preserve(kind) == IF kind = "job" THEN {} ELSE selected

\* merge_model_capabilities and set_models_for_provider: a model without a usable price is
\* there as unavailable.
SetModels(got) == \E ok \in Availables : registered' = got \cap ok

\* What follows the merge: the reload persists the registry, a refresh goes on with the
\* other providers.
Registered(j, kind, got) ==
    /\ SetModels(got)
    /\ IF kind = "credentials"
       THEN saved' = registered' /\ job' = [job EXCEPT ![j] = Idle]
       ELSE UNCHANGED saved /\ job' = [job EXCEPT ![j] = [at |-> "others"]]

\* The answer is used by refresh or by refresh_openai_models_from_saved_credentials.
ListingSaved(j) ==
    /\ job[j].at = "listed"
    /\ LET kind == job[j].kind IN
        /\ kind \in {"job", "credentials"}
        /\ catalog' = Stored(job[j].got)
        /\ Classify(Scope(catalog', Preserve(kind)))
        /\ IF PricingFetch
           THEN /\ job' = [job EXCEPT ![j].at = "pricing"]
                /\ UNCHANGED <<registered, saved>>
           ELSE Registered(j, kind, job[j].got)
    /\ UNCHANGED <<listed, selected, adapter, published, calls>>

\* The price fetch is over, whatever came of it.
Priced(j) ==
    /\ job[j].at = "pricing"
    /\ IF job[j].kind \in {"rerun", "prices"}
       THEN job' = [job EXCEPT ![j] = Idle] /\ UNCHANGED <<registered, saved>>
       ELSE Registered(j, job[j].kind, job[j].got)
    /\ UNCHANGED <<listed, files, selected, adapter, published, calls>>

\* The end of refresh: the registry is persisted, and a node with an accepted profile sends
\* the report to Core.
Persisted(j) ==
    /\ job[j].at = "others"
    /\ saved' = registered
    /\ \/ job' = [job EXCEPT ![j] = Idle]
       \/ job' = [job EXCEPT ![j] = [at |-> "submitting", got |-> Report]]
    /\ UNCHANGED <<listed, files, selected, adapter, registered, published, calls>>

\* submit_provider_intelligence
Submitted(j) ==
    /\ job[j].at = "submitting"
    /\ published' = job[j].got
    /\ job' = [job EXCEPT ![j] = Idle]
    /\ UNCHANGED <<listed, files, selected, adapter, registered, saved, calls>>

\* execute_explicit registers what was listed, with the prices of the listing.
ExplicitRegisters(j) ==
    /\ job[j].at = "listed" /\ job[j].kind = "explicit"
    /\ SetModels(job[j].got)
    /\ job' = [job EXCEPT ![j] = Idle]
    /\ UNCHANGED <<listed, files, selected, adapter, saved, published, calls>>

Rerun(j, cat) ==
    /\ catalog' = cat
    /\ Classify(Scope(cat, Preserve("rerun")))
    /\ job' = [job EXCEPT ![j] = IF PricingFetch THEN [at |-> "pricing", kind |-> "rerun"]
                                 ELSE Idle]

\* rerun_openai_model_capabilities: by the catalog, if there is one.
RerunBegins(j) ==
    /\ job[j] = Idle
    /\ IF catalog = {}
       THEN /\ job' = [job EXCEPT ![j] = [at |-> "asking", kind |-> "rerun"]]
            /\ UNCHANGED files
       ELSE Rerun(j, catalog)
    /\ Begun
    /\ UNCHANGED <<listed, selected, adapter, registered, saved, published>>

RerunListed(j) ==
    /\ job[j].at = "listed" /\ job[j].kind = "rerun"
    /\ Rerun(j, Stored(job[j].got))
    /\ UNCHANGED <<listed, selected, adapter, registered, saved, published, calls>>

\* refresh_pricing, by the operator, where the fetch is enabled: it asks for the models too
\* when the catalog is empty, with an adapter that is not registered.
PricesRequested(j) ==
    /\ job[j] = Idle /\ PricingFetch
    /\ job' = [job EXCEPT ![j] = [at |-> IF catalog = {} THEN "asking" ELSE "pricing",
                                  kind |-> "prices"]]
    /\ Begun
    /\ UNCHANGED <<listed, files, selected, adapter, registered, saved, published>>

\* The listing is stored, and nothing is classified.
PricesListed(j) ==
    /\ job[j].at = "listed" /\ job[j].kind = "prices"
    /\ catalog' = Stored(job[j].got)
    /\ job' = [job EXCEPT ![j] = [at |-> "pricing", kind |-> "prices"]]
    /\ UNCHANGED <<listed, classes, features, caps, selected, adapter, registered, saved,
                   published, calls>>

\* save_openai_enabled_models
SaveEnabled(ms) ==
    /\ selected' = ms
    /\ ResolvesCaps(ms, classes, features)
    /\ Begun
    /\ UNCHANGED <<listed, catalog, classes, features, adapter, registered, saved, published, job>>

\* rebuild_node_capabilities
Rebuild ==
    /\ ResolvesCaps(selected, classes, features)
    /\ UNCHANGED <<listed, catalog, classes, features, selected, adapter, registered, saved,
                   published, job, calls>>

\* The process ends and starts: the registry is loaded, without adapters.
CatalogRestart ==
    /\ adapter' = FALSE
    /\ registered' = saved
    /\ job' = [j \in Jobs |-> Idle]
    /\ UNCHANGED <<listed, files, selected, saved, published, calls>>

\* The provider lists other models.
ProviderChanges(ms) ==
    /\ listed' = ms
    /\ UNCHANGED <<files, selected, adapter, registered, saved, published, job, calls>>

---------------------------------------------------------------------------

CatalogInit ==
    /\ listed \in Listings
    /\ catalog = {} /\ classes = {} /\ features = {} /\ selected = {}
    /\ caps = [enabled |-> {}, tasks |-> {}]
    /\ adapter = FALSE /\ registered = {} /\ saved = {} /\ published = {}
    /\ job = [j \in Jobs |-> Idle]
    /\ calls = 0

Call(j) ==
    \/ CredentialsSaved(j) \/ RefreshRequested(j) \/ ComparisonAsked(j)
    \/ \E got \in Listings \cup {{}} : Answered(j, got)
    \/ Raises(j) \/ ListingSaved(j) \/ Priced(j) \/ Persisted(j) \/ Submitted(j)
    \/ ExplicitRegisters(j) \/ RerunBegins(j) \/ RerunListed(j)
    \/ PricesRequested(j) \/ PricesListed(j)

CatalogNext ==
    \/ \E j \in Jobs : Call(j)
    \/ \E ms \in Selections : SaveEnabled(ms)
    \/ Rebuild \/ CatalogRestart
    \/ \E ms \in Listings : ProviderChanges(ms)

CatalogSpec == CatalogInit /\ [][CatalogNext]_catalogVars

---------------------------------------------------------------------------

Kinds == {"job", "credentials", "explicit", "rerun", "prices"}
Calls ==
    {Idle} \cup [at : {"asking"}, kind : Kinds]
           \cup [at : {"listed"}, kind : Kinds, got : SUBSET Models]
           \cup [at : {"pricing"}, kind : {"job", "credentials"}, got : SUBSET Models]
           \cup [at : {"pricing"}, kind : {"rerun", "prices"}]
           \cup [at : {"others"}]
           \cup [at : {"submitting"}, got : SUBSET Models]

\* The types of the files and of what is in memory: only models of known families are
\* classified, whatever the provider lists.
CatalogTypeOK ==
    /\ listed \subseteq Models /\ selected \subseteq Models
    /\ catalog \subseteq Known /\ classes \subseteq Known /\ features \subseteq Known
    /\ caps \in [enabled : SUBSET Known, tasks : SUBSET TaskKinds]
    /\ adapter \in BOOLEAN
    /\ registered \subseteq Models /\ saved \subseteq Models /\ published \subseteq Models
    /\ job \in [Jobs -> Calls]
    /\ calls \in 0..MaxCalls

\* The capabilities file is of one piece, although it is resolved in five places from four
\* files: its models are selected ones, and its tasks are those they can serve.
CapabilitiesMatch ==
    /\ caps.enabled \subseteq selected
    /\ caps.enabled # {} =>
            caps.tasks = TasksOf(UNION {FeaturesOf(m) : m \in caps.enabled})

\* A reload with new credentials or a rerun leaves every selected model classified that was
\* and that is still listed, also one that represents no group
\* (tests/test_provider_runtime.py:579).
SelectedStayClassified ==
    [][\A j \in Jobs :
            (\/ ListingSaved(j) /\ job[j].kind = "credentials"
             \/ RerunBegins(j) \/ RerunListed(j))
            => selected \cap classes \cap catalog' \subseteq classes']_catalogVars
=============================================================================
