--------------------------- MODULE PricingCatalog ---------------------------
(***************************************************************************)
(* The prices of OpenAI models (providers/openai_catalog.py).  They are in  *)
(* three files: the catalog, a snapshot that a refresh scrapes from the     *)
(* provider's pages, the overrides of the operator, and a YAML file the     *)
(* operator may edit, which the service scaffolds from the other two and    *)
(* which comes before the catalog when a price is asked for.                *)
(*                                                                         *)
(* refresh() runs on the event loop and awaits the pages and the extraction *)
(* prompts; it loads the catalog when it begins, and when it ends the        *)
(* overrides, and then writes the catalog.  save_manual_pricing() runs in a  *)
(* thread of the pool, and writes the three files one after the other; its   *)
(* steps come between those of the loop.  The operator saves one price at a  *)
(* time.  Texts, sections, prompts and the units of prices are abstracted:  *)
(* a price is a pair of rates, and a family either is priced by tokens or   *)
(* is not (what a manual save does to the unit of an image model is left    *)
(* out).  A model may be in the catalog without rates: one whose page gives *)
(* a normalized price only, or that is free.                                *)
(***************************************************************************)
EXTENDS Integers, ProviderModels

CONSTANTS
    FamilyOf,       \* the family of each model
    Builtin,        \* the rates in the code, for models that have some
    Refreshes,      \* calls of refresh() that may be under way at once
    Scraped,        \* rates a page may show, NoRates for a model it names without
    Given,          \* rates an operator may save, 0 for a field left open
    Edited,         \* rates an operator may write into the YAML file
    MaxRate,        \* bound: the highest rate
    Interval, Tolerance,    \* refresh interval, stale tolerance
    MaxTime,        \* bound: the clock
    MaxBegun        \* bound: refreshes, merges, saves and scaffoldings begun

Rate == 0..MaxRate              \* 0 is None
Rates == [in : Rate, out : Rate]
NoRates == [in |-> 0, out |-> 0]

ASSUME PricingAssumption ==
    /\ FamilyOf \in [Models -> Families]
    /\ Builtin \in [Models -> Rates]
    /\ MaxRate \in Nat /\ MaxTime \in Nat /\ MaxBegun \in Nat
    /\ Interval \in Nat \ {0} /\ Tolerance \in Nat \ {0}
    /\ Scraped \subseteq Rates
    /\ Given \subseteq Rates \ {NoRates}
    /\ Edited \subseteq Rates

VARIABLES
    prices,     \* provider_model_pricing.json
    overrides,  \* provider_model_pricing_overrides.json
    yaml,       \* the manual pricing file, NoRates for a model it has no price of
    refreshing, \* each refresh, or merge, under way: the catalog it loaded when it began,
                \* or the one it is about to write
    saving,     \* the manual save under way
    filling,    \* the scaffoldings of the manual pricing file under way
    now,
    begun,      \* refreshes, merges, saves and scaffoldings begun so far
    asked,      \* history: the rates of the last save of each model that reached the overrides
    owed        \* history: what was asked when a refresh began, and has not been saved since

history == <<asked, owed>>
pricingVars == <<prices, overrides, yaml, refreshing, saving, filling, now, begun, history>>

Statuses == {"ok", "manual", "manual_override", "fallback_used", "stale"}
Entries == [in : Rate, out : Rate, status : Statuses \cup {"none"}]
NoEntry == [in |-> 0, out |-> 0, status |-> "none"]
Entry(rates, status) == [in |-> rates.in, out |-> rates.out, status |-> status]

Snapshots == [state : {"missing", "ok", "failed", "manual"}, at : Nat, stale : BOOLEAN,
              entries : [Models -> Entries]]
NoSnapshot == [state |-> "missing", at |-> 0, stale |-> TRUE,
               entries |-> [m \in Models |-> NoEntry]]

\* _enforce_family_pricing_rules, without the image models an answer prices by tokens.
Basis(family) ==
    CASE family \in {"llm", "embeddings", "realtime_voice", "moderation"} -> "per_1m_tokens"
      [] family = "speech_to_text" -> "per_minute"
      [] family = "text_to_speech" -> "per_1m_characters"
      [] family = "image_generation" -> "per_image"
      [] family = "video_generation" -> "per_second"

TokenPriced(m) == Basis(FamilyOf[m]) = "per_1m_tokens"


\* Who scaffolds: a save when it ends, and the making of a service.
Fillers == {"saver", "maker"}

Starts == begun < MaxBegun /\ begun' = begun + 1

---------------------------------------------------------------------------
(* What is asked of the files.                                              *)

\* should_refresh
Due(s) == s.state = "missing" \/ now - s.at >= Interval

\* is_stale
IsStale(s) == s.stale \/ now - s.at >= Tolerance

Fallback(m) == IF Builtin[m] = NoRates THEN NoEntry ELSE Entry(Builtin[m], "manual")

\* _manual_pricing_yaml_entry
YamlEntry(m) == IF yaml[m] = NoRates THEN NoEntry ELSE Entry(yaml[m], "manual")

\* get_pricing_entry
PricingEntry(m) ==
    IF YamlEntry(m) # NoEntry THEN YamlEntry(m)
    ELSE IF prices.entries[m] = NoEntry THEN Fallback(m)
    ELSE IF ~ IsStale(prices) THEN prices.entries[m]
    ELSE IF Fallback(m) # NoEntry THEN Fallback(m)
    ELSE [prices.entries[m] EXCEPT !.status = "stale"]

\* What the catalog, or the overrides for a model that is not in it, have for the file.
Offer ==
    [m \in Models |->
        IF ~ TokenPriced(m) THEN NoRates
        ELSE IF prices.entries[m] = NoEntry THEN overrides[m]
        ELSE [in |-> prices.entries[m].in, out |-> prices.entries[m].out]]

\* Fault: what was saved last goes before what the file already says.
Scaffold_OfferFirst(offer) ==
    [m \in Models |-> IF offer[m] # NoRates THEN offer[m] ELSE yaml[m]]

\* _build_manual_pricing_yaml_models: a price in the file stays.
Scaffold(offer) ==
    [m \in Models |-> IF yaml[m] # NoRates THEN yaml[m] ELSE offer[m]]

Or(a, b) == IF a # 0 THEN a ELSE b

\* _apply_overrides for one model: a field the override leaves open keeps its rate.
Overridden(e, o) ==
    IF o = NoRates THEN e
    ELSE [in |-> Or(o.in, e.in), out |-> Or(o.out, e.out),
          status |-> IF e = NoEntry THEN "manual_override" ELSE e.status]

\* The entry of a target model of a family whose prompt failed: the one the catalog had.
Preserved(e) == IF e = NoEntry THEN e ELSE [e EXCEPT !.status = "fallback_used"]

---------------------------------------------------------------------------
(* refresh                                                                  *)

\* A merge, and a refresh from its load of the overrides on, do not wait: only threads,
\* a save and the making of a service, come between their steps.
LoopIsFree == \A r \in Refreshes : refreshing[r].at \notin {"merging", "writing"}

Loads(r, call) ==
    /\ LoopIsFree /\ refreshing[r] = Idle
    /\ refreshing' = [refreshing EXCEPT ![r] = [at |-> call, since |-> now, snapshot |-> prices]]
    /\ Starts

\* The test of the interval, unless forced.
RefreshBegins(r, force) ==
    /\ force \/ Due(prices)
    /\ Loads(r, "fetching")
    /\ owed' = [owed EXCEPT ![r] = asked]
    /\ UNCHANGED <<prices, overrides, yaml, saving, filling, now, asked>>

Nothing == [m \in Models |-> NoRates]

Ends(r) == /\ refreshing' = [refreshing EXCEPT ![r] = Idle]
           /\ owed' = [owed EXCEPT ![r] = Nothing]

\* What the extraction prompts ask for.
Grouping ==
    {{"llm"}, {"realtime_voice"}, {"image_generation"}, {"video_generation"},
     {"speech_to_text", "text_to_speech"}, {"embeddings", "moderation"}}

\* The models whose prices are asked for: those of the call, without the dated, the latest
\* and the preview ones.
Targets == SUBSET Models

\* The prompts that are sent: those with a target model.
Prompts(targets) == {g \in Grouping : \E m \in targets : FamilyOf[m] \in g}

\* The models that are named, with what is said of them: an answer may leave out a model,
\* and what it says of one that is not among them is dropped.
Readings(models, rates) == UNION {[named -> rates] : named \in SUBSET models}

\* The families of the prompts that failed, by an answer that is no JSON or does not pass
\* its validation.
Failing(bad) == UNION bad

\* What the prompts bring: the families of those that failed, and the rates in the answers
\* of the others.
PromptOutcomes(targets) ==
    UNION {LET failed == Failing(bad)
           IN  [failed : {failed},
                rates : Readings({m \in targets : FamilyOf[m] \notin failed}, Scraped)]
           : bad \in SUBSET Prompts(targets)}

\* Without a model to ask, the page is parsed: no family fails, and a model is named for
\* its rates only.
ParserOutcomes(targets) == [failed : {{}}, rates : Readings(targets, Scraped \ {NoRates})]

Outcomes(targets) == PromptOutcomes(targets) \cup ParserOutcomes(targets)

\* final_entries, before the overrides.
Merged(previous, targets, found) ==
    [m \in Models |->
        IF m \in DOMAIN found.rates THEN Entry(found.rates[m], "ok")
        ELSE IF m \in targets /\ FamilyOf[m] \in found.failed THEN Preserved(previous.entries[m])
        ELSE NoEntry]

\* Fault: the entries of failed families are put back after the overrides.
Refreshed_FallbackLast(previous, targets, found) ==
    [m \in Models |->
        IF m \in targets /\ FamilyOf[m] \in found.failed /\ previous.entries[m] # NoEntry
        THEN Preserved(previous.entries[m])
        ELSE Overridden(Merged(previous, targets, found)[m], overrides[m])]

\* The entries a refresh saves: the overrides are the ones on file when it ends.
Refreshed(previous, targets, found) ==
    [m \in Models |-> Overridden(Merged(previous, targets, found)[m], overrides[m])]

\* The entries are extracted, and are not empty; the overrides are applied to them.
RefreshReads(r) ==
    /\ LoopIsFree /\ refreshing[r].at = "fetching"
    /\ LET previous == refreshing[r].snapshot
       IN  \E targets \in Targets : \E found \in Outcomes(targets) :
             /\ \E m \in Models : Merged(previous, targets, found)[m] # NoEntry
             /\ refreshing' = [refreshing EXCEPT ![r] =
                   [at |-> "writing", since |-> refreshing[r].since,
                    snapshot |-> [state |-> "ok", at |-> refreshing[r].since, stale |-> FALSE,
                                  entries |-> Refreshed(previous, targets, found)]]]
    /\ UNCHANGED <<prices, overrides, yaml, saving, filling, now, begun, history>>

RefreshWrites(r) ==
    /\ refreshing[r].at = "writing"
    /\ prices' = refreshing[r].snapshot
    /\ Ends(r)
    /\ UNCHANGED <<overrides, yaml, saving, filling, now, begun, asked>>

\* No page, no entry, an invalid one, or a prompt that raised: the catalog that was
\* loaded at the beginning is written back.
RefreshFails(r) ==
    /\ LoopIsFree /\ refreshing[r].at = "fetching"
    /\ LET previous == refreshing[r].snapshot
       IN  prices' = IF previous.state = "missing" THEN prices
                      ELSE [previous EXCEPT !.state = "failed", !.stale = IsStale(previous)]
    /\ Ends(r)
    /\ UNCHANGED <<overrides, yaml, saving, filling, now, begun, asked>>

---------------------------------------------------------------------------
(* merge_model_capabilities: a listing is given its prices.                 *)

\* The status of a listed model.
ModelStatus(m) ==
    LET e == PricingEntry(m)
    IN  IF e = NoEntry THEN "unavailable"
        ELSE IF IsStale(prices) THEN "degraded"
        ELSE IF e.status \in {"ok", "manual"} THEN "available" ELSE "unavailable"

\* The catalog is loaded.
MergeBegins(r) ==
    /\ Loads(r, "merging")
    /\ UNCHANGED <<prices, overrides, yaml, saving, filling, now, history>>

\* It is written back if it names other models as unknown than the listing has.
MergeEnds(r) ==
    /\ refreshing[r].at = "merging"
    /\ \/ UNCHANGED prices
       \/ refreshing[r].snapshot.state # "missing" /\ prices' = refreshing[r].snapshot
    /\ Ends(r)
    /\ UNCHANGED <<overrides, yaml, saving, filling, now, begun, asked>>

---------------------------------------------------------------------------
(* save_manual_pricing                                                      *)

\* Loads the catalog and the overrides.
SaveReads(m, given) ==
    /\ saving = Idle
    /\ saving' = [at |-> "read", model |-> m, given |-> given,
                  seen |-> prices, over |-> overrides]
    /\ Starts
    /\ UNCHANGED <<prices, overrides, yaml, refreshing, filling, now, history>>

\* A rate left open is the one the catalog has.
ManualEntry ==
    LET e == saving.seen.entries[saving.model]
    IN  [in |-> Or(saving.given.in, e.in), out |-> Or(saving.given.out, e.out),
         status |-> "manual"]

SaveWritesCatalog ==
    /\ saving.at = "read"
    /\ prices' = [state |-> "manual", at |-> now, stale |-> FALSE,
                  entries |-> [saving.seen.entries EXCEPT ![saving.model] = ManualEntry]]
    /\ saving' = [saving EXCEPT !.at = "catalogued"]
    /\ UNCHANGED <<overrides, yaml, refreshing, filling, now, begun, history>>

\* Fault: the entry of the catalog is saved as the override, with its status.
SaveWritesOverride_Entry ==
    /\ saving.at = "catalogued"
    /\ overrides' = [saving.over EXCEPT ![saving.model] = ManualEntry]
    /\ saving' = [saving EXCEPT !.at = "overridden"]
    /\ UNCHANGED <<prices, yaml, refreshing, filling, now, begun, history>>

\* What the save leaves open is the rate of the catalog, or else of the override.
SaveWritesOverride ==
    /\ saving.at = "catalogued"
    /\ LET old == saving.over[saving.model]
       IN  overrides' = [saving.over EXCEPT ![saving.model] =
                           [in |-> Or(ManualEntry.in, old.in), out |-> Or(ManualEntry.out, old.out)]]
    /\ saving' = [saving EXCEPT !.at = "overridden"]
    /\ asked' = [asked EXCEPT ![saving.model] = saving.given]
    /\ owed' = [r \in Refreshes |-> [owed[r] EXCEPT ![saving.model] = NoRates]]
    /\ UNCHANGED <<prices, yaml, refreshing, filling, now, begun>>

---------------------------------------------------------------------------
(* _ensure_manual_pricing_config, in the thread of a save when it ends, and *)
(* whenever a service is made: by every caller of get_openai_model_pricing  *)
(* that has none at hand, and at the start of the process.                  *)

\* Loads the catalog and the overrides ...
FillLoads(f) ==
    /\ filling[f] = Idle
    /\ filling' = [filling EXCEPT ![f] = [at |-> "loaded", file |-> Offer]]
    /\ IF f = "saver" THEN saving.at = "overridden" /\ UNCHANGED begun ELSE Starts
    /\ UNCHANGED <<prices, overrides, yaml, refreshing, saving, now, history>>

\* ... then the file itself ...
FillReads(f) ==
    /\ filling[f].at = "loaded"
    /\ filling' = [filling EXCEPT ![f] = [at |-> "scaffolded", file |-> Scaffold(@.file)]]
    /\ UNCHANGED <<prices, overrides, yaml, refreshing, saving, now, begun, history>>

\* ... and writes it.
FillWrites(f) ==
    /\ filling[f].at = "scaffolded"
    /\ yaml' = filling[f].file
    /\ filling' = [filling EXCEPT ![f] = Idle]
    /\ saving' = IF f = "saver" THEN Idle ELSE saving
    /\ UNCHANGED <<prices, overrides, refreshing, now, begun, history>>

\* What was under way ends with the process; the next one makes its service.
PricingRestart ==
    /\ refreshing' = [r \in Refreshes |-> Idle]
    /\ owed' = [r \in Refreshes |-> Nothing]
    /\ saving' = Idle
    /\ filling' = [f \in Fillers |->
                     IF f = "maker" THEN [at |-> "loaded", file |-> Offer] ELSE Idle]
    /\ UNCHANGED <<prices, overrides, yaml, now, begun, asked>>

\* The operator edits the file ("Edit the values below as needed").
Edit(m, rates) ==
    /\ yaml' = [yaml EXCEPT ![m] = rates]
    /\ UNCHANGED <<prices, overrides, refreshing, saving, filling, now, begun, history>>

Tick ==
    /\ now < MaxTime
    /\ now' = now + 1
    /\ UNCHANGED <<prices, overrides, yaml, refreshing, saving, filling, begun, history>>

---------------------------------------------------------------------------
PricingInit ==
    /\ prices = NoSnapshot
    /\ overrides = Nothing /\ yaml = Nothing /\ asked = Nothing
    /\ refreshing = [r \in Refreshes |-> Idle]
    /\ owed = [r \in Refreshes |-> Nothing]
    /\ saving = Idle
    /\ filling = [f \in Fillers |-> Idle]
    /\ now = 0 /\ begun = 0

Refresh == \E r \in Refreshes :
              \/ \E force \in BOOLEAN : RefreshBegins(r, force)
              \/ RefreshReads(r)
              \/ RefreshWrites(r)
              \/ RefreshFails(r)
Merge == \E r \in Refreshes : MergeBegins(r) \/ MergeEnds(r)
Save == \/ \E m \in Models, given \in Given : SaveReads(m, given)
        \/ SaveWritesCatalog
        \/ SaveWritesOverride
Fill == \E f \in Fillers : FillLoads(f) \/ FillReads(f) \/ FillWrites(f)
Operator == \E m \in Models, rates \in Edited : Edit(m, rates)

PricingNext == Refresh \/ Merge \/ Save \/ Fill \/ Operator \/ PricingRestart \/ Tick

PricingSpec == PricingInit /\ [][PricingNext]_pricingVars

---------------------------------------------------------------------------
Refreshings ==
    {Idle} \cup [at : {"fetching", "writing", "merging"}, since : Nat, snapshot : Snapshots]
Saves ==
    {Idle} \cup [at : {"read", "catalogued", "overridden"}, model : Models, given : Given,
                 seen : Snapshots, over : [Models -> Rates]]
Fillings == {Idle} \cup [at : {"loaded", "scaffolded"}, file : [Models -> Rates]]

\* The files hold what their loaders accept, and calls under way what they loaded.
PricingTypeOK ==
    /\ prices \in Snapshots
    /\ overrides \in [Models -> Rates] /\ yaml \in [Models -> Rates]
    /\ refreshing \in [Refreshes -> Refreshings]
    /\ saving \in Saves
    /\ filling \in [Fillers -> Fillings]
    /\ now \in 0..MaxTime /\ begun \in 0..MaxBegun
    /\ asked \in [Models -> Rates] /\ owed \in [Refreshes -> [Models -> Rates]]

\* The rates that are given are those shown.
Shows(e, rates) == /\ rates.in # 0 => e.in = rates.in
                   /\ rates.out # 0 => e.out = rates.out

\* docs/runtime.md: saves are persisted into the overrides "so later refreshes do not
\* overwrite saved operator prices".  A refresh that began when the overrides had a save,
\* and that ends well, shows the rates the save gave, unless the model was saved again:
\* also when the catalog it began with had lost them, when the family's prompt failed, and
\* whatever other saves and refreshes wrote meanwhile.
LaterRefreshesKeep ==
    [][\A r \in Refreshes : RefreshWrites(r) =>
        \A m \in Models : Shows(prices'.entries[m], owed[r][m])]_pricingVars

\* The file has a price of the model, and no scaffolding under way has read another.
Settled(m) ==
    /\ yaml[m] # NoRates
    /\ \A f \in Fillers : filling[f].at = "scaffolded" => filling[f].file[m] = yaml[m]

\* The price the node goes by for a model that has one in the file the operator edits is
\* changed by the operator's edits only, and the model is not taken off the listing for
\* its price: whatever refreshes bring or write back, however old the catalog, and however
\* saves, scaffoldings and restarts interleave.
EditsStand ==
    [][\A m \in Models : Settled(m) =>
        \/ Settled(m)' /\ PricingEntry(m)' = PricingEntry(m) /\ ModelStatus(m)' # "unavailable"
        \/ \E rates \in Edited : Edit(m, rates)]_pricingVars
=============================================================================
