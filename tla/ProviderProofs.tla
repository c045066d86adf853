---------------------------- MODULE ProviderProofs ----------------------------
(***************************************************************************)
(* Theorems about what the node knows of its providers and does with it:    *)
(* the prices (PricingCatalog), the models and capabilities (ModelCatalog)   *)
(* and the routing of tasks (ProviderRouting).                              *)
(*                                                                         *)
(* The three have states of their own and only the ids of models in common. *)
(* Each theorem is about one of them, and holds for any values of its       *)
(* constants: models, rates, intervals, calls, providers and tasks.         *)
(***************************************************************************)
EXTENDS PricingCatalog, ModelCatalog, ProviderRouting, Sums

---------------------------------------------------------------------------
(* The prices: rates, entries and snapshots.                                *)

LEMMA RateType == 0 \in Rate /\ NoRates \in Rates /\ Rate \subseteq Nat
BY PricingAssumption DEF PricingAssumption, Rate, Rates, NoRates

LEMMA OrType == ASSUME NEW a \in Rate, NEW b \in Rate PROVE Or(a, b) \in Rate
BY DEF Or

LEMMA NoEntryType == NoEntry \in Entries /\ NoSnapshot \in Snapshots /\ Nothing \in [Models -> Rates]
BY RateType DEF NoEntry, Entries, NoSnapshot, Snapshots, Nothing

LEMMA EntryType ==
  ASSUME NEW r \in Rates, NEW s \in Statuses
  PROVE  Entry(r, s) \in Entries
BY DEF Entry, Entries, Rates

LEMMA OverriddenType ==
  ASSUME NEW e \in Entries, NEW o \in Rates
  PROVE  Overridden(e, o) \in Entries
<1>1. CASE o = NoRates
  BY <1>1 DEF Overridden
<1>2. CASE o # NoRates
  <2> DEFINE i == Or(o.in, e.in)
             u == Or(o.out, e.out)
             s == IF e = NoEntry THEN "manual_override" ELSE e.status
  <2>1. Overridden(e, o) = [in |-> i, out |-> u, status |-> s]
    BY <1>2 DEF Overridden
  <2>2. i \in Rate /\ u \in Rate
    BY OrType DEF Entries, Rates
  <2>3. s \in Statuses \cup {"none"}
    BY DEF Entries, Statuses
  <2> HIDE DEF i, u, s
  <2> QED BY <2>1, <2>2, <2>3 DEF Entries
<1> QED BY <1>1, <1>2

LEMMA PreservedType == ASSUME NEW e \in Entries PROVE Preserved(e) \in Entries
BY DEF Preserved, Entries, Statuses

LEMMA FoundType ==
  ASSUME NEW targets \in Targets, NEW found \in Outcomes(targets), NEW m \in DOMAIN found.rates
  PROVE  Entry(found.rates[m], "ok") \in Entries
<1>1. \E named \in SUBSET Models : found.rates \in [named -> Scraped]
  BY DEF Outcomes, PromptOutcomes, ParserOutcomes, Readings, Targets
<1>2. found.rates[m] \in Rates
  BY <1>1, PricingAssumption DEF PricingAssumption
<1> QED BY <1>2, EntryType DEF Statuses

LEMMA MergedType ==
  ASSUME NEW previous \in Snapshots, NEW targets \in Targets,
         NEW found \in Outcomes(targets)
  PROVE  Merged(previous, targets, found) \in [Models -> Entries]
<1> SUFFICES ASSUME NEW m \in Models
             PROVE  Merged(previous, targets, found)[m] \in Entries
  BY DEF Merged
<1>1. previous.entries[m] \in Entries
  BY DEF Snapshots
<1> QED BY <1>1, FoundType, PreservedType, NoEntryType DEF Merged

LEMMA RefreshedType ==
  ASSUME NEW previous \in Snapshots, NEW targets \in Targets,
         NEW found \in Outcomes(targets), overrides \in [Models -> Rates]
  PROVE  Refreshed(previous, targets, found) \in [Models -> Entries]
BY MergedType, OverriddenType DEF Refreshed

LEMMA OfferType == ASSUME PricingTypeOK PROVE Offer \in [Models -> Rates]
<1> SUFFICES ASSUME NEW m \in Models PROVE Offer[m] \in Rates
  BY DEF Offer
<1>1. prices.entries[m] \in Entries /\ overrides[m] \in Rates
  BY DEF PricingTypeOK, Snapshots
<1>2. [in |-> prices.entries[m].in, out |-> prices.entries[m].out] \in Rates
  BY <1>1 DEF Entries, Rates
<1> QED BY <1>1, <1>2, RateType DEF Offer

LEMMA SavingType ==
  ASSUME PricingTypeOK, saving # Idle
  PROVE  /\ saving \in [at : {"read", "catalogued", "overridden"}, model : Models,
                        given : Given, seen : Snapshots, over : [Models -> Rates]]
         /\ saving.model \in Models /\ saving.given \in Rates
BY PricingAssumption DEF PricingTypeOK, Saves, PricingAssumption

LEMMA ManualEntryType ==
  ASSUME PricingTypeOK, saving # Idle
  PROVE  ManualEntry \in Entries
<1> DEFINE e == saving.seen.entries[saving.model]
           i == Or(saving.given.in, e.in)
           u == Or(saving.given.out, e.out)
<1>1. saving.seen \in Snapshots /\ saving.model \in Models /\ saving.given \in Rates
  BY SavingType
<1>2. e \in Entries
  BY <1>1 DEF Snapshots
<1>3. i \in Rate /\ u \in Rate
  BY <1>1, <1>2, OrType DEF Entries, Rates
<1>4. ManualEntry = [in |-> i, out |-> u, status |-> "manual"]
  BY DEF ManualEntry
<1> HIDE DEF i, u
<1> QED BY <1>3, <1>4 DEF Entries, Statuses

---------------------------------------------------------------------------
(* The types, step by step.                                                 *)

LEMMA PricingStarts == PricingInit => PricingTypeOK
<1>1. 0 \in 0..MaxTime /\ 0 \in 0..MaxBegun
  BY PricingAssumption DEF PricingAssumption
<1> QED BY <1>1, NoEntryType DEF PricingInit, PricingTypeOK, Refreshings, Saves, Fillings

LEMMA StartsType == ASSUME PricingTypeOK, Starts PROVE begun' \in 0..MaxBegun
BY PricingAssumption DEF PricingTypeOK, Starts, PricingAssumption

LEMMA LoadsType ==
  ASSUME PricingTypeOK, NEW r \in Refreshes, NEW call \in {"fetching", "merging"},
         Loads(r, call)
  PROVE  refreshing' \in [Refreshes -> Refreshings] /\ begun' \in 0..MaxBegun
<1>1. [at |-> call, since |-> now, snapshot |-> prices] \in Refreshings
  BY DEF PricingTypeOK, Refreshings
<1>2. Starts /\ refreshing' =
         [refreshing EXCEPT ![r] = [at |-> call, since |-> now, snapshot |-> prices]]
  BY DEF Loads
<1> QED BY <1>1, <1>2, StartsType DEF PricingTypeOK, Refreshings

LEMMA EndsType ==
  ASSUME PricingTypeOK, NEW r \in Refreshes, Ends(r)
  PROVE  /\ refreshing' \in [Refreshes -> Refreshings]
         /\ owed' \in [Refreshes -> [Models -> Rates]]
BY NoEntryType DEF PricingTypeOK, Ends, Refreshings

LEMMA RefreshingType ==
  ASSUME PricingTypeOK, NEW r \in Refreshes, refreshing[r].at # "idle"
  PROVE  refreshing[r].snapshot \in Snapshots /\ refreshing[r].since \in Nat
BY DEF PricingTypeOK, Refreshings, Idle

LEMMA ReadsType ==
  ASSUME PricingTypeOK, NEW r \in Refreshes, RefreshReads(r)
  PROVE  refreshing' \in [Refreshes -> Refreshings]
<1> DEFINE previous == refreshing[r].snapshot
           since == refreshing[r].since
           New(targets, found) ==
             [state |-> "ok", at |-> since, stale |-> FALSE,
              entries |-> Refreshed(previous, targets, found)]
<1>1. previous \in Snapshots /\ since \in Nat
  BY RefreshingType DEF RefreshReads
<1>2. PICK targets \in Targets : \E found \in Outcomes(targets) :
        refreshing' = [refreshing EXCEPT ![r] =
          [at |-> "writing", since |-> since, snapshot |-> New(targets, found)]]
  BY DEF RefreshReads
<1>3. PICK found \in Outcomes(targets) :
        refreshing' = [refreshing EXCEPT ![r] =
          [at |-> "writing", since |-> since, snapshot |-> New(targets, found)]]
  BY <1>2
<1>4. Refreshed(previous, targets, found) \in [Models -> Entries]
  BY <1>1, RefreshedType DEF PricingTypeOK
<1>5. New(targets, found) \in Snapshots
  BY <1>1, <1>4 DEF Snapshots
<1> HIDE DEF New, previous, since
<1>6. [at |-> "writing", since |-> since, snapshot |-> New(targets, found)] \in Refreshings
  BY <1>1, <1>5 DEF Refreshings
<1> QED BY <1>3, <1>6 DEF PricingTypeOK, Refreshings

LEMMA FailedType ==
  ASSUME PricingTypeOK, NEW r \in Refreshes, RefreshFails(r)
  PROVE  prices' \in Snapshots
<1> DEFINE previous == refreshing[r].snapshot
<1>1. previous \in Snapshots
  BY RefreshingType DEF RefreshFails
<1>2. IsStale(previous) \in BOOLEAN
  BY <1>1 DEF IsStale, Snapshots
<1>3. CASE previous.state = "missing"
  BY <1>3 DEF RefreshFails, PricingTypeOK
<1>4. CASE previous.state # "missing"
  <2>1. prices' = [previous EXCEPT !.state = "failed", !.stale = IsStale(previous)]
    BY <1>4 DEF RefreshFails
  <2> HIDE DEF previous
  <2> QED BY <1>1, <1>2, <2>1 DEF Snapshots
<1> QED BY <1>3, <1>4

LEMMA RefreshKeeps ==
  ASSUME PricingTypeOK, NEW r \in Refreshes,
         \/ \E force \in BOOLEAN : RefreshBegins(r, force)
         \/ RefreshReads(r) \/ RefreshWrites(r) \/ RefreshFails(r)
         \/ MergeBegins(r) \/ MergeEnds(r)
  PROVE  PricingTypeOK'
<1>1. ASSUME NEW force \in BOOLEAN, RefreshBegins(r, force) PROVE PricingTypeOK'
  BY <1>1, LoadsType DEF RefreshBegins, PricingTypeOK, Refreshings
<1>2. CASE RefreshReads(r)
  BY <1>2, ReadsType DEF RefreshReads, PricingTypeOK, Refreshings, history
<1>3. CASE RefreshWrites(r)
  BY <1>3, EndsType, RefreshingType DEF RefreshWrites, PricingTypeOK, Refreshings
<1>4. CASE RefreshFails(r)
  BY <1>4, EndsType, FailedType DEF RefreshFails, PricingTypeOK, Refreshings
<1>5. CASE MergeBegins(r)
  BY <1>5, LoadsType DEF MergeBegins, PricingTypeOK, Refreshings, history
<1>6. CASE MergeEnds(r)
  BY <1>6, EndsType, RefreshingType DEF MergeEnds, PricingTypeOK, Refreshings
<1> QED BY <1>1, <1>2, <1>3, <1>4, <1>5, <1>6

LEMMA SaveKeeps == ASSUME PricingTypeOK, Save PROVE PricingTypeOK'
<1>1. ASSUME NEW m \in Models, NEW given \in Given, SaveReads(m, given) PROVE PricingTypeOK'
  <2>1. saving' \in Saves
    BY <1>1 DEF SaveReads, Saves, PricingTypeOK
  <2> QED BY <1>1, <2>1, StartsType DEF SaveReads, PricingTypeOK, history
<1>2. CASE SaveWritesCatalog
  <2>0. saving # Idle
    BY <1>2 DEF SaveWritesCatalog, Idle
  <2>1. saving' \in Saves
    BY <1>2, <2>0, SavingType DEF SaveWritesCatalog, Saves
  <2>2. saving.seen.entries \in [Models -> Entries]
    BY <2>0, SavingType DEF Snapshots
  <2> DEFINE entries == [saving.seen.entries EXCEPT ![saving.model] = ManualEntry]
  <2>3. entries \in [Models -> Entries]
    BY <2>0, <2>2, ManualEntryType
  <2>4. prices' = [state |-> "manual", at |-> now, stale |-> FALSE, entries |-> entries]
    BY <1>2 DEF SaveWritesCatalog
  <2> HIDE DEF entries
  <2>5. prices' \in Snapshots
    BY <2>3, <2>4 DEF Snapshots, PricingTypeOK
  <2> QED BY <1>2, <2>1, <2>5 DEF SaveWritesCatalog, PricingTypeOK, history
<1>3. CASE SaveWritesOverride
  <2>0. saving # Idle
    BY <1>3 DEF SaveWritesOverride, Idle
  <2> DEFINE old == saving.over[saving.model]
             new == [in |-> Or(ManualEntry.in, old.in), out |-> Or(ManualEntry.out, old.out)]
  <2>1. saving.model \in Models /\ saving.over \in [Models -> Rates] /\ old \in Rates
        /\ saving.given \in Rates
    BY <2>0, SavingType
  <2>2. new \in Rates
    <3>1. ManualEntry.in \in Rate /\ ManualEntry.out \in Rate
      BY <2>0, ManualEntryType DEF Entries
    <3>2. Or(ManualEntry.in, old.in) \in Rate /\ Or(ManualEntry.out, old.out) \in Rate
      BY <2>1, <3>1, OrType DEF Rates
    <3> QED BY <3>2 DEF Rates
  <2>3. overrides' = [saving.over EXCEPT ![saving.model] = new]
    BY <1>3 DEF SaveWritesOverride
  <2> HIDE DEF new, old
  <2>4. saving' \in Saves
    BY <1>3, <2>0, SavingType DEF SaveWritesOverride, Saves
  <2>5. overrides' \in [Models -> Rates] /\ asked' \in [Models -> Rates]
    BY <1>3, <2>1, <2>2, <2>3 DEF SaveWritesOverride, PricingTypeOK
  <2>6. owed' \in [Refreshes -> [Models -> Rates]]
    BY <1>3, RateType DEF SaveWritesOverride, PricingTypeOK
  <2> QED BY <1>3, <2>4, <2>5, <2>6 DEF SaveWritesOverride, PricingTypeOK
<1> QED BY <1>1, <1>2, <1>3 DEF Save

LEMMA FillKeeps == ASSUME PricingTypeOK, NEW f \in Fillers,
                          FillLoads(f) \/ FillReads(f) \/ FillWrites(f)
                   PROVE  PricingTypeOK'
<1>1. CASE FillLoads(f)
  <2>1. filling' \in [Fillers -> Fillings]
    BY <1>1, OfferType DEF FillLoads, PricingTypeOK, Fillings
  <2>2. begun' \in 0..MaxBegun
    BY <1>1, StartsType DEF FillLoads, PricingTypeOK
  <2> QED BY <1>1, <2>1, <2>2 DEF FillLoads, PricingTypeOK, history
<1>2. CASE FillReads(f)
  <2>1. filling[f].file \in [Models -> Rates]
    BY <1>2 DEF FillReads, PricingTypeOK, Fillings, Idle
  <2>2. Scaffold(filling[f].file) \in [Models -> Rates]
    BY <2>1 DEF Scaffold, PricingTypeOK
  <2>3. filling' = [filling EXCEPT ![f] =
                      [at |-> "scaffolded", file |-> Scaffold(filling[f].file)]]
    BY <1>2 DEF FillReads, PricingTypeOK
  <2>4. filling' \in [Fillers -> Fillings]
    BY <2>2, <2>3 DEF PricingTypeOK, Fillings
  <2> QED BY <1>2, <2>4 DEF FillReads, PricingTypeOK, history
<1>3. CASE FillWrites(f)
  <2>1. filling[f].file \in [Models -> Rates]
    BY <1>3 DEF FillWrites, PricingTypeOK, Fillings, Idle
  <2>2. filling' \in [Fillers -> Fillings] /\ saving' \in Saves
    BY <1>3 DEF FillWrites, PricingTypeOK, Fillings, Saves
  <2> QED BY <1>3, <2>1, <2>2 DEF FillWrites, PricingTypeOK, history
<1> QED BY <1>1, <1>2, <1>3

LEMMA OtherStepsKeep ==
  ASSUME PricingTypeOK, Operator \/ PricingRestart \/ Tick PROVE PricingTypeOK'
<1>1. ASSUME NEW m \in Models, NEW rates \in Edited, Edit(m, rates) PROVE PricingTypeOK'
  BY <1>1, PricingAssumption DEF Edit, PricingTypeOK, PricingAssumption, history
<1>2. CASE PricingRestart
  <2>1. filling' \in [Fillers -> Fillings]
    BY <1>2, OfferType DEF PricingRestart, Fillings
  <2> QED BY <1>2, <2>1, NoEntryType DEF PricingRestart, PricingTypeOK, Refreshings, Saves
<1>3. CASE Tick
  BY <1>3, PricingAssumption DEF Tick, PricingTypeOK, PricingAssumption, history
<1> QED BY <1>1, <1>2, <1>3 DEF Operator

LEMMA PricingKeeps == PricingTypeOK /\ [PricingNext]_pricingVars => PricingTypeOK'
<1> SUFFICES ASSUME PricingTypeOK, [PricingNext]_pricingVars PROVE PricingTypeOK'
  OBVIOUS
<1>1. CASE PricingNext
  BY <1>1, RefreshKeeps, SaveKeeps, FillKeeps, OtherStepsKeep
     DEF PricingNext, Refresh, Merge, Fill
<1>2. CASE UNCHANGED pricingVars
  BY <1>2 DEF pricingVars, PricingTypeOK, history
<1> QED BY <1>1, <1>2

\* The files hold what their loaders accept.
THEOREM PricingTypeCorrect == PricingSpec => []PricingTypeOK
BY PricingStarts, PricingKeeps, PTL DEF PricingSpec

---------------------------------------------------------------------------
(* What was saved, and the refreshes that began since.                      *)

\* The overrides have what was asked for.
AskedIsOverridden == \A m \in Models : Shows(overrides[m], asked[m])

\* A save that is still to write the overrides has loaded them as they are.
SaveIsCurrent == saving.at \in {"read", "catalogued"} => saving.over = overrides

\* What a refresh owes was asked for last.
OwedIsAsked == \A r \in Refreshes, m \in Models :
                  owed[r][m] # NoRates => owed[r][m] = asked[m]

\* The catalog a refresh is about to write has what the refresh owes.
WritesOwed == \A r \in Refreshes : refreshing[r].at = "writing" =>
                 \A m \in Models : Shows(refreshing[r].snapshot.entries[m], owed[r][m])

SavedInv == PricingTypeOK /\ AskedIsOverridden /\ SaveIsCurrent /\ OwedIsAsked /\ WritesOwed

LEMMA ShowsNothing == ASSUME NEW e PROVE Shows(e, NoRates)
BY DEF Shows, NoRates

LEMMA SavedInitially == PricingInit => SavedInv
BY PricingStarts, ShowsNothing
   DEF PricingInit, SavedInv, AskedIsOverridden, SaveIsCurrent, OwedIsAsked, WritesOwed,
       Nothing, Idle

\* Steps that change neither what was saved nor the calls of refresh.
LEMMA SavedStill ==
  ASSUME SavedInv, PricingTypeOK', UNCHANGED <<overrides, saving, refreshing, asked, owed>>
  PROVE  SavedInv'
BY DEF SavedInv, AskedIsOverridden, SaveIsCurrent, OwedIsAsked, WritesOwed

\* An override stands in the entry it is applied to.
LEMMA OverriddenShows ==
  ASSUME NEW e, NEW o \in Rates, NEW rates, Shows(o, rates)
  PROVE  Shows(Overridden(e, o), rates)
<1>1. CASE o = NoRates
  BY <1>1 DEF Overridden, Shows, NoRates
<1>2. CASE o # NoRates
  <2>1. Overridden(e, o).in = Or(o.in, e.in) /\ Overridden(e, o).out = Or(o.out, e.out)
    BY <1>2 DEF Overridden
  <2> QED BY <2>1 DEF Shows, Or
<1> QED BY <1>1, <1>2

LEMMA ReadsOwed ==
  ASSUME SavedInv, NEW r \in Refreshes, RefreshReads(r)
  PROVE  /\ \A q \in Refreshes \ {r} : refreshing'[q] = refreshing[q]
         /\ \A m \in Models : Shows(refreshing'[r].snapshot.entries[m], owed[r][m])
<1> DEFINE previous == refreshing[r].snapshot
           since == refreshing[r].since
           New(targets, found) ==
             [state |-> "ok", at |-> since, stale |-> FALSE,
              entries |-> Refreshed(previous, targets, found)]
<1>1. PICK targets \in Targets : \E found \in Outcomes(targets) :
        refreshing' = [refreshing EXCEPT ![r] =
          [at |-> "writing", since |-> since, snapshot |-> New(targets, found)]]
  BY DEF RefreshReads
<1>2. PICK found \in Outcomes(targets) :
        refreshing' = [refreshing EXCEPT ![r] =
          [at |-> "writing", since |-> since, snapshot |-> New(targets, found)]]
  BY <1>1
<1>3. refreshing'[r].snapshot.entries = Refreshed(previous, targets, found)
  BY <1>2 DEF SavedInv, PricingTypeOK
<1>4. ASSUME NEW m \in Models PROVE Shows(Refreshed(previous, targets, found)[m], owed[r][m])
  <2>1. overrides[m] \in Rates /\ Shows(overrides[m], owed[r][m])
    BY ShowsNothing DEF SavedInv, AskedIsOverridden, OwedIsAsked, PricingTypeOK
  <2> QED BY <2>1, OverriddenShows DEF Refreshed
<1>5. \A q \in Refreshes \ {r} : refreshing'[q] = refreshing[q]
  BY <1>2 DEF SavedInv, PricingTypeOK
<1> QED BY <1>3, <1>4, <1>5

\* A call of refresh or merge that ends owes nothing.
LEMMA SavedEnds ==
  ASSUME SavedInv, PricingTypeOK', NEW r \in Refreshes, Ends(r),
         UNCHANGED <<overrides, saving, asked>>
  PROVE  SavedInv'
<1>1. AskedIsOverridden' /\ SaveIsCurrent'
  BY DEF SavedInv, AskedIsOverridden, SaveIsCurrent
<1>2. OwedIsAsked'
  BY DEF Ends, SavedInv, OwedIsAsked, PricingTypeOK, Nothing
<1>3. WritesOwed'
  BY DEF Ends, SavedInv, WritesOwed, PricingTypeOK, Idle
<1> QED BY <1>1, <1>2, <1>3 DEF SavedInv

LEMMA SavedRefresh ==
  ASSUME SavedInv, NEW r \in Refreshes,
         \/ \E force \in BOOLEAN : RefreshBegins(r, force)
         \/ RefreshReads(r) \/ RefreshWrites(r) \/ RefreshFails(r)
         \/ MergeBegins(r) \/ MergeEnds(r)
  PROVE  SavedInv'
<1>0. PricingTypeOK'
  BY RefreshKeeps DEF SavedInv
<1>1. ASSUME NEW force \in BOOLEAN, RefreshBegins(r, force) PROVE SavedInv'
  <2>1. UNCHANGED <<overrides, saving, asked>> /\ owed' = [owed EXCEPT ![r] = asked]
        /\ refreshing' =
             [refreshing EXCEPT ![r] = [at |-> "fetching", since |-> now, snapshot |-> prices]]
    BY <1>1 DEF RefreshBegins, Loads
  <2>2. AskedIsOverridden' /\ SaveIsCurrent'
    BY <2>1 DEF SavedInv, AskedIsOverridden, SaveIsCurrent
  <2>3. OwedIsAsked'
    BY <2>1 DEF SavedInv, OwedIsAsked, PricingTypeOK
  <2>4. WritesOwed'
    BY <2>1 DEF SavedInv, WritesOwed, PricingTypeOK
  <2> QED BY <1>0, <2>2, <2>3, <2>4 DEF SavedInv
<1>2. CASE RefreshReads(r)
  <2>1. UNCHANGED <<overrides, saving, asked, owed>>
    BY <1>2 DEF RefreshReads, history
  <2>2. AskedIsOverridden' /\ SaveIsCurrent' /\ OwedIsAsked'
    BY <2>1 DEF SavedInv, AskedIsOverridden, SaveIsCurrent, OwedIsAsked
  <2>3. WritesOwed'
    BY <1>2, <2>1, ReadsOwed DEF SavedInv, WritesOwed
  <2> QED BY <1>0, <2>2, <2>3 DEF SavedInv
<1>3. CASE RefreshWrites(r) \/ RefreshFails(r) \/ MergeEnds(r)
  BY <1>0, <1>3, SavedEnds DEF RefreshWrites, RefreshFails, MergeEnds
<1>4. CASE MergeBegins(r)
  <2>1. UNCHANGED <<overrides, saving, asked, owed>>
        /\ refreshing' =
             [refreshing EXCEPT ![r] = [at |-> "merging", since |-> now, snapshot |-> prices]]
    BY <1>4 DEF MergeBegins, Loads, history
  <2>2. AskedIsOverridden' /\ SaveIsCurrent' /\ OwedIsAsked'
    BY <2>1 DEF SavedInv, AskedIsOverridden, SaveIsCurrent, OwedIsAsked
  <2>3. WritesOwed'
    BY <2>1 DEF SavedInv, WritesOwed, PricingTypeOK
  <2> QED BY <1>0, <2>2, <2>3 DEF SavedInv
<1> QED BY <1>1, <1>2, <1>3, <1>4

\* The save of the overrides settles what was asked of its model, and keeps the others.
LEMMA SavedOverride ==
  ASSUME SavedInv, SaveWritesOverride
  PROVE  SavedInv'
<1> DEFINE s == saving.model
           old == saving.over[s]
           new == [in |-> Or(ManualEntry.in, old.in), out |-> Or(ManualEntry.out, old.out)]
<1>0. PricingTypeOK' /\ saving # Idle
  BY SaveKeeps DEF SavedInv, Save, SaveWritesOverride, Idle
<1>1. /\ s \in Models /\ saving.over = overrides /\ saving.at = "catalogued"
      /\ overrides \in [Models -> Rates] /\ asked \in [Models -> Rates]
      /\ owed \in [Refreshes -> [Models -> Rates]]
  BY <1>0, SavingType DEF SavedInv, SaveIsCurrent, SaveWritesOverride, PricingTypeOK
<1>2. /\ overrides' = [overrides EXCEPT ![s] = new]
      /\ asked' = [asked EXCEPT ![s] = saving.given]
      /\ owed' = [r \in Refreshes |-> [owed[r] EXCEPT ![s] = NoRates]]
      /\ refreshing' = refreshing
  BY <1>1 DEF SaveWritesOverride
<1>3. saving'.at = "overridden"
  BY <1>0, SavingType DEF SaveWritesOverride, SavedInv
<1>4. Shows(new, saving.given)
  BY DEF Shows, Or, ManualEntry
<1> HIDE DEF new, s, old
<1>5. AskedIsOverridden'
  BY <1>1, <1>2, <1>4 DEF SavedInv, AskedIsOverridden
<1>6. OwedIsAsked'
  BY <1>1, <1>2 DEF SavedInv, OwedIsAsked
<1>7. WritesOwed'
  <2> SUFFICES ASSUME NEW r \in Refreshes, refreshing[r].at = "writing", NEW m \in Models
               PROVE  Shows(refreshing[r].snapshot.entries[m], owed'[r][m])
    BY <1>2 DEF WritesOwed
  <2>1. owed'[r][m] = NoRates \/ owed'[r][m] = owed[r][m]
    BY <1>1, <1>2
  <2> QED BY <2>1, ShowsNothing DEF SavedInv, WritesOwed
<1>8. SaveIsCurrent'
  BY <1>3 DEF SaveIsCurrent
<1> QED BY <1>0, <1>5, <1>6, <1>7, <1>8 DEF SavedInv

LEMMA SavedSave == ASSUME SavedInv, Save PROVE SavedInv'
<1>0. PricingTypeOK'
  BY SaveKeeps DEF SavedInv
<1>1. ASSUME NEW m \in Models, NEW given \in Given, SaveReads(m, given) PROVE SavedInv'
  <2>1. UNCHANGED <<overrides, refreshing, asked, owed>> /\ saving'.over = overrides
    BY <1>1 DEF SaveReads, history
  <2> QED BY <1>0, <2>1
          DEF SavedInv, AskedIsOverridden, SaveIsCurrent, OwedIsAsked, WritesOwed
<1>2. CASE SaveWritesCatalog
  <2>1. saving # Idle
    BY <1>2 DEF SaveWritesCatalog, Idle
  <2>2. UNCHANGED <<overrides, refreshing, asked, owed>> /\ saving'.over = saving.over
        /\ saving.at = "read"
    BY <1>2, <2>1, SavingType DEF SaveWritesCatalog, history, SavedInv
  <2> QED BY <1>0, <2>2
          DEF SavedInv, AskedIsOverridden, SaveIsCurrent, OwedIsAsked, WritesOwed
<1> QED BY <1>1, <1>2, SavedOverride DEF Save

LEMMA SavedFill ==
  ASSUME SavedInv, NEW f \in Fillers, FillLoads(f) \/ FillReads(f) \/ FillWrites(f)
  PROVE  SavedInv'
<1>0. PricingTypeOK'
  BY FillKeeps DEF SavedInv
<1>1. UNCHANGED <<overrides, refreshing, asked, owed>> /\ (saving' = saving \/ saving' = Idle)
  BY DEF FillLoads, FillReads, FillWrites, history
<1> QED BY <1>0, <1>1
        DEF SavedInv, AskedIsOverridden, SaveIsCurrent, OwedIsAsked, WritesOwed, Idle

LEMMA SavedRestart == ASSUME SavedInv, PricingRestart PROVE SavedInv'
<1>0. PricingTypeOK'
  BY OtherStepsKeep DEF SavedInv
<1> QED BY <1>0
        DEF PricingRestart, SavedInv, AskedIsOverridden, SaveIsCurrent, OwedIsAsked, WritesOwed,
            Nothing, Idle

LEMMA SavedNext == SavedInv /\ [PricingNext]_pricingVars => SavedInv'
<1> SUFFICES ASSUME SavedInv, [PricingNext]_pricingVars PROVE SavedInv'
  OBVIOUS
<1>0. PricingTypeOK'
  BY PricingKeeps DEF SavedInv
<1>1. CASE Operator \/ Tick \/ UNCHANGED pricingVars
  BY <1>0, <1>1, SavedStill DEF Operator, Edit, Tick, pricingVars, history
<1> QED BY <1>1, SavedRefresh, SavedSave, SavedFill, SavedRestart
        DEF PricingNext, Refresh, Merge, Fill

\* A refresh that began after a manual save, and ends well, shows what was saved, for any
\* models, refreshes, pages, failed prompts, merges, saves and restarts in between: the
\* overrides on file hold it (save_manual_pricing), nothing but a later save of the model
\* changes them, and they are applied last (_apply_overrides).
THEOREM SavedStaysShown == PricingSpec => LaterRefreshesKeep
<1>1. SavedInv /\ [PricingNext]_pricingVars =>
        \A r \in Refreshes : RefreshWrites(r) =>
          \A m \in Models : Shows(prices'.entries[m], owed[r][m])
  BY DEF SavedInv, WritesOwed, RefreshWrites
<1> QED BY SavedInitially, SavedNext, <1>1, PTL DEF PricingSpec, LaterRefreshesKeep

---------------------------------------------------------------------------
(* What the manual pricing file says.                                       *)

LEMMA FilePrice ==
  ASSUME NEW m \in Models, yaml[m] # NoRates
  PROVE  /\ PricingEntry(m) = Entry(yaml[m], "manual")
         /\ ModelStatus(m) # "unavailable"
<1>1. YamlEntry(m) = Entry(yaml[m], "manual") /\ YamlEntry(m) # NoEntry
  BY DEF YamlEntry, Entry, NoEntry
<1>2. PricingEntry(m) = Entry(yaml[m], "manual")
  BY <1>1 DEF PricingEntry
<1>3. PricingEntry(m) # NoEntry /\ PricingEntry(m).status = "manual"
  BY <1>1, <1>2 DEF Entry
<1> QED BY <1>2, <1>3 DEF ModelStatus

\* The same after a step.
LEMMA FilePriceNext ==
  ASSUME NEW m \in Models, yaml'[m] # NoRates
  PROVE  /\ PricingEntry(m)' = Entry(yaml'[m], "manual")
         /\ ModelStatus(m)' # "unavailable"
<1>1. YamlEntry(m)' = Entry(yaml'[m], "manual") /\ YamlEntry(m)' # NoEntry
  BY DEF YamlEntry, Entry, NoEntry
<1>2. PricingEntry(m)' = Entry(yaml'[m], "manual")
  BY <1>1 DEF PricingEntry, NoEntry
<1>3. PricingEntry(m)' # NoEntry /\ PricingEntry(m)'.status = "manual"
  BY <1>1, <1>2 DEF Entry
<1> QED BY <1>2, <1>3 DEF ModelStatus, NoEntry

\* What is settled stays so, but for an edit.
LEMMA SettledStays ==
  ASSUME PricingTypeOK, [PricingNext]_pricingVars, NEW m \in Models, Settled(m)
  PROVE  \/ Settled(m)' /\ yaml'[m] = yaml[m]
         \/ \E rates \in Edited : Edit(m, rates)
<1>1. CASE Refresh \/ Merge \/ Save \/ Tick \/ UNCHANGED pricingVars
  <2>1. UNCHANGED <<yaml, filling>>
    BY <1>1 DEF Refresh, RefreshBegins, RefreshReads, RefreshWrites, RefreshFails, Merge,
                MergeBegins, MergeEnds, Save, SaveReads, SaveWritesCatalog, SaveWritesOverride,
                Tick, pricingVars
  <2> QED BY <2>1 DEF Settled
<1>2. ASSUME NEW f \in Fillers, FillLoads(f) PROVE Settled(m)' /\ yaml'[m] = yaml[m]
  BY <1>2 DEF FillLoads, Settled, PricingTypeOK
<1>3. ASSUME NEW f \in Fillers, FillReads(f) PROVE Settled(m)' /\ yaml'[m] = yaml[m]
  <2>1. Scaffold(filling[f].file)[m] = yaml[m]
    BY DEF Settled, Scaffold
  <2>2. /\ filling' = [filling EXCEPT ![f] =
                         [at |-> "scaffolded", file |-> Scaffold(filling[f].file)]]
        /\ yaml' = yaml
    BY <1>3 DEF FillReads, PricingTypeOK
  <2> QED BY <2>1, <2>2 DEF Settled, PricingTypeOK
<1>4. ASSUME NEW f \in Fillers, FillWrites(f) PROVE Settled(m)' /\ yaml'[m] = yaml[m]
  <2>1. yaml'[m] = yaml[m]
    BY <1>4 DEF FillWrites, Settled
  <2> QED BY <1>4, <2>1 DEF FillWrites, Settled, PricingTypeOK, Idle
<1>5. CASE PricingRestart
  BY <1>5 DEF PricingRestart, Settled, Idle
<1>6. ASSUME NEW n \in Models, NEW rates \in Edited, Edit(n, rates)
      PROVE  \/ Settled(m)' /\ yaml'[m] = yaml[m]
             \/ \E other \in Edited : Edit(m, other)
  <2>1. CASE n = m
    BY <1>6, <2>1
  <2>2. CASE n # m
    <3>1. yaml'[m] = yaml[m] /\ filling' = filling
      BY <1>6, <2>2 DEF Edit, PricingTypeOK
    <3> QED BY <3>1 DEF Settled
  <2> QED BY <2>1, <2>2
<1> QED BY <1>1, <1>2, <1>3, <1>4, <1>5, <1>6 DEF PricingNext, Operator, Fill

LEMMA PriceStays ==
  ASSUME PricingTypeOK, [PricingNext]_pricingVars, NEW m \in Models, Settled(m)
  PROVE  \/ Settled(m)' /\ PricingEntry(m)' = PricingEntry(m) /\ ModelStatus(m)' # "unavailable"
         \/ \E rates \in Edited : Edit(m, rates)
<1>1. CASE Settled(m)' /\ yaml'[m] = yaml[m]
  <2>1. yaml[m] # NoRates /\ yaml'[m] # NoRates
    BY <1>1 DEF Settled
  <2>2. PricingEntry(m) = Entry(yaml[m], "manual")
    BY <2>1, FilePrice
  <2>3. PricingEntry(m)' = Entry(yaml'[m], "manual") /\ ModelStatus(m)' # "unavailable"
    BY <2>1, FilePriceNext
  <2> QED BY <1>1, <2>2, <2>3
<1> QED BY <1>1, SettledStays

\* What the file says of a model stays the price the node goes by, and keeps the model on
\* the listing, until it is edited there, for any models, rates, refreshes and bounds
\* (_build_manual_pricing_yaml_models keeps every price the file has, and get_pricing_entry
\* looks there first).
THEOREM FileIsTheOperators == PricingSpec => EditsStand
<1>1. PricingTypeOK /\ [PricingNext]_pricingVars =>
        (\A m \in Models : Settled(m) =>
          \/ Settled(m)' /\ PricingEntry(m)' = PricingEntry(m) /\ ModelStatus(m)' # "unavailable"
          \/ \E rates \in Edited : Edit(m, rates))
  BY PriceStays
<1> QED BY PricingStarts, PricingKeeps, <1>1, PTL DEF PricingSpec, EditsStand

---------------------------------------------------------------------------
(* The models.                                                              *)

\* The classes and the features are of the same models: capabilities are resolved of both.
SameModels == features = classes

CatalogInv == CatalogTypeOK /\ SameModels /\ CapabilitiesMatch

\* What the tasks of a capabilities file are when it has models.
Serves(file) ==
    file.enabled # {} =>
        file.tasks = TasksOf(UNION {FeaturesOf(m) : m \in file.enabled})

\* What a call under way carries.
LEMMA CallParts ==
  ASSUME CatalogTypeOK, NEW j \in Jobs
  PROVE  /\ job[j].at \in {"asking", "listed"} => job[j].kind \in Kinds
         /\ job[j].at = "listed" => job[j].got \in SUBSET Models
         /\ job[j].at = "pricing" /\ job[j].kind \notin {"rerun", "prices"} =>
                job[j].kind \in {"job", "credentials"} /\ job[j].got \in SUBSET Models
         /\ job[j].at = "submitting" => job[j].got \in SUBSET Models
<1>1. job[j] \in Calls
  BY DEF CatalogTypeOK
<1> QED BY <1>1 DEF Calls, Idle

\* The calls, after the one of j has gone on.
LEMMA CallsType ==
  ASSUME CatalogTypeOK, NEW j \in Jobs, NEW k \in Calls, job' = [job EXCEPT ![j] = k]
  PROVE  job' \in [Jobs -> Calls]
BY DEF CatalogTypeOK

LEMMA CallKinds ==
  /\ Idle \in Calls
  /\ \A kind \in Kinds : [at |-> "asking", kind |-> kind] \in Calls
  /\ \A kind \in Kinds, got \in SUBSET Models :
        [at |-> "listed", kind |-> kind, got |-> got] \in Calls
  /\ \A kind \in {"job", "credentials"}, got \in SUBSET Models :
        [at |-> "pricing", kind |-> kind, got |-> got] \in Calls
  /\ \A kind \in {"rerun", "prices"} : [at |-> "pricing", kind |-> kind] \in Calls
  /\ [at |-> "others"] \in Calls
  /\ \A got \in SUBSET Models : [at |-> "submitting", got |-> got] \in Calls
BY DEF Calls, Idle

\* Nothing gets into a scope, or is classified, that was not there.
LEMMA ScopeWithin ==
  ASSUME NEW ms, NEW kept
  PROVE  /\ Scope(ms, kept) \subseteq ms
         /\ Classified(ms, kept) \subseteq ms
         /\ kept \cap ms \subseteq Scope(ms, kept)
         /\ kept \cap ms \subseteq Classified(ms, kept)
BY DEF Scope, Classified, Representatives

\* Capabilities resolved of models that have both classes and features serve their tasks.
LEMMA ResolvesServes ==
  ASSUME NEW sel, NEW ms \in SUBSET Known, ResolvesCaps(sel, ms, ms)
  PROVE  /\ caps' \in [enabled : SUBSET Known, tasks : SUBSET TaskKinds]
         /\ caps'.enabled \subseteq sel /\ Serves(caps')
<1> DEFINE on == UsableOf(sel, ms, registered)
<1>1. caps' = [enabled |-> on, tasks |-> TasksOf(FeatureUnion(on, ms))]
  BY DEF ResolvesCaps, Resolved
<1>2. on \subseteq sel /\ on \subseteq ms
  BY DEF UsableOf
<1>3. \A union : TasksOf(union) \in SUBSET TaskKinds
  BY DEF TasksOf
<1>4. on # {} => FeatureUnion(on, ms) = UNION {FeaturesOf(m) : m \in on}
  <2>1. ms \cap on = on
    BY <1>2
  <2> QED BY <2>1 DEF FeatureUnion
<1> HIDE DEF on
<1> QED BY <1>1, <1>2, <1>3, <1>4 DEF Serves

\* A classification of known models keeps the files of one piece.
LEMMA ClassifyKeeps ==
  ASSUME CatalogInv, NEW scoped \in SUBSET Known, Classify(scoped),
         selected' = selected
  PROVE  /\ classes' \in SUBSET Known /\ features' \in SUBSET Known
         /\ caps' \in [enabled : SUBSET Known, tasks : SUBSET TaskKinds]
         /\ SameModels' /\ CapabilitiesMatch'
<1>1. CASE scoped = {}
  BY <1>1 DEF Classify, CatalogInv, SameModels, CapabilitiesMatch,
              CatalogTypeOK
<1>2. CASE scoped # {}
  <2>1. classes' \in SUBSET Known /\ features' = classes'
        /\ ResolvesCaps(selected, classes', classes')
    BY <1>2, ScopeWithin DEF Classify
  <2>2. PICK ms \in SUBSET Known : ms = classes'
    BY <2>1
  <2>3. /\ caps' \in [enabled : SUBSET Known, tasks : SUBSET TaskKinds]
        /\ caps'.enabled \subseteq selected /\ Serves(caps')
    BY <2>1, <2>2, ResolvesServes
  <2> QED BY <2>1, <2>3 DEF SameModels, CapabilitiesMatch, Serves
<1> QED BY <1>1, <1>2

\* A call that changes no file, and leaves the registry a set of models, keeps the invariant.
LEMMA FilesStay ==
  ASSUME CatalogInv, UNCHANGED <<listed, catalog, classes, features, caps, selected, published>>,
         adapter' \in BOOLEAN, registered' \in SUBSET Models, saved' \in SUBSET Models,
         job' \in [Jobs -> Calls], calls' \in 0..MaxCalls
  PROVE  CatalogInv'
BY DEF CatalogInv, SameModels, CapabilitiesMatch, CatalogTypeOK

LEMMA CallBegunType == ASSUME CatalogInv, Begun PROVE calls' \in 0..MaxCalls
BY CatalogAssumption DEF CatalogInv, CatalogTypeOK, Begun, CatalogAssumption

\* The calls that begin, are answered or raise before they change a file.
LEMMA AskingKeeps ==
  ASSUME CatalogInv, NEW j \in Jobs,
         \/ CredentialsSaved(j) \/ RefreshRequested(j)
         \/ ComparisonAsked(j) \/ (\E got \in SUBSET Models : Answered(j, got))
         \/ Raises(j) \/ PricesRequested(j)
  PROVE  CatalogInv'
<1>1. CatalogTypeOK /\ calls \in 0..MaxCalls /\ registered \in SUBSET Models
      /\ saved \in SUBSET Models /\ adapter \in BOOLEAN
  BY DEF CatalogInv, CatalogTypeOK
<1>2. ASSUME NEW kind \in {"credentials", "job", "explicit"}, Begins(j, kind)
      PROVE  CatalogInv'
  <2>1. [at |-> "asking", kind |-> kind] \in Calls
    BY CallKinds DEF Kinds
  <2>2. job' \in [Jobs -> Calls]
    BY <1>1, <1>2, <2>1, CallsType DEF Begins
  <2> QED BY <1>1, <1>2, <2>2, CallBegunType, FilesStay DEF Begins, files
<1>3. CASE CredentialsSaved(j)
  BY <1>2, <1>3 DEF CredentialsSaved
<1>4. CASE RefreshRequested(j)
  BY <1>2, <1>4 DEF RefreshRequested
<1>5. CASE ComparisonAsked(j)
  BY <1>2, <1>5 DEF ComparisonAsked
<1>6. ASSUME NEW got \in SUBSET Models, Answered(j, got) PROVE CatalogInv'
  <2>1. [at |-> "listed", kind |-> job[j].kind, got |-> got] \in Calls
    BY <1>1, <1>6, CallParts, CallKinds DEF Answered
  <2>2. job' \in [Jobs -> Calls]
    BY <1>1, <1>6, <2>1, CallsType DEF Answered
  <2> QED BY <1>1, <1>6, <2>2, FilesStay DEF Answered, files
<1>7. CASE Raises(j)
  <2>1. job' \in [Jobs -> Calls]
    BY <1>1, <1>7, CallsType, CallKinds DEF Raises
  <2> QED BY <1>1, <1>7, <2>1, FilesStay DEF Raises, files
<1>8. CASE PricesRequested(j)
  <2>1. PICK at \in {"asking", "pricing"} :
            job' = [job EXCEPT ![j] = [at |-> at, kind |-> "prices"]]
    BY <1>8 DEF PricesRequested
  <2>2. [at |-> at, kind |-> "prices"] \in Calls
    BY CallKinds DEF Kinds
  <2>3. job' \in [Jobs -> Calls]
    BY <1>1, <2>1, <2>2, CallsType
  <2> QED BY <1>1, <1>8, <2>3, CallBegunType, FilesStay DEF PricesRequested, files
<1> QED BY <1>3, <1>4, <1>5, <1>6, <1>7, <1>8

\* What was listed goes into the registry, and the call goes on or ends.
LEMMA RegisteredTypes ==
  ASSUME CatalogInv, NEW j \in Jobs, NEW kind, NEW got \in SUBSET Models,
         Registered(j, kind, got)
  PROVE  /\ registered' \in SUBSET Models /\ saved' \in SUBSET Models
         /\ job' \in [Jobs -> Calls]
<1>1. CatalogTypeOK /\ saved \in SUBSET Models
  BY DEF CatalogInv, CatalogTypeOK
<1>2. job' = [job EXCEPT ![j] = Idle] \/ job' = [job EXCEPT ![j] = [at |-> "others"]]
  BY DEF Registered
<1>3. job' \in [Jobs -> Calls]
  BY <1>1, <1>2, CallsType, CallKinds
<1> QED BY <1>1, <1>3 DEF Registered, SetModels

\* A listing that is used is classified, once and for all files.
LEMMA ListingKeeps ==
  ASSUME CatalogInv, NEW j \in Jobs, ListingSaved(j)
  PROVE  CatalogInv'
<1>1. CatalogTypeOK
  BY DEF CatalogInv
<1>2. job[j].at = "listed" /\ job[j].kind \in {"job", "credentials"}
      /\ UNCHANGED <<listed, selected, adapter, published, calls>>
  BY DEF ListingSaved
<1>3. PICK kind \in {"job", "credentials"} : kind = job[j].kind
  BY <1>2
<1>4. PICK got \in SUBSET Models : got = job[j].got
  BY <1>1, <1>2, CallParts
<1>5. catalog' = Stored(got) /\ catalog' \in SUBSET Known
  BY <1>4 DEF ListingSaved, Stored
<1>6. PICK kept \in SUBSET Known : kept = catalog'
  BY <1>5
<1>7. PICK scoped : scoped = Scope(kept, Preserve(kind))
  OBVIOUS
<1>8. scoped \in SUBSET Known /\ Classify(scoped)
  BY <1>3, <1>6, <1>7, ScopeWithin DEF ListingSaved
<1>9. /\ classes' \in SUBSET Known /\ features' \in SUBSET Known
      /\ caps' \in [enabled : SUBSET Known, tasks : SUBSET TaskKinds]
      /\ SameModels' /\ CapabilitiesMatch'
  BY <1>2, <1>8, ClassifyKeeps
<1>10. registered' \in SUBSET Models /\ saved' \in SUBSET Models
       /\ job' \in [Jobs -> Calls]
  <2>1. CASE PricingFetch
    <3>1. job' = [job EXCEPT ![j].at = "pricing"] /\ UNCHANGED <<registered, saved>>
      BY <2>1 DEF ListingSaved
    <3>2. job[j] = [at |-> "listed", kind |-> kind, got |-> got]
      <4>1. job[j] \in Calls
        BY <1>1 DEF CatalogTypeOK
      <4> QED BY <1>2, <1>3, <1>4, <4>1 DEF Calls, Idle
    <3>3. job' = [job EXCEPT ![j] = [at |-> "pricing", kind |-> kind, got |-> got]]
      <4>1. [[at |-> "listed", kind |-> kind, got |-> got] EXCEPT !.at = "pricing"] =
                [at |-> "pricing", kind |-> kind, got |-> got]
        OBVIOUS
      <4>2. job' = [job EXCEPT ![j] = [job[j] EXCEPT !.at = "pricing"]]
        BY <3>1, Zenon
      <4> QED BY <3>2, <4>1, <4>2, Zenon
    <3> QED BY <1>1, <3>1, <3>3, CallsType, CallKinds DEF CatalogTypeOK
  <2>2. CASE ~PricingFetch
    <3>1. Registered(j, kind, got)
      BY <1>3, <1>4, <2>2 DEF ListingSaved
    <3> QED BY <3>1, RegisteredTypes
  <2> QED BY <2>1, <2>2
<1> QED BY <1>1, <1>2, <1>5, <1>9, <1>10 DEF CatalogInv, CatalogTypeOK

\* What a rerun does with a catalog.
LEMMA RerunKeeps ==
  ASSUME CatalogInv, NEW j \in Jobs, NEW cat \in SUBSET Known, Rerun(j, cat),
         calls' \in 0..MaxCalls,
         UNCHANGED <<listed, selected, adapter, registered, saved, published>>
  PROVE  CatalogInv'
<1>1. PICK scoped : scoped = Scope(cat, Preserve("rerun"))
  OBVIOUS
<1>2. scoped \in SUBSET Known /\ Classify(scoped) /\ catalog' = cat
  BY <1>1, ScopeWithin DEF Rerun
<1>3. /\ classes' \in SUBSET Known /\ features' \in SUBSET Known
      /\ caps' \in [enabled : SUBSET Known, tasks : SUBSET TaskKinds]
      /\ SameModels' /\ CapabilitiesMatch'
  BY <1>2, ClassifyKeeps
<1>4. PICK k \in {Idle, [at |-> "pricing", kind |-> "rerun"]} :
          job' = [job EXCEPT ![j] = k]
  BY DEF Rerun
<1>5. job' \in [Jobs -> Calls]
  <2>1. k \in Calls
    BY <1>4, CallKinds
  <2> QED BY <1>4, <2>1, CallsType DEF CatalogInv
<1> QED BY <1>2, <1>3, <1>5 DEF CatalogInv, CatalogTypeOK

\* The calls that go on after their listing, and the reruns.
LEMMA GoingOnKeeps ==
  ASSUME CatalogInv, NEW j \in Jobs,
         \/ Priced(j) \/ Persisted(j) \/ Submitted(j)
         \/ ExplicitRegisters(j) \/ RerunBegins(j) \/ RerunListed(j)
         \/ PricesListed(j)
  PROVE  CatalogInv'
<1>1. CatalogTypeOK /\ calls \in 0..MaxCalls /\ registered \in SUBSET Models
      /\ saved \in SUBSET Models /\ adapter \in BOOLEAN /\ catalog \in SUBSET Known
  BY DEF CatalogInv, CatalogTypeOK
<1>2. job[j].at = "listed" => job[j].got \in SUBSET Models
  BY <1>1, CallParts
<1>3. Idle \in Calls
  BY CallKinds
<1>4. CASE Priced(j)
  <2>1. registered' \in SUBSET Models /\ saved' \in SUBSET Models
        /\ job' \in [Jobs -> Calls]
    <3>1. CASE job[j].kind \in {"rerun", "prices"}
      BY <1>1, <1>3, <1>4, <3>1, CallsType DEF Priced
    <3>2. CASE job[j].kind \notin {"rerun", "prices"}
      <4>1. PICK got \in SUBSET Models : got = job[j].got
        BY <1>1, <1>4, <3>2, CallParts DEF Priced
      <4>2. Registered(j, job[j].kind, got)
        BY <1>4, <3>2, <4>1 DEF Priced
      <4> QED BY <4>2, RegisteredTypes
    <3> QED BY <3>1, <3>2
  <2> QED BY <1>1, <1>4, <2>1, FilesStay DEF Priced, files
<1>5. CASE Persisted(j)
  <2>1. Report \in SUBSET Models
    BY <1>1 DEF Report
  <2>2. job' \in [Jobs -> Calls]
    <3>1. [at |-> "submitting", got |-> Report] \in Calls
      BY <2>1, CallKinds
    <3> QED BY <1>1, <1>3, <1>5, <3>1, CallsType DEF Persisted
  <2> QED BY <1>1, <1>5, <2>2, FilesStay DEF Persisted, files
<1>6. CASE Submitted(j)
  <2>1. published' \in SUBSET Models
    BY <1>1, <1>6, CallParts DEF Submitted
  <2>2. job' \in [Jobs -> Calls]
    BY <1>1, <1>3, <1>6, CallsType DEF Submitted
  <2> QED BY <1>6, <2>1, <2>2
          DEF Submitted, files, CatalogInv, SameModels, CatalogTypeOK,
              CapabilitiesMatch
<1>7. CASE ExplicitRegisters(j)
  <2>1. registered' \in SUBSET Models
    BY <1>2, <1>7 DEF ExplicitRegisters, SetModels
  <2>2. job' \in [Jobs -> Calls]
    BY <1>1, <1>3, <1>7, CallsType DEF ExplicitRegisters
  <2> QED BY <1>1, <1>7, <2>1, <2>2, FilesStay DEF ExplicitRegisters, files
<1>8. CASE RerunBegins(j)
  <2>1. calls' \in 0..MaxCalls
    BY <1>8, CallBegunType DEF RerunBegins
  <2>2. CASE catalog = {}
    <3>1. job' \in [Jobs -> Calls]
      <4>1. [at |-> "asking", kind |-> "rerun"] \in Calls
        BY CallKinds DEF Kinds
      <4> QED BY <1>1, <1>8, <2>2, <4>1, CallsType DEF RerunBegins
    <3> QED BY <1>1, <1>8, <2>1, <2>2, <3>1, FilesStay DEF RerunBegins, files
  <2>3. CASE catalog # {}
    BY <1>1, <1>8, <2>1, <2>3, RerunKeeps DEF RerunBegins
  <2> QED BY <2>2, <2>3
<1>9. CASE RerunListed(j)
  <2>1. Stored(job[j].got) \in SUBSET Known
    BY DEF Stored
  <2>2. Rerun(j, Stored(job[j].got))
    BY <1>9 DEF RerunListed
  <2> QED BY <1>1, <1>9, <2>1, <2>2, RerunKeeps DEF RerunListed
<1>10. CASE PricesListed(j)
  <2>1. catalog' \in SUBSET Known
    BY <1>10 DEF PricesListed, Stored
  <2>2. job' \in [Jobs -> Calls]
    BY <1>1, <1>10, CallsType, CallKinds DEF PricesListed
  <2> QED BY <1>10, <2>1, <2>2
          DEF PricesListed, CatalogInv, SameModels, CatalogTypeOK,
              CapabilitiesMatch
<1> QED BY <1>4, <1>5, <1>6, <1>7, <1>8, <1>9, <1>10

\* The steps of no call: selections, rebuilds, restarts, and other listings.
LEMMA OtherCallsKeep ==
  ASSUME CatalogInv,
         \/ \E ms \in Selections : SaveEnabled(ms)
         \/ Rebuild \/ CatalogRestart
         \/ \E ms \in Listings : ProviderChanges(ms)
  PROVE  CatalogInv'
<1>1. CatalogTypeOK /\ SameModels /\ classes \in SUBSET Known
  BY DEF CatalogInv, CatalogTypeOK
<1>2. ASSUME NEW ms \in Selections, SaveEnabled(ms) PROVE CatalogInv'
  <2>1. ms \in SUBSET Models
    BY CatalogAssumption DEF CatalogAssumption
  <2>2. /\ caps' \in [enabled : SUBSET Known, tasks : SUBSET TaskKinds]
        /\ caps'.enabled \subseteq ms /\ Serves(caps')
    BY <1>1, <1>2, ResolvesServes DEF SaveEnabled, SameModels
  <2>3. calls' \in 0..MaxCalls
    BY <1>2, CallBegunType DEF SaveEnabled
  <2> QED BY <1>1, <1>2, <2>1, <2>2, <2>3
          DEF SaveEnabled, CatalogInv, SameModels, CatalogTypeOK,
              CapabilitiesMatch, Serves
<1>3. CASE Rebuild
  <2>1. /\ caps' \in [enabled : SUBSET Known, tasks : SUBSET TaskKinds]
        /\ caps'.enabled \subseteq selected /\ Serves(caps')
    BY <1>1, <1>3, ResolvesServes DEF Rebuild, SameModels
  <2> QED BY <1>1, <1>3, <2>1
          DEF Rebuild, CatalogInv, SameModels, CatalogTypeOK,
              CapabilitiesMatch, Serves
<1>4. CASE CatalogRestart
  <2>1. job' \in [Jobs -> Calls]
    BY <1>4, CallKinds DEF CatalogRestart
  <2> QED BY <1>1, <1>4, <2>1, FilesStay DEF CatalogRestart, files, CatalogTypeOK
<1>5. ASSUME NEW ms \in Listings, ProviderChanges(ms) PROVE CatalogInv'
  <2>1. ms \in SUBSET Models
    BY CatalogAssumption DEF CatalogAssumption
  <2> QED BY <1>1, <1>5, <2>1
          DEF ProviderChanges, files, CatalogInv, SameModels, CatalogTypeOK,
              CapabilitiesMatch
<1> QED BY <1>2, <1>3, <1>4, <1>5

LEMMA CatalogStarts ==
  ASSUME CatalogInit
  PROVE  CatalogInv
<1>1. listed \in SUBSET Models /\ 0 \in 0..MaxCalls
  BY CatalogAssumption, PricingAssumption DEF CatalogAssumption, CatalogInit, PricingAssumption
<1>2. job \in [Jobs -> Calls]
  BY CallKinds DEF CatalogInit
<1> QED BY <1>1, <1>2
        DEF CatalogInit, CatalogInv, SameModels, CatalogTypeOK, CapabilitiesMatch

LEMMA CatalogKeeps ==
  ASSUME CatalogInv, [CatalogNext]_catalogVars
  PROVE  CatalogInv'
<1>1. ASSUME NEW j \in Jobs, Call(j) PROVE CatalogInv'
  <2>1. Listings \cup {{}} \subseteq SUBSET Models
    BY CatalogAssumption DEF CatalogAssumption
  <2> QED BY <1>1, <2>1, AskingKeeps, ListingKeeps, GoingOnKeeps DEF Call
<1>2. CASE UNCHANGED catalogVars
  BY <1>2 DEF catalogVars, files, CatalogInv, SameModels, CatalogTypeOK,
              CapabilitiesMatch
<1> QED BY <1>1, <1>2, OtherCallsKeep DEF CatalogNext

\* The files, the registry and the calls under way keep their types; above all, only models of
\* known families are classified, whatever the provider lists.
THEOREM ModelsTypeCorrect == CatalogSpec => []CatalogTypeOK
<1>1. CatalogInit => CatalogInv
  BY CatalogStarts
<1>2. CatalogInv /\ [CatalogNext]_catalogVars => CatalogInv'
  BY CatalogKeeps
<1>3. CatalogInv => CatalogTypeOK
  BY DEF CatalogInv
<1> QED BY <1>1, <1>2, <1>3, PTL DEF CatalogSpec

\* The capabilities file is of one piece: its models are selected ones, and its tasks those
\* they can serve, by whichever of the five places it was resolved last.
THEOREM CapabilitiesStayMatched == CatalogSpec => []CapabilitiesMatch
<1>1. CatalogInit => CatalogInv
  BY CatalogStarts
<1>2. CatalogInv /\ [CatalogNext]_catalogVars => CatalogInv'
  BY CatalogKeeps
<1>3. CatalogInv => CapabilitiesMatch
  BY DEF CatalogInv
<1> QED BY <1>1, <1>2, <1>3, PTL DEF CatalogSpec

\* What a classification of a scope leaves classified: all that was kept and is in the scope.
LEMMA KeptAreClassified ==
  ASSUME NEW ms, Classify(Scope(ms, selected))
  PROVE  selected \cap ms \subseteq classes'
<1> DEFINE scoped == Scope(ms, selected)
<1>1. selected \cap ms \subseteq scoped
  BY ScopeWithin
<1>2. CASE scoped = {}
  BY <1>1, <1>2
<1>3. CASE scoped # {}
  <2>1. classes' = Classified(scoped, selected)
    BY <1>3 DEF Classify
  <2>2. selected \cap scoped \subseteq classes'
    BY <2>1, ScopeWithin
  <2> QED BY <1>1, <2>2
<1> QED BY <1>2, <1>3

\* A reload with new credentials or a rerun leaves every selected model classified that was
\* and that is still listed, also one that represents no group.
THEOREM SelectedAreKept == CatalogSpec => SelectedStayClassified
<1>1. ASSUME NEW j \in Jobs, ListingSaved(j), job[j].kind = "credentials"
      PROVE  selected \cap classes \cap catalog' \subseteq classes'
  <2>1. Classify(Scope(catalog', selected))
    BY <1>1 DEF ListingSaved, Preserve
  <2>2. PICK ms : ms = catalog'
    OBVIOUS
  <2> QED BY <2>1, <2>2, KeptAreClassified
<1>2. ASSUME NEW j \in Jobs, NEW cat, Rerun(j, cat)
      PROVE  selected \cap classes \cap catalog' \subseteq classes'
  <2>1. Classify(Scope(cat, selected)) /\ catalog' = cat
    BY <1>2 DEF Rerun, Preserve
  <2> QED BY <2>1, KeptAreClassified
<1>3. ASSUME NEW j \in Jobs, RerunBegins(j)
      PROVE  selected \cap classes \cap catalog' \subseteq classes'
  <2>1. CASE catalog = {}
    BY <1>3, <2>1 DEF RerunBegins, files
  <2>2. CASE catalog # {}
    BY <1>2, <1>3, <2>2 DEF RerunBegins
  <2> QED BY <2>1, <2>2
<1>4. ASSUME NEW j \in Jobs, RerunListed(j)
      PROVE  selected \cap classes \cap catalog' \subseteq classes'
  BY <1>2, <1>4 DEF RerunListed
<1>5. \A j \in Jobs :
         (\/ ListingSaved(j) /\ job[j].kind = "credentials"
          \/ RerunBegins(j) \/ RerunListed(j))
         => selected \cap classes \cap catalog' \subseteq classes'
  BY <1>1, <1>3, <1>4
<1> QED BY <1>5, PTL DEF SelectedStayClassified

---------------------------------------------------------------------------
(* The routing.                                                             *)

\* Orders of the providers: no two have one place.
Orders == {place \in [Providers -> Nat] :
                \A p, q \in Providers : place[p] = place[q] => p = q}

LEMMA MinIs ==
  ASSUME NEW S \in SUBSET Nat, S # {}
  PROVE  Min(S) \in S /\ \A x \in S : Min(S) <= x
<1>1. \E x \in S : \A y \in S : x <= y
  BY LeastExists
<1> QED BY <1>1 DEF Min

\* The first of some providers is one of them, and no other comes before it.
LEMMA FirstIs ==
  ASSUME NEW place \in Orders, NEW ps \in SUBSET Providers, ps # {}
  PROVE  /\ First(ps, place) \in ps
         /\ \A q \in ps : place[First(ps, place)] <= place[q]
<1> DEFINE S == {place[p] : p \in ps}
<1>1. S \in SUBSET Nat /\ S # {}
  BY DEF Orders
<1>2. PICK x \in S : \A y \in S : x <= y
  <2> HIDE DEF S
  <2> QED BY <1>1, LeastExists
<1>3. PICK p \in ps : x = place[p]
  BY <1>2
<1>4. \A q \in ps : place[p] <= place[q]
  BY <1>2, <1>3
<1> QED BY <1>4 DEF First

\* Putting some in front makes an order.
LEMMA PlacesOrder ==
  ASSUME NEW front \in Seq(Providers \cup {None})
  PROVE  Places(front) \in Orders
<1> DEFINE list == front \o Sorted
           at(p) == {i \in DOMAIN list : list[i] = p}
<1>1. /\ Sorted \in Seq(Providers) /\ \A p \in Providers : \E i \in DOMAIN Sorted : Sorted[i] = p
  BY RoutingAssumption DEF RoutingAssumption, Providers, Range
<1>2. /\ DOMAIN list = 1..(Len(front) + Len(Sorted)) /\ Len(front) \in Nat /\ Len(Sorted) \in Nat
      /\ DOMAIN Sorted = 1..Len(Sorted)
      /\ \A i \in DOMAIN Sorted : list[Len(front) + i] = Sorted[i]
  BY <1>1
<1>3. ASSUME NEW p \in Providers PROVE Min(at(p)) \in at(p) /\ at(p) \subseteq Nat
  <2>1. PICK i \in DOMAIN Sorted : Sorted[i] = p
    BY <1>1
  <2>2. Len(front) + i \in at(p)
    BY <1>2, <2>1
  <2>3. at(p) \in SUBSET Nat
    BY <1>2
  <2> HIDE DEF at
  <2> QED BY <2>2, <2>3, MinIs
<1>4. \A p \in Providers : list[Min(at(p))] = p /\ Min(at(p)) \in Nat
  BY <1>3
<1>5. Places(front) = [p \in Providers |-> Min(at(p))]
  BY DEF Places
<1> HIDE DEF list, at
<1> QED BY <1>4, <1>5 DEF Orders

\* What is left of an order from the next provider that can be tried: that one is first of it,
\* and no provider that can be tried is left out.
LEMMA FromReachableIs ==
  ASSUME NEW place \in Orders, NEW ps \in SUBSET Providers
  PROVE  LET rest == FromReachable(ps, place) IN
         /\ rest \in SUBSET ps
         /\ \A p \in ps \cap adapters : health[p] \in Good => p \in rest
         /\ rest # {} => First(rest, place) \in adapters
<1> DEFINE rest == FromReachable(ps, place)
           ok == {p \in ps \cap adapters : health[p] \in Good}
           next == First(ok, place)
<1>1. rest = {p \in ps : ok # {} /\ place[next] <= place[p]}
  BY DEF FromReachable
<1>2. CASE ok = {}
  BY <1>1, <1>2
<1>3. CASE ok # {}
  <2>1. next \in ok /\ \A q \in ok : place[next] <= place[q]
    BY <1>3, FirstIs
  <2>2. next \in rest /\ \A q \in rest : place[next] <= place[q]
    BY <1>1, <1>3, <2>1 DEF Orders
  <2>3. \A p \in ok : p \in rest
    BY <1>1, <1>3, <2>1
  <2>4. First(rest, place) \in rest
        /\ place[First(rest, place)] <= place[next]
    <3>1. rest \in SUBSET Providers /\ rest # {}
      BY <1>1, <2>2
    <3> HIDE DEF rest, next
    <3> QED BY <2>2, <3>1, FirstIs
  <2>5. First(rest, place) = next
    <3>1. First(rest, place) \in Providers /\ next \in Providers
      BY <1>1, <2>1, <2>4
    <3>2. place[next] <= place[First(rest, place)]
      BY <2>2, <2>4
    <3> HIDE DEF rest, next
    <3> QED BY <2>4, <3>1, <3>2 DEF Orders
  <2> QED BY <1>1, <2>1, <2>3, <2>5
<1> QED BY <1>2, <1>3

---------------------------------------------------------------------------
(* The resolver.                                                            *)

ModelsListed == models \in [Providers -> ModelLists \cup {<<>>}]

\* The sequences of models a task of r may be given at p.
LEMMA ModelSources ==
  ASSUME ModelsListed, preferred \in Preferences, NEW r \in Requests, NEW p \in Providers
  PROVE  /\ models[p] \in Seq(Models) /\ r.models[p] \in Seq(Models)
         /\ Listing(p) \in Seq(Models) /\ r.model \in Models \cup {None}
         /\ Allowlist(r, p) \in SUBSET Models
         /\ Allowlist(r, p) \subseteq
                Range(Listing(p)) \cup Range(r.models[p]) \cup {r.model}
<1>1. /\ models[p] \in Seq(Models) /\ r.models[p] \in Seq(Models) /\ preferred \in Seq(Models)
      /\ r.model \in Models \cup {None}
  <2>1. models[p] \in Seq(Models)
    <3>1. ModelLists \subseteq Seq(Models) /\ <<>> \in Seq(Models)
      BY RoutingAssumption DEF RoutingAssumption
    <3> QED BY <3>1 DEF ModelsListed
  <2>2. r.models \in [Providers -> Seq(Models)] /\ r.model \in Models \cup {None}
    BY RoutingAssumption DEF RoutingAssumption
  <2>3. preferred \in Seq(Models)
    BY RoutingAssumption DEF RoutingAssumption
  <2> QED BY <2>1, <2>2, <2>3
<1>2. Listing(p) \in Seq(Models)
  BY <1>1 DEF Listing
<1>3. /\ Range(models[p]) \in SUBSET Models
      /\ Range(r.models[p]) \in SUBSET Models
      /\ Range(Listing(p)) \in SUBSET Models
  BY <1>1, <1>2 DEF Range
<1>4. r.model # None => r.model \in Models
  BY <1>1
<1> QED BY <1>1, <1>2, <1>3, <1>4 DEF Allowlist

\* What is in three sequences, the last of one member, is in their concatenation.
Joined(s, t, x) == s \o t \o <<x>>

LEMMA JoinedHas ==
  ASSUME NEW s \in Seq(Models \cup {None}), NEW t \in Seq(Models \cup {None}),
         NEW x \in Models \cup {None},
         NEW m, m \in Range(s) \/ m \in Range(t) \/ m = x
  PROVE  /\ DOMAIN Joined(s, t, x) \in SUBSET Nat
         /\ m \in Range(Joined(s, t, x))
<1>1. /\ DOMAIN Joined(s, t, x) = 1..(Len(s) + Len(t) + 1)
      /\ Len(s) \in Nat /\ Len(t) \in Nat
      /\ DOMAIN s = 1..Len(s) /\ DOMAIN t = 1..Len(t)
  BY DEF Joined
<1>2. CASE m \in Range(s)
  <2>1. PICK i \in 1..Len(s) : s[i] = m
    BY <1>1, <1>2 DEF Range
  <2>2. Joined(s, t, x)[i] = m
    BY <2>1 DEF Joined
  <2> QED BY <1>1, <2>2 DEF Range
<1>3. CASE m \in Range(t)
  <2>1. PICK i \in 1..Len(t) : t[i] = m
    BY <1>1, <1>3 DEF Range
  <2>2. Joined(s, t, x)[Len(s) + i] = m
    BY <1>1, <2>1 DEF Joined
  <2>3. Len(s) + i \in 1..(Len(s) + Len(t) + 1)
    BY <1>1
  <2> QED BY <1>1, <2>2, <2>3 DEF Range
<1>4. CASE m = x
  <2>1. Joined(s, t, x)[Len(s) + Len(t) + 1] = m
    BY <1>1, <1>4 DEF Joined
  <2>2. Len(s) + Len(t) + 1 \in 1..(Len(s) + Len(t) + 1)
    BY <1>1
  <2> QED BY <1>1, <2>1, <2>2 DEF Range
<1> QED BY <1>2, <1>3, <1>4

\* The first allowed model is allowed, if any is.
LEMMA FirstAllowed ==
  ASSUME ModelsListed, preferred \in Preferences, NEW r \in Requests, NEW p \in Providers,
         NEW m \in Allowlist(r, p)
  PROVE  FirstOf(Joined(Listing(p), r.models[p], r.model),
                         Allowlist(r, p)) \in Allowlist(r, p)
<1> DEFINE allowed == Allowlist(r, p)
           list == Joined(Listing(p), r.models[p], r.model)
           ok == {i \in DOMAIN list : list[i] \in allowed}
<1>1. /\ r.models[p] \in Seq(Models \cup {None})
      /\ Listing(p) \in Seq(Models \cup {None})
      /\ r.model \in Models \cup {None}
  BY ModelSources
<1>2. \/ m \in Range(Listing(p)) \/ m \in Range(r.models[p])
      \/ m = r.model
  BY ModelSources
<1>3. DOMAIN list \in SUBSET Nat /\ \E i \in DOMAIN list : list[i] = m
  <2>1. PICK s \in Seq(Models \cup {None}) : s = Listing(p)
    BY <1>1
  <2>2. PICK t \in Seq(Models \cup {None}) : t = r.models[p]
    BY <1>1
  <2>3. PICK x \in Models \cup {None} : x = r.model
    BY <1>1
  <2>4. m \in Range(s) \/ m \in Range(t) \/ m = x
    BY <1>2, <2>1, <2>2, <2>3
  <2>5. DOMAIN Joined(s, t, x) \in SUBSET Nat /\ m \in Range(Joined(s, t, x))
    BY <2>4, JoinedHas
  <2> QED BY <2>1, <2>2, <2>3, <2>5 DEF Range
<1> HIDE DEF list, allowed
<1>4. ok \in SUBSET Nat /\ ok # {}
  BY <1>3, m \in allowed DEF allowed
<1>5. Min(ok) \in ok
  <2> HIDE DEF ok
  <2> QED BY <1>4, MinIs
<1>6. FirstOf(list, allowed) \in allowed
  BY <1>5 DEF FirstOf
<1> QED BY <1>6 DEF list, allowed

\* The model the resolver gives a provider is a model, if it gives one.  It gives one unless the
\* request asks this provider for a model, or nothing is known of the provider's models.
LEMMA ModelForIs ==
  ASSUME ModelsListed, preferred \in Preferences, NEW r \in Requests, NEW p \in Providers
  PROVE  /\ ModelFor(r, p) \in Models \cup {None}
         /\ /\ r.model = None \/ p # r.provider
            /\ models[p] # <<>> \/ DefaultModel[p] # None
            => ModelFor(r, p) \in Models
<1> DEFINE allowed == Allowlist(r, p)
           wanted == IF p = r.provider THEN r.model ELSE None
           list == Joined(Listing(p), r.models[p], r.model)
<1>1. allowed \in SUBSET Models /\ models[p] \in Seq(Models)
      /\ DefaultModel[p] \in Models \cup {None}
  BY RoutingAssumption, ModelSources DEF RoutingAssumption
<1>2. models[p] # <<>> => Head(models[p]) \in Models
  BY <1>1
<1>3. CASE wanted # None
  <2>1. ModelFor(r, p) \in allowed \cup {None}
    BY <1>3 DEF ModelFor
  <2> QED BY <1>1, <1>3, <2>1
<1>4. CASE wanted = None /\ allowed # {}
  <2>1. ModelFor(r, p) = FirstOf(list, allowed)
    BY <1>4 DEF ModelFor, Joined
  <2>2. FirstOf(list, allowed) \in allowed
    BY <1>4, FirstAllowed
  <2> QED BY <1>1, <2>1, <2>2
<1>5. CASE wanted = None /\ allowed = {}
  <2>1. ModelFor(r, p) =
            IF DefaultModel[p] # None
                 /\ (models[p] # <<>> => DefaultModel[p] \in Range(models[p]))
            THEN DefaultModel[p] ELSE IF models[p] # <<>> THEN Head(models[p]) ELSE None
    BY <1>5 DEF ModelFor
  <2> QED BY <1>1, <1>2, <2>1
<1> QED BY <1>3, <1>4, <1>5

Plans == [provider : Providers, model : Models]

\* What the resolver answers is a plan or None, and a plan if a candidate has a model.
LEMMA ResolveIs ==
  ASSUME ModelsListed, preferred \in Preferences, enabled \in EnabledLists, NEW r \in Requests
  PROVE  /\ Resolve(r) \in Plans \cup {None}
         /\ (\E p \in Candidates(r) : ModelFor(r, p) # None)
                => Resolve(r) # None
<1> DEFINE able == {p \in Candidates(r) : ModelFor(r, p) # None}
           order == ProviderOrder(r)
<1>1. able \in SUBSET Providers /\ \A p \in able : ModelFor(r, p) \in Models
  BY ModelForIs DEF Candidates
<1>2. order \in Orders
  <2>1. enabled \in Seq(Providers) /\ enabled # <<>> /\ r.provider \in Providers \cup {None}
    BY RoutingAssumption DEF RoutingAssumption
  <2>2. Default \in Providers
    BY <2>1 DEF Default
  <2>3. <<r.provider, Default>> \in Seq(Providers \cup {None})
    BY <2>1, <2>2
  <2> QED BY <2>3, PlacesOrder DEF ProviderOrder
<1>3. able # {} => First(able, order) \in able
  <2> HIDE DEF able, order
  <2> QED BY <1>1, <1>2, FirstIs
<1>4. Resolve(r) =
          IF able = {} THEN None
          ELSE [provider |-> First(able, order),
                model |-> ModelFor(r, First(able, order))]
  BY DEF Resolve, ResolveAmong
<1>5. None \notin Plans
  BY RoutingAssumption DEF RoutingAssumption, Plans
<1>6. able # {} => Resolve(r) \in Plans
  <2> HIDE DEF able, order
  <2> QED BY <1>1, <1>3, <1>4 DEF Plans
<1> QED BY <1>4, <1>5, <1>6

LEMMA ServedIsResolved ==
  ASSUME ModelsListed, preferred \in Preferences, enabled \in EnabledLists
  PROVE  ResolvesIfServed
<1> SUFFICES ASSUME NEW r \in Requests, NEW p \in Providers, Eligible(r, p),
                    r.model = None \/ p # r.provider,
                    models[p] # <<>> \/ DefaultModel[p] # None
             PROVE  Resolve(r) # None
  BY DEF ResolvesIfServed
<1>1. ModelFor(r, p) # None
  BY RoutingAssumption, ModelForIs DEF RoutingAssumption
<1>2. p \in Candidates(r)
  BY DEF Candidates
<1> QED BY <1>1, <1>2, ResolveIs

---------------------------------------------------------------------------
(* The attempts.                                                            *)

Attempts == [at : {"trying", "failed"}, rest : SUBSET Providers, place : Orders, left : Nat,
             retries : Nat, steady : SUBSET Providers, tries : [Providers -> Nat]]
Stages == [at : {"idle", "comparing", "answered", "rejected", "gone"}]
Planned == [at : {"resolved"}, request : Requests, plan : Plans]
Admitted == [at : {"admitted"}, plan : Plans]
Probes == [at : {"probing", "probingModels"}, provider : Providers]
Executions == Stages \cup Planned \cup Admitted \cup Attempts \cup Probes

\* The attempts a task has made at a provider that was steady since its dispatch: all of them
\* at one that it has left behind, none at one still to come, the spent ones at the next.
AttemptsMade(k, p) ==
    IF p \notin k.rest THEN k.retries + 1
    ELSE IF p = First(k.rest, k.place) THEN k.retries - k.left ELSE 0

\* A task in its attempts is at a provider with an adapter, its steady providers still are good
\* and registered, and it owes each of them the attempts it has not made.
Underway(k, as, h) ==
    k.at = "trying" =>
        /\ k.rest # {} /\ First(k.rest, k.place) \in as /\ k.left <= k.retries
        /\ \A p \in k.steady : /\ p \in as /\ h[p] \in Good
                               /\ k.tries[p] = AttemptsMade(k, p)

GaveUp(k) == k.at = "failed" => \A p \in k.steady : k.tries[p] = k.retries + 1

Outlooks == [default : Providers \cup {None}, fallback : Providers \cup {None},
             retries : {0, Retries}]
Runs == [at : {"health", "models"}, kind : {"refresh", "reload"},
         todo : (SUBSET Providers) \ {{}},
         default : Providers \cup {None}, fallback : Providers \cup {None}]
RefreshStates == [at : {"idle"}] \cup Runs
Disks == [health : [Providers -> Availability],
          models : [Providers -> ModelLists \cup {<<>>}], counted : SUBSET Tasks]

ConfigTyped == enabled \in EnabledLists /\ bundle \in Bundles /\ preferred \in Preferences
RegistryTyped == /\ adapters \in SUBSET Providers
                 /\ health \in [Providers -> Availability]
                 /\ ModelsListed
RecordsTyped == router \in Outlooks /\ counted \in SUBSET Tasks /\ disk \in Disks
RefreshesTyped == refresh \in [RefreshJobs -> RefreshStates]
TasksTyped == task \in [Tasks -> Executions]
TasksTried == \A t \in Tasks : Underway(task[t], adapters, health) /\ GaveUp(task[t])

RoutingInv == /\ ConfigTyped /\ RegistryTyped /\ RecordsTyped /\ RefreshesTyped
              /\ TasksTyped /\ TasksTried

LEMMA ExecutionShape ==
  ASSUME NEW k \in Executions
  PROVE  /\ k.at \in {"trying", "failed"} => k \in Attempts
         /\ k.at = "resolved" => k \in Planned
         /\ k.at = "admitted" => k \in Admitted
         /\ k.at \in {"probing", "probingModels"} => k \in Probes
         /\ k \in Attempts => k.at \in {"trying", "failed"}
BY DEF Executions, Stages, Planned, Admitted, Attempts, Probes

\* A task at any other stage owes nothing.
LEMMA StageSet ==
  ASSUME RoutingInv, NEW t \in Tasks, NEW k \in Executions \ Attempts,
         task' = [task EXCEPT ![t] = k],
         adapters \subseteq adapters', health' = health
  PROVE  TasksTyped' /\ TasksTried'
<1>1. TasksTyped'
  BY DEF RoutingInv, TasksTyped
<1>2. k.at \notin {"trying", "failed"}
  BY ExecutionShape
<1>3. ASSUME NEW u \in Tasks PROVE Underway(task'[u], adapters', health') /\ GaveUp(task'[u])
  <2>1. CASE u = t
    <3>1. task'[u] = k
      BY <2>1 DEF RoutingInv, TasksTyped
    <3> QED BY <1>2, <3>1 DEF Underway, GaveUp
  <2>2. CASE u # t
    <3>1. task'[u] = task[u]
      BY <2>2 DEF RoutingInv, TasksTyped
    <3>2. Underway(task[u], adapters, health) /\ GaveUp(task[u])
      BY DEF RoutingInv, TasksTried
    <3> QED BY <3>1, <3>2 DEF Underway
  <2> QED BY <2>1, <2>2
<1> QED BY <1>1, <1>3 DEF TasksTried

\* More adapters disturb no task.
LEMMA TasksStay ==
  ASSUME RoutingInv, task' = task, adapters \subseteq adapters', health' = health
  PROVE  TasksTyped' /\ TasksTried'
BY DEF RoutingInv, TasksTyped, TasksTried, Underway

\* What a task goes on with when it has no debt at the providers it has left behind.
LEMMA AttemptSet ==
  ASSUME RoutingInv, NEW t \in Tasks, NEW rest \in SUBSET Providers, NEW place \in Orders,
         NEW left \in Nat, NEW retries \in Nat, left <= retries,
         NEW steady \in SUBSET Providers, NEW tries \in [Providers -> Nat],
         rest # {} => First(rest, place) \in adapters,
         \A p \in steady :
            /\ p \in adapters /\ health[p] \in Good
            /\ tries[p] = IF p \notin rest THEN retries + 1
                          ELSE IF p = First(rest, place) THEN retries - left ELSE 0,
         Trying(t, rest, place, left, retries, steady, tries),
         adapters' = adapters, health' = health
  PROVE  TasksTyped' /\ TasksTried'
<1> DEFINE k == [at |-> IF rest = {} THEN "failed" ELSE "trying", rest |-> rest,
                 place |-> place, left |-> left, retries |-> retries, steady |-> steady,
                 tries |-> tries]
<1>1. task' = [task EXCEPT ![t] = k]
  BY DEF Trying
<1>2. k \in Attempts
  BY DEF Attempts
<1>3. TasksTyped'
  BY <1>1, <1>2 DEF RoutingInv, TasksTyped, Executions
<1>4. Underway(k, adapters, health)
  BY DEF Underway, AttemptsMade
<1>5. GaveUp(k)
  BY DEF GaveUp
<1> HIDE DEF k
<1>6. ASSUME NEW u \in Tasks PROVE Underway(task'[u], adapters', health') /\ GaveUp(task'[u])
  <2>1. CASE u = t
    <3>1. task'[u] = k
      BY <1>1, <2>1 DEF RoutingInv, TasksTyped
    <3> QED BY <1>4, <1>5, <3>1
  <2>2. CASE u # t
    <3>1. task'[u] = task[u]
      BY <1>1, <2>2 DEF RoutingInv, TasksTyped
    <3> QED BY <3>1 DEF RoutingInv, TasksTried
  <2> QED BY <2>1, <2>2
<1> QED BY <1>3, <1>6 DEF TasksTried

---------------------------------------------------------------------------
(* The steps of a task.                                                     *)

RoutingKept == ConfigTyped' /\ RegistryTyped' /\ RecordsTyped' /\ RefreshesTyped'

LEMMA ResolvesKeeps ==
  ASSUME RoutingInv, NEW t \in Tasks, NEW r \in Requests,
         Resolves(t, r)
  PROVE  RoutingInv'
<1> DEFINE k == IF Resolve(r) = None THEN [at |-> "rejected"]
                ELSE [at |-> "resolved", request |-> r, plan |-> Resolve(r)]
<1>1. Resolve(r) \in Plans \cup {None}
  BY ResolveIs DEF RoutingInv, ConfigTyped, RegistryTyped
<1>2. k \in Executions \ Attempts
  <2>1. k \in Stages \cup Planned
    BY <1>1 DEF Stages, Planned
  <2> QED BY <2>1 DEF Executions, Stages, Planned, Attempts
<1>3. task' = [task EXCEPT ![t] = k] /\ adapters' = adapters /\ health' = health
  BY DEF Resolves, registryVars
<1>4. TasksTyped' /\ TasksTried'
  <2> HIDE DEF k
  <2> QED BY <1>2, <1>3, StageSet
<1>5. RoutingKept
  BY DEF Resolves, config, registryVars, RoutingKept, RoutingInv, ConfigTyped,
         RegistryTyped, RecordsTyped, RefreshesTyped, ModelsListed
<1> QED BY <1>4, <1>5 DEF RoutingInv, RoutingKept

LEMMA ChecksKeeps ==
  ASSUME RoutingInv, NEW t \in Tasks, Checks(t)
  PROVE  RoutingInv'
<1> DEFINE ok == Approves(task[t].request, task[t].plan.provider, task[t].plan.model)
           k == IF ok THEN [at |-> "admitted", plan |-> task[t].plan] ELSE [at |-> "rejected"]
<1>1. task[t] \in Planned
  BY ExecutionShape DEF RoutingInv, TasksTyped, Checks
<1>2. k \in Executions \ Attempts
  <2> HIDE DEF ok
  <2>1. k \in Stages \cup Admitted
    BY <1>1 DEF Stages, Planned, Admitted
  <2> QED BY <2>1 DEF Executions, Stages, Admitted, Attempts
<1>3. task' = [task EXCEPT ![t] = k] /\ adapters' = adapters /\ health' = health
  BY DEF Checks, registryVars
<1>4. TasksTyped' /\ TasksTried'
  <2> HIDE DEF k
  <2> QED BY <1>2, <1>3, StageSet
<1>5. RoutingKept
  BY DEF Checks, config, registryVars, RoutingKept, RoutingInv, ConfigTyped,
         RegistryTyped, RecordsTyped, RefreshesTyped, ModelsListed
<1> QED BY <1>4, <1>5 DEF RoutingInv, RoutingKept

\* Every provider that is good and registered is in the order, and none was tried yet.
LEMMA DispatchesKeeps ==
  ASSUME RoutingInv, NEW t \in Tasks, Dispatches(t)
  PROVE  RoutingInv'
<1>1. PICK p \in Providers : p = task[t].plan.provider
  <2>1. task[t] \in Admitted
    BY ExecutionShape DEF RoutingInv, TasksTyped, Dispatches
  <2> QED BY <2>1 DEF Admitted, Plans
<1>2. PICK place \in Orders : place = RouterOrder(p)
  <2>1. <<p, router.default, router.fallback>> \in Seq(Providers \cup {None})
    BY DEF RoutingInv, RecordsTyped, Outlooks
  <2> QED BY <2>1, PlacesOrder DEF RouterOrder
<1>3. PICK ps \in SUBSET Providers : ps = Ordered(p) /\ adapters \subseteq ps
  <2>1. Ordered(p) \in SUBSET Providers
    BY DEF Ordered, RoutingInv, RecordsTyped, RegistryTyped, Outlooks
  <2>2. adapters \subseteq Ordered(p)
    BY RoutingAssumption DEF Ordered, RoutingInv, RegistryTyped, RoutingAssumption
  <2> QED BY <2>1, <2>2
<1>4. PICK rest \in SUBSET Providers :
        /\ rest = FromReachable(ps, place)
        /\ \A q \in ps \cap adapters : health[q] \in Good => q \in rest
        /\ rest # {} => First(rest, place) \in adapters
  BY FromReachableIs
<1>5. PICK steady \in SUBSET Providers : steady = {q \in adapters : health[q] \in Good}
  BY DEF RoutingInv, RegistryTyped
<1>6. PICK tries \in [Providers -> Nat] : tries = [q \in Providers |-> 0]
  OBVIOUS
<1>7. PICK retries \in Nat : retries = router.retries
  BY RoutingAssumption DEF RoutingInv, RecordsTyped, Outlooks, RoutingAssumption
<1>8. Trying(t, rest, place, retries, retries, steady, tries)
  BY <1>1, <1>2, <1>3, <1>4, <1>5, <1>6, <1>7 DEF Dispatches
<1>9. adapters' = adapters /\ health' = health
  BY DEF Dispatches, registryVars
<1>10. \A q \in steady : q \in adapters /\ health[q] \in Good /\ q \in rest /\ tries[q] = 0
  BY <1>3, <1>4, <1>5, <1>6
<1>11. TasksTyped' /\ TasksTried'
  <2>1. retries <= retries
    OBVIOUS
  <2>2. \A q \in steady :
            /\ q \in adapters /\ health[q] \in Good
            /\ tries[q] = IF q \notin rest THEN retries + 1
                          ELSE IF q = First(rest, place) THEN retries - retries ELSE 0
    BY <1>10
  <2>3. rest # {} => First(rest, place) \in adapters
    BY <1>4
  <2> QED BY <1>8, <1>9, <2>1, <2>2, <2>3, AttemptSet
<1>12. RoutingKept
  BY DEF Dispatches, config, registryVars, RoutingKept, RoutingInv,
         ConfigTyped, RegistryTyped, RecordsTyped, RefreshesTyped, ModelsListed
<1> QED BY <1>11, <1>12 DEF RoutingInv, RoutingKept

LEMMA CountedKept ==
  ASSUME RoutingInv, counted' \in SUBSET Tasks, disk' = [disk EXCEPT !.counted = counted'],
         router' = router
  PROVE  RecordsTyped'
BY DEF RoutingInv, RecordsTyped, Disks

LEMMA AnswersKeeps ==
  ASSUME RoutingInv, NEW t \in Tasks, Answers(t)
  PROVE  RoutingInv'
<1>1. [at |-> "answered"] \in Executions \ Attempts
  BY DEF Executions, Stages, Attempts
<1>2. TasksTyped' /\ TasksTried'
  BY <1>1, StageSet DEF Answers, registryVars
<1>3. RecordsTyped'
  <2>1. counted' \in SUBSET Tasks
    BY DEF Answers, RoutingInv, RecordsTyped
  <2> QED BY <2>1, CountedKept DEF Answers
<1> QED BY <1>2, <1>3 DEF Answers, config, registryVars, RoutingInv,
              ConfigTyped, RegistryTyped, RefreshesTyped, ModelsListed

\* The provider that fails is tried once more; when it is left behind it has had all.
LEMMA FailsKeeps ==
  ASSUME RoutingInv, NEW t \in Tasks, Fails(t)
  PROVE  RoutingInv'
<1> DEFINE k == task[t]
           p == First(k.rest, k.place)
           tries == [k.tries EXCEPT ![p] = @ + 1]
<1>1. k \in Attempts /\ k.at = "trying"
  BY ExecutionShape DEF RoutingInv, TasksTyped, Fails
<1>2. Underway(k, adapters, health)
  BY DEF RoutingInv, TasksTried
<1>3. /\ k.rest \in SUBSET Providers /\ k.place \in Orders /\ k.left \in Nat
      /\ k.retries \in Nat /\ k.steady \in SUBSET Providers /\ k.tries \in [Providers -> Nat]
  BY <1>1 DEF Attempts
<1>4. k.rest # {} /\ p \in k.rest /\ p \in adapters /\ k.left <= k.retries
  <2>1. k.rest # {} /\ p \in adapters /\ k.left <= k.retries
    BY <1>1, <1>2 DEF Underway
  <2> QED BY <1>3, <2>1, FirstIs
<1>5. \A q \in k.steady : q \in adapters /\ health[q] \in Good /\ k.tries[q] = AttemptsMade(k, q)
  BY <1>1, <1>2 DEF Underway
<1>6. adapters' = adapters /\ health' = health
  BY DEF Fails, registryVars
<1>7. tries \in [Providers -> Nat]
  BY <1>3, <1>4
<1>8. TasksTyped' /\ TasksTried'
  <2>1. CASE k.left > 0
    <3>1. Trying(t, k.rest, k.place, k.left - 1, k.retries, k.steady, tries)
      BY <2>1 DEF Fails
    <3>2. k.left - 1 \in Nat /\ k.left - 1 <= k.retries
      BY <1>3, <1>4, <2>1
    <3>3. \A q \in k.steady :
            tries[q] = IF q \notin k.rest THEN k.retries + 1
                       ELSE IF q = p THEN k.retries - (k.left - 1) ELSE 0
      BY <1>3, <1>4, <1>5 DEF AttemptsMade
    <3> HIDE DEF k, tries
    <3> QED BY <1>3, <1>4, <1>5, <1>6, <1>7, <3>1, <3>2, <3>3, AttemptSet DEF p
  <2>2. CASE ~(k.left > 0)
    <3>1. PICK ps \in SUBSET Providers : ps = k.rest \ {p}
      BY <1>3
    <3>2. PICK rest \in SUBSET ps :
            /\ rest = FromReachable(ps, k.place)
            /\ \A q \in ps \cap adapters : health[q] \in Good => q \in rest
            /\ rest # {} => First(rest, k.place) \in adapters
      BY <1>3, FromReachableIs
    <3>3. Trying(t, rest, k.place, k.retries, k.retries, k.steady, tries)
      BY <2>2, <3>1, <3>2 DEF Fails
    <3>4. ASSUME NEW q \in k.steady
          PROVE  tries[q] = IF q \notin rest THEN k.retries + 1
                            ELSE IF q = First(rest, k.place)
                                 THEN k.retries - k.retries ELSE 0
      <4>1. k.left = 0
        BY <1>3, <2>2
      <4>2. q \in k.rest /\ q # p => q \in rest
        BY <1>5, <3>1, <3>2
      <4>3. CASE q = p
        <5>1. k.tries[q] = k.retries
          BY <1>3, <1>4, <1>5, <4>1, <4>3 DEF AttemptsMade
        <5>2. q \notin rest
          BY <3>1, <3>2, <4>3
        <5>3. tries[q] = k.retries + 1
          BY <1>3, <4>3, <5>1
        <5> QED BY <5>2, <5>3
      <4>4. CASE q # p
        <5>1. tries[q] = k.tries[q]
          BY <1>3, <4>4
        <5>2. CASE q \in k.rest
          <6>1. k.tries[q] = 0
            BY <1>5, <4>4, <5>2 DEF AttemptsMade
          <6> QED BY <1>3, <4>2, <4>4, <5>1, <5>2, <6>1
        <5>3. CASE q \notin k.rest
          <6>1. k.tries[q] = k.retries + 1
            BY <1>5, <5>3 DEF AttemptsMade
          <6>2. q \notin rest
            BY <3>1, <3>2, <5>3
          <6> QED BY <5>1, <6>1, <6>2
        <5> QED BY <5>2, <5>3
      <4> QED BY <4>3, <4>4
    <3>5. rest \in SUBSET Providers /\ k.retries <= k.retries
      BY <1>3, <3>1, <3>2
    <3> HIDE DEF k, tries
    <3> QED BY <1>3, <1>5, <1>6, <1>7, <3>2, <3>3, <3>4, <3>5, AttemptSet
  <2> QED BY <2>1, <2>2
<1>9. RoutingKept
  BY DEF Fails, config, registryVars, RoutingKept, RoutingInv,
         ConfigTyped, RegistryTyped, RecordsTyped, RefreshesTyped, ModelsListed
<1> QED BY <1>8, <1>9 DEF RoutingInv, RoutingKept

LEMMA ExplicitIs ==
  ASSUME NEW p \in Providers
  PROVE  Explicit(p) \in Executions \ Attempts
<1>1. Explicit(p) \in Stages
  BY DEF Explicit, Stages
<1> QED BY <1>1 DEF Executions, Stages, Attempts

LEMMA ComparesKeeps ==
  ASSUME RoutingInv, NEW t \in Tasks, NEW p \in Providers, Compares(t, p)
  PROVE  RoutingInv'
<1> DEFINE probe == [at |-> "probing", provider |-> p]
<1>1. probe \in Executions \ Attempts
  <2>1. probe \in Probes
    BY DEF Probes
  <2> QED BY <2>1 DEF Executions, Probes, Attempts
<1>2. PICK k \in Executions \ Attempts : task' = [task EXCEPT ![t] = k]
  <2>1. CASE p \in adapters
    BY <2>1, ExplicitIs DEF Compares
  <2>2. CASE p \notin adapters
    BY <1>1, <2>2 DEF Compares
  <2> QED BY <2>1, <2>2
<1>3. adapters \subseteq adapters' /\ adapters' \in SUBSET Providers /\ health' = health
  BY DEF Compares, RoutingInv, RegistryTyped
<1>4. TasksTyped' /\ TasksTried'
  BY <1>2, <1>3, StageSet
<1>5. RoutingKept
  BY <1>3 DEF Compares, config, RoutingKept, RoutingInv,
         ConfigTyped, RegistryTyped, RecordsTyped, RefreshesTyped, ModelsListed
<1> QED BY <1>4, <1>5 DEF RoutingInv, RoutingKept

\* After a health check, the steady providers of every attempt are good still.
LEMMA HealthKeeps ==
  ASSUME RoutingInv, NEW p \in Providers, NEW v \in Verdicts,
         HealthSet(p, v), adapters' = adapters, NEW t \in Tasks
  PROVE  LET k == StillSteady(p, v)[t] IN
         k \in Executions /\ Underway(k, adapters', health') /\ GaveUp(k)
<1> DEFINE k == StillSteady(p, v)[t]
           less == [task[t] EXCEPT !.steady = @ \ {p}]
<1>1. task[t] \in Executions /\ Underway(task[t], adapters, health) /\ GaveUp(task[t])
  BY DEF RoutingInv, TasksTyped, TasksTried
<1>2. health' = [health EXCEPT ![p] = v] /\ health \in [Providers -> Availability]
  BY DEF HealthSet, RoutingInv, RegistryTyped
<1>3. \A q \in Providers : health'[q] = IF q = p THEN v ELSE health[q]
  BY <1>2
<1>4. k = IF task[t].at \in {"trying", "failed"} /\ v \notin Good THEN less ELSE task[t]
  BY DEF StillSteady
<1>5. CASE task[t].at \in {"trying", "failed"} /\ v \notin Good
  <2>1. task[t] \in Attempts
    BY <1>1, <1>5, ExecutionShape
  <2>2. less \in Attempts
    BY <2>1 DEF Attempts
  <2>3. /\ less.at = task[t].at /\ less.rest = task[t].rest /\ less.place = task[t].place
        /\ less.left = task[t].left /\ less.retries = task[t].retries
        /\ less.tries = task[t].tries /\ less.steady = task[t].steady \ {p}
        /\ task[t].steady \subseteq Providers
    BY <2>1 DEF Attempts
  <2>4. Underway(less, adapters', health')
    <3> HIDE DEF less
    <3> QED BY <1>1, <1>3, <2>3 DEF Underway, AttemptsMade
  <2>5. GaveUp(less)
    <3> HIDE DEF less
    <3> QED BY <1>1, <2>3 DEF GaveUp
  <2> HIDE DEF less
  <2> QED BY <1>4, <1>5, <2>2, <2>4, <2>5 DEF Executions
<1>6. CASE ~(task[t].at \in {"trying", "failed"} /\ v \notin Good)
  <2>1. CASE task[t].at \in {"trying", "failed"}
    <3>1. task[t].steady \subseteq Providers
      BY <1>1, <2>1, ExecutionShape DEF Attempts
    <3>2. v \in Good
      BY <1>6, <2>1
    <3>3. Underway(task[t], adapters', health')
      BY <1>1, <1>3, <3>1, <3>2 DEF Underway
    <3> QED BY <1>1, <1>4, <1>6, <3>3
  <2>2. CASE task[t].at \notin {"trying", "failed"}
    <3>1. Underway(task[t], adapters', health')
      BY <2>2 DEF Underway
    <3> QED BY <1>1, <1>4, <1>6, <3>1
  <2> QED BY <2>1, <2>2
<1> HIDE DEF less
<1> QED BY <1>5, <1>6

LEMMA HealthTyped ==
  ASSUME RoutingInv, NEW p \in Providers, NEW v \in Verdicts,
         HealthSet(p, v)
  PROVE  health' \in [Providers -> Availability]
BY RoutingAssumption DEF HealthSet, RoutingAssumption, RoutingInv, RegistryTyped

LEMMA ProbedKeeps ==
  ASSUME RoutingInv, NEW t \in Tasks, NEW v \in Verdicts,
         Probed(t, v)
  PROVE  RoutingInv'
<1>1. PICK p \in Providers : p = task[t].provider
  BY ExecutionShape DEF RoutingInv, TasksTyped, Probed, Probes
<1> DEFINE probe == [at |-> "probingModels", provider |-> p]
           still == StillSteady(p, v)
<1>2. /\ HealthSet(p, v) /\ adapters' = adapters
      /\ task' = [still EXCEPT ![t] = probe]
  BY <1>1 DEF Probed
<1>3. probe \in Executions /\ probe.at = "probingModels"
  BY DEF Executions, Probes
<1>4. DOMAIN still = Tasks
  BY DEF StillSteady
<1>5. \A u \in Tasks : task'[u] = IF u = t THEN probe ELSE still[u]
  <2>1. still = [u \in Tasks |-> still[u]]
    BY DEF StillSteady
  <2> HIDE DEF still, probe
  <2> QED BY <1>2, <1>4, <2>1
<1>6. task' = [u \in Tasks |-> task'[u]]
  <2>1. still = [u \in Tasks |-> still[u]]
    BY DEF StillSteady
  <2> HIDE DEF still, probe
  <2> QED BY <1>2, <1>4, <2>1
<1>7. \A u \in Tasks : /\ still[u] \in Executions /\ Underway(still[u], adapters', health')
                       /\ GaveUp(still[u])
  BY <1>2, HealthKeeps
<1>8. TasksTyped'
  <2> HIDE DEF still, probe
  <2> QED BY <1>3, <1>5, <1>6, <1>7 DEF TasksTyped
<1>9. Underway(probe, adapters', health') /\ GaveUp(probe)
  BY DEF Underway, GaveUp
<1>10. TasksTried'
  <2> HIDE DEF still, probe
  <2> QED BY <1>5, <1>7, <1>9 DEF TasksTried
<1>11. health' \in [Providers -> Availability]
  BY <1>2, HealthTyped
<1>12. RoutingKept
  BY <1>11 DEF Probed, config, RoutingKept, RoutingInv,
         ConfigTyped, RegistryTyped, RecordsTyped, RefreshesTyped, ModelsListed
<1> QED BY <1>8, <1>10, <1>12 DEF RoutingInv, RoutingKept

LEMMA ProbedModelsKeeps ==
  ASSUME RoutingInv, NEW t \in Tasks, NEW ms \in ModelLists, ProbedModels(t, ms)
  PROVE  RoutingInv'
<1>1. PICK p \in Providers : p = task[t].provider
  BY ExecutionShape DEF RoutingInv, TasksTyped, ProbedModels, Probes
<1>2. PICK k \in Executions \ Attempts : task' = [task EXCEPT ![t] = k]
  <2>1. [at |-> "rejected"] \in Executions \ Attempts
    BY DEF Executions, Stages, Attempts
  <2> QED BY <1>1, <2>1, ExplicitIs DEF ProbedModels
<1>3. TasksTyped' /\ TasksTried'
  BY <1>2, StageSet DEF ProbedModels
<1>4. ModelsListed'
  BY <1>1 DEF ProbedModels, RoutingInv, RegistryTyped, ModelsListed
<1>5. RoutingKept
  BY <1>4 DEF ProbedModels, config, RoutingKept, RoutingInv,
         ConfigTyped, RegistryTyped, RecordsTyped, RefreshesTyped
<1> QED BY <1>3, <1>5 DEF RoutingInv, RoutingKept

LEMMA ComparedKeeps ==
  ASSUME RoutingInv, NEW t \in Tasks, Compared(t)
  PROVE  RoutingInv'
<1>1. PICK k \in Executions \ Attempts : task' = [task EXCEPT ![t] = k]
  <2>1. /\ [at |-> "rejected"] \in Executions \ Attempts
        /\ [at |-> "answered"] \in Executions \ Attempts
    BY DEF Executions, Stages, Attempts
  <2> QED BY <2>1 DEF Compared
<1>2. TasksTyped' /\ TasksTried'
  BY <1>1, StageSet DEF Compared, registryVars
<1>3. RecordsTyped'
  <2>1. counted' \in SUBSET Tasks
    BY DEF Compared, RoutingInv, RecordsTyped
  <2> QED BY <2>1, CountedKept DEF Compared
<1> QED BY <1>2, <1>3 DEF Compared, config, registryVars, RoutingInv,
              ConfigTyped, RegistryTyped, RefreshesTyped, ModelsListed

---------------------------------------------------------------------------
(* The steps of a refresh, and the others.                                  *)

LEMMA ByNameIs ==
  ASSUME NEW ps \in SUBSET Providers, ps # {}
  PROVE  FirstByName(ps) \in ps
<1>1. PICK place \in Orders : place = Places(<<>>)
  <2>1. <<>> \in Seq(Providers \cup {None})
    OBVIOUS
  <2> QED BY <2>1, PlacesOrder
<1> QED BY <1>1, FirstIs DEF FirstByName

\* A refresh registers another provider, or ends with a router and a snapshot.
LEMMA GoesOnIs ==
  ASSUME RoutingInv, NEW j \in RefreshJobs, ModelsListed',
         NEW kind \in {"refresh", "reload"}, NEW todo \in SUBSET Providers,
         NEW default \in Providers \cup {None}, NEW fallback \in Providers \cup {None},
         GoesOn(j, kind, todo, default, fallback), health' = health, counted' = counted
  PROVE  /\ RegistryTyped' /\ RecordsTyped' /\ RefreshesTyped'
         /\ adapters \subseteq adapters'
<1>1. CASE todo # {}
  <2>1. FirstByName(todo) \in Providers
    BY <1>1, ByNameIs
  <2>2. adapters' = adapters \cup {FirstByName(todo)} /\ router' = router /\ disk' = disk
    BY <1>1 DEF GoesOn
  <2>3. RegistryTyped' /\ RecordsTyped' /\ adapters \subseteq adapters'
    BY <2>1, <2>2 DEF RoutingInv, RegistryTyped, RecordsTyped
  <2>4. PICK k \in RefreshStates : refresh' = [refresh EXCEPT ![j] = k]
    <3> DEFINE k == [at |-> "health", kind |-> kind, todo |-> todo, default |-> default, fallback |-> fallback]
    <3>1. k \in RefreshStates
      BY <1>1 DEF RefreshStates, Runs
    <3>2. refresh' = [refresh EXCEPT ![j] = k]
      BY <1>1 DEF GoesOn
    <3> HIDE DEF k
    <3> QED BY <3>1, <3>2
  <2>5. RefreshesTyped'
    BY <2>4 DEF RoutingInv, RefreshesTyped
  <2> QED BY <2>3, <2>5
<1>2. CASE todo = {}
  <2>1. /\ adapters' = adapters
        /\ router' = IF kind = "reload" THEN router
                     ELSE [default |-> default, fallback |-> fallback, retries |-> Retries]
        /\ disk' = Snapshot /\ refresh' = [refresh EXCEPT ![j] = Idle]
    BY <1>2 DEF GoesOn
  <2>2. RegistryTyped' /\ adapters \subseteq adapters'
    BY <2>1 DEF RoutingInv, RegistryTyped
  <2>3. router' \in Outlooks
    BY <2>1 DEF Outlooks, RoutingInv, RecordsTyped
  <2>4. Snapshot \in Disks
    <3>1. counted \in SUBSET Tasks /\ health \in [Providers -> Availability]
      BY DEF RoutingInv, RecordsTyped, RegistryTyped
    <3>2. [p \in Providers |-> IF p \in adapters THEN health[p] ELSE "none"]
            \in [Providers -> Availability]
      BY <3>1 DEF Availability
    <3>3. [p \in Providers |-> IF p \in adapters THEN models'[p] ELSE <<>>]
            \in [Providers -> ModelLists \cup {<<>>}]
      BY DEF ModelsListed
    <3> QED BY <3>1, <3>2, <3>3 DEF Snapshot, Disks
  <2>5. RecordsTyped'
    BY <2>1, <2>3, <2>4 DEF RoutingInv, RecordsTyped
  <2>6. Idle \in RefreshStates
    BY DEF Idle, RefreshStates
  <2>7. RefreshesTyped'
    BY <2>1, <2>6 DEF RoutingInv, RefreshesTyped
  <2> QED BY <2>2, <2>5, <2>7
<1> QED BY <1>1, <1>2

\* A refresh or a reload begins.
LEMMA RunStarts ==
  ASSUME RoutingInv, NEW j \in RefreshJobs, NEW kind \in {"refresh", "reload"},
         NEW todo \in SUBSET Providers, NEW default \in Providers \cup {None},
         StartsRun(j, kind, todo, default)
  PROVE  RoutingInv'
<1>1. None \in Providers \cup {None} /\ ModelsListed'
  BY DEF StartsRun, RoutingInv, RegistryTyped, ModelsListed
<1>2. /\ RegistryTyped' /\ RecordsTyped' /\ RefreshesTyped'
      /\ adapters \subseteq adapters'
  BY <1>1, GoesOnIs DEF StartsRun
<1>3. TasksTyped' /\ TasksTried'
  BY <1>2, TasksStay DEF StartsRun
<1> QED BY <1>2, <1>3 DEF StartsRun, config, RoutingInv, ConfigTyped

LEMMA RefreshStartsKeeps ==
  ASSUME RoutingInv, NEW j \in RefreshJobs, RefreshStarts(j) \/ ReloadStarts(j)
  PROVE  RoutingInv'
<1>1. enabled \in Seq(Providers) /\ enabled # <<>>
  BY RoutingAssumption DEF RoutingInv, ConfigTyped, RoutingAssumption
<1>2. Range(enabled) \in SUBSET Providers /\ Default \in Providers \cup {None}
  BY <1>1 DEF Range, Default
<1>3. {Openai} \in SUBSET Providers /\ None \in Providers \cup {None}
  BY RoutingAssumption DEF RoutingAssumption
<1>4. CASE RefreshStarts(j)
  BY <1>2, <1>4, RunStarts DEF RefreshStarts
<1>5. CASE ReloadStarts(j)
  BY <1>3, <1>5, RunStarts DEF ReloadStarts
<1> QED BY <1>4, <1>5

\* A refresh or a reload that is under way.
LEMMA RefreshShape ==
  ASSUME RoutingInv, NEW j \in RefreshJobs, refresh[j].at \in {"health", "models"}
  PROVE  refresh[j] \in Runs
BY DEF RoutingInv, RefreshesTyped, RefreshStates, Runs

LEMMA HealthCheckedKeeps ==
  ASSUME RoutingInv, NEW j \in RefreshJobs, NEW v \in Verdicts,
         HealthChecked(j, v)
  PROVE  RoutingInv'
<1>1. refresh[j] \in Runs
  BY RefreshShape DEF HealthChecked
<1>2. PICK p \in Providers : p = FirstByName(refresh[j].todo)
  BY <1>1, ByNameIs DEF Runs
<1> DEFINE still == StillSteady(p, v)
<1>3. HealthSet(p, v) /\ adapters' = adapters /\ task' = still
  BY <1>2 DEF HealthChecked
<1>4. \A u \in Tasks : /\ still[u] \in Executions /\ Underway(still[u], adapters', health')
                       /\ GaveUp(still[u])
  BY <1>3, HealthKeeps
<1>5. still = [u \in Tasks |-> still[u]]
  BY DEF StillSteady
<1>6. TasksTyped' /\ TasksTried'
  <2> HIDE DEF still
  <2> QED BY <1>3, <1>4, <1>5 DEF TasksTyped, TasksTried
<1>7. health' \in [Providers -> Availability]
  BY <1>3, HealthTyped
<1>8. RefreshesTyped'
  <2>1. PICK k \in RefreshStates : k = [refresh[j] EXCEPT !.at = "models"]
    BY <1>1 DEF RefreshStates, Runs
  <2>2. refresh' = [refresh EXCEPT ![j] = k]
    BY <2>1 DEF HealthChecked
  <2> QED BY <2>2 DEF RoutingInv, RefreshesTyped
<1> QED BY <1>6, <1>7, <1>8 DEF HealthChecked, config, RoutingInv, ConfigTyped,
              RegistryTyped, RecordsTyped, ModelsListed

LEMMA ListedKeeps ==
  ASSUME RoutingInv, NEW j \in RefreshJobs, NEW ms \in ModelLists,
         Listed(j, ms)
  PROVE  RoutingInv'
<1>1. refresh[j] \in Runs
  BY RefreshShape DEF Listed
<1>2. PICK p \in Providers : p = FirstByName(refresh[j].todo)
  BY <1>1, ByNameIs DEF Runs
<1>3. models' = [models EXCEPT ![p] = ms] /\ health' = health /\ counted' = counted /\ task' = task
  BY <1>2 DEF Listed
<1>4. ModelsListed'
  BY <1>3 DEF RoutingInv, RegistryTyped, ModelsListed
<1>5. PICK todo \in SUBSET Providers : todo = refresh[j].todo \ {p}
  BY <1>1 DEF Runs
<1>6. PICK default \in Providers \cup {None}, kind \in {"refresh", "reload"} :
        default = refresh[j].default /\ kind = refresh[j].kind
  BY <1>1 DEF Runs
<1>7. PICK fallback \in Providers \cup {None} :
        fallback = IF refresh[j].fallback = None /\ p # refresh[j].default
                   THEN p ELSE refresh[j].fallback
  BY <1>1 DEF Runs
<1>8. GoesOn(j, kind, todo, default, fallback)
  BY <1>2, <1>5, <1>6, <1>7 DEF Listed
<1>9. /\ RegistryTyped' /\ RecordsTyped' /\ RefreshesTyped'
      /\ adapters \subseteq adapters'
  BY <1>3, <1>4, <1>8, GoesOnIs
<1>10. TasksTyped' /\ TasksTried'
  BY <1>3, <1>9, TasksStay
<1> QED BY <1>9, <1>10 DEF Listed, config, RoutingInv, ConfigTyped

LEMMA ListingRaisesKeeps ==
  ASSUME RoutingInv, NEW j \in RefreshJobs, ListingRaises(j)
  PROVE  RoutingInv'
<1>1. RefreshesTyped'
  <2>1. Idle \in RefreshStates
    BY DEF Idle, RefreshStates
  <2> QED BY <2>1 DEF ListingRaises, RoutingInv, RefreshesTyped
<1>2. TasksTyped' /\ TasksTried'
  BY TasksStay DEF ListingRaises, registryVars
<1> QED BY <1>1, <1>2 DEF ListingRaises, config, registryVars, RoutingInv,
              ConfigTyped, RegistryTyped, RecordsTyped, ModelsListed

LEMMA ChangesKeeps ==
  ASSUME RoutingInv, Changes
  PROVE  RoutingInv'
<1>1. TasksTyped' /\ TasksTried'
  BY TasksStay DEF Changes, registryVars
<1> QED BY <1>1 DEF Changes, registryVars, RoutingInv, ConfigTyped, RegistryTyped,
              RecordsTyped, RefreshesTyped, ModelsListed

\* A restart leaves no attempt under way.
LEMMA RestartKeeps ==
  ASSUME RoutingInv, RoutingRestart
  PROVE  RoutingInv'
<1>1. RegistryTyped' /\ counted' \in SUBSET Tasks
  BY DEF RoutingRestart, RoutingInv, RecordsTyped, Disks, RegistryTyped, ModelsListed
<1>2. RecordsTyped'
  BY <1>1 DEF RoutingRestart, NoRouter, RoutingInv, RecordsTyped, Outlooks
<1>3. RefreshesTyped'
  BY DEF RoutingRestart, Idle, RefreshesTyped, RefreshStates
<1>4. ASSUME NEW t \in Tasks
      PROVE  LET k == IF task[t].at \in {"idle", "answered", "failed", "rejected"}
                      THEN task[t] ELSE [at |-> "gone"]
             IN  k \in Executions /\ k.at # "trying" /\ GaveUp(k)
  <2>1. task[t] \in Executions /\ GaveUp(task[t])
    BY DEF RoutingInv, TasksTyped, TasksTried
  <2>2. [at |-> "gone"] \in Executions
    BY DEF Executions, Stages
  <2> QED BY <2>1, <2>2 DEF GaveUp
<1>5. TasksTyped' /\ TasksTried'
  BY <1>4 DEF RoutingRestart, TasksTyped, TasksTried, Underway
<1> QED BY <1>1, <1>2, <1>3, <1>5 DEF RoutingRestart, config, RoutingInv, ConfigTyped

LEMMA RoutingKeeps ==
  ASSUME RoutingInv, [RoutingNext]_routingVars
  PROVE  RoutingInv'
<1>1. CASE RoutingNext
  <2>1. ASSUME NEW t \in Tasks, Execution(t) PROVE RoutingInv'
    BY <2>1, ChecksKeeps, DispatchesKeeps, AnswersKeeps, FailsKeeps, ProbedKeeps,
       ProbedModelsKeeps, ComparedKeeps DEF Execution
  <2>2. ASSUME NEW t \in Tasks, NEW r \in Requests, Resolves(t, r) PROVE RoutingInv'
    BY <2>2, ResolvesKeeps
  <2>3. ASSUME NEW t \in Tasks, NEW p \in Providers, Compares(t, p) PROVE RoutingInv'
    BY <2>3, ComparesKeeps
  <2>4. ASSUME NEW j \in RefreshJobs,
               \/ RefreshStarts(j) \/ ReloadStarts(j) \/ ListingRaises(j)
               \/ \E v \in Verdicts : HealthChecked(j, v)
               \/ \E ms \in ModelLists : Listed(j, ms)
        PROVE  RoutingInv'
    BY <2>4, RefreshStartsKeeps, ListingRaisesKeeps, HealthCheckedKeeps, ListedKeeps
  <2>5. CASE Changes \/ RoutingRestart
    BY <2>5, ChangesKeeps, RestartKeeps
  <2> QED BY <1>1, <2>1, <2>2, <2>3, <2>4, <2>5 DEF RoutingNext
<1>2. CASE UNCHANGED routingVars
  <2>1. TasksTyped' /\ TasksTried'
    BY <1>2, TasksStay DEF routingVars, registryVars
  <2> QED BY <1>2, <2>1 DEF routingVars, config, registryVars, RoutingInv,
                ConfigTyped, RegistryTyped, RecordsTyped, RefreshesTyped, ModelsListed
<1> QED BY <1>1, <1>2

LEMMA RoutingStarts ==
  ASSUME RoutingInit
  PROVE  RoutingInv
<1>1. RegistryTyped
  BY DEF RoutingInit, RegistryTyped, ModelsListed, Availability
<1>2. RecordsTyped
  BY <1>1 DEF RoutingInit, NoRouter, RecordsTyped, Outlooks, Disks, RegistryTyped,
              ModelsListed
<1>3. RefreshesTyped /\ TasksTyped /\ TasksTried
  BY DEF RoutingInit, Idle, RefreshesTyped, RefreshStates, TasksTyped, TasksTried,
         Executions, Stages, Underway, GaveUp
<1> QED BY <1>1, <1>2, <1>3 DEF RoutingInit, RoutingInv, ConfigTyped

\* The invariant holds what the properties say.
LEMMA RoutingTypes ==
  ASSUME RoutingInv
  PROVE  RoutingTypeOK
<1>1. ASSUME NEW t \in Tasks, task[t].at = "trying"
      PROVE  /\ First(task[t].rest, task[t].place) \in adapters
             /\ task[t].left \in 0..task[t].retries
  <2>1. task[t] \in Attempts /\ Underway(task[t], adapters, health)
    BY <1>1, ExecutionShape DEF RoutingInv, TasksTyped, TasksTried
  <2> QED BY <1>1, <2>1 DEF Underway, Attempts
<1> QED BY <1>1 DEF RoutingInv, ConfigTyped, RegistryTyped, RecordsTyped, Outlooks, Disks,
           ModelsListed, RoutingTypeOK

LEMMA RoutingTried ==
  ASSUME RoutingInv
  PROVE  SteadyAreTried
BY DEF RoutingInv, TasksTried, GaveUp, SteadyAreTried

LEMMA RoutingServed ==
  ASSUME RoutingInv
  PROVE  ResolvesIfServed
BY ServedIsResolved DEF RoutingInv, ConfigTyped, RegistryTyped

\* The routing keeps its types, with any number of providers, tasks and refreshes: while a task
\* is in its attempts, the provider it is at has an adapter, whatever the refreshes, the
\* comparisons and the health checks of others do to the registry.
THEOREM RoutingTypeCorrect == RoutingSpec => []RoutingTypeOK
<1>1. RoutingInit => RoutingInv
  BY RoutingStarts
<1>2. RoutingInv /\ [RoutingNext]_routingVars => RoutingInv'
  BY RoutingKeeps
<1>3. RoutingInv => RoutingTypeOK
  BY RoutingTypes
<1> QED BY <1>1, <1>2, <1>3, PTL DEF RoutingSpec

\* ProviderExecutionRouter.execute gives up only after every attempt at every provider that was
\* registered and good from the dispatch on.
THEOREM SteadyStayTried == RoutingSpec => []SteadyAreTried
<1>1. RoutingInit => RoutingInv
  BY RoutingStarts
<1>2. RoutingInv /\ [RoutingNext]_routingVars => RoutingInv'
  BY RoutingKeeps
<1>3. RoutingInv => SteadyAreTried
  BY RoutingTried
<1> QED BY <1>1, <1>2, <1>3, PTL DEF RoutingSpec

\* ProviderResolver.resolve rejects no request that an eligible provider can serve, whatever the
\* listings, the limits, the selected models and the governance are.
THEOREM ServedStayResolved == RoutingSpec => []ResolvesIfServed
<1>1. RoutingInit => RoutingInv
  BY RoutingStarts
<1>2. RoutingInv /\ [RoutingNext]_routingVars => RoutingInv'
  BY RoutingKeeps
<1>3. RoutingInv => ResolvesIfServed
  BY RoutingServed
<1> QED BY <1>1, <1>2, <1>3, PTL DEF RoutingSpec
=============================================================================
