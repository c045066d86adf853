---------------------------- MODULE BudgetLedger ----------------------------
(***************************************************************************)
(* The budget manager (runtime/budget_manager.py) and what it persists in   *)
(* persistence/budget_state_store.py: a book for every grant of Core's      *)
(* budget policy and for every period of a provider's local budget, with    *)
(* the amount used and the reservations of the tasks in progress, keyed by  *)
(* task id.  Each method loads the state, works and saves it without an     *)
(* await, on the event loop, so it is one action; only the refresh of the   *)
(* policy from Core awaits.  Who calls the methods, and when, is the        *)
(* business of the modules that use this one: here anyone may, at any time. *)
(*                                                                         *)
(* Amounts are in half cents, the coarsest unit in which an exact spend     *)
(* differs from one rounded up to a cent.                                   *)
(***************************************************************************)
EXTENDS Integers, FiniteSets, Functions

CONSTANTS
    Tasks,          \* task ids
    Grants,         \* ids of the grants Core issues
    Providers,
    Kinds,          \* what else a grant looks at: service, customer, model
    Costs,          \* reservation costs, in half cents
    Spends,         \* what executions turn out to cost, in half cents
    PeriodDays,     \* lengths of the periods of local provider budgets
    Limits,         \* local provider budgets an operator may set, in half cents
    NumPolicies,
    Issued,         \* the policies Core issues, in the order it does
    MaxDay,         \* bound: the clock stops here
    MaxUsed         \* bound: a book used beyond it takes no more tasks

Requests == Kinds \X Providers

\* A grant with its status, its service and its scope put into the requests
\* it serves, {} when it is not active.  A limit of 0 is no limit.
Grant == [from: Nat, to: Nat, limit: Nat, serves: SUBSET Requests]
Policy == [active: BOOLEAN, grants: [Grants -> Grant]]

\* One usage entry per grant, one per provider and period.
ProviderAccounts ==
    {a \in Providers \X PeriodDays \X (0..MaxDay) : (a[3] % a[2]) = 0}
Accounts == Grants \cup ProviderAccounts

ASSUME LedgerAssumption ==
    /\ Grants \cap ProviderAccounts = {}
    /\ IsFiniteSet(Tasks)
    /\ Costs \subseteq Nat /\ Spends \subseteq Nat /\ Limits \subseteq Nat
    /\ PeriodDays \subseteq Nat \ {0}
    /\ NumPolicies \in Nat /\ MaxDay \in Nat /\ MaxUsed \in Nat
    /\ Issued \in [1..NumPolicies -> Policy]

Free == -1          \* no reservation under this task id
Unknown == -1       \* the provider gave no cost
NoWindow == <<>>
NoBudget == [limit |-> 0, days |-> 0]
PolicyIds == 0..NumPolicies     \* 0 is no policy at all

VARIABLES
    day,        \* the clock
    core,       \* the last policy Core issued
    bundle,     \* the budget policy in the governance bundle
    policy,     \* the cached policy, persisted
    replies,    \* Core's answers on their way to refresh_policy_from_core
    budget,     \* provider budgets of the provider selection config
    book,       \* usage entries, persisted
    ceiling,    \* history: the most an admission could bring a book to
    overrun     \* history: spending beyond what was reserved for it

history == <<ceiling, overrun>>
ledgerVars == <<day, core, bundle, policy, replies, budget, book, history>>

EmptyBook == [window |-> NoWindow, limit |-> 0, used |-> 0, reserved |-> 0,
              res |-> [t \in Tasks |-> Free]]

Amount(x) == IF x = Free THEN 0 ELSE x

---------------------------------------------------------------------------
(* Reading the policy and the books.                                        *)

\* cache_policy_from_governance: the bundle's policy, if it has one, replaces
\* what is cached.
Cached == IF bundle = 0 THEN policy ELSE bundle

Metered(i) == i # 0 /\ Issued[i].active

\* _applicable_grants.
ApplicableGrants(i, r) ==
    IF Metered(i)
    THEN {g \in Grants : LET grant == Issued[i].grants[g]
                         IN  r \in grant.serves /\ grant.from <= day /\ day <= grant.to}
    ELSE {}

\* _provider_budget_period_window and the key of the entry.
PeriodStart(d) == day - (day % d)
ProviderAccount(p) == IF budget[p] = NoBudget THEN {}
                      ELSE {<<p, budget[p].days, PeriodStart(budget[p].days)>>}

\* The books a reservation for r needs.
Targets(i, r) == ApplicableGrants(i, r) \cup ProviderAccount(r[2])

Window(i, a) == IF a \in Grants
                THEN <<Issued[i].grants[a].from, Issued[i].grants[a].to>>
                ELSE <<a[3], a[3] + a[2] - 1>>

\* _ensure_usage_entry, _ensure_provider_budget_usage_entry: an entry that is
\* not there, or is of another period of the grant, is started afresh; the limit
\* of a provider's entry is fixed when the entry is created.
Entry(i, a) ==
    IF book[a].window = Window(i, a) THEN book[a]
    ELSE [EmptyBook EXCEPT !.window = Window(i, a),
                           !.limit = IF a \in Grants THEN 0 ELSE budget[a[1]].limit]

\* What a grant or a provider's entry allows in total.
Limit(i, a) == IF a \in Grants THEN Issued[i].grants[a].limit ELSE Entry(i, a).limit

Unlimited(i, a) == a \in Grants /\ Limit(i, a) = 0

\* Fault: the reservations of others are not counted.
Fits_IgnoresReserved(i, a, t, c) ==
    /\ Entry(i, a).res[t] = Free
    /\ Unlimited(i, a) \/ Entry(i, a).used + c <= Limit(i, a)

Fits(i, a, t, c) ==
    /\ Entry(i, a).res[t] = Free
    /\ Unlimited(i, a) \/ Entry(i, a).used + Entry(i, a).reserved + c <= Limit(i, a)

---------------------------------------------------------------------------
(* The methods.                                                             *)

Hold(b, t, c) == [b EXCEPT !.res[t] = c, !.reserved = @ + c]

\* reserve_execution, when it allows the task.
Admit(t, r, c) ==
    LET i == Cached
        targets == Targets(i, r)
    IN  /\ Metered(i) => ApplicableGrants(i, r) # {}
        /\ \A a \in targets : Fits(i, a, t, c)
        /\ policy' = i
        /\ book' = [a \in Accounts |-> IF a \in targets THEN Hold(Entry(i, a), t, c)
                                       ELSE book[a]]
        /\ ceiling' = [a \in Accounts |->
              IF a \in targets
              THEN LET total == Entry(i, a).used + Entry(i, a).reserved + c
                       most == IF Unlimited(i, a) THEN total ELSE Limit(i, a)
                       old == IF book[a].window = Window(i, a) THEN ceiling[a] ELSE 0
                   IN  IF most > old THEN most ELSE old
              ELSE ceiling[a]]
        /\ overrun' = [a \in Accounts |->
              IF a \in targets /\ book[a].window # Window(i, a) THEN 0 ELSE overrun[a]]
        /\ UNCHANGED <<day, core, bundle, replies, budget>>

\* Fault: what was held before the refusal is saved.
Deny_KeepsDraft(t, r, c) ==
    LET i == Cached
        fitting == {a \in Targets(i, r) : Fits(i, a, t, c)}
    IN  /\ \E a \in Targets(i, r) : ~Fits(i, a, t, c)
        /\ policy' = i
        /\ book' = [a \in Accounts |-> IF a \in fitting THEN Hold(Entry(i, a), t, c)
                                       ELSE book[a]]
        /\ UNCHANGED <<day, core, bundle, replies, budget, history>>

\* reserve_execution, when it refuses it: what it had changed so far is not
\* saved, _record_denial saves the state it loads again.
Deny(t, r, c) ==
    LET i == Cached
    IN  /\ \/ Metered(i) /\ ApplicableGrants(i, r) = {}
           \/ \E a \in Targets(i, r) : ~Fits(i, a, t, c)
        /\ policy' = i
        /\ UNCHANGED <<day, core, bundle, replies, budget, book, history>>

\* _final_cost_cents rounds up to the cent.
WholeCents(s) == s + (s % 2)

\* Fault: what was reserved is taken off the charge.
Charge_Difference(a, held, s) == IF s = Unknown THEN 0 ELSE s - held

\* What a finished task adds to the used amount of a book.
Charge(a, held, s) ==
    IF a \in Grants THEN IF s = Unknown THEN held ELSE WholeCents(s)
    ELSE IF s = Unknown THEN 0 ELSE s

NonNegative(n) == IF n < 0 THEN 0 ELSE n

\* Fault: a reservation is dropped and the total kept.
Unhold_KeepsTotal(b, t) == [b EXCEPT !.res[t] = Free]

\* Fault: the end of a task ends the reservations of all.
Unhold_AllTasks(b, t) == [b EXCEPT !.res = EmptyBook.res, !.reserved = 0]

\* A book without the reservation of t.
Unhold(b, t) == [b EXCEPT !.res[t] = Free,
                          !.reserved = NonNegative(@ - Amount(b.res[t]))]

\* Fault: the reservation is charged and not the spend.
Settled_ChargesReservation(a, t, s) ==
    LET b == Unhold(book[a], t)
    IN  [b EXCEPT !.used = @ + Amount(book[a].res[t])]

Settled(a, t, s) ==
    LET b == Unhold(book[a], t)
    IN  [b EXCEPT !.used = @ + Charge(a, book[a].res[t], s)]

\* finalize_execution, called for completed tasks only.
Finalize(t, s) ==
    /\ book' = [a \in Accounts |-> IF book[a].res[t] = Free THEN book[a]
                                   ELSE Settled(a, t, s)]
    /\ overrun' = [a \in Accounts |->
          IF book[a].res[t] = Free THEN overrun[a]
          ELSE overrun[a] + NonNegative(Charge(a, book[a].res[t], s) - book[a].res[t])]
    /\ UNCHANGED <<day, core, bundle, policy, replies, budget, ceiling>>

\* release_execution.
Release(t) ==
    /\ book' = [a \in Accounts |-> IF book[a].res[t] = Free THEN book[a]
                                   ELSE Unhold(book[a], t)]
    /\ UNCHANGED <<day, core, bundle, policy, replies, budget, history>>

\* refresh_policy_from_core up to its await: Core answers with what it has
\* issued last, or not at all (0).
RefreshPolicy ==
    /\ policy' = Cached
    /\ \E i \in {0, core} : replies' = replies \cup {i}
    /\ UNCHANGED <<day, core, bundle, budget, book, history>>

\* ... and after it.
PolicyArrives ==
    \E i \in replies :
        /\ policy' = IF i = 0 THEN policy ELSE i
        /\ replies' = replies \ {i}
        /\ UNCHANGED <<day, core, bundle, budget, book, history>>

---------------------------------------------------------------------------
(* The world around the manager.                                            *)

\* Time passes; the runs that bound it stop the clock, not the node.
Tick ==
    /\ day < MaxDay
    /\ day' = day + 1
    /\ UNCHANGED <<core, bundle, policy, replies, budget, book, history>>

IssuePolicy ==
    /\ core < NumPolicies
    /\ core' = core + 1
    /\ UNCHANGED <<day, bundle, policy, replies, budget, book, history>>

\* The capability runner stores a governance bundle, with Core's budget policy
\* in it or without one.
GovernanceRefreshed ==
    /\ bundle' \in {0, core}
    /\ bundle' # bundle
    /\ UNCHANGED <<day, core, policy, replies, budget, book, history>>

\* update_provider_selection stores the local budgets of all providers at once; a
\* budget also goes when its provider is disabled.
SetBudgets ==
    /\ budget' \in [Providers -> [limit: Limits, days: PeriodDays] \cup {NoBudget}]
    /\ budget' # budget
    /\ UNCHANGED <<day, core, bundle, policy, replies, book, history>>

Environment ==
    \/ RefreshPolicy \/ PolicyArrives
    \/ Tick \/ IssuePolicy \/ GovernanceRefreshed
    \/ SetBudgets

LedgerInit ==
    /\ day = 0 /\ core = 0 /\ bundle = 0 /\ policy = 0 /\ replies = {}
    /\ budget = [p \in Providers |-> NoBudget]
    /\ book = [a \in Accounts |-> EmptyBook]
    /\ ceiling = [a \in Accounts |-> 0]
    /\ overrun = [a \in Accounts |-> 0]

UsedWithinBound == \A a \in Accounts : book[a].used <= MaxUsed

LedgerNext ==
    \/ /\ UsedWithinBound
       /\ \E t \in Tasks, r \in Requests, c \in Costs : Admit(t, r, c) \/ Deny(t, r, c)
    \/ \E t \in Tasks : Release(t) \/ \E s \in Spends \cup {Unknown} : Finalize(t, s)
    \/ Environment

LedgerSpec == LedgerInit /\ [][LedgerNext]_ledgerVars

---------------------------------------------------------------------------
(* Properties.                                                              *)

Book == [window: (Nat \X Nat) \cup {NoWindow}, limit: Nat,
         used: Nat, reserved: Nat, res: [Tasks -> Nat \cup {Free}]]

\* Types of the persisted state, of the environment and of the history.
LedgerTypeOK ==
    /\ day \in 0..MaxDay /\ core \in PolicyIds
    /\ bundle \in PolicyIds /\ policy \in PolicyIds
    /\ replies \subseteq PolicyIds
    /\ budget \in [Providers -> [limit: Limits, days: PeriodDays] \cup {NoBudget}]
    /\ book \in [Accounts -> Book]
    /\ ceiling \in [Accounts -> Nat] /\ overrun \in [Accounts -> Nat]

\* The reserved amount of a book, which the manager keeps beside the reservations
\* and updates on its own, is always the sum of the reservations in it.
Conservation ==
    \A a \in Accounts :
        book[a].reserved = SumFunction([t \in Tasks |-> Amount(book[a].res[t])])

\* What is used and reserved in a book stays within the limit under which it was
\* admitted, except for what executions cost beyond their reservations: neither the
\* order of reservations and settlements, nor a change of the policy, nor a denial
\* half-way through several grants lets two tasks share the same money.
WithinCeiling ==
    \A a \in Accounts : book[a].used + book[a].reserved <= ceiling[a] + overrun[a]
=============================================================================
