------------------------- MODULE TaskExecutionProofs -------------------------
(***************************************************************************)
(* Theorems about BudgetLedger and TaskExecution, for any executions,       *)
(* tasks, grants, policies and bounds.  First the ledger alone, with its    *)
(* methods called in any order: types, and what the books hold.  Then the   *)
(* tasks that use it: types, the ownership of reservations, the refinement  *)
(* of Settlement, that work is funded and that the books show the spend.    *)
(*                                                                         *)
(* That the reserved total of a book is the sum of its reservations is      *)
(* needed to see that the total never falls short of one of them, so        *)
(* Conservation is a part of the invariant that bounds what a book holds.   *)
(***************************************************************************)
EXTENDS TaskExecution, Sums

---------------------------------------------------------------------------
(* The sum of the reservations.                                             *)

Reservation == Nat \cup {Free}

SumsTo(res, total) == total = SumFunction([t \in Tasks |-> Amount(res[t])])

LEMMA AmountType == ASSUME NEW x \in Reservation PROVE Amount(x) \in Nat
  BY DEF Reservation, Amount, Free

LEMMA SumOverTasks ==
    ASSUME NEW res, NEW total, SumsTo(res, total)
    PROVE  total = SumFunctionOnSet([u \in Tasks |-> Amount(res[u])], Tasks)
BY DEF SumsTo, SumFunction

\* No reservations, no total.
LEMMA EmptySums == SumsTo([t \in Tasks |-> Free], 0)
<1> DEFINE f == [u \in Tasks |-> Amount([t \in Tasks |-> Free][u])]
<1>1. \A u \in Tasks : f[u] = 0
  BY DEF Amount
<1>2. IsFiniteSet(Tasks) /\ DOMAIN f = Tasks
  BY LedgerAssumption DEF LedgerAssumption
<1> HIDE DEF f
<1>3. SumFunctionOnSet(f, Tasks) = 0
  BY <1>1, <1>2, SumZero
<1> QED  BY <1>2, <1>3 DEF SumsTo, SumFunction, f

\* A reservation is part of the total.
LEMMA PartOfTotal ==
    ASSUME NEW res \in [Tasks -> Reservation],
           NEW total, SumsTo(res, total), NEW t \in Tasks
    PROVE  total \in Nat /\ Amount(res[t]) <= total
<1> DEFINE f == [u \in Tasks |-> Amount(res[u])]
<1>1. IsFiniteSet(Tasks) /\ \A u \in Tasks : f[u] \in Nat
  BY AmountType, LedgerAssumption DEF LedgerAssumption
<1>2. total = SumFunctionOnSet(f, Tasks) /\ f[t] = Amount(res[t])
  BY SumOverTasks
<1> HIDE DEF f
<1> QED  BY <1>1, <1>2, SumType, SumCovers

\* Changing one reservation changes the total by as much.
LEMMA ChangeSums ==
    ASSUME NEW res \in [Tasks -> Reservation], NEW total, SumsTo(res, total),
           NEW t \in Tasks, NEW x \in Reservation
    PROVE  SumsTo([res EXCEPT ![t] = x], (total - Amount(res[t])) + Amount(x))
<1> DEFINE f == [u \in Tasks |-> Amount(res[u])]
           g == [u \in Tasks |-> Amount([res EXCEPT ![t] = x][u])]
<1>1. IsFiniteSet(Tasks) /\ DOMAIN g = Tasks
  BY LedgerAssumption DEF LedgerAssumption
<1>2. \A u \in Tasks : f[u] \in Nat /\ g[u] \in Nat
  BY AmountType
<1>3. (\A u \in Tasks \ {t} : g[u] = f[u]) /\ f[t] = Amount(res[t]) /\ g[t] = Amount(x)
  OBVIOUS
<1>4. total = SumFunctionOnSet(f, Tasks)
  BY SumOverTasks
<1> HIDE DEF f, g
<1>5. SumFunctionOnSet(g, Tasks) = (total - Amount(res[t])) + Amount(x)
  BY <1>1, <1>2, <1>3, <1>4, SumChange
<1> QED  BY <1>1, <1>5 DEF SumsTo, SumFunction, g

---------------------------------------------------------------------------
(* Types of the operators the methods are built from.                       *)

BudgetSettings == [limit: Limits, days: PeriodDays] \cup {NoBudget}

LEMMA PeriodStartType ==
    ASSUME NEW d \in PeriodDays, day \in 0..MaxDay
    PROVE  PeriodStart(d) \in 0..MaxDay /\ PeriodStart(d) % d = 0
<1>1. d \in Nat \ {0} /\ MaxDay \in Nat /\ day \in Nat
  BY LedgerAssumption DEF LedgerAssumption
<1>2. day % d \in 0..(d - 1) /\ day \div d \in Nat /\ day = d * (day \div d) + (day % d)
  BY <1>1
<1>3. PeriodStart(d) = d * (day \div d)
  BY <1>1, <1>2 DEF PeriodStart
<1>4. d * (day \div d) \in Nat
  BY <1>1, <1>2
<1> QED  BY <1>1, <1>2, <1>3, <1>4

LEMMA IssuedType ==
    ASSUME NEW i \in PolicyIds, i # 0, NEW g \in Grants
    PROVE  Issued[i].grants[g] \in Grant
BY LedgerAssumption DEF LedgerAssumption, PolicyIds, Policy

\* What is in Targets is an account, and one that a policy or a budget describes.
LEMMA TargetsType ==
    ASSUME LedgerTypeOK, NEW i \in PolicyIds, NEW r \in Requests, NEW a \in Targets(i, r)
    PROVE  /\ a \in Accounts
           /\ a \in Grants => i # 0
           /\ a \notin Grants => budget[a[1]].limit \in Nat
<1>1. CASE a \in ApplicableGrants(i, r)
  BY <1>1 DEF ApplicableGrants, Metered, Accounts
<1>2. CASE a \in ProviderAccount(r[2])
  <2>1. r[2] \in Providers
    BY DEF Requests
  <2>2. budget[r[2]] # NoBudget
    BY <1>2 DEF ProviderAccount
  <2>3. budget[r[2]] \in [limit: Limits, days: PeriodDays]
    BY <2>1, <2>2 DEF LedgerTypeOK
  <2>4. a = <<r[2], budget[r[2]].days, PeriodStart(budget[r[2]].days)>>
    BY <1>2, <2>2 DEF ProviderAccount
  <2>5. /\ PeriodStart(budget[r[2]].days) \in 0..MaxDay
        /\ PeriodStart(budget[r[2]].days) % budget[r[2]].days = 0
    BY <2>3, PeriodStartType DEF LedgerTypeOK
  <2>6. a \in ProviderAccounts
    BY <2>1, <2>3, <2>4, <2>5 DEF ProviderAccounts
  <2>7. a \notin Grants
    BY <2>6, LedgerAssumption DEF LedgerAssumption
  <2>8. budget[a[1]].limit \in Nat
    BY <2>3, <2>4, LedgerAssumption DEF LedgerAssumption
  <2> QED  BY <2>6, <2>7, <2>8 DEF Accounts
<1> QED  BY <1>1, <1>2 DEF Targets

LEMMA CachedType == ASSUME LedgerTypeOK PROVE Cached \in PolicyIds
BY DEF LedgerTypeOK, Cached

LEMMA WindowType ==
    ASSUME NEW i \in PolicyIds, NEW a \in Accounts, a \in Grants => i # 0
    PROVE  Window(i, a) \in Nat \X Nat
<1>1. CASE a \in Grants
  BY <1>1, IssuedType DEF Window, Grant
<1>2. CASE a \notin Grants
  <2>1. a \in Providers \X PeriodDays \X (0..MaxDay)
    BY <1>2 DEF Accounts, ProviderAccounts
  <2> DEFINE start == a[3]
             days == a[2]
  <2>2. start \in 0..MaxDay /\ days \in PeriodDays
    BY <2>1
  <2>4. Window(i, a) = <<start, start + days - 1>>
    BY <1>2 DEF Window
  <2> HIDE DEF start, days
  <2>3. start \in Nat /\ days \in Nat \ {0}
    BY <2>2, LedgerAssumption DEF LedgerAssumption
  <2>5. start + days - 1 \in Nat
    BY <2>3
  <2> QED  BY <2>3, <2>4, <2>5
<1> QED  BY <1>1, <1>2

LEMMA EmptyBookType ==
    ASSUME NEW w \in Nat \X Nat, NEW l \in Nat
    PROVE  [EmptyBook EXCEPT !.window = w, !.limit = l] \in Book
BY DEF EmptyBook, Book, Free

LEMMA EntryType ==
    ASSUME LedgerTypeOK, NEW i \in PolicyIds, NEW r \in Requests, NEW a \in Targets(i, r)
    PROVE  /\ Entry(i, a) \in Book
           /\ Entry(i, a).window = Window(i, a)
<1>1. a \in Accounts /\ book[a] \in Book /\ Window(i, a) \in Nat \X Nat
  BY TargetsType, WindowType DEF LedgerTypeOK
<1>2. CASE book[a].window = Window(i, a)
  BY <1>1, <1>2 DEF Entry
<1>3. CASE book[a].window # Window(i, a)
  <2> DEFINE l == IF a \in Grants THEN 0 ELSE budget[a[1]].limit
  <2>1. l \in Nat
    BY TargetsType
  <2>2. Entry(i, a) = [EmptyBook EXCEPT !.window = Window(i, a), !.limit = l]
    BY <1>3 DEF Entry
  <2> HIDE DEF l
  <2> QED  BY <1>1, <2>1, <2>2, EmptyBookType DEF EmptyBook
<1> QED  BY <1>2, <1>3

LEMMA HoldType ==
    ASSUME NEW b \in Book, NEW t \in Tasks, NEW c \in Nat
    PROVE  /\ Hold(b, t, c) \in Book
           /\ Hold(b, t, c).reserved = b.reserved + c
           /\ Hold(b, t, c).used = b.used
           /\ Hold(b, t, c).window = b.window
           /\ Hold(b, t, c).res = [b.res EXCEPT ![t] = c]
<1> DEFINE total == b.reserved + c
           res == [b.res EXCEPT ![t] = c]
<1>1. total \in Nat /\ res \in [Tasks -> Nat \cup {Free}]
  BY DEF Book
<1>2. Hold(b, t, c) = [b EXCEPT !.res = res, !.reserved = total]
  BY DEF Book, Hold
<1> HIDE DEF total, res
<1>3. /\ Hold(b, t, c) \in Book
      /\ Hold(b, t, c).reserved = total
      /\ Hold(b, t, c).used = b.used
      /\ Hold(b, t, c).window = b.window
      /\ Hold(b, t, c).res = res
  BY <1>1, <1>2 DEF Book
<1> QED  BY <1>3 DEF total, res

LEMMA NonNegativeType == ASSUME NEW n \in Int PROVE NonNegative(n) \in Nat /\ NonNegative(n) >= n
BY DEF NonNegative

LEMMA ChargeType ==
    ASSUME NEW a \in Accounts, NEW held \in Nat, NEW s \in Spends \cup {Unknown}
    PROVE  Charge(a, held, s) \in Nat
<1>1. CASE s = Unknown
  BY <1>1 DEF Charge
<1>2. CASE s \in Spends /\ s # Unknown
  <2>1. s \in Nat /\ s % 2 \in Nat
    BY <1>2, LedgerAssumption DEF LedgerAssumption
  <2>2. s + (s % 2) \in Nat
    BY <2>1
  <2> QED  BY <1>2, <2>1, <2>2 DEF Charge, WholeCents
<1> QED  BY <1>1, <1>2

LEMMA UnholdType ==
    ASSUME NEW b \in Book, NEW t \in Tasks
    PROVE  /\ Unhold(b, t) \in Book
           /\ Unhold(b, t).reserved = NonNegative(b.reserved - Amount(b.res[t]))
           /\ Unhold(b, t).used = b.used
           /\ Unhold(b, t).window = b.window
           /\ Unhold(b, t).res = [b.res EXCEPT ![t] = Free]
<1>1. b.reserved \in Nat /\ b.res[t] \in Reservation
  BY DEF Book, Reservation
<1>2. NonNegative(b.reserved - Amount(b.res[t])) \in Nat
  BY <1>1, AmountType, NonNegativeType
<1> QED  BY <1>2 DEF Book, Unhold

LEMMA SettledType ==
    ASSUME NEW a \in Accounts, book[a] \in Book, NEW t \in Tasks, book[a].res[t] # Free,
           NEW s \in Spends \cup {Unknown}
    PROVE  /\ Settled(a, t, s) \in Book
           /\ Settled(a, t, s).reserved = Unhold(book[a], t).reserved
           /\ Settled(a, t, s).used = book[a].used + Charge(a, book[a].res[t], s)
           /\ Settled(a, t, s).window = book[a].window
           /\ Settled(a, t, s).res = Unhold(book[a], t).res
<1>1. book[a].res[t] \in Nat
  BY DEF Book, Free
<1>2. Charge(a, book[a].res[t], s) \in Nat
  BY <1>1, ChargeType
<1> DEFINE b == Unhold(book[a], t)
<1>3. b \in Book /\ b.used = book[a].used /\ b.window = book[a].window
  BY UnholdType
<1>4. Settled(a, t, s) = [b EXCEPT !.used = @ + Charge(a, book[a].res[t], s)]
  BY DEF Settled
<1> HIDE DEF b
<1>5. /\ Settled(a, t, s) \in Book
      /\ Settled(a, t, s).reserved = b.reserved
      /\ Settled(a, t, s).used = book[a].used + Charge(a, book[a].res[t], s)
      /\ Settled(a, t, s).window = book[a].window
      /\ Settled(a, t, s).res = b.res
  BY <1>2, <1>3, <1>4 DEF Book
<1> QED  BY <1>5 DEF b

LEMMA LimitType ==
    ASSUME LedgerTypeOK, NEW i \in PolicyIds, NEW r \in Requests, NEW a \in Targets(i, r)
    PROVE  Limit(i, a) \in Nat
<1>1. CASE a \in Grants
  BY <1>1, TargetsType, IssuedType DEF Limit, Grant
<1>2. CASE a \notin Grants
  BY <1>2, EntryType DEF Limit, Book
<1> QED  BY <1>1, <1>2

---------------------------------------------------------------------------
(* One lemma per method: the types, and the parts of the invariant.         *)

LEMMA AdmitType ==
    ASSUME LedgerTypeOK, NEW t \in Tasks, NEW r \in Requests, NEW c \in Costs, Admit(t, r, c)
    PROVE  LedgerTypeOK'
<1> DEFINE i == Cached
           targets == Targets(i, r)
<1>1. i \in PolicyIds /\ c \in Nat
  BY CachedType, LedgerAssumption DEF LedgerAssumption
<1>2. policy' \in PolicyIds /\ UNCHANGED <<day, core, bundle, replies, budget>>
  BY <1>1 DEF Admit
<1>3. book' \in [Accounts -> Book]
  <2>1. \A a \in targets : Hold(Entry(i, a), t, c) \in Book
    BY <1>1, EntryType, HoldType
  <2>2. \A a \in Accounts : book[a] \in Book
    BY DEF LedgerTypeOK
  <2> QED  BY <2>1, <2>2 DEF Admit
<1>4. ceiling' \in [Accounts -> Nat]
  <2>1. \A a \in targets : /\ Entry(i, a).used + Entry(i, a).reserved + c \in Nat
                           /\ Limit(i, a) \in Nat
    BY <1>1, EntryType, LimitType DEF Book
  <2>2. \A a \in Accounts : ceiling[a] \in Nat
    BY DEF LedgerTypeOK
  <2> QED  BY <2>1, <2>2 DEF Admit
<1>5. overrun' \in [Accounts -> Nat]
  BY DEF Admit, LedgerTypeOK
<1> QED  BY <1>2, <1>3, <1>4, <1>5 DEF LedgerTypeOK

LEMMA DenyType ==
    ASSUME LedgerTypeOK, NEW t \in Tasks, NEW r \in Requests, NEW c \in Costs, Deny(t, r, c)
    PROVE  LedgerTypeOK'
BY CachedType DEF Deny, LedgerTypeOK, history

LEMMA FinalizeType ==
    ASSUME LedgerTypeOK, NEW t \in Tasks, NEW s \in Spends \cup {Unknown}, Finalize(t, s)
    PROVE  LedgerTypeOK'
<1>1. ASSUME NEW a \in Accounts, book[a].res[t] # Free
      PROVE  /\ Settled(a, t, s) \in Book
             /\ NonNegative(Charge(a, book[a].res[t], s) - book[a].res[t]) \in Nat
  <2>1. book[a] \in Book
    BY DEF LedgerTypeOK
  <2>2. book[a].res[t] \in Nat
    BY <1>1, <2>1 DEF Book
  <2>3. Charge(a, book[a].res[t], s) \in Nat
    BY <2>2, ChargeType
  <2> QED  BY <1>1, <2>1, <2>2, <2>3, SettledType, NonNegativeType
<1>2. book' \in [Accounts -> Book]
  BY <1>1 DEF Finalize, LedgerTypeOK
<1>3. overrun' \in [Accounts -> Nat]
  BY <1>1 DEF Finalize, LedgerTypeOK
<1> QED  BY <1>2, <1>3 DEF Finalize, LedgerTypeOK

LEMMA ReleaseType ==
    ASSUME LedgerTypeOK, NEW t \in Tasks, Release(t)
    PROVE  LedgerTypeOK'
<1>1. book' \in [Accounts -> Book]
  BY UnholdType DEF Release, LedgerTypeOK
<1> QED  BY <1>1 DEF Release, LedgerTypeOK, history

LEMMA EnvironmentType ==
    ASSUME LedgerTypeOK, Environment
    PROVE  LedgerTypeOK'
<1>1. CASE RefreshPolicy
  <2>1. 0 \in PolicyIds /\ core \in PolicyIds
    BY LedgerAssumption DEF PolicyIds, LedgerAssumption, LedgerTypeOK
  <2> QED  BY <1>1, <2>1, CachedType DEF RefreshPolicy, LedgerTypeOK, history
<1>2. CASE PolicyArrives
  BY <1>2 DEF PolicyArrives, LedgerTypeOK, history
<1>3. CASE Tick
  BY <1>3, LedgerAssumption DEF Tick, LedgerTypeOK, history, LedgerAssumption
<1>4. CASE IssuePolicy
  BY <1>4, LedgerAssumption DEF IssuePolicy, LedgerTypeOK, history, PolicyIds, LedgerAssumption
<1>5. CASE GovernanceRefreshed
  <2>1. 0 \in PolicyIds /\ core \in PolicyIds
    BY LedgerAssumption DEF PolicyIds, LedgerAssumption, LedgerTypeOK
  <2> QED  BY <1>5, <2>1 DEF GovernanceRefreshed, LedgerTypeOK, history
<1>6. CASE SetBudgets
  BY <1>6 DEF SetBudgets, LedgerTypeOK, history
<1> QED  BY <1>1, <1>2, <1>3, <1>4, <1>5, <1>6 DEF Environment

\* The environment touches no book.
LEMMA EnvironmentKeepsBooks == ASSUME Environment PROVE UNCHANGED <<book, history>>
BY DEF Environment, RefreshPolicy, PolicyArrives, Tick, IssuePolicy, GovernanceRefreshed,
       SetBudgets

LEMMA LedgerInitType == ASSUME LedgerInit PROVE LedgerTypeOK
<1>1. EmptyBook \in Book
  BY DEF EmptyBook, Book, Free
<1> QED  BY <1>1, LedgerAssumption DEF LedgerInit, LedgerTypeOK, PolicyIds, LedgerAssumption

\* The methods and the environment leave every ledger state well typed.
\* (budget_manager.py and budget_state_store.py.)
THEOREM LedgerTypeCorrect == LedgerSpec => []LedgerTypeOK
<1>1. LedgerInit => LedgerTypeOK
  BY LedgerInitType
<1>2. LedgerTypeOK /\ [LedgerNext]_ledgerVars => LedgerTypeOK'
  <2> SUFFICES ASSUME LedgerTypeOK, [LedgerNext]_ledgerVars PROVE LedgerTypeOK'
    OBVIOUS
  <2>1. ASSUME NEW t \in Tasks, NEW r \in Requests, NEW c \in Costs,
               Admit(t, r, c) \/ Deny(t, r, c)
        PROVE  LedgerTypeOK'
    BY <2>1, AdmitType, DenyType
  <2>2. ASSUME NEW t \in Tasks, Release(t) PROVE LedgerTypeOK'
    BY <2>2, ReleaseType
  <2>3. ASSUME NEW t \in Tasks, NEW s \in Spends \cup {Unknown}, Finalize(t, s)
        PROVE  LedgerTypeOK'
    BY <2>3, FinalizeType
  <2>4. CASE Environment
    BY <2>4, EnvironmentType
  <2>5. CASE UNCHANGED ledgerVars
    BY <2>5 DEF ledgerVars, history, LedgerTypeOK
  <2> QED  BY <2>1, <2>2, <2>3, <2>4, <2>5 DEF LedgerNext
<1> QED  BY <1>1, <1>2, PTL DEF LedgerSpec

---------------------------------------------------------------------------
(* Totals and ceilings.                                                     *)

LEMMA EntryTotal ==
    ASSUME LedgerTypeOK, Conservation,
           NEW i \in PolicyIds, NEW r \in Requests, NEW a \in Targets(i, r)
    PROVE  SumsTo(Entry(i, a).res, Entry(i, a).reserved)
<1>1. a \in Accounts
  BY TargetsType
<1>2. CASE book[a].window = Window(i, a)
  BY <1>1, <1>2 DEF Entry, Conservation, SumsTo
<1>3. CASE book[a].window # Window(i, a)
  <2>1. Entry(i, a).res = [t \in Tasks |-> Free] /\ Entry(i, a).reserved = 0
    BY <1>3 DEF Entry, EmptyBook
  <2> QED  BY <2>1, EmptySums
<1> QED  BY <1>2, <1>3

\* Dropping a reservation takes exactly it off the total.
LEMMA UnholdTotal ==
    ASSUME NEW b \in Book, SumsTo(b.res, b.reserved),
           NEW t \in Tasks
    PROVE  /\ Unhold(b, t).reserved = b.reserved - Amount(b.res[t])
           /\ SumsTo(Unhold(b, t).res, Unhold(b, t).reserved)
<1>1. b.res \in [Tasks -> Reservation] /\ b.reserved \in Nat
  BY DEF Book, Reservation
<1>2. Amount(b.res[t]) \in Nat /\ Amount(b.res[t]) <= b.reserved
  BY <1>1, AmountType, PartOfTotal
<1>3. Unhold(b, t).reserved = b.reserved - Amount(b.res[t])
  <2> DEFINE x == Amount(b.res[t])
  <2>1. Unhold(b, t).reserved = NonNegative(b.reserved - x)
    BY UnholdType
  <2>2. x \in Nat /\ x <= b.reserved
    BY <1>2
  <2> HIDE DEF x
  <2>3. NonNegative(b.reserved - x) = b.reserved - x
    BY <1>1, <2>2 DEF NonNegative
  <2> QED  BY <2>1, <2>3 DEF x
<1>4. Unhold(b, t).res = [b.res EXCEPT ![t] = Free]
  BY UnholdType
<1>5. Free \in Reservation /\ Amount(Free) = 0
  BY DEF Reservation, Amount
<1>6. SumsTo([b.res EXCEPT ![t] = Free], (b.reserved - Amount(b.res[t])) + 0)
  BY <1>1, <1>5, ChangeSums
<1>7. (b.reserved - Amount(b.res[t])) + 0 = b.reserved - Amount(b.res[t])
  BY <1>1, <1>2
<1> QED  BY <1>3, <1>4, <1>6, <1>7

LEMMA AdmitTotals ==
    ASSUME LedgerTypeOK, Conservation,
           NEW t \in Tasks, NEW r \in Requests, NEW c \in Costs, Admit(t, r, c)
    PROVE  Conservation'
<1> DEFINE i == Cached
           targets == Targets(i, r)
<1>1. i \in PolicyIds /\ c \in Nat
  BY CachedType, LedgerAssumption DEF LedgerAssumption
<1> SUFFICES ASSUME NEW a \in Accounts
             PROVE  SumsTo(book'[a].res, book'[a].reserved)
  BY DEF Conservation, SumsTo
<1>2. CASE a \notin targets
  BY <1>2 DEF Admit, Conservation, SumsTo
<1>3. CASE a \in targets
  <2> DEFINE e == Entry(i, a)
  <2>1. book'[a] = Hold(e, t, c) /\ e.res[t] = Free
    BY <1>3 DEF Admit, Fits
  <2>2. e \in Book /\ SumsTo(e.res, e.reserved)
    BY <1>1, <1>3, EntryType, EntryTotal
  <2> HIDE DEF e
  <2>3. e.res \in [Tasks -> Reservation] /\ e.reserved \in Nat /\ c \in Reservation
    BY <1>1, <2>2 DEF Book, Reservation
  <2>4. Amount(e.res[t]) = 0 /\ Amount(c) = c
    BY <1>1, <2>1 DEF Amount, Free
  <2>5. SumsTo([e.res EXCEPT ![t] = c], (e.reserved - 0) + c)
    BY <2>2, <2>3, <2>4, ChangeSums
  <2>6. (e.reserved - 0) + c = e.reserved + c
    BY <1>1, <2>3
  <2>7. Hold(e, t, c).res = [e.res EXCEPT ![t] = c] /\ Hold(e, t, c).reserved = e.reserved + c
    BY <1>1, <2>2, HoldType
  <2> QED  BY <2>1, <2>5, <2>6, <2>7
<1> QED  BY <1>2, <1>3

LEMMA FinalizeTotals ==
    ASSUME LedgerTypeOK, Conservation,
           NEW t \in Tasks, NEW s \in Spends \cup {Unknown}, Finalize(t, s)
    PROVE  Conservation'
<1> SUFFICES ASSUME NEW a \in Accounts
             PROVE  SumsTo(book'[a].res, book'[a].reserved)
  BY DEF Conservation, SumsTo
<1>1. book[a] \in Book /\ SumsTo(book[a].res, book[a].reserved)
  BY DEF LedgerTypeOK, Conservation, SumsTo
<1>2. CASE book[a].res[t] = Free
  BY <1>1, <1>2 DEF Finalize
<1>3. CASE book[a].res[t] # Free
  <2>1. book'[a] = Settled(a, t, s)
    BY <1>3 DEF Finalize
  <2> QED  BY <1>1, <1>3, <2>1, SettledType, UnholdTotal
<1> QED  BY <1>2, <1>3

LEMMA ReleaseTotals ==
    ASSUME LedgerTypeOK, Conservation,
           NEW t \in Tasks, Release(t)
    PROVE  Conservation'
<1> SUFFICES ASSUME NEW a \in Accounts
             PROVE  SumsTo(book'[a].res, book'[a].reserved)
  BY DEF Conservation, SumsTo
<1>1. book[a] \in Book /\ SumsTo(book[a].res, book[a].reserved)
  BY DEF LedgerTypeOK, Conservation, SumsTo
<1>2. CASE book[a].res[t] = Free
  BY <1>1, <1>2 DEF Release
<1>3. CASE book[a].res[t] # Free
  BY <1>1, <1>3, UnholdTotal DEF Release
<1> QED  BY <1>2, <1>3

LEMMA AdmitWithin ==
    ASSUME LedgerTypeOK, WithinCeiling,
           NEW t \in Tasks, NEW r \in Requests, NEW c \in Costs, Admit(t, r, c)
    PROVE  WithinCeiling'
<1> DEFINE i == Cached
           targets == Targets(i, r)
<1>1. i \in PolicyIds /\ c \in Nat
  BY CachedType, LedgerAssumption DEF LedgerAssumption
<1>2. LedgerTypeOK'
  BY AdmitType
<1> SUFFICES ASSUME NEW a \in Accounts
             PROVE  book'[a].used + book'[a].reserved <= ceiling'[a] + overrun'[a]
  BY DEF WithinCeiling
<1>3. CASE a \notin targets
  BY <1>3 DEF Admit, WithinCeiling
<1>4. CASE a \in targets
  <2> DEFINE e == Entry(i, a)
             total == e.used + e.reserved + c
             limit == Limit(i, a)
             most == IF Unlimited(i, a) THEN total ELSE limit
  <2>1. e.used \in Nat /\ e.reserved \in Nat /\ limit \in Nat
    BY <1>1, <1>4, EntryType, LimitType DEF Book
  <2>2. book'[a].used = e.used /\ book'[a].reserved = e.reserved + c
    <3>1. book'[a] = Hold(e, t, c)
      BY <1>4 DEF Admit
    <3>2. e \in Book
      BY <1>1, <1>4, EntryType
    <3> HIDE DEF e
    <3>3. Hold(e, t, c).used = e.used /\ Hold(e, t, c).reserved = e.reserved + c
      BY <1>1, <3>2, HoldType
    <3> QED  BY <3>1, <3>3
  <2>3. Unlimited(i, a) \/ total <= limit
    BY <1>4 DEF Admit, Fits
  <2>4. total <= most /\ most \in Nat /\ total \in Nat
    BY <1>1, <2>1, <2>3
  <2>5. ceiling[a] \in Nat /\ ceiling'[a] \in Nat /\ overrun'[a] \in Nat
    BY <1>2 DEF LedgerTypeOK
  <2> DEFINE old == IF book[a].window = Window(i, a) THEN ceiling[a] ELSE 0
  <2>6. ceiling'[a] = IF most > old THEN most ELSE old
    BY <1>4 DEF Admit
  <2>7. old \in Nat
    BY <2>5
  <2> HIDE DEF most, old
  <2>8. most <= ceiling'[a]
    BY <2>4, <2>6, <2>7
  <2> QED  BY <1>1, <2>1, <2>2, <2>4, <2>5, <2>8
<1> QED  BY <1>3, <1>4

LEMMA FinalizeWithin ==
    ASSUME LedgerTypeOK, WithinCeiling, Conservation,
           NEW t \in Tasks, NEW s \in Spends \cup {Unknown}, Finalize(t, s)
    PROVE  WithinCeiling'
<1> SUFFICES ASSUME NEW a \in Accounts
             PROVE  book'[a].used + book'[a].reserved <= ceiling'[a] + overrun'[a]
  BY DEF WithinCeiling
<1>1. /\ book[a] \in Book /\ ceiling[a] \in Nat /\ overrun[a] \in Nat
      /\ SumsTo(book[a].res, book[a].reserved)
      /\ book[a].used + book[a].reserved <= ceiling[a] + overrun[a]
  BY DEF LedgerTypeOK, Conservation, SumsTo, WithinCeiling
<1>2. ceiling' = ceiling
  BY DEF Finalize
<1>3. CASE book[a].res[t] = Free
  BY <1>1, <1>2, <1>3 DEF Finalize
<1>4. CASE book[a].res[t] # Free
  <2> DEFINE held == book[a].res[t]
             charge == Charge(a, held, s)
  <2>1. held \in Nat /\ Amount(held) = held
    BY <1>1, <1>4 DEF Book, Amount
  <2>2. charge \in Nat
    BY <2>1, ChargeType
  <2>3. book'[a] = Settled(a, t, s)
    BY <1>4 DEF Finalize
  <2>4. book'[a].used = book[a].used + charge
    BY <1>1, <1>4, <2>3, SettledType
  <2>5. book'[a].reserved = book[a].reserved - held
    BY <1>1, <1>4, <2>1, <2>3, SettledType, UnholdTotal
  <2>6. overrun'[a] = overrun[a] + NonNegative(charge - held)
    BY <1>4 DEF Finalize
  <2>7. book[a].used \in Nat /\ book[a].reserved \in Nat
    BY <1>1 DEF Book
  <2> HIDE DEF held, charge
  <2>8. NonNegative(charge - held) \in Nat /\ NonNegative(charge - held) >= charge - held
    BY <2>1, <2>2, NonNegativeType
  <2> QED  BY <1>1, <1>2, <2>1, <2>2, <2>4, <2>5, <2>6, <2>7, <2>8
<1> QED  BY <1>3, <1>4

LEMMA ReleaseWithin ==
    ASSUME LedgerTypeOK, WithinCeiling, Conservation,
           NEW t \in Tasks, Release(t)
    PROVE  WithinCeiling'
<1> SUFFICES ASSUME NEW a \in Accounts
             PROVE  book'[a].used + book'[a].reserved <= ceiling'[a] + overrun'[a]
  BY DEF WithinCeiling
<1>1. /\ book[a] \in Book /\ ceiling[a] \in Nat /\ overrun[a] \in Nat
      /\ SumsTo(book[a].res, book[a].reserved)
      /\ book[a].used + book[a].reserved <= ceiling[a] + overrun[a]
  BY DEF LedgerTypeOK, Conservation, SumsTo, WithinCeiling
<1>2. ceiling' = ceiling /\ overrun' = overrun
  BY DEF Release, history
<1>3. CASE book[a].res[t] = Free
  BY <1>1, <1>2, <1>3 DEF Release
<1>4. CASE book[a].res[t] # Free
  <2>1. book'[a].used = book[a].used
    BY <1>1, <1>4, UnholdType DEF Release
  <2>2. book'[a].reserved = book[a].reserved - Amount(book[a].res[t])
    BY <1>1, <1>4, UnholdTotal DEF Release
  <2>3. book[a].used \in Nat /\ book[a].reserved \in Nat /\ book[a].res[t] \in Reservation
    BY <1>1 DEF Book, Reservation
  <2>4. Amount(book[a].res[t]) \in Nat
    BY <2>3, AmountType
  <2> QED  BY <1>1, <1>2, <2>1, <2>2, <2>3, <2>4
<1> QED  BY <1>3, <1>4

\* The inductive invariant.
Solvent == LedgerTypeOK /\ Conservation /\ WithinCeiling

LEMMA SolventInitially == ASSUME LedgerInit PROVE Solvent
<1>1. Conservation
  BY EmptySums DEF LedgerInit, Conservation, SumsTo, EmptyBook
<1>2. WithinCeiling
  BY DEF LedgerInit, WithinCeiling, EmptyBook
<1> QED  BY <1>1, <1>2, LedgerInitType DEF Solvent

LEMMA SolventInvariant == LedgerSpec => []Solvent
<1>1. LedgerInit => Solvent
  BY SolventInitially
<1>2. Solvent /\ [LedgerNext]_ledgerVars => Solvent'
  <2> SUFFICES ASSUME Solvent, [LedgerNext]_ledgerVars PROVE Solvent'
    OBVIOUS
  <2> USE DEF Solvent
  <2>1. ASSUME NEW t \in Tasks, NEW r \in Requests, NEW c \in Costs, Admit(t, r, c)
        PROVE  Solvent'
    BY <2>1, AdmitType, AdmitTotals, AdmitWithin
  <2>2. ASSUME NEW t \in Tasks, NEW r \in Requests, NEW c \in Costs, Deny(t, r, c)
        PROVE  Solvent'
    BY <2>2, DenyType DEF Deny, Conservation, SumsTo, WithinCeiling, history
  <2>3. ASSUME NEW t \in Tasks, Release(t) PROVE Solvent'
    BY <2>3, ReleaseType, ReleaseTotals, ReleaseWithin
  <2>4. ASSUME NEW t \in Tasks, NEW s \in Spends \cup {Unknown}, Finalize(t, s)
        PROVE  Solvent'
    BY <2>4, FinalizeType, FinalizeTotals, FinalizeWithin
  <2>5. CASE Environment
    BY <2>5, EnvironmentType, EnvironmentKeepsBooks DEF Conservation, SumsTo, WithinCeiling, history
  <2>6. CASE UNCHANGED ledgerVars
    BY <2>6 DEF ledgerVars, history, LedgerTypeOK, Conservation, SumsTo, WithinCeiling
  <2> QED  BY <2>1, <2>2, <2>3, <2>4, <2>5, <2>6 DEF LedgerNext
<1> QED  BY <1>1, <1>2, PTL DEF LedgerSpec

\* The reserved total that the manager keeps beside the reservations of a book, and
\* adds to and takes from on its own, is always their sum, for any number of tasks
\* (reserve_execution, finalize_execution, release_execution).
THEOREM LedgerConserves == LedgerSpec => []Conservation
<1>1. Solvent => Conservation
  BY DEF Solvent
<1> QED  BY <1>1, SolventInvariant, PTL

\* However the methods are called, a book never holds more than what the
\* admissions into it allowed and what executions cost beyond their
\* reservations (reserve_execution, finalize_execution, release_execution).
THEOREM LedgerWithinCeiling == LedgerSpec => []WithinCeiling
<1>1. Solvent => WithinCeiling
  BY DEF Solvent
<1> QED  BY <1>1, SolventInvariant, PTL

---------------------------------------------------------------------------
(* The tasks.                                                               *)

States == {"idle"} \cup Running \cup Ends \cup CutOff
Holders == Accounts \X (Nat \X Nat)

LEMMA TaskType == ASSUME NEW e \in Executions PROVE TaskOf[e] \in Tasks
BY ExecutionAssumption DEF ExecutionAssumption

LEMMA GotoType ==
    ASSUME TypeOK, NEW e \in Executions, NEW to \in States, Goto(e, to)
    PROVE  /\ pc' \in [Executions -> States]
           /\ pc'[e] = to
           /\ \A d \in Executions \ {e} : pc'[d] = pc[d]
BY DEF TypeOK, Goto, States

LEMMA StateNames ==
    {"received", "selected", "reserved", "executing", "answered", "refused", "settled",
     "rejected", "failed", "completed", "cut", "lost", "unanswered"} \subseteq States
BY DEF States, Running, Reserving, Holding, Ends, CutOff

---------------------------------------------------------------------------
(* The steps of an execution, by what they do to the books.                 *)

\* Those that leave the books alone.
Quiet(e) == \/ Receive(e) \/ Reject(e) \/ Select(e) \/ RejectSelected(e) \/ Refuse(e)
            \/ Dispatch(e) \/ Answer(e) \/ ResultRaises(e) \/ Finish(e)

\* The two outcomes of Reserve.
Admitted(e, k, c) ==
    /\ pc[e] = "selected"
    /\ Admit(TaskOf[e], <<k, plan[e]>>, c)
    /\ Goto(e, "reserved")
    /\ reserved' = [reserved EXCEPT ![e] =
          {<<a, Window(Cached, a)>> : a \in Targets(Cached, <<k, plan[e]>>)}]
    /\ UNCHANGED <<plan, served, spend, active, restarts>>

Denied(e, k, c) ==
    /\ pc[e] = "selected"
    /\ Deny(TaskOf[e], <<k, plan[e]>>, c)
    /\ Goto(e, "refused")
    /\ UNCHANGED <<reserved, plan, served, spend, active, restarts>>

LEMMA ReserveCases ==
    ASSUME NEW e \in Executions, Reserve(e)
    PROVE  \E k \in Kinds, c \in Costs : Admitted(e, k, c) \/ Denied(e, k, c)
BY DEF Reserve, Admitted, Denied

LEMMA StepCases ==
    ASSUME Next
    PROVE  \/ Restart \/ World
           \/ \E e \in Executions :
                 \/ Quiet(e) \/ Fail(e) \/ Settle(e)
                 \/ \E k \in Kinds, c \in Costs : Admitted(e, k, c) \/ Denied(e, k, c)
<1>1. ASSUME NEW e \in Executions, Reserve(e)
      PROVE  \E k \in Kinds, c \in Costs : Admitted(e, k, c) \/ Denied(e, k, c)
  BY <1>1, ReserveCases
<1>2. ASSUME NEW e \in Executions, Receive(e) \/ Advance(e) \/ ResultRaises(e)
      PROVE  Quiet(e) \/ Fail(e) \/ Settle(e) \/ Reserve(e)
  BY <1>2 DEF Advance, Quiet
<1> QED  BY <1>1, <1>2 DEF Next

\* A quiet step goes from one state of the execution to the next.
Moves ==
    {<<"idle", "received">>, <<"received", "rejected">>, <<"received", "selected">>,
     <<"selected", "rejected">>, <<"refused", "rejected">>, <<"reserved", "executing">>,
     <<"executing", "answered">>, <<"answered", "lost">>, <<"settled", "completed">>}

LEMMA QuietMoves ==
    ASSUME NEW e \in Executions, Quiet(e)
    PROVE  /\ UNCHANGED ledgerVars
           /\ \E m \in Moves : pc[e] = m[1] /\ Goto(e, m[2])
           /\ UNCHANGED <<reserved, restarts>>
BY DEF Quiet, Moves, Receive, Reject, Select, RejectSelected, Refuse, Dispatch, Answer,
       ResultRaises, Finish

---------------------------------------------------------------------------
(* Types.                                                                   *)

\* What a step of e must leave typed, besides the ledger.
LocalsTyped ==
    /\ pc \in [Executions -> States]
    /\ plan \in [Executions -> Providers \cup {None}]
    /\ reserved \in [Executions -> SUBSET Holders]
    /\ served \in [Executions -> Providers \cup {None}]
    /\ spend \in [Executions -> Spends \cup {Unknown}]
    /\ active \subseteq Tasks /\ restarts \in 0..MaxRestarts

LEMMA TypeParts == TypeOK <=> LedgerTypeOK /\ LocalsTyped
BY DEF TypeOK, LocalsTyped, States, Holders

LEMMA QuietType == ASSUME TypeOK, NEW e \in Executions, Quiet(e) PROVE TypeOK'
<1>1. LedgerTypeOK'
  BY QuietMoves DEF TypeOK, LedgerTypeOK, ledgerVars, history
<1>2. pc' \in [Executions -> States]
  BY QuietMoves, GotoType, StateNames DEF Moves
<1>3. active' \subseteq Tasks
  BY TaskType DEF TypeOK, Quiet, Receive, Reject, Select, RejectSelected, Refuse,
     Dispatch, Answer, ResultRaises, Finish, Track, Untrack
<1>4. plan' \in [Executions -> Providers \cup {None}]
  BY DEF TypeOK, Quiet, Receive, Reject, Select, RejectSelected, Refuse, Dispatch,
     Answer, ResultRaises, Finish
<1>5. /\ served' \in [Executions -> Providers \cup {None}]
      /\ spend' \in [Executions -> Spends \cup {Unknown}]
  BY DEF TypeOK, Quiet, Receive, Reject, Select, RejectSelected, Refuse, Dispatch,
     Answer, ResultRaises, Finish
<1>6. reserved' = reserved /\ restarts' = restarts
  BY QuietMoves
<1>7. LocalsTyped'
  BY <1>2, <1>3, <1>4, <1>5, <1>6, TypeParts DEF LocalsTyped
<1> QED  BY <1>1, <1>7 DEF TypeOK, LocalsTyped, States, Holders

\* A request that reaches the budget manager names a provider.
Planned == \A e \in Executions : pc[e] = "selected" => plan[e] \in Providers

LEMMA RequestType ==
    ASSUME Planned, NEW e \in Executions, pc[e] = "selected", NEW k \in Kinds
    PROVE  <<k, plan[e]>> \in Requests
BY DEF Planned, Requests

LEMMA AdmittedType ==
    ASSUME TypeOK, Planned, NEW e \in Executions, NEW k \in Kinds, NEW c \in Costs,
           Admitted(e, k, c)
    PROVE  TypeOK'
<1> DEFINE r == <<k, plan[e]>>
<1>1. r \in Requests /\ TaskOf[e] \in Tasks /\ Cached \in PolicyIds
  BY RequestType, TaskType, CachedType, TypeParts DEF Admitted
<1>2. LedgerTypeOK'
  BY <1>1, AdmitType, TypeParts DEF Admitted
<1>3. \A a \in Targets(Cached, r) : <<a, Window(Cached, a)>> \in Holders
  BY <1>1, TargetsType, WindowType, TypeParts DEF Holders
<1> HIDE DEF r
<1>4. reserved' \in [Executions -> SUBSET Holders]
  BY <1>3, TypeParts DEF Admitted, LocalsTyped, r
<1>5. pc' \in [Executions -> States]
  BY GotoType, StateNames DEF Admitted
<1>6. LocalsTyped'
  BY <1>4, <1>5, TypeParts DEF Admitted, LocalsTyped
<1> QED  BY <1>2, <1>6 DEF TypeOK, LocalsTyped, States, Holders

LEMMA DeniedType ==
    ASSUME TypeOK, Planned, NEW e \in Executions, NEW k \in Kinds, NEW c \in Costs,
           Denied(e, k, c)
    PROVE  TypeOK'
<1>1. <<k, plan[e]>> \in Requests /\ TaskOf[e] \in Tasks
  BY RequestType, TaskType DEF Denied
<1>2. LedgerTypeOK'
  BY <1>1, DenyType, TypeParts DEF Denied
<1>3. pc' \in [Executions -> States]
  BY GotoType, StateNames DEF Denied
<1>4. LocalsTyped'
  BY <1>3, TypeParts DEF Denied, LocalsTyped
<1> QED  BY <1>2, <1>4 DEF TypeOK, LocalsTyped, States, Holders

LEMMA FailType == ASSUME TypeOK, NEW e \in Executions, Fail(e) PROVE TypeOK'
<1>1. LedgerTypeOK'
  BY TaskType, ReleaseType, TypeParts DEF Fail
<1>2. pc' \in [Executions -> States]
  BY GotoType, StateNames DEF Fail
<1>3. LocalsTyped'
  BY <1>2, TypeParts DEF Fail, LocalsTyped, Untrack
<1> QED  BY <1>1, <1>3 DEF TypeOK, LocalsTyped, States, Holders

LEMMA SettleType == ASSUME TypeOK, NEW e \in Executions, Settle(e) PROVE TypeOK'
<1>1. spend[e] \in Spends \cup {Unknown}
  BY DEF TypeOK
<1>2. LedgerTypeOK'
  BY <1>1, TaskType, FinalizeType, TypeParts DEF Settle
<1>3. pc' \in [Executions -> States]
  BY GotoType, StateNames DEF Settle
<1>4. LocalsTyped'
  BY <1>3, TypeParts DEF Settle, LocalsTyped
<1> QED  BY <1>2, <1>4 DEF TypeOK, LocalsTyped, States, Holders

\* Where a restart leaves an execution.
CutTo(s) == CASE s \in Reserving \cup {"refused"} -> "cut"
              [] s \in Holding -> "lost"
              [] s = "settled" -> "unanswered"
              [] OTHER -> s

LEMMA RestartMoves ==
    ASSUME Restart
    PROVE  \A e \in Executions : pc'[e] = CutTo(pc[e])
BY DEF Restart, CutTo

LEMMA RestartType == ASSUME TypeOK, Restart PROVE TypeOK'
<1>1. LedgerTypeOK'
  BY TypeParts DEF Restart, LedgerTypeOK, history
<1>2. pc' \in [Executions -> States]
  <2>1. \A s \in States : CutTo(s) \in States
    BY StateNames DEF CutTo
  <2>2. pc' = [e \in Executions |-> CutTo(pc[e])]
    BY DEF Restart, CutTo
  <2> QED  BY <2>1, <2>2, TypeParts DEF LocalsTyped
<1>3. restarts' \in 0..MaxRestarts
  BY ExecutionAssumption DEF Restart, TypeOK, ExecutionAssumption
<1>4. LocalsTyped'
  BY <1>2, <1>3, TypeParts DEF Restart, LocalsTyped
<1> QED  BY <1>1, <1>4 DEF TypeOK, LocalsTyped, States, Holders

LEMMA WorldType == ASSUME TypeOK, World PROVE TypeOK'
<1>1. LedgerTypeOK'
  BY EnvironmentType, TypeParts DEF World
<1>2. LocalsTyped'
  BY TypeParts DEF World, execVars, LocalsTyped
<1> QED  BY <1>1, <1>2 DEF TypeOK, LocalsTyped, States, Holders

\* Planned is inductive: only Select goes to the state, and it fills in the plan.
LEMMA PlannedQuiet ==
    ASSUME TypeOK, Planned, NEW e \in Executions, Quiet(e)
    PROVE  Planned'
<1>1. CASE Select(e)
  <2>1. PICK p \in Providers : plan' = [plan EXCEPT ![e] = p]
    BY <1>1 DEF Select
  <2>2. \A d \in Executions \ {e} : pc'[d] = pc[d]
    BY <1>1, GotoType, StateNames DEF Select
  <2> QED  BY <2>1, <2>2 DEF Planned, TypeOK
<1>2. CASE ~Select(e)
  <2>1. PICK m \in Moves : pc[e] = m[1] /\ Goto(e, m[2])
    BY QuietMoves
  <2>2. plan' = plan
    BY <1>2 DEF Quiet, Receive, Reject, RejectSelected, Refuse, Dispatch, Answer, ResultRaises, Finish
  <2>3. pc'[e] # "selected"
    BY <1>2, GotoType, StateNames
       DEF Quiet, Receive, Reject, RejectSelected, Refuse, Dispatch, Answer, ResultRaises, Finish
  <2>4. \A d \in Executions \ {e} : pc'[d] = pc[d]
    BY <2>1, GotoType, StateNames DEF Moves
  <2> QED  BY <2>2, <2>3, <2>4 DEF Planned
<1> QED  BY <1>1, <1>2

LEMMA PlannedKept ==
    ASSUME TypeOK, Planned, NEW e \in Executions, NEW to \in States \ {"selected"},
           Goto(e, to), plan' = plan
    PROVE  Planned'
BY GotoType DEF Planned

TypeInv == TypeOK /\ Planned

LEMMA TypeInit == ASSUME Init PROVE TypeInv
<1>1. LedgerTypeOK
  BY LedgerInitType DEF Init
<1>2. LocalsTyped
  BY ExecutionAssumption DEF Init, LocalsTyped, States, ExecutionAssumption
<1>3. Planned
  BY DEF Init, Planned
<1> QED  BY <1>1, <1>2, <1>3, TypeParts DEF TypeInv

LEMMA TypeNext == ASSUME TypeInv, [Next]_vars PROVE TypeInv'
<1> USE DEF TypeInv
<1>1. ASSUME NEW e \in Executions, Quiet(e) PROVE TypeInv'
  BY <1>1, QuietType, PlannedQuiet
<1>2. ASSUME NEW e \in Executions, NEW k \in Kinds, NEW c \in Costs, Admitted(e, k, c)
      PROVE  TypeInv'
  BY <1>2, AdmittedType, PlannedKept, StateNames DEF Admitted
<1>3. ASSUME NEW e \in Executions, NEW k \in Kinds, NEW c \in Costs, Denied(e, k, c)
      PROVE  TypeInv'
  BY <1>3, DeniedType, PlannedKept, StateNames DEF Denied
<1>4. ASSUME NEW e \in Executions, Fail(e) PROVE TypeInv'
  BY <1>4, FailType, PlannedKept, StateNames DEF Fail
<1>5. ASSUME NEW e \in Executions, Settle(e) PROVE TypeInv'
  BY <1>5, SettleType, PlannedKept, StateNames DEF Settle
<1>6. CASE Restart
  <2>1. Planned'
    <3> SUFFICES ASSUME NEW e \in Executions PROVE pc'[e] # "selected"
      BY DEF Planned
    <3> QED  BY <1>6, RestartMoves DEF CutTo, Reserving
  <2> QED  BY <1>6, <2>1, RestartType
<1>7. CASE World
  BY <1>7, WorldType DEF World, execVars, Planned
<1>8. CASE UNCHANGED vars
  <2>1. LedgerTypeOK'
    BY <1>8 DEF vars, ledgerVars, history, LedgerTypeOK, TypeOK
  <2>2. LocalsTyped'
    BY <1>8, TypeParts DEF vars, execVars, LocalsTyped
  <2>3. Planned'
    BY <1>8 DEF vars, execVars, Planned
  <2> QED  BY <2>1, <2>2, <2>3 DEF TypeOK, LocalsTyped, States, Holders
<1>9. CASE Next
  BY <1>1, <1>2, <1>3, <1>4, <1>5, <1>6, <1>7, <1>9, StepCases
<1> QED  BY <1>8, <1>9

LEMMA TypeInvariant == Spec => []TypeInv
BY TypeInit, TypeNext, PTL DEF Spec

\* The coroutines' locals, the tracker and the ledger keep their types.
THEOREM TaskTypeCorrect == Spec => []TypeOK
<1>1. TypeInv => TypeOK
  BY DEF TypeInv
<1> QED  BY <1>1, TypeInvariant, PTL

---------------------------------------------------------------------------
(* What the steps do to the reservations.                                   *)

\* A task without a reservation in a book.
NoHold(a, t) == book[a].res[t] = Free

LEMMA AdmitHolds ==
    ASSUME LedgerTypeOK, NEW t \in Tasks, NEW r \in Requests, NEW c \in Costs,
           Admit(t, r, c), NEW a \in Accounts, NEW u \in Tasks, u # t, ~NoHold(a, u)'
    PROVE  ~NoHold(a, u)
<1> DEFINE e == Entry(Cached, a)
<1>1. Cached \in PolicyIds /\ c \in Nat
  BY CachedType, LedgerAssumption DEF LedgerAssumption
<1>2. CASE a \notin Targets(Cached, r)
  BY <1>2 DEF Admit, NoHold
<1>3. CASE a \in Targets(Cached, r)
  <2>1. e \in Book /\ book'[a] = Hold(e, t, c)
    BY <1>1, <1>3, EntryType DEF Admit
  <2>2. e.res[u] = book[a].res[u] \/ e.res[u] = Free
    BY DEF Entry, EmptyBook
  <2> HIDE DEF e
  <2>3. e.res \in [Tasks -> Nat \cup {Free}]
    BY <2>1 DEF Book
  <2>4. book'[a].res = [e.res EXCEPT ![t] = c]
    BY <1>1, <2>1, HoldType
  <2>5. book'[a].res[u] = e.res[u]
    BY <2>3, <2>4
  <2> QED  BY <2>2, <2>5 DEF NoHold
<1> QED  BY <1>2, <1>3

LEMMA ReleaseHolds ==
    ASSUME LedgerTypeOK, NEW t \in Tasks, Release(t), NEW a \in Accounts, NEW u \in Tasks
    PROVE  NoHold(a, u)' <=> u = t \/ NoHold(a, u)
<1>1. book[a] \in Book /\ book[a].res \in [Tasks -> Nat \cup {Free}]
  BY DEF LedgerTypeOK, Book
<1>2. CASE NoHold(a, t)
  BY <1>2 DEF Release, NoHold
<1>3. CASE ~NoHold(a, t)
  <2>1. book'[a].res = [book[a].res EXCEPT ![t] = Free]
    BY <1>1, <1>3, UnholdType DEF Release, NoHold
  <2> QED  BY <1>1, <2>1 DEF NoHold
<1> QED  BY <1>2, <1>3

LEMMA FinalizeHolds ==
    ASSUME LedgerTypeOK, NEW t \in Tasks, NEW s \in Spends \cup {Unknown}, Finalize(t, s),
           NEW a \in Accounts, NEW u \in Tasks
    PROVE  NoHold(a, u)' <=> u = t \/ NoHold(a, u)
<1>1. book[a] \in Book /\ book[a].res \in [Tasks -> Nat \cup {Free}]
  BY DEF LedgerTypeOK, Book
<1>2. CASE NoHold(a, t)
  BY <1>2 DEF Finalize, NoHold
<1>3. CASE ~NoHold(a, t)
  <2>1. book'[a] = Settled(a, t, s)
    BY <1>3 DEF Finalize, NoHold
  <2>2. book'[a].res = [book[a].res EXCEPT ![t] = Free]
    BY <1>1, <1>3, <2>1, SettledType, UnholdType DEF NoHold
  <2> QED  BY <1>1, <2>2 DEF NoHold
<1> QED  BY <1>2, <1>3

---------------------------------------------------------------------------
(* The ownership of reservations.                                           *)

Owning == Holding \cup {"lost"}

\* Every step that ends the ownership of e ends the reservations of its task.
OwnersKept ==
    \A e \in Executions : pc[e] \in Owning =>
        pc'[e] \in Owning \/ \A a \in Accounts : NoHold(a, TaskOf[e])'

\* ... and a new reservation belongs to an execution that was just admitted.
NewOwned ==
    \A a \in Accounts, t \in Tasks : NoHold(a, t) /\ ~NoHold(a, t)' =>
        \E e \in Executions : TaskOf[e] = t /\ pc'[e] \in Owning

LEMMA OwnedByOwners ==
    ASSUME ReservationsAreOwned, OwnersKept, NewOwned
    PROVE  ReservationsAreOwned'
<1> SUFFICES ASSUME NEW a \in Accounts, NEW t \in Tasks, ~NoHold(a, t)'
             PROVE  \E e \in Executions : TaskOf[e] = t /\ pc'[e] \in Owning
  BY DEF ReservationsAreOwned, NoHold, Owning
<1>1. CASE NoHold(a, t)
  BY <1>1 DEF NewOwned
<1>2. CASE ~NoHold(a, t)
  <2>1. PICK e \in Executions : TaskOf[e] = t /\ pc[e] \in Owning
    BY <1>2 DEF ReservationsAreOwned, NoHold, Owning
  <2> QED  BY <2>1 DEF OwnersKept
<1> QED  BY <1>1, <1>2

LEMMA OwnedQuiet ==
    ASSUME TypeInv, NEW e \in Executions, Quiet(e)
    PROVE  OwnersKept /\ NewOwned
<1>1. book' = book
  BY QuietMoves DEF ledgerVars
<1>2. PICK m \in Moves : pc[e] = m[1] /\ Goto(e, m[2])
  BY QuietMoves
<1>3. m[2] \in States /\ (m[1] \in Owning => m[2] \in Owning)
  BY StateNames DEF Moves, Owning, Holding
<1>4. pc'[e] = m[2] /\ \A d \in Executions \ {e} : pc'[d] = pc[d]
  BY <1>2, <1>3, GotoType DEF TypeInv
<1> QED  BY <1>1, <1>2, <1>3, <1>4 DEF OwnersKept, NewOwned, NoHold

LEMMA OwnedAdmitted ==
    ASSUME TypeInv, NEW e \in Executions, NEW k \in Kinds, NEW c \in Costs, Admitted(e, k, c)
    PROVE  OwnersKept /\ NewOwned
<1>1. pc'[e] = "reserved" /\ pc[e] = "selected"
      /\ \A d \in Executions \ {e} : pc'[d] = pc[d]
  BY GotoType, StateNames DEF Admitted, TypeInv
<1>2. OwnersKept
  BY <1>1 DEF OwnersKept, Owning, Holding
<1>3. ASSUME NEW a \in Accounts, NEW t \in Tasks, NoHold(a, t), ~NoHold(a, t)'
      PROVE  TaskOf[e] = t
  <2>1. <<k, plan[e]>> \in Requests /\ TaskOf[e] \in Tasks
    BY RequestType, TaskType DEF Admitted, TypeInv
  <2> QED  BY <1>3, <2>1, AdmitHolds, TypeParts DEF Admitted, TypeInv
<1> QED  BY <1>1, <1>2, <1>3 DEF NewOwned, Owning, Holding

LEMMA OwnedDenied ==
    ASSUME TypeInv, NEW e \in Executions, NEW k \in Kinds, NEW c \in Costs, Denied(e, k, c)
    PROVE  OwnersKept /\ NewOwned
<1>1. pc'[e] = "refused" /\ pc[e] = "selected"
      /\ \A d \in Executions \ {e} : pc'[d] = pc[d]
  BY GotoType, StateNames DEF Denied, TypeInv
<1>2. book' = book
  BY DEF Denied, Deny
<1> QED  BY <1>1, <1>2 DEF OwnersKept, NewOwned, NoHold, Owning, Holding

LEMMA OwnedFail ==
    ASSUME TypeInv, NEW e \in Executions, Fail(e)
    PROVE  OwnersKept /\ NewOwned
<1>1. \A d \in Executions \ {e} : pc'[d] = pc[d]
  BY GotoType, StateNames DEF Fail, TypeInv
<1>2. ASSUME NEW a \in Accounts, NEW t \in Tasks
      PROVE  NoHold(a, t)' <=> t = TaskOf[e] \/ NoHold(a, t)
  BY TaskType, ReleaseHolds, TypeParts DEF Fail, TypeInv
<1> QED  BY <1>1, <1>2, TaskType DEF OwnersKept, NewOwned

LEMMA OwnedSettle ==
    ASSUME TypeInv, NEW e \in Executions, Settle(e)
    PROVE  OwnersKept /\ NewOwned
<1>1. \A d \in Executions \ {e} : pc'[d] = pc[d]
  BY GotoType, StateNames DEF Settle, TypeInv
<1>2. spend[e] \in Spends \cup {Unknown}
  BY DEF TypeInv, TypeOK
<1>3. ASSUME NEW a \in Accounts, NEW t \in Tasks
      PROVE  NoHold(a, t)' <=> t = TaskOf[e] \/ NoHold(a, t)
  BY <1>2, TaskType, FinalizeHolds, TypeParts DEF Settle, TypeInv
<1> QED  BY <1>1, <1>3, TaskType DEF OwnersKept, NewOwned

LEMMA OwnedRestart == ASSUME Restart PROVE OwnersKept /\ NewOwned
<1>1. book' = book
  BY DEF Restart
<1>2. \A s \in Owning : CutTo(s) \in Owning
  BY DEF CutTo, Owning, Holding, Reserving
<1> QED  BY <1>1, <1>2, RestartMoves DEF OwnersKept, NewOwned, NoHold

LEMMA OwnedStill == ASSUME UNCHANGED <<book, pc>> PROVE OwnersKept /\ NewOwned
BY DEF OwnersKept, NewOwned, NoHold

LEMMA OwnedNext == ASSUME TypeInv, [Next]_vars PROVE OwnersKept /\ NewOwned
<1>1. CASE World
  BY <1>1, OwnedStill, EnvironmentKeepsBooks DEF World, execVars
<1>2. CASE UNCHANGED vars
  BY <1>2, OwnedStill DEF vars, ledgerVars, execVars
<1>3. CASE Next
  BY <1>1, <1>3, StepCases, OwnedQuiet, OwnedAdmitted, OwnedDenied, OwnedFail,
     OwnedSettle, OwnedRestart
<1> QED  BY <1>2, <1>3

\* No path of execute() leaves a reservation without an owner, whatever the task
\* ids the clients choose and however executions interleave.
THEOREM ReservationsOwned == Spec => []ReservationsAreOwned
<1>1. Init => ReservationsAreOwned
  BY DEF Init, LedgerInit, ReservationsAreOwned, EmptyBook
<1>2. TypeInv /\ ReservationsAreOwned /\ [Next]_vars => ReservationsAreOwned'
  BY OwnedNext, OwnedByOwners
<1> QED  BY <1>1, <1>2, TypeInvariant, PTL DEF Spec

---------------------------------------------------------------------------
(* What the books hold.                                                     *)

LEMMA SolventNext ==
    ASSUME TypeInv, Conservation, WithinCeiling, [Next]_vars
    PROVE  Conservation' /\ WithinCeiling'
<1>1. LedgerTypeOK
  BY DEF TypeInv, TypeOK
<1>2. ASSUME UNCHANGED <<book, history>> PROVE Conservation' /\ WithinCeiling'
  BY <1>2 DEF Conservation, WithinCeiling, history
<1>3. ASSUME NEW e \in Executions, Quiet(e) PROVE Conservation' /\ WithinCeiling'
  BY <1>2, <1>3, QuietMoves DEF ledgerVars
<1>4. ASSUME NEW e \in Executions, NEW k \in Kinds, NEW c \in Costs, Admitted(e, k, c)
      PROVE  Conservation' /\ WithinCeiling'
  <2>1. <<k, plan[e]>> \in Requests /\ TaskOf[e] \in Tasks
    BY <1>4, RequestType, TaskType DEF Admitted, TypeInv
  <2> QED  BY <1>1, <1>4, <2>1, AdmitTotals, AdmitWithin DEF Admitted
<1>5. ASSUME NEW e \in Executions, NEW k \in Kinds, NEW c \in Costs, Denied(e, k, c)
      PROVE  Conservation' /\ WithinCeiling'
  BY <1>2, <1>5 DEF Denied, Deny
<1>6. ASSUME NEW e \in Executions, Fail(e) PROVE Conservation' /\ WithinCeiling'
  BY <1>1, <1>6, TaskType, ReleaseTotals, ReleaseWithin DEF Fail
<1>7. ASSUME NEW e \in Executions, Settle(e) PROVE Conservation' /\ WithinCeiling'
  <2>1. spend[e] \in Spends \cup {Unknown}
    BY DEF TypeInv, TypeOK
  <2> QED  BY <1>1, <1>7, <2>1, TaskType, FinalizeTotals, FinalizeWithin DEF Settle
<1>8. CASE Restart
  BY <1>2, <1>8 DEF Restart
<1>9. CASE World
  BY <1>2, <1>9, EnvironmentKeepsBooks DEF World
<1>10. CASE UNCHANGED vars
  BY <1>2, <1>10 DEF vars, ledgerVars
<1>11. CASE Next
  BY <1>3, <1>4, <1>5, <1>6, <1>7, <1>8, <1>9, <1>11, StepCases
<1> QED  BY <1>10, <1>11

LEMMA SolventTasks == Spec => [](Conservation /\ WithinCeiling)
<1>1. Init => Conservation /\ WithinCeiling
  BY SolventInitially DEF Init, Solvent
<1>2. TypeInv /\ Conservation /\ WithinCeiling /\ [Next]_vars
         => Conservation' /\ WithinCeiling'
  BY SolventNext
<1> QED  BY <1>1, <1>2, TypeInvariant, PTL DEF Spec

\* Through every order of admissions, failures and settlements, and through restarts
\* of the process, the reserved total of a book is the sum of the reservations in it.
THEOREM TasksConserve == Spec => []Conservation
BY SolventTasks, PTL

\* The tasks a node runs, its restarts included, never use a book beyond what it
\* admitted and what they cost more than they reserved.
THEOREM TaskWithinCeiling == Spec => []WithinCeiling
BY SolventTasks, PTL

---------------------------------------------------------------------------
(* The refinement of Settlement.                                            *)

OwnIds == \A d, e \in Executions : TaskOf[d] = TaskOf[e] => d = e

PromiseVars == <<phases, holders, amounts>>

LEMMA PhaseChange ==
    ASSUME TypeInv, NEW e \in Executions, NEW to \in States, Goto(e, to)
    PROVE  phases' = [phases EXCEPT ![e] = Phase(to)]
BY GotoType DEF TypeInv, phases

LEMMA PromiseStill ==
    ASSUME phases' = phases, book' = book
    PROVE  UNCHANGED PromiseVars
BY DEF PromiseVars, holders, amounts

\* A quiet step is none of Settlement's, but for a result that raises, which cuts
\* its work off.
LEMMA QuietPromise ==
    ASSUME TypeInv, NEW e \in Executions, Quiet(e)
    PROVE  Promise!Die \/ UNCHANGED PromiseVars
<1>1. book' = book
  BY QuietMoves DEF ledgerVars
<1>2. PICK m \in Moves : pc[e] = m[1] /\ Goto(e, m[2])
  BY QuietMoves
<1>3. phases' = [phases EXCEPT ![e] = Phase(m[2])] /\ phases[e] = Phase(m[1])
  BY <1>2, StateNames, PhaseChange DEF Moves, phases
<1>4. CASE m = <<"answered", "lost">>
  <2>1. Phase(m[1]) = "held" /\ Phase(m[2]) = "lost"
    BY <1>4 DEF Phase, Holding
  <2>2. phases' = [w \in Executions |-> IF w \in {e} /\ phases[w] = "held" THEN "lost"
                                        ELSE phases[w]]
    BY <1>3, <2>1 DEF phases
  <2>3. Promise!Die
    BY <1>1, <2>2 DEF Promise!Die, holders, amounts
  <2> QED  BY <2>3
<1>5. CASE m # <<"answered", "lost">>
  <2>1. Phase(m[1]) = Phase(m[2])
    BY <1>5 DEF Moves, Phase, Holding
  <2>2. phases' = phases
    BY <1>3, <2>1 DEF phases
  <2>3. UNCHANGED PromiseVars
    BY <1>1, <2>2, PromiseStill
  <2> QED  BY <2>3
<1> QED  BY <1>4, <1>5

LEMMA AdmittedPromise ==
    ASSUME OwnIds, TypeInv, NEW e \in Executions, NEW k \in Kinds, NEW c \in Costs,
           Admitted(e, k, c)
    PROVE  Promise!Hold(e)
<1> DEFINE t == TaskOf[e]
           r == <<k, plan[e]>>
           on == Targets(Cached, r)
           afresh == {a \in on : book[a].window # Window(Cached, a)}
<1>1. /\ r \in Requests /\ t \in Tasks /\ Cached \in PolicyIds /\ c \in Nat
      /\ LedgerTypeOK /\ Admit(t, r, c)
  BY RequestType, TaskType, CachedType, TypeParts, LedgerAssumption
     DEF Admitted, TypeInv, LedgerAssumption
<1>2. on \in SUBSET Accounts /\ afresh \in SUBSET on
  BY <1>1, TargetsType
<1>3. phases[e] = "new" /\ phases' = [phases EXCEPT ![e] = "held"]
  <2>1. Phase("selected") = "new" /\ Phase("reserved") = "held"
    BY DEF Phase, Holding
  <2> QED  BY <2>1, PhaseChange, StateNames DEF Admitted, phases
<1>4. ASSUME NEW a \in Accounts
      PROVE  /\ holders'[a] = IF a \in afresh THEN {e}
                              ELSE IF a \in on THEN holders[a] \cup {e} ELSE holders[a]
             /\ amounts'[a] = IF a \in afresh THEN 0 ELSE amounts[a]
  <2>1. CASE a \notin on
    <3>1. book'[a] = book[a]
      BY <1>1, <2>1 DEF Admit
    <3> QED  BY <1>2, <2>1, <3>1 DEF holders, amounts
  <2>2. CASE a \in on
    <3> DEFINE entry == Entry(Cached, a)
    <3>1. entry \in Book /\ book'[a] = Hold(entry, t, c)
      BY <1>1, <2>2, EntryType DEF Admit
    <3>2. CASE a \in afresh
      <4>1. entry.used = 0 /\ entry.res = [u \in Tasks |-> Free]
        BY <3>2 DEF Entry, EmptyBook
      <4> HIDE DEF entry
      <4>2. book'[a].used = 0 /\ book'[a].res = [[u \in Tasks |-> Free] EXCEPT ![t] = c]
        BY <1>1, <3>1, <4>1, HoldType
      <4>3. \A d \in Executions : book'[a].res[TaskOf[d]] # Free <=> d = e
        BY <1>1, <4>2, TaskType DEF OwnIds, Free
      <4> QED  BY <3>2, <4>2, <4>3 DEF holders, amounts
    <3>3. CASE a \notin afresh
      <4>1. entry = book[a]
        BY <2>2, <3>3 DEF Entry
      <4> HIDE DEF entry
      <4>2. book'[a].used = book[a].used /\ book'[a].res = [book[a].res EXCEPT ![t] = c]
        BY <1>1, <3>1, <4>1, HoldType
      <4>3. book[a].res \in [Tasks -> Nat \cup {Free}]
        BY <3>1, <4>1 DEF Book
      <4>4. \A d \in Executions : book'[a].res[TaskOf[d]] # Free
                                  <=> d = e \/ book[a].res[TaskOf[d]] # Free
        BY <1>1, <4>2, <4>3, TaskType DEF OwnIds, Free
      <4> QED  BY <2>2, <3>3, <4>2, <4>4 DEF holders, amounts
    <3> QED  BY <3>2, <3>3
  <2> QED  BY <2>1, <2>2
<1> HIDE DEF on, afresh
<1>5. /\ holders' = [a \in Accounts |->
            IF a \in afresh THEN {e}
            ELSE IF a \in on THEN holders[a] \cup {e} ELSE holders[a]]
      /\ amounts' = [a \in Accounts |-> IF a \in afresh THEN 0 ELSE amounts[a]]
  BY <1>4 DEF holders, amounts
<1> QED  BY <1>2, <1>3, <1>5 DEF Promise!Hold

\* What the end of a task does to the holders.
LEMMA HoldsEnded ==
    ASSUME OwnIds, NEW e \in Executions,
           \A a \in Accounts, u \in Tasks : NoHold(a, u)' <=> u = TaskOf[e] \/ NoHold(a, u)
    PROVE  Promise!EndHolds(e)
<1>1. ASSUME NEW a \in Accounts, NEW d \in Executions
      PROVE  book'[a].res[TaskOf[d]] # Free <=> d # e /\ book[a].res[TaskOf[d]] # Free
  BY TaskType DEF OwnIds, NoHold
<1> QED  BY <1>1 DEF Promise!EndHolds, holders

LEMMA FailPromise ==
    ASSUME OwnIds, TypeInv, NEW e \in Executions, Fail(e)
    PROVE  Promise!Drop(e)
<1>1. TaskOf[e] \in Tasks /\ LedgerTypeOK /\ Release(TaskOf[e])
  BY TaskType, TypeParts DEF Fail, TypeInv
<1>2. Promise!EndHolds(e)
  BY <1>1, ReleaseHolds, HoldsEnded
<1>3. phases[e] = "held" /\ phases' = [phases EXCEPT ![e] = "dropped"]
  <2>1. Phase("executing") = "held" /\ Phase("failed") = "dropped"
    BY DEF Phase, Holding
  <2> QED  BY <2>1, PhaseChange, StateNames DEF Fail, phases
<1>4. amounts' = amounts
  <2>1. \A a \in Accounts : book'[a].used = book[a].used
    BY <1>1, UnholdType DEF Release, LedgerTypeOK
  <2> QED  BY <2>1 DEF amounts
<1> QED  BY <1>2, <1>3, <1>4 DEF Promise!Drop

LEMMA SettlePromise ==
    ASSUME OwnIds, TypeInv, NEW e \in Executions, Settle(e)
    PROVE  Promise!Settle(e)
<1> DEFINE t == TaskOf[e]
           s == spend[e]
<1>1. /\ t \in Tasks /\ s \in Spends \cup {Unknown}
      /\ LedgerTypeOK /\ LedgerTypeOK' /\ Finalize(t, s)
  BY TaskType, SettleType, TypeParts DEF Settle, TypeInv, TypeOK
<1>2. Promise!EndHolds(e)
  BY <1>1, FinalizeHolds, HoldsEnded
<1>3. phases[e] = "held" /\ phases' = [phases EXCEPT ![e] = "settled"]
  <2>1. Phase("answered") = "held" /\ Phase("settled") = "settled"
    BY DEF Phase, Holding
  <2> QED  BY <2>1, PhaseChange, StateNames DEF Settle, phases
<1>4. amounts' \in [Accounts -> Nat]
  BY <1>1 DEF amounts, LedgerTypeOK, Book
<1>5. ASSUME NEW a \in Accounts
      PROVE  IF e \in holders[a] THEN amounts'[a] >= amounts[a]
             ELSE amounts'[a] = amounts[a]
  <2>1. e \in holders[a] <=> book[a].res[t] # Free
    BY DEF holders
  <2>2. amounts[a] = book[a].used /\ amounts'[a] = book'[a].used
    BY DEF amounts
  <2>3. CASE book[a].res[t] = Free
    BY <1>1, <2>1, <2>2, <2>3 DEF Finalize
  <2>4. CASE book[a].res[t] # Free
    <3>1. book[a] \in Book /\ book'[a] = Settled(a, t, s)
      BY <1>1, <2>4 DEF Finalize, LedgerTypeOK
    <3>2. book'[a].used = book[a].used + Charge(a, book[a].res[t], s)
      BY <1>1, <2>4, <3>1, SettledType
    <3>3. book[a].used \in Nat /\ book[a].res[t] \in Nat
      BY <1>1, <2>4, <3>1 DEF Book
    <3>4. Charge(a, book[a].res[t], s) \in Nat
      BY <1>1, <3>3, ChargeType
    <3>5. book'[a].used >= book[a].used
      BY <3>2, <3>3, <3>4
    <3> QED  BY <2>1, <2>2, <2>4, <3>5
  <2> QED  BY <2>3, <2>4
<1> QED  BY <1>2, <1>3, <1>4, <1>5 DEF Promise!Settle

LEMMA RestartPromise == ASSUME Restart PROVE Promise!Die
<1>1. \A x : Phase(CutTo(x)) = IF Phase(x) = "held" THEN "lost" ELSE Phase(x)
  BY DEF Phase, CutTo, Holding, Reserving
<1>2. phases' = [e \in Executions |-> IF e \in Executions /\ phases[e] = "held" THEN "lost"
                                      ELSE phases[e]]
  BY <1>1, RestartMoves DEF phases
<1>3. book' = book
  BY DEF Restart
<1> QED  BY <1>2, <1>3 DEF Promise!Die, holders, amounts

LEMMA DeniedPromise ==
    ASSUME TypeInv, NEW e \in Executions, NEW k \in Kinds, NEW c \in Costs, Denied(e, k, c)
    PROVE  UNCHANGED PromiseVars
<1>1. Phase("selected") = "new" /\ Phase("refused") = "new"
  BY DEF Phase, Holding
<1>2. phases' = phases
  BY <1>1, PhaseChange, StateNames DEF Denied, phases
<1> QED  BY <1>2, PromiseStill DEF Denied, Deny

LEMMA StillPromise == ASSUME UNCHANGED <<pc, book>> PROVE UNCHANGED PromiseVars
BY PromiseStill DEF phases

LEMMA PromiseNext ==
    ASSUME OwnIds, TypeInv, [Next]_vars
    PROVE  [Promise!Next]_PromiseVars
<1>1. ASSUME NEW e \in Executions, Quiet(e) PROVE [Promise!Next]_PromiseVars
  BY <1>1, QuietPromise DEF Promise!Next
<1>2. ASSUME NEW e \in Executions, NEW k \in Kinds, NEW c \in Costs,
             Admitted(e, k, c) \/ Denied(e, k, c)
      PROVE  [Promise!Next]_PromiseVars
  BY <1>2, AdmittedPromise, DeniedPromise DEF Promise!Next
<1>3. ASSUME NEW e \in Executions, Fail(e) \/ Settle(e) PROVE Promise!Next
  BY <1>3, FailPromise, SettlePromise DEF Promise!Next
<1>4. CASE Restart
  BY <1>4, RestartPromise DEF Promise!Next
<1>5. CASE World
  BY <1>5, StillPromise, EnvironmentKeepsBooks DEF World, execVars
<1>6. CASE UNCHANGED vars
  BY <1>6, StillPromise DEF vars, ledgerVars, execVars
<1>7. CASE Next
  BY <1>1, <1>2, <1>3, <1>4, <1>5, <1>7, StepCases
<1> QED  BY <1>6, <1>7

LEMMA PromiseInit == ASSUME Init PROVE Promise!Init
<1>1. Phase("idle") = "new"
  BY DEF Phase, Holding
<1> QED  BY <1>1, TaskType DEF Init, LedgerInit, EmptyBook, Promise!Init, phases, holders,
         amounts

\* With a task id of its own for every execution, execute() and the budget
\* manager implement Settlement: a hold is settled or dropped once, what it is
\* charged goes to books it held, and nothing else moves a book's usage.
THEOREM SettlementRefinement == ASSUME OwnIds PROVE Spec => KeepsSettlement
<1>1. TypeInv /\ [Next]_vars => [Promise!Next]_PromiseVars
  BY PromiseNext
<1> QED  BY <1>1, PromiseInit, TypeInvariant, PTL
         DEF Spec, KeepsSettlement, Promise!Spec, PromiseVars

---------------------------------------------------------------------------
(* The money of an admitted execution, and what the books show at the end.  *)

\* The policies differ in limits and services, and leave the periods of the grants.
WindowsFixed ==
    \A i, j \in 1..NumPolicies, g \in Grants :
        /\ Issued[i].grants[g].from = Issued[j].grants[g].from
        /\ Issued[i].grants[g].to = Issued[j].grants[g].to

WindowOf(a) == IF a \in Grants THEN Window(1, a) ELSE Window(0, a)

LEMMA FixedWindow ==
    ASSUME WindowsFixed, LedgerTypeOK, NEW i \in PolicyIds, NEW r \in Requests,
           NEW a \in Targets(i, r)
    PROVE  Window(i, a) = WindowOf(a)
<1>1. CASE a \in Grants
  <2>1. i \in 1..NumPolicies /\ 1 \in 1..NumPolicies
    BY <1>1, TargetsType, LedgerAssumption DEF PolicyIds, LedgerAssumption
  <2> QED  BY <1>1, <2>1 DEF WindowsFixed, Window, WindowOf
<1>2. CASE a \notin Grants
  BY <1>2 DEF Window, WindowOf
<1> QED  BY <1>1, <1>2

\* A book is of its one period, or as it was at the beginning.
BooksDated ==
    \A a \in Accounts :
        \/ book[a].window = WindowOf(a)
        \/ book[a].used = 0 /\ \A t \in Tasks : NoHold(a, t)

\* An admission adds its reservation and changes nothing else.
LEMMA AdmitExactly ==
    ASSUME WindowsFixed, LedgerTypeOK, BooksDated, NEW t \in Tasks, NEW r \in Requests,
           NEW c \in Costs, Admit(t, r, c), NEW a \in Accounts
    PROVE  /\ book'[a].used = book[a].used
           /\ \A u \in Tasks : book'[a].res[u] =
                 IF u = t /\ a \in Targets(Cached, r) THEN c ELSE book[a].res[u]
           /\ a \in Targets(Cached, r) => book'[a].window = WindowOf(a)
<1> DEFINE e == Entry(Cached, a)
<1>1. Cached \in PolicyIds /\ c \in Nat
  BY CachedType, LedgerAssumption DEF LedgerAssumption
<1>2. CASE a \notin Targets(Cached, r)
  BY <1>2 DEF Admit
<1>3. CASE a \in Targets(Cached, r)
  <2>1. e \in Book /\ book'[a] = Hold(e, t, c)
    BY <1>1, <1>3, EntryType DEF Admit
  <2>2. e.window = WindowOf(a)
    BY <1>1, <1>3, EntryType, FixedWindow
  <2>3. e.used = book[a].used /\ \A u \in Tasks : e.res[u] = book[a].res[u]
    <3>1. CASE book[a].window = WindowOf(a)
      BY <1>1, <1>3, <3>1, FixedWindow DEF Entry
    <3>2. CASE book[a].window # WindowOf(a)
      <4>1. e.used = 0 /\ e.res = [u \in Tasks |-> Free]
        BY <1>1, <1>3, <3>2, FixedWindow DEF Entry, EmptyBook
      <4>2. book[a].used = 0 /\ \A u \in Tasks : book[a].res[u] = Free
        BY <3>2 DEF BooksDated, NoHold
      <4> QED  BY <4>1, <4>2
    <3> QED  BY <3>1, <3>2
  <2> HIDE DEF e
  <2>4. e.res \in [Tasks -> Nat \cup {Free}]
    BY <2>1 DEF Book
  <2>5. /\ book'[a].used = e.used /\ book'[a].window = e.window
        /\ book'[a].res = [e.res EXCEPT ![t] = c]
    BY <1>1, <2>1, HoldType
  <2> QED  BY <1>3, <2>2, <2>3, <2>4, <2>5
<1> QED  BY <1>2, <1>3

\* The reservations of an execution are in the books that admitted it: all of them
\* while it holds them, and nowhere else.
HoldsWhatItHas ==
    \A e \in Executions :
        /\ pc[e] \in Holding => \A a \in Held(e) : ~NoHold(a, TaskOf[e])
        /\ \A a \in Accounts : ~NoHold(a, TaskOf[e]) => a \in Held(e)

Funded == BooksDated /\ HoldsWhatItHas

LEMMA FundedInitially == ASSUME Init PROVE Funded
BY TaskType DEF Init, LedgerInit, Funded, BooksDated, HoldsWhatItHas, NoHold, EmptyBook, Holding

\* Steps that end no work and leave the books as they are.
LEMMA FundedStill ==
    ASSUME Funded, UNCHANGED <<book, reserved>>,
           \A e \in Executions : pc'[e] \in Holding => pc[e] \in Holding
    PROVE  Funded'
BY DEF Funded, BooksDated, HoldsWhatItHas, NoHold, Held

LEMMA FundedAdmitted ==
    ASSUME OwnIds, WindowsFixed, TypeInv, ReservationsAreOwned, Funded,
           NEW e \in Executions, NEW k \in Kinds, NEW c \in Costs, Admitted(e, k, c)
    PROVE  Funded'
<1> DEFINE t == TaskOf[e]
           T == Targets(Cached, <<k, plan[e]>>)
<1>1. /\ <<k, plan[e]>> \in Requests /\ t \in Tasks /\ c \in Nat /\ Cached \in PolicyIds
      /\ LedgerTypeOK /\ Admit(t, <<k, plan[e]>>, c) /\ pc[e] = "selected"
  BY RequestType, TaskType, CachedType, TypeParts, LedgerAssumption
     DEF Admitted, TypeInv, LedgerAssumption
<1>2. ASSUME NEW a \in Accounts
      PROVE  /\ book'[a].used = book[a].used
             /\ \A u \in Tasks : book'[a].res[u] =
                   IF u = t /\ a \in T THEN c ELSE book[a].res[u]
             /\ a \in T => book'[a].window = WindowOf(a)
             /\ a \notin T => book'[a] = book[a]
  <2>1. a \notin T => book'[a] = book[a]
    BY <1>1 DEF Admit
  <2> QED  BY <1>1, <2>1, AdmitExactly DEF Funded
<1>3. \A a \in Accounts : NoHold(a, t)
  BY <1>1 DEF OwnIds, ReservationsAreOwned, NoHold, Holding
<1>4. /\ \A d \in Executions \ {e} : pc'[d] = pc[d] /\ Held(d)' = Held(d)
      /\ Held(e)' = T
  <2>1. \A d \in Executions \ {e} : pc'[d] = pc[d]
    BY GotoType, StateNames DEF Admitted, TypeInv
  <2>2. reserved' = [reserved EXCEPT ![e] = {<<a, Window(Cached, a)>> : a \in T}]
    BY DEF Admitted
  <2>3. reserved'[e] = {<<a, Window(Cached, a)>> : a \in T}
        /\ \A d \in Executions \ {e} : reserved'[d] = reserved[d]
    BY <2>2 DEF TypeInv, TypeOK
  <2> HIDE DEF T
  <2>4. \A x \in reserved'[e] : x[1] \in T
    BY <2>3
  <2>5. ASSUME NEW a \in T PROVE \E x \in reserved'[e] : x[1] = a
    <3>1. <<a, Window(Cached, a)>> \in reserved'[e]
      BY <2>3
    <3> QED  BY <3>1
  <2>6. Held(e)' = T
    BY <2>4, <2>5 DEF Held
  <2> QED  BY <2>1, <2>3, <2>6 DEF Held
<1>5. T \subseteq Accounts
  BY <1>1, TargetsType
<1>6. c # Free
  BY <1>1 DEF Free
<1>7. BooksDated'
  <2> SUFFICES ASSUME NEW a \in Accounts
               PROVE  \/ book'[a].window = WindowOf(a)
                      \/ book'[a].used = 0 /\ \A u \in Tasks : book'[a].res[u] = Free
    BY DEF BooksDated, NoHold, WindowOf, Window
  <2>1. CASE a \in T
    BY <1>2, <2>1
  <2>2. CASE a \notin T
    BY <1>2, <2>2 DEF Funded, BooksDated, NoHold
  <2> QED  BY <2>1, <2>2
<1>8. HoldsWhatItHas'
  <2> SUFFICES ASSUME NEW d \in Executions
               PROVE  /\ pc'[d] \in Holding => \A a \in Held(d)' : ~NoHold(a, TaskOf[d])'
                      /\ \A a \in Accounts : ~NoHold(a, TaskOf[d])' => a \in Held(d)'
    BY DEF HoldsWhatItHas
  <2> HIDE DEF T
  <2>1. CASE d = e
    BY <1>1, <1>2, <1>3, <1>4, <1>5, <1>6, <2>1 DEF NoHold
  <2>2. CASE d # e
    <3>1. TaskOf[d] # t /\ TaskOf[d] \in Tasks
      BY <2>2, TaskType DEF OwnIds
    <3>2. \A a \in Accounts : NoHold(a, TaskOf[d])' <=> NoHold(a, TaskOf[d])
      BY <1>2, <3>1 DEF NoHold
    <3>3. Held(d) \subseteq Accounts
      BY DEF TypeInv, TypeOK, Held
    <3>4. pc'[d] = pc[d] /\ Held(d)' = Held(d)
      BY <1>4, <2>2
    <3> QED  BY <3>2, <3>3, <3>4 DEF Funded, HoldsWhatItHas
  <2> QED  BY <2>1, <2>2
<1> QED  BY <1>7, <1>8 DEF Funded

\* The end of an execution takes its own reservations and those of no other.
LEMMA FundedEnded ==
    ASSUME OwnIds, TypeInv, Funded, NEW e \in Executions, pc'[e] \notin Holding,
           \A d \in Executions \ {e} : pc'[d] = pc[d],
           reserved' = reserved,
           \A a \in Accounts : book'[a].window = book[a].window,
           \A a \in Accounts : NoHold(a, TaskOf[e]) => book'[a] = book[a],
           \A a \in Accounts, t \in Tasks :
                NoHold(a, t)' <=> t = TaskOf[e] \/ NoHold(a, t)
    PROVE  Funded'
<1>1. BooksDated'
  BY TaskType DEF Funded, BooksDated, WindowOf, Window, NoHold
<1>2. HoldsWhatItHas'
  <2> SUFFICES ASSUME NEW d \in Executions
               PROVE  /\ pc'[d] \in Holding => \A a \in Held(d)' : ~NoHold(a, TaskOf[d])'
                      /\ \A a \in Accounts : ~NoHold(a, TaskOf[d])' => a \in Held(d)'
    BY DEF HoldsWhatItHas
  <2>1. Held(d)' = Held(d) /\ Held(d) \subseteq Accounts /\ TaskOf[d] \in Tasks
    BY TaskType DEF Held, TypeInv, TypeOK
  <2>2. CASE d = e
    BY <2>1, <2>2
  <2>3. CASE d # e
    <3>1. TaskOf[d] # TaskOf[e] /\ pc'[d] = pc[d]
      BY <2>3 DEF OwnIds
    <3> QED  BY <2>1, <3>1 DEF Funded, HoldsWhatItHas
  <2> QED  BY <2>2, <2>3
<1> QED  BY <1>1, <1>2 DEF Funded

LEMMA FundedFail ==
    ASSUME OwnIds, TypeInv, Funded, NEW e \in Executions, Fail(e)
    PROVE  Funded'
<1>1. LedgerTypeOK /\ Release(TaskOf[e]) /\ TaskOf[e] \in Tasks /\ reserved' = reserved
  BY TaskType, TypeParts DEF Fail, TypeInv
<1>2. pc'[e] = "failed" /\ \A d \in Executions \ {e} : pc'[d] = pc[d]
  BY GotoType, StateNames DEF Fail, TypeInv
<1>3. \A a \in Accounts : book[a] \in Book
  BY <1>1 DEF LedgerTypeOK
<1>4. \A a \in Accounts : book'[a].window = book[a].window
                          /\ (NoHold(a, TaskOf[e]) => book'[a] = book[a])
  BY <1>1, <1>3, UnholdType DEF Release, NoHold
<1>5. pc'[e] \notin Holding
  BY <1>2 DEF Holding
<1> QED  BY <1>1, <1>2, <1>4, <1>5, ReleaseHolds, FundedEnded

LEMMA FundedSettle ==
    ASSUME OwnIds, TypeInv, Funded, NEW e \in Executions, Settle(e)
    PROVE  Funded'
<1>1. /\ LedgerTypeOK /\ Finalize(TaskOf[e], spend[e]) /\ TaskOf[e] \in Tasks
      /\ reserved' = reserved /\ spend[e] \in Spends \cup {Unknown}
  BY TaskType, TypeParts DEF Settle, TypeInv, TypeOK
<1>2. pc'[e] = "settled" /\ \A d \in Executions \ {e} : pc'[d] = pc[d]
  BY GotoType, StateNames DEF Settle, TypeInv
<1>3. \A a \in Accounts : book[a] \in Book
  BY <1>1 DEF LedgerTypeOK
<1>4. \A a \in Accounts : book'[a].window = book[a].window
                          /\ (NoHold(a, TaskOf[e]) => book'[a] = book[a])
  BY <1>1, <1>3, SettledType DEF Finalize, NoHold
<1>5. pc'[e] \notin Holding
  BY <1>2 DEF Holding
<1> QED  BY <1>1, <1>2, <1>4, <1>5, FinalizeHolds, FundedEnded

LEMMA FundedNext ==
    ASSUME OwnIds, WindowsFixed, TypeInv, ReservationsAreOwned, Funded, [Next]_vars
    PROVE  Funded'
<1>1. ASSUME NEW e \in Executions, Quiet(e) PROVE Funded'
  <2>1. PICK m \in Moves : pc[e] = m[1] /\ Goto(e, m[2])
    BY <1>1, QuietMoves
  <2>2. m[2] \in States /\ (m[2] \in Holding => m[1] \in Holding)
    BY StateNames DEF Moves, Holding
  <2>3. pc'[e] = m[2] /\ \A d \in Executions \ {e} : pc'[d] = pc[d]
    BY <2>1, <2>2, GotoType DEF TypeInv
  <2> QED  BY <1>1, <2>1, <2>2, <2>3, QuietMoves, FundedStill DEF ledgerVars
<1>2. ASSUME NEW e \in Executions, NEW k \in Kinds, NEW c \in Costs, Denied(e, k, c)
      PROVE  Funded'
  <2>1. pc'[e] = "refused" /\ \A d \in Executions \ {e} : pc'[d] = pc[d]
    BY <1>2, GotoType, StateNames DEF Denied, TypeInv
  <2> QED  BY <1>2, <2>1, FundedStill DEF Denied, Deny, Holding
<1>3. CASE Restart
  <2>1. \A s : CutTo(s) \in Holding => s \in Holding
    BY DEF CutTo, Holding, Reserving
  <2> QED  BY <1>3, <2>1, RestartMoves, FundedStill DEF Restart
<1>4. CASE World
  BY <1>4, EnvironmentKeepsBooks, FundedStill DEF World, execVars
<1>5. CASE UNCHANGED vars
  BY <1>5, FundedStill DEF vars, ledgerVars, execVars
<1>6. CASE Next
  BY <1>1, <1>2, <1>3, <1>4, <1>6, StepCases, FundedAdmitted, FundedFail, FundedSettle
<1> QED  BY <1>5, <1>6

LEMMA FundedInvariant == ASSUME OwnIds, WindowsFixed PROVE Spec => []Funded
<1>1. Init => Funded
  BY FundedInitially
<1>2. TypeInv /\ ReservationsAreOwned /\ Funded /\ [Next]_vars => Funded'
  BY FundedNext
<1> QED  BY <1>1, <1>2, TypeInvariant, ReservationsOwned, PTL DEF Spec

\* While the periods of the grants stand and every execution has a task id of its own,
\* the money of an admitted execution stays in every book that admitted it until the
\* execution itself settles or fails: neither another task, nor a new policy with other
\* limits, nor the operator's budgets, nor the clock takes it away.
THEOREM WorkStaysFunded == ASSUME OwnIds, WindowsFixed PROVE Spec => []WorkIsFunded
<1>1. Funded => WorkIsFunded
  BY DEF Funded, HoldsWhatItHas, WorkIsFunded, NoHold
<1> QED  BY <1>1, FundedInvariant, PTL

\* All reservations are of one amount, so that an unknown cost is charged alike.
OneCost == \E c : Costs = {c}
cost == CHOOSE c \in Costs : TRUE

LEMMA TheCost == ASSUME OneCost PROVE Costs = {cost} /\ cost \in Nat
BY LedgerAssumption DEF OneCost, cost, LedgerAssumption

\* What the executions have cost a book.
Bill(a) == [e \in Executions |->
              IF Spent(e) /\ a \in Held(e) THEN Charge(a, cost, spend[e]) ELSE 0]

Billed ==
    /\ \A a \in Accounts, t \in Tasks : NoHold(a, t) \/ book[a].res[t] = cost
    /\ \A a \in Accounts : book[a].used = SumFunctionOnSet(Bill(a), Executions)

LEMMA BilledIsSpend == UsageIsSpend <=> \A a \in Accounts :
                            book[a].used = SumFunctionOnSet(Bill(a), Executions)
BY DEF UsageIsSpend, SumFunction, Bill, cost

LEMMA ExecutionsFinite == ASSUME OwnIds PROVE IsFiniteSet(Executions)
<1>1. TaskOf \in Injection(Executions, Tasks)
  BY ExecutionAssumption DEF ExecutionAssumption, OwnIds, Injection, IsInjective
<1> QED  BY <1>1, FS_Injection, LedgerAssumption DEF LedgerAssumption

LEMMA BillType ==
    ASSUME OneCost, TypeOK, NEW a \in Accounts
    PROVE  \A e \in Executions : Bill(a)[e] \in Nat
<1>1. \A e \in Executions : spend[e] \in Spends \cup {Unknown}
  BY DEF TypeOK
<1> QED  BY <1>1, TheCost, ChargeType DEF Bill

LEMMA BilledInitially == ASSUME OwnIds, Init PROVE Billed
<1>1. \A a \in Accounts, e \in Executions : Bill(a)[e] = 0
  BY DEF Init, Bill, Spent
<1>2. \A a \in Accounts : SumFunctionOnSet(Bill(a), Executions) = 0
  BY <1>1, ExecutionsFinite, SumZero
<1> QED  BY <1>2 DEF Init, LedgerInit, EmptyBook, Billed, NoHold

\* Steps that neither spend nor change what was spent.
LEMMA BillStill ==
    ASSUME NEW a \in Accounts,
           \A e \in Executions :
              /\ Spent(e)' <=> Spent(e)
              /\ Spent(e) => reserved'[e] = reserved[e] /\ spend'[e] = spend[e]
    PROVE  Bill(a)' = Bill(a)
<1>1. ASSUME NEW e \in Executions
      PROVE  (IF Spent(e)' /\ a \in Held(e)' THEN Charge(a, cost, spend'[e]) ELSE 0)
             = (IF Spent(e) /\ a \in Held(e) THEN Charge(a, cost, spend[e]) ELSE 0)
  <2>1. CASE Spent(e)
    BY <2>1 DEF Held
  <2>2. CASE ~Spent(e)
    BY <2>2
  <2> QED  BY <2>1, <2>2
<1>2. Bill(a)' = [e \in Executions |->
              IF Spent(e)' /\ a \in Held(e)' THEN Charge(a, cost, spend'[e]) ELSE 0]
  BY DEF Bill, cost, Charge, WholeCents
<1> QED  BY <1>1, <1>2 DEF Bill

LEMMA BilledStill ==
    ASSUME Billed, book' = book,
           \A e \in Executions :
              /\ Spent(e)' <=> Spent(e)
              /\ Spent(e) => reserved'[e] = reserved[e] /\ spend'[e] = spend[e]
    PROVE  Billed'
<1>1. \A a \in Accounts : Bill(a)' = Bill(a)
  BY BillStill
<1>2. \A a \in Accounts : (SumFunctionOnSet(Bill(a), Executions))'
                          = SumFunctionOnSet(Bill(a), Executions)
  BY <1>1
<1>3. \A a \in Accounts, t \in Tasks : NoHold(a, t)' \/ book'[a].res[t] = cost
  BY DEF Billed, NoHold
<1> QED  BY <1>2, <1>3 DEF Billed, cost

LEMMA BilledQuiet == ASSUME TypeInv, Billed, NEW e \in Executions, Quiet(e) PROVE Billed'
<1>1. PICK m \in Moves : pc[e] = m[1] /\ Goto(e, m[2])
  BY QuietMoves
<1>2. m[2] \in States /\ (m[2] \in {"settled", "completed", "unanswered"}
                          <=> m[1] \in {"settled", "completed", "unanswered"})
  BY StateNames DEF Moves
<1>3. pc'[e] = m[2] /\ \A d \in Executions \ {e} : pc'[d] = pc[d]
  BY <1>1, <1>2, GotoType DEF TypeInv
<1>4. book' = book /\ reserved' = reserved
  BY QuietMoves DEF ledgerVars
<1>5. \A d \in Executions : Spent(d)' <=> Spent(d)
  BY <1>1, <1>2, <1>3 DEF Spent
<1>6. \A d \in Executions : Spent(d) => spend'[d] = spend[d]
  BY DEF TypeInv, TypeOK, Spent, Quiet, Receive, Reject, Select, RejectSelected, Refuse,
     Dispatch, Answer, ResultRaises, Finish
<1> QED  BY <1>4, <1>5, <1>6, BilledStill

\* Steps that charge nothing.
LEMMA BilledUncharged ==
    ASSUME Billed, \A a \in Accounts : book'[a].used = book[a].used,
           \A a \in Accounts, t \in Tasks : NoHold(a, t)' \/ book'[a].res[t] = cost,
           \A e \in Executions :
              /\ Spent(e)' <=> Spent(e)
              /\ Spent(e) => reserved'[e] = reserved[e] /\ spend'[e] = spend[e]
    PROVE  Billed'
<1>1. \A a \in Accounts : Bill(a)' = Bill(a)
  BY BillStill
<1>2. \A a \in Accounts : (SumFunctionOnSet(Bill(a), Executions))'
                          = SumFunctionOnSet(Bill(a), Executions)
  BY <1>1
<1> QED  BY <1>2 DEF Billed, cost

LEMMA BilledAdmitted ==
    ASSUME OneCost, WindowsFixed, TypeInv, Funded, Billed,
           NEW e \in Executions, NEW k \in Kinds, NEW c \in Costs, Admitted(e, k, c)
    PROVE  Billed'
<1> DEFINE t == TaskOf[e]
           r == <<k, plan[e]>>
<1>1. /\ r \in Requests /\ t \in Tasks /\ c = cost
      /\ LedgerTypeOK /\ Admit(t, r, c) /\ pc[e] = "selected"
  BY RequestType, TaskType, TypeParts, TheCost DEF Admitted, TypeInv
<1>2. ASSUME NEW a \in Accounts
      PROVE  /\ book'[a].used = book[a].used
             /\ \A u \in Tasks : book'[a].res[u] =
                   IF u = t /\ a \in Targets(Cached, r) THEN c ELSE book[a].res[u]
  BY <1>1, AdmitExactly DEF Funded
<1>3. \A a \in Accounts, u \in Tasks : NoHold(a, u)' \/ book'[a].res[u] = cost
  <2> HIDE DEF r, t
  <2> QED  BY <1>1, <1>2 DEF Billed, NoHold
<1>4. pc'[e] = "reserved" /\ \A d \in Executions \ {e} : pc'[d] = pc[d]
  BY GotoType, StateNames DEF Admitted, TypeInv
<1>5. spend' = spend /\ \A d \in Executions \ {e} : reserved'[d] = reserved[d]
  BY DEF Admitted, TypeInv, TypeOK
<1>6. \A d \in Executions :
              /\ Spent(d)' <=> Spent(d)
              /\ Spent(d) => reserved'[d] = reserved[d] /\ spend'[d] = spend[d]
  BY <1>1, <1>4, <1>5 DEF Spent
<1> QED  BY <1>2, <1>3, <1>6, BilledUncharged

LEMMA BilledFail == ASSUME TypeInv, Billed, NEW e \in Executions, Fail(e) PROVE Billed'
<1>1. /\ LedgerTypeOK /\ Release(TaskOf[e]) /\ TaskOf[e] \in Tasks
      /\ reserved' = reserved /\ spend' = spend /\ pc[e] = "executing"
  BY TaskType, TypeParts DEF Fail, TypeInv
<1>2. pc'[e] = "failed" /\ \A d \in Executions \ {e} : pc'[d] = pc[d]
  BY GotoType, StateNames DEF Fail, TypeInv
<1>3. ASSUME NEW a \in Accounts
      PROVE  /\ book'[a].used = book[a].used
             /\ \A u \in Tasks : NoHold(a, u)' \/ book'[a].res[u] = book[a].res[u]
  <2>1. book[a] \in Book /\ book[a].res \in [Tasks -> Nat \cup {Free}]
    BY <1>1 DEF LedgerTypeOK, Book
  <2>2. CASE book[a].res[TaskOf[e]] = Free
    BY <1>1, <2>2 DEF Release
  <2>3. CASE book[a].res[TaskOf[e]] # Free
    <3>1. /\ book'[a].used = book[a].used
          /\ book'[a].res = [book[a].res EXCEPT ![TaskOf[e]] = Free]
      BY <1>1, <2>1, <2>3, UnholdType DEF Release
    <3> QED  BY <2>1, <3>1 DEF NoHold
  <2> QED  BY <2>2, <2>3
<1>4. \A a \in Accounts, u \in Tasks : NoHold(a, u)' \/ book'[a].res[u] = cost
  BY <1>3 DEF Billed, NoHold
<1>5. \A d \in Executions : Spent(d)' <=> Spent(d)
  BY <1>1, <1>2 DEF Spent
<1> QED  BY <1>1, <1>3, <1>4, <1>5, BilledUncharged

\* A settled execution adds what it cost to the books that admitted it.
LEMMA BilledSettle ==
    ASSUME OwnIds, OneCost, TypeInv, Funded, Billed, NEW e \in Executions, Settle(e)
    PROVE  Billed'
<1> DEFINE t == TaskOf[e]
           s == spend[e]
<1>1. /\ LedgerTypeOK /\ Finalize(t, s) /\ t \in Tasks /\ TypeOK /\ TypeOK'
      /\ reserved' = reserved /\ spend' = spend /\ s \in Spends \cup {Unknown}
      /\ pc[e] = "answered"
  BY TaskType, TypeParts, SettleType DEF Settle, TypeInv, TypeOK
<1>2. pc'[e] = "settled" /\ \A d \in Executions \ {e} : pc'[d] = pc[d]
  BY GotoType, StateNames DEF Settle, TypeInv
<1>3. ASSUME NEW a \in Accounts
      PROVE  /\ book[a].used \in Nat
             /\ book'[a].used = book[a].used + Bill(a)'[e]
             /\ \A u \in Tasks : NoHold(a, u)' \/ book'[a].res[u] = book[a].res[u]
  <2>1. /\ book[a] \in Book /\ book[a].res \in [Tasks -> Nat \cup {Free}]
        /\ book[a].used \in Nat
    BY <1>1 DEF LedgerTypeOK, Book
  <2>2. Bill(a)'[e] = IF a \in Held(e) THEN Charge(a, cost, s) ELSE 0
    BY <1>1, <1>2 DEF Bill, Spent, Held, cost, Charge, WholeCents
  <2>3. a \in Held(e) <=> ~NoHold(a, t)
    BY <1>1 DEF Funded, HoldsWhatItHas, Holding
  <2>4. CASE NoHold(a, t)
    <3>1. book'[a] = book[a]
      BY <1>1, <2>4 DEF Finalize, NoHold
    <3> QED  BY <2>1, <2>2, <2>3, <2>4, <3>1
  <2>5. CASE ~NoHold(a, t)
    <3>1. book[a].res[t] = cost
      BY <1>1, <2>5 DEF Billed
    <3>2. book'[a] = Settled(a, t, s)
      BY <1>1, <2>5 DEF Finalize, NoHold
    <3>3. /\ book'[a].used = book[a].used + Charge(a, cost, s)
          /\ book'[a].res = [book[a].res EXCEPT ![t] = Free]
      BY <1>1, <2>1, <2>5, <3>1, <3>2, SettledType, UnholdType DEF NoHold
    <3> QED  BY <2>1, <2>2, <2>3, <2>5, <3>3 DEF NoHold
  <2> QED  BY <2>4, <2>5
<1>4. ASSUME NEW a \in Accounts
      PROVE  SumFunctionOnSet(Bill(a), Executions)'
             = SumFunctionOnSet(Bill(a), Executions) + Bill(a)'[e]
  <2>1. \A d \in Executions : Bill(a)[d] \in Nat
    BY <1>1, BillType
  <2>2. \A d \in Executions : Bill(a)'[d] \in Nat
    <3>1. \A d \in Executions : spend'[d] \in Spends \cup {Unknown}
      BY <1>1 DEF TypeOK
    <3>2. \A d \in Executions :
             Bill(a)'[d] = IF Spent(d)' /\ a \in Held(d)'
                           THEN Charge(a, cost, spend'[d]) ELSE 0
      BY DEF Bill, cost, Charge, WholeCents
    <3> QED  BY <3>1, <3>2, TheCost, ChargeType
  <2>3. Bill(a)[e] = 0
    BY <1>1 DEF Bill, Spent
  <2>4. \A d \in Executions \ {e} : Bill(a)'[d] = Bill(a)[d]
    BY <1>1, <1>2 DEF Bill, Spent, Held, cost, Charge, WholeCents
  <2> DEFINE f == Bill(a)
             g == Bill(a)'
  <2>5. SumFunctionOnSet(Bill(a), Executions)' = SumFunctionOnSet(g, Executions)
    OBVIOUS
  <2> HIDE DEF f, g
  <2>6. SumFunctionOnSet(g, Executions) = SumFunctionOnSet(f, Executions) - f[e] + g[e]
    BY <2>1, <2>2, <2>4, ExecutionsFinite, SumChange DEF f, g
  <2>7. SumFunctionOnSet(f, Executions) \in Nat /\ g[e] \in Nat /\ f[e] = 0
    BY <2>1, <2>2, <2>3, ExecutionsFinite, SumType DEF f, g
  <2> QED  BY <2>5, <2>6, <2>7 DEF f, g
<1>5. \A a \in Accounts : book'[a].used = SumFunctionOnSet(Bill(a), Executions)'
  BY <1>3, <1>4 DEF Billed
<1>6. \A a \in Accounts, u \in Tasks : NoHold(a, u)' \/ book'[a].res[u] = cost
  BY <1>3 DEF Billed, NoHold
<1> QED  BY <1>5, <1>6 DEF Billed, cost

LEMMA BilledNext ==
    ASSUME OwnIds, WindowsFixed, OneCost, TypeInv, Funded, Billed, [Next]_vars
    PROVE  Billed'
<1>1. ASSUME NEW e \in Executions, NEW k \in Kinds, NEW c \in Costs, Denied(e, k, c)
      PROVE  Billed'
  <2>1. pc'[e] = "refused" /\ \A d \in Executions \ {e} : pc'[d] = pc[d]
    BY <1>1, GotoType, StateNames DEF Denied, TypeInv
  <2>2. \A d \in Executions : Spent(d)' <=> Spent(d)
    BY <1>1, <2>1 DEF Denied, Spent
  <2> QED  BY <1>1, <2>2, BilledStill DEF Denied, Deny
<1>2. CASE Restart
  <2>1. \A s : CutTo(s) \in {"settled", "completed", "unanswered"}
               <=> s \in {"settled", "completed", "unanswered"}
    BY DEF CutTo, Holding, Reserving
  <2>2. \A d \in Executions : Spent(d)' <=> Spent(d)
    BY <1>2, <2>1, RestartMoves DEF Spent
  <2> QED  BY <1>2, <2>2, BilledStill DEF Restart
<1>3. CASE World
  BY <1>3, EnvironmentKeepsBooks, BilledStill DEF World, execVars, Spent
<1>4. CASE UNCHANGED vars
  BY <1>4, BilledStill DEF vars, ledgerVars, execVars, Spent
<1>5. CASE Next
  BY <1>1, <1>2, <1>3, <1>5, StepCases, BilledQuiet, BilledAdmitted, BilledFail, BilledSettle
<1> QED  BY <1>4, <1>5

\* When the periods of the grants stand, task ids are not shared and all tasks reserve
\* the same, a book shows exactly what the tasks it admitted have cost: nothing is
\* charged twice, to the wrong book, or lost, whatever order executions settle in.
THEOREM BooksShowSpend ==
    ASSUME OwnIds, WindowsFixed, OneCost
    PROVE  Spec => []UsageIsSpend
<1>1. Init => Billed
  BY BilledInitially
<1>2. TypeInv /\ Funded /\ Billed /\ [Next]_vars => Billed'
  BY BilledNext
<1>3. Billed => UsageIsSpend
  BY BilledIsSpend DEF Billed
<1> QED  BY <1>1, <1>2, <1>3, TypeInvariant, FundedInvariant, PTL DEF Spec
=============================================================================
