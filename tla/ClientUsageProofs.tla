-------------------------- MODULE ClientUsageProofs --------------------------
(***************************************************************************)
(* Theorems about ClientUsage, for any clients, prompts, models, history    *)
(* and number of executions, months and starts.                             *)
(*                                                                         *)
(* What the endpoint reports is a sum of sums: over the clients, and over   *)
(* the prompts of each.  A transaction changes one row, so it changes one   *)
(* of the inner sums, and one term of the outer one.                        *)
(***************************************************************************)
EXTENDS ClientUsage, Sums

---------------------------------------------------------------------------
(* Sums over the rows.                                                      *)

OfClient(u, c) == SumFunction([p \in Prompts |-> u[<<c, p>>]])
Grand(u) == SumFunction([c \in Clients |-> OfClient(u, c)])

LEMMA Finite ==
  /\ IsFiniteSet(Clients) /\ IsFiniteSet(Prompts)
  /\ IsFiniteSet(Models) /\ IsFiniteSet(Executions)
BY UsageAssumption DEF UsageAssumption

LEMMA OfClientType ==
  ASSUME NEW u \in [Rows -> Nat], NEW c \in Clients
  PROVE  OfClient(u, c) \in Nat
<1> DEFINE f == [p \in Prompts |-> u[<<c, p>>]]
<1>1. \A p \in Prompts : f[p] \in Nat
  BY DEF Rows
<1>2. DOMAIN f = Prompts
  OBVIOUS
<1> HIDE DEF f
<1>3. SumFunctionOnSet(f, Prompts) \in Nat
  BY <1>1, Finite, SumType
<1> QED BY <1>2, <1>3 DEF OfClient, SumFunction, f

LEMMA GrandType == ASSUME NEW u \in [Rows -> Nat] PROVE Grand(u) \in Nat
<1> DEFINE f == [c \in Clients |-> OfClient(u, c)]
<1>1. \A c \in Clients : f[c] \in Nat
  BY OfClientType
<1>2. DOMAIN f = Clients
  OBVIOUS
<1> HIDE DEF f
<1>3. SumFunctionOnSet(f, Clients) \in Nat
  BY <1>1, Finite, SumType
<1> QED BY <1>2, <1>3 DEF Grand, SumFunction, f

\* Without a call, nothing is reported.
LEMMA GrandZero == ASSUME NEW u \in [Rows -> Nat], \A row \in Rows : u[row] = 0 PROVE Grand(u) = 0
<1>1. ASSUME NEW c \in Clients PROVE OfClient(u, c) = 0
  <2> DEFINE f == [p \in Prompts |-> u[<<c, p>>]]
  <2>1. (\A p \in Prompts : f[p] = 0) /\ DOMAIN f = Prompts
    BY DEF Rows
  <2> HIDE DEF f
  <2>2. SumFunctionOnSet(f, Prompts) = 0
    BY <2>1, Finite, SumZero
  <2> QED BY <2>1, <2>2 DEF OfClient, SumFunction, f
<1> DEFINE f == [c \in Clients |-> OfClient(u, c)]
<1>2. (\A c \in Clients : f[c] = 0) /\ DOMAIN f = Clients
  BY <1>1
<1> HIDE DEF f
<1>3. SumFunctionOnSet(f, Clients) = 0
  BY <1>2, Finite, SumZero
<1> QED BY <1>2, <1>3 DEF Grand, SumFunction, f

\* What is added to one row is added to what is reported.
LEMMA GrandAdds ==
  ASSUME NEW u \in [Rows -> Nat], NEW v \in [Rows -> Nat], NEW row \in Rows, NEW n \in Nat,
         v[row] = u[row] + n, \A r \in Rows \ {row} : v[r] = u[r]
  PROVE  Grand(v) = Grand(u) + n
<1>1. PICK c \in Clients, p \in Prompts : row = <<c, p>>
  BY DEF Rows
<1>2. OfClient(v, c) = OfClient(u, c) + n
  <2> DEFINE f == [q \in Prompts |-> u[<<c, q>>]]
             g == [q \in Prompts |-> v[<<c, q>>]]
  <2>1. /\ \A q \in Prompts : f[q] \in Nat /\ g[q] \in Nat
        /\ \A q \in Prompts \ {p} : g[q] = f[q]
        /\ g[p] = f[p] + n
        /\ DOMAIN f = Prompts /\ DOMAIN g = Prompts
    BY <1>1 DEF Rows
  <2> HIDE DEF f, g
  <2>2. SumFunctionOnSet(g, Prompts) = SumFunctionOnSet(f, Prompts) - f[p] + g[p]
    BY <2>1, Finite, SumChange
  <2>3. SumFunctionOnSet(f, Prompts) \in Nat
    BY <2>1, Finite, SumType
  <2>4. SumFunctionOnSet(g, Prompts) = SumFunctionOnSet(f, Prompts) + n
    BY <2>1, <2>2, <2>3
  <2> QED BY <2>1, <2>4 DEF OfClient, SumFunction, f, g
<1>3. ASSUME NEW d \in Clients \ {c} PROVE OfClient(v, d) = OfClient(u, d)
  <2>1. \A q \in Prompts : v[<<d, q>>] = u[<<d, q>>]
    BY <1>1 DEF Rows
  <2>2. [q \in Prompts |-> v[<<d, q>>]] = [q \in Prompts |-> u[<<d, q>>]]
    BY <2>1
  <2> QED BY <2>2 DEF OfClient
<1> DEFINE f == [d \in Clients |-> OfClient(u, d)]
           g == [d \in Clients |-> OfClient(v, d)]
<1>4. /\ \A d \in Clients : f[d] \in Nat /\ g[d] \in Nat
      /\ \A d \in Clients \ {c} : g[d] = f[d]
      /\ g[c] = f[c] + n
      /\ DOMAIN f = Clients /\ DOMAIN g = Clients
  BY <1>2, <1>3, OfClientType
<1> HIDE DEF f, g
<1>5. SumFunctionOnSet(g, Clients) = SumFunctionOnSet(f, Clients) - f[c] + g[c]
  BY <1>4, Finite, SumChange
<1>6. SumFunctionOnSet(f, Clients) \in Nat
  BY <1>4, Finite, SumType
<1>7. SumFunctionOnSet(g, Clients) = SumFunctionOnSet(f, Clients) + n
  BY <1>4, <1>5, <1>6
<1> QED BY <1>4, <1>7 DEF Grand, SumFunction, f, g

---------------------------------------------------------------------------
(* The tables.                                                              *)

UsageTable == [Rows \X Periods -> Nat]
ModelTable == [(Rows \X Periods) \X Models -> Nat]

Life(table) == [row \in Rows |-> table[<<row, Lifetime>>]]
LifeOf(table, m) == [row \in Rows |-> table[<< <<row, Lifetime>>, m>>]]

LEMMA LifetimeApart == Lifetime \in Periods /\ Months \subseteq Periods /\ Lifetime \notin Months
BY DEF Lifetime, Periods, Months

\* What the endpoint reports of a table, all clients together.
Reports(table) ==
    SumFunction([c \in Clients |-> SumFunction([p \in Prompts |-> table[<< <<c, p>>, Lifetime >>]])])
ReportsOf(table, m) ==
    SumFunction([c \in Clients |->
        SumFunction([p \in Prompts |-> table[<< << <<c, p>>, Lifetime >>, m >>]])])

LEMMA ReportsIsGrand == ASSUME NEW table PROVE Reports(table) = Grand(Life(table))
<1>1. ASSUME NEW c \in Clients
      PROVE  SumFunction([p \in Prompts |-> table[<< <<c, p>>, Lifetime >>]]) = OfClient(Life(table), c)
  <2>1. \A p \in Prompts : Life(table)[<<c, p>>] = table[<< <<c, p>>, Lifetime >>]
    BY DEF Life, Rows
  <2>2. [p \in Prompts |-> table[<< <<c, p>>, Lifetime >>]] = [p \in Prompts |-> Life(table)[<<c, p>>]]
    BY <2>1
  <2> QED BY <2>2 DEF OfClient
<1>2. [c \in Clients |-> SumFunction([p \in Prompts |-> table[<< <<c, p>>, Lifetime >>]])]
      = [c \in Clients |-> OfClient(Life(table), c)]
  BY <1>1
<1> QED BY <1>2 DEF Reports, Grand

LEMMA ReportsOfIsGrand ==
  ASSUME NEW table, NEW m \in Models PROVE ReportsOf(table, m) = Grand(LifeOf(table, m))
<1>1. ASSUME NEW c \in Clients
      PROVE  SumFunction([p \in Prompts |-> table[<< << <<c, p>>, Lifetime >>, m >>]])
             = OfClient(LifeOf(table, m), c)
  <2>1. \A p \in Prompts : LifeOf(table, m)[<<c, p>>] = table[<< << <<c, p>>, Lifetime >>, m >>]
    BY DEF LifeOf, Rows
  <2>2. [p \in Prompts |-> table[<< << <<c, p>>, Lifetime >>, m >>]]
        = [p \in Prompts |-> LifeOf(table, m)[<<c, p>>]]
    BY <2>1
  <2> QED BY <2>2 DEF OfClient
<1>2. [c \in Clients |-> SumFunction([p \in Prompts |-> table[<< << <<c, p>>, Lifetime >>, m >>]])]
      = [c \in Clients |-> OfClient(LifeOf(table, m), c)]
  BY <1>1
<1> QED BY <1>2 DEF ReportsOf, Grand

U == InTotal(Lifetime)
UOf(m) == InTotalOf(m, Lifetime)

LEMMA UIsReports ==
  /\ U = Reports(usage)
  /\ \A m \in Models : UOf(m) = ReportsOf(perModel, m)
BY DEF U, UOf, InTotal, InTotalOf, ReportedCalls, ReportedOfModel, Reports, ReportsOf

LEMMA UIsReportsNext ==
  /\ U' = Reports(usage')
  /\ \A m \in Models : UOf(m)' = ReportsOf(perModel', m)
BY DEF U, UOf, InTotal, InTotalOf, ReportedCalls, ReportedOfModel, Reports, ReportsOf, Lifetime

LEMMA AddedUsage ==
  ASSUME NEW table \in UsageTable, NEW row \in Rows, NEW month \in Months, NEW n \in Nat
  PROVE  LET new == Added(table, InPeriods(row, month), n)
         IN  /\ new \in UsageTable
             /\ Grand(Life(new)) = Grand(Life(table)) + n
<1> DEFINE new == Added(table, InPeriods(row, month), n)
<1>1. new = [k \in Rows \X Periods |->
                IF k \in InPeriods(row, month) THEN table[k] + n ELSE table[k]]
  BY DEF Added, UsageTable
<1>2. new \in UsageTable
  BY <1>1 DEF UsageTable
<1>3. Life(table) \in [Rows -> Nat] /\ Life(new) \in [Rows -> Nat]
  BY <1>2, LifetimeApart DEF Life, UsageTable
<1>4. Life(new)[row] = Life(table)[row] + n
  BY <1>1, LifetimeApart DEF Life, InPeriods
<1>5. \A r \in Rows \ {row} : Life(new)[r] = Life(table)[r]
  BY <1>1, LifetimeApart DEF Life, InPeriods
<1> HIDE DEF new
<1>6. Grand(Life(new)) = Grand(Life(table)) + n
  BY <1>3, <1>4, <1>5, GrandAdds
<1> QED BY <1>2, <1>6 DEF new

LEMMA AddedModel ==
  ASSUME NEW table \in ModelTable, NEW row \in Rows, NEW m \in Models, NEW month \in Months,
         NEW n \in Nat
  PROVE  LET new == Added(table, {<<k, m>> : k \in InPeriods(row, month)}, n)
         IN  /\ new \in ModelTable
             /\ Grand(LifeOf(new, m)) = Grand(LifeOf(table, m)) + n
             /\ \A x \in Models \ {m} : LifeOf(new, x) = LifeOf(table, x)
<1> DEFINE keys == {<<k, m>> : k \in InPeriods(row, month)}
           new == Added(table, keys, n)
<1>1. new = [k \in (Rows \X Periods) \X Models |->
                IF k \in keys THEN table[k] + n ELSE table[k]]
  BY DEF Added, ModelTable
<1>2. new \in ModelTable
  <2> HIDE DEF keys
  <2> QED BY <1>1 DEF ModelTable
<1>3. LifeOf(table, m) \in [Rows -> Nat] /\ LifeOf(new, m) \in [Rows -> Nat]
  <2> HIDE DEF new
  <2> QED BY <1>2, LifetimeApart DEF LifeOf, ModelTable
<1>4. \A r \in Rows, x \in Models :
         << <<r, Lifetime>>, x>> \in keys <=> r = row /\ x = m
  BY LifetimeApart DEF InPeriods
<1>5. \A r \in Rows, x \in Models :
         << <<r, Lifetime>>, x>> \in (Rows \X Periods) \X Models
  BY LifetimeApart
<1> HIDE DEF new, keys
<1>6. \A r \in Rows, x \in Models :
         new[<< <<r, Lifetime>>, x>>] =
            IF r = row /\ x = m THEN table[<< <<r, Lifetime>>, x>>] + n
            ELSE table[<< <<r, Lifetime>>, x>>]
  BY <1>1, <1>4, <1>5
<1>7. LifeOf(new, m)[row] = LifeOf(table, m)[row] + n
  BY <1>6 DEF LifeOf
<1>8. \A r \in Rows \ {row} : LifeOf(new, m)[r] = LifeOf(table, m)[r]
  BY <1>6 DEF LifeOf
<1>9. Grand(LifeOf(new, m)) = Grand(LifeOf(table, m)) + n
  BY <1>3, <1>7, <1>8, GrandAdds
<1>10. \A x \in Models \ {m} : LifeOf(new, x) = LifeOf(table, x)
  BY <1>6 DEF LifeOf
<1> QED BY <1>2, <1>9, <1>10 DEF new, keys

---------------------------------------------------------------------------
(* Types.                                                                   *)

LEMMA TotalType == ASSUME NEW f \in [Models -> Nat] PROVE Total(f) \in Nat
<1>1. DOMAIN f = Models /\ \A m \in Models : f[m] \in Nat
  OBVIOUS
<1>2. SumFunctionOnSet(f, Models) \in Nat
  BY <1>1, Finite, SumType
<1> QED BY <1>1, <1>2 DEF Total, SumFunction

\* A nonempty set of months has a last one.
LEMMA LastMonth == ASSUME NEW S \in SUBSET Months, S # {} PROVE Max(S) \in S
<1> DEFINE T == {MaxMonth - x : x \in S}
<1>1. S \subseteq Int /\ \A x \in S : MaxMonth - x \in Nat
  BY UsageAssumption DEF Months, UsageAssumption
<1>2. PICK y \in T : \A z \in T : y <= z
  BY <1>1, LeastExists, T \in SUBSET Nat, T # {}
<1>3. PICK x \in S : y = MaxMonth - x
  OBVIOUS
<1>4. ASSUME NEW z \in S PROVE x >= z
  <2>1. MaxMonth - x <= MaxMonth - z
    BY <1>2, <1>3
  <2> QED BY <1>1, <2>1, UsageAssumption DEF UsageAssumption
<1> QED BY <1>4 DEF Max

LEMMA LastLoggedType == ASSUME TypeOK PROVE LastLogged \in Months
<1> DEFINE S == {logged[m] : m \in Models} \ {None}
<1>1. S \in SUBSET Months
  BY DEF TypeOK
<1>2. S # {} => Max(S) \in Months
  BY <1>1, LastMonth
<1> QED BY <1>2 DEF LastLogged, TypeOK

LEMMA SeedTypes ==
  ASSUME TypeOK
  PROVE  /\ Primary \in Rows
         /\ FromLog \in Nat /\ FromMetrics \in Nat
         /\ Beyond(FromMetrics, FromLog) \in Nat
         /\ \A m \in Models : /\ FromLogOf(m) \in Nat /\ FromMetricsOf(m) \in Nat
                              /\ Beyond(FromMetricsOf(m), FromLogOf(m)) \in Nat
         /\ process.at # "down" => process.month \in Months
                                   /\ \A m \in Models : ModelMonth(m) \in Months
<1>1. FromLog \in Nat /\ FromMetrics \in Nat
  BY TotalType DEF TypeOK, FromLog, FromMetrics
<1>2. \A x, y \in Nat : Beyond(x, y) \in Nat
  BY DEF Beyond
<1>3. \A m \in Models : FromLogOf(m) \in Nat /\ FromMetricsOf(m) \in Nat
  BY DEF TypeOK, FromLogOf, FromMetricsOf
<1>4. process.at # "down" => process.month \in Months
                             /\ \A m \in Models : ModelMonth(m) \in Months
  BY DEF TypeOK, ModelMonth
<1> QED BY <1>1, <1>2, <1>3, <1>4, UsageAssumption DEF UsageAssumption, Rows

Process == [at : Steps, usage : BOOLEAN, models : SUBSET Models,
            delta : SUBSET Models, month : Months \cup {None}]

LEMMA StartType == ASSUME TypeOK, Start PROVE TypeOK'
<1>1. LastLogged \in Months
  BY LastLoggedType
<1>2. Historical \subseteq Models
  BY DEF Historical
<1>3. process' \in Process /\ process'.at # "down" /\ process'.month \in Months
  BY <1>1, <1>2 DEF Start, Process, Steps, NeedsUsage, HasUsage
<1>4. starts' \in 0 .. MaxStarts
  BY UsageAssumption DEF Start, TypeOK, UsageAssumption
<1> QED BY <1>3, <1>4 DEF Start, TypeOK, database, files, Process

LEMMA UpsertUsageAdds ==
  ASSUME TypeOK, NEW row \in Rows, NEW month \in Months, NEW n \in Nat,
         UpsertUsage(row, month, n)
  PROVE  /\ usage' \in UsageTable
         /\ U' = U + n
         /\ HasUsage => HasUsage'
<1>1. usage \in UsageTable
  BY DEF TypeOK, UsageTable
<1>2. usage' = Added(usage, InPeriods(row, month), n)
  BY DEF UpsertUsage
<1>3. usage' \in UsageTable /\ Grand(Life(usage')) = Grand(Life(usage)) + n
  BY <1>1, <1>2, AddedUsage
<1>4. U = Grand(Life(usage)) /\ U' = Grand(Life(usage'))
  BY UIsReports, UIsReportsNext, ReportsIsGrand
<1>5. HasUsage => HasUsage'
  <2>1. DOMAIN usage' = DOMAIN usage
    BY <1>1, <1>3 DEF UsageTable
  <2>2. \A k \in DOMAIN usage : usage'[k] >= usage[k] /\ usage[k] \in Nat /\ usage'[k] \in Nat
    BY <1>1, <1>2 DEF Added, UsageTable
  <2> QED BY <2>1, <2>2 DEF HasUsage
<1> QED BY <1>3, <1>4, <1>5

LEMMA UpsertModelAdds ==
  ASSUME TypeOK, NEW row \in Rows, NEW m \in Models, NEW month \in Months, NEW n \in Nat,
         UpsertModel(row, m, month, n)
  PROVE  /\ perModel' \in ModelTable
         /\ UOf(m)' = UOf(m) + n
         /\ \A x \in Models \ {m} : UOf(x)' = UOf(x)
<1>1. perModel \in ModelTable
  BY DEF TypeOK, ModelTable
<1>2. perModel' = Added(perModel, {<<k, m>> : k \in InPeriods(row, month)}, n)
  BY DEF UpsertModel
<1>3. /\ perModel' \in ModelTable
      /\ Grand(LifeOf(perModel', m)) = Grand(LifeOf(perModel, m)) + n
      /\ \A x \in Models \ {m} : LifeOf(perModel', x) = LifeOf(perModel, x)
  BY <1>1, <1>2, AddedModel
<1>4. \A x \in Models : UOf(x) = Grand(LifeOf(perModel, x))
  BY UIsReports, ReportsOfIsGrand
<1>5. \A x \in Models : UOf(x)' = Grand(LifeOf(perModel', x))
  BY UIsReportsNext, ReportsOfIsGrand
<1> QED BY <1>3, <1>4, <1>5

LEMMA UType == ASSUME TypeOK PROVE U \in Nat /\ \A m \in Models : UOf(m) \in Nat
<1>1. Life(usage) \in [Rows -> Nat] /\ \A m \in Models : LifeOf(perModel, m) \in [Rows -> Nat]
  BY LifetimeApart DEF TypeOK, Life, LifeOf
<1> QED BY <1>1, UIsReports, ReportsIsGrand, ReportsOfIsGrand, GrandType

\* An empty database reports nothing.
LEMMA UZero ==
  ASSUME TypeOK
  PROVE  /\ ~HasUsage => U = 0
         /\ ~HasModelUsage => \A m \in Models : UOf(m) = 0
<1>1. Life(usage) \in [Rows -> Nat] /\ \A m \in Models : LifeOf(perModel, m) \in [Rows -> Nat]
  BY LifetimeApart DEF TypeOK, Life, LifeOf
<1>2. ~HasUsage => \A row \in Rows : Life(usage)[row] = 0
  <2>1. \A row \in Rows : <<row, Lifetime>> \in Rows \X Periods
    BY LifetimeApart
  <2> QED BY <2>1 DEF TypeOK, Life, HasUsage
<1>3. ~HasModelUsage => \A m \in Models, row \in Rows : LifeOf(perModel, m)[row] = 0
  <2>1. \A m \in Models, row \in Rows : << <<row, Lifetime>>, m>> \in (Rows \X Periods) \X Models
    BY LifetimeApart
  <2>2. ~HasModelUsage => \A k \in (Rows \X Periods) \X Models : perModel[k] = 0
    BY DEF TypeOK, HasModelUsage
  <2> QED BY <2>1, <2>2 DEF LifeOf
<1>4. ~HasUsage => Grand(Life(usage)) = 0
  BY <1>1, <1>2, GrandZero
<1>5. ~HasModelUsage => \A m \in Models : Grand(LifeOf(perModel, m)) = 0
  BY <1>1, <1>3, GrandZero
<1> QED BY <1>4, <1>5, UIsReports, ReportsIsGrand, ReportsOfIsGrand

LEMMA UStill ==
  /\ usage' = usage => U' = U /\ (HasUsage' <=> HasUsage)
  /\ perModel' = perModel => \A m \in Models : UOf(m)' = UOf(m)
BY UIsReports, UIsReportsNext DEF HasUsage
LEMMA SeedType ==
  ASSUME TypeOK, SeedLog \/ SeedDelta \/ Seeded
                 \/ \E m \in Models : SeedModelLog(m) \/ SeedModelDelta(m)
  PROVE  TypeOK'
<1>1. CASE SeedLog
  <2>1. process.at # "down"
    BY <1>1 DEF SeedLog
  <2>2. usage' \in UsageTable
    BY <1>1, <2>1, SeedTypes, UpsertUsageAdds DEF SeedLog
  <2>3. process' \in Process /\ process'.month \in Months
    BY <1>1, <2>1 DEF SeedLog, TypeOK, Process, Steps
  <2> QED BY <1>1, <2>2, <2>3 DEF SeedLog, TypeOK, UsageTable, Process, files
<1>2. CASE SeedDelta
  <2>1. process.at # "down"
    BY <1>2 DEF SeedDelta
  <2>2. usage' \in UsageTable
    BY <1>2, <2>1, SeedTypes, UpsertUsageAdds DEF SeedDelta
  <2>3. process' \in Process /\ process'.month \in Months
    BY <1>2, <2>1 DEF SeedDelta, TypeOK, Process, Steps
  <2> QED BY <1>2, <2>2, <2>3 DEF SeedDelta, TypeOK, UsageTable, Process, files
<1>3. CASE Seeded
  <2>1. process.at # "down"
    BY <1>3 DEF Seeded
  <2>2. process' \in Process /\ process'.month \in Months
    BY <1>3, <2>1 DEF Seeded, TypeOK, Process, Steps
  <2>3. mark' \in BOOLEAN
    BY <1>3 DEF Seeded
  <2> QED BY <1>3, <2>2, <2>3 DEF Seeded, TypeOK, Process, files
<1>4. ASSUME NEW m \in Models, SeedModelLog(m) PROVE TypeOK'
  <2>1. process.at # "down"
    BY <1>4 DEF SeedModelLog
  <2>2. perModel' \in ModelTable
    BY <1>4, <2>1, SeedTypes, UpsertModelAdds DEF SeedModelLog
  <2>3. process' \in Process /\ process'.month \in Months
    BY <1>4, <2>1 DEF SeedModelLog, TypeOK, Process, Steps
  <2> QED BY <1>4, <2>2, <2>3 DEF SeedModelLog, TypeOK, ModelTable, Process, files
<1>5. ASSUME NEW m \in Models, SeedModelDelta(m) PROVE TypeOK'
  <2>1. process.at # "down"
    BY <1>5 DEF SeedModelDelta
  <2>2. perModel' \in ModelTable
    BY <1>5, <2>1, SeedTypes, UpsertModelAdds DEF SeedModelDelta
  <2>3. process' \in Process /\ process'.month \in Months
    BY <1>5, <2>1 DEF SeedModelDelta, TypeOK, Process, Steps
  <2> QED BY <1>5, <2>2, <2>3 DEF SeedModelDelta, TypeOK, ModelTable, Process, files
<1> QED BY <1>1, <1>2, <1>3, <1>4, <1>5

Execution == [at : Phases, row : Rows, model : Models]

\* An execution that goes on is the execution it was, somewhere else.
LEMMA GoesOn ==
  ASSUME NEW x \in [Executions -> Execution], NEW e \in Executions, NEW at \in Phases
  PROVE  /\ [x EXCEPT ![e].at = at] \in [Executions -> Execution]
         /\ [x EXCEPT ![e].at = at][e].at = at
         /\ [x EXCEPT ![e].at = at][e].model = x[e].model
         /\ [x EXCEPT ![e].at = at][e].row = x[e].row
         /\ \A f \in Executions \ {e} : [x EXCEPT ![e].at = at][f] = x[f]
<1>1. [x[e] EXCEPT !.at = at] \in Execution
  BY DEF Execution
<1> QED BY <1>1 DEF Execution

LEMMA ExecutionType ==
  ASSUME TypeOK, NEW e \in Executions,
         Execute(e) \/ Persist(e) \/ Log(e) \/ Record(e) \/ RecordFails(e)
  PROVE  TypeOK'
<1>1. executed \in [Executions -> Execution]
  BY DEF TypeOK, Execution
<1>2. executed[e].row \in Rows /\ executed[e].model \in Models
  BY <1>1 DEF Execution
<1>3. CASE Execute(e)
  <2>1. PICK row \in Rows, m \in Models :
           executed' = [executed EXCEPT ![e] = [at |-> "answered", row |-> row, model |-> m]]
    BY <1>3 DEF Execute
  <2>2. [at |-> "answered", row |-> row, model |-> m] \in Execution
    BY DEF Execution, Phases
  <2>3. executed' \in [Executions -> Execution]
    BY <1>1, <2>1, <2>2
  <2> QED BY <1>3, <2>3 DEF Execute, TypeOK, Execution, database, files
<1>4. CASE Persist(e)
  <2>1. executed' \in [Executions -> Execution]
    <3>1. "metered" \in Phases /\ executed' = [executed EXCEPT ![e].at = "metered"]
      BY <1>4 DEF Persist, Phases
    <3> QED BY <1>1, <3>1, GoesOn
  <2>2. metrics' \in [Models -> Nat]
    BY <1>2, <1>4 DEF Persist, TypeOK
  <2> QED BY <1>4, <2>1, <2>2 DEF Persist, TypeOK, Execution, database
<1>5. CASE Log(e)
  <2>1. executed' \in [Executions -> Execution]
    <3>1. "logged" \in Phases /\ executed' = [executed EXCEPT ![e].at = "logged"]
      BY <1>5 DEF Log, Phases
    <3> QED BY <1>1, <3>1, GoesOn
  <2>2. log' \in [Models -> Nat] /\ logged' \in [Models -> Months \cup {None}]
    BY <1>2, <1>5 DEF Log, TypeOK
  <2> QED BY <1>5, <2>1, <2>2 DEF Log, TypeOK, Execution, database
<1>6. CASE Record(e)
  <2>1. executed' \in [Executions -> Execution]
    <3>1. "recorded" \in Phases /\ executed' = [executed EXCEPT ![e].at = "recorded"]
      BY <1>6 DEF Record, Phases
    <3> QED BY <1>1, <3>1, GoesOn
  <2>2. PICK month \in Months : /\ UpsertUsage(executed[e].row, month, 1)
                                /\ UpsertModel(executed[e].row, executed[e].model, month, 1)
    BY <1>6 DEF Record
  <2>3. usage' \in UsageTable
    BY <1>2, <2>2, UpsertUsageAdds
  <2>4. perModel' \in ModelTable
    BY <1>2, <2>2, UpsertModelAdds
  <2> QED BY <1>6, <2>1, <2>3, <2>4
          DEF Record, TypeOK, Execution, UsageTable, ModelTable, files
<1>7. CASE RecordFails(e)
  <2>1. executed' \in [Executions -> Execution]
    <3>1. "lost" \in Phases /\ executed' = [executed EXCEPT ![e].at = "lost"]
      BY <1>7 DEF RecordFails, Phases
    <3> QED BY <1>1, <3>1, GoesOn
  <2> QED BY <1>7, <2>1 DEF RecordFails, TypeOK, Execution, database, files
<1> QED BY <1>3, <1>4, <1>5, <1>6, <1>7

LEMMA WorldType == ASSUME TypeOK, Dies \/ Rotate \/ NextMonth PROVE TypeOK'
<1>1. CASE Dies
  <2>1. process' \in Process /\ process'.at = "down"
    BY <1>1 DEF Dies, Down, Process, Steps
  <2>2. executed' \in [Executions -> Execution]
    BY <1>1 DEF Dies, TypeOK, Execution, Phases
  <2> QED BY <1>1, <2>1, <2>2 DEF Dies, TypeOK, database, files, Process, Execution
<1>2. CASE Rotate
  BY <1>2 DEF Rotate, TypeOK, database
<1>3. CASE NextMonth
  <2>1. today' \in Months
    BY <1>3, UsageAssumption DEF NextMonth, TypeOK, Months, UsageAssumption
  <2> QED BY <1>3, <2>1 DEF NextMonth, TypeOK, database, files
<1> QED BY <1>1, <1>2, <1>3

LEMMA TypeInitially == ASSUME Init PROVE TypeOK
<1>1. today \in Months /\ 1 \in Months /\ starts \in 0 .. MaxStarts
  BY UsageAssumption DEF Init, Months, UsageAssumption
<1>2. Primary \in Rows /\ (CHOOSE m \in Models : TRUE) \in Models
  BY UsageAssumption DEF UsageAssumption, Rows
<1>3. executed \in [Executions -> Execution]
  BY <1>2 DEF Init, Execution, Phases
<1>4. log \in [Models -> Nat] /\ metrics \in [Models -> Nat]
  BY UsageAssumption DEF Init, UsageAssumption
<1>5. process \in Process /\ process.at = "down"
  BY DEF Init, Down, Process, Steps
<1>6. usage \in UsageTable /\ perModel \in ModelTable /\ mark \in BOOLEAN
  BY DEF Init, UsageTable, ModelTable
<1>7. logged \in [Models -> Months \cup {None}]
  BY <1>1 DEF Init
<1> QED BY <1>1, <1>3, <1>4, <1>5, <1>6, <1>7
        DEF TypeOK, Process, Execution, UsageTable, ModelTable

LEMMA StepCases ==
  ASSUME Next
  PROVE  \/ Start \/ SeedLog \/ SeedDelta \/ Seeded
         \/ \E m \in Models : SeedModelLog(m) \/ SeedModelDelta(m)
         \/ \E e \in Executions :
               Execute(e) \/ Persist(e) \/ Log(e) \/ Record(e) \/ RecordFails(e)
         \/ Dies \/ Rotate \/ NextMonth
BY DEF Next

LEMMA TypeNext == ASSUME TypeOK, [Next]_vars PROVE TypeOK'
<1>1. CASE Next
  BY <1>1, StepCases, StartType, SeedType, ExecutionType, WorldType
<1>2. CASE UNCHANGED vars
  BY <1>2 DEF vars, TypeOK
<1> QED BY <1>1, <1>2

\* Types, of the database, the files and the seeding, for any history.
THEOREM UsageTypeCorrect == Spec => []TypeOK
BY TypeInitially, TypeNext, PTL DEF Spec

---------------------------------------------------------------------------
(* Counting the executions.                                                 *)

N(x, P) == Cardinality({e \in Executions : x[e].at \in P})
NOf(x, P, m) == Cardinality({e \in Executions : x[e].at \in P /\ x[e].model = m})
One(b) == IF b THEN 1 ELSE 0

\* Sets that differ in one element at most.
LEMMA CountMoves ==
  ASSUME NEW A \in SUBSET Executions, NEW B \in SUBSET Executions, NEW e \in Executions,
         A \ {e} = B \ {e}
  PROVE  /\ Cardinality(A) \in Nat /\ Cardinality(B) \in Nat
         /\ Cardinality(B) = Cardinality(A) - One(e \in A) + One(e \in B)
<1> DEFINE R == A \ {e}
<1>1. IsFiniteSet(A) /\ IsFiniteSet(B) /\ IsFiniteSet(R)
  BY Finite, FS_Subset
<1>2. Cardinality(A) \in Nat /\ Cardinality(B) \in Nat /\ Cardinality(R) \in Nat
  BY <1>1, FS_CardinalityType
<1>3. e \in A => A = R \cup {e}
  OBVIOUS
<1>4. e \notin A => A = R
  OBVIOUS
<1>5. e \in B => B = R \cup {e}
  OBVIOUS
<1>6. e \notin B => B = R
  OBVIOUS
<1>7. e \notin R
  OBVIOUS
<1> HIDE DEF R
<1>8. Cardinality(R \cup {e}) = Cardinality(R) + 1
  BY <1>1, <1>7, FS_AddElement
<1>9. Cardinality(A) = Cardinality(R) + One(e \in A)
  <2>1. CASE e \in A
    BY <1>8, <1>3, <2>1 DEF One
  <2>2. CASE e \notin A
    BY <1>2, <1>4, <2>2 DEF One
  <2> QED BY <2>1, <2>2
<1>10. Cardinality(B) = Cardinality(R) + One(e \in B)
  <2>1. CASE e \in B
    BY <1>8, <1>5, <2>1 DEF One
  <2>2. CASE e \notin B
    BY <1>2, <1>6, <2>2 DEF One
  <2> QED BY <2>1, <2>2
<1>11. One(e \in A) \in Nat /\ One(e \in B) \in Nat
  BY DEF One
<1> QED BY <1>2, <1>9, <1>10, <1>11

LEMMA CountType ==
  ASSUME NEW x, NEW P PROVE N(x, P) \in Nat /\ \A m \in Models : NOf(x, P, m) \in Nat
BY Finite, FS_Subset, FS_CardinalityType DEF N, NOf

\* One execution goes on: the counts it leaves and those it enters change.
LEMMA OneGoesOn ==
  ASSUME NEW x \in [Executions -> Execution], NEW y \in [Executions -> Execution],
         NEW e \in Executions, \A f \in Executions \ {e} : y[f] = x[f], NEW P
  PROVE  /\ N(y, P) = N(x, P) - One(x[e].at \in P) + One(y[e].at \in P)
         /\ \A m \in Models :
               NOf(y, P, m) = NOf(x, P, m) - One(x[e].at \in P /\ x[e].model = m)
                              + One(y[e].at \in P /\ y[e].model = m)
<1>1. N(y, P) = N(x, P) - One(x[e].at \in P) + One(y[e].at \in P)
  <2> DEFINE A == {f \in Executions : x[f].at \in P}
             B == {f \in Executions : y[f].at \in P}
  <2>1. A \in SUBSET Executions /\ B \in SUBSET Executions /\ A \ {e} = B \ {e}
    OBVIOUS
  <2>2. (e \in A <=> x[e].at \in P) /\ (e \in B <=> y[e].at \in P)
    OBVIOUS
  <2> HIDE DEF A, B
  <2>3. Cardinality(B) = Cardinality(A) - One(e \in A) + One(e \in B)
    BY <2>1, CountMoves
  <2>4. One(e \in A) = One(x[e].at \in P) /\ One(e \in B) = One(y[e].at \in P)
    BY <2>2 DEF One
  <2> QED BY <2>3, <2>4 DEF N, A, B
<1>2. ASSUME NEW m \in Models
      PROVE  NOf(y, P, m) = NOf(x, P, m) - One(x[e].at \in P /\ x[e].model = m)
                            + One(y[e].at \in P /\ y[e].model = m)
  <2> DEFINE A == {f \in Executions : x[f].at \in P /\ x[f].model = m}
             B == {f \in Executions : y[f].at \in P /\ y[f].model = m}
  <2>1. A \in SUBSET Executions /\ B \in SUBSET Executions /\ A \ {e} = B \ {e}
    OBVIOUS
  <2>2. (e \in A <=> x[e].at \in P /\ x[e].model = m)
        /\ (e \in B <=> y[e].at \in P /\ y[e].model = m)
    OBVIOUS
  <2> HIDE DEF A, B
  <2>3. Cardinality(B) = Cardinality(A) - One(e \in A) + One(e \in B)
    BY <2>1, CountMoves
  <2>4. One(e \in A) = One(x[e].at \in P /\ x[e].model = m)
        /\ One(e \in B) = One(y[e].at \in P /\ y[e].model = m)
    BY <2>2 DEF One
  <2> QED BY <2>3, <2>4 DEF NOf, A, B
<1> QED BY <1>1, <1>2

\* Where nothing is in a phase, nothing is counted.
LEMMA NoneIn ==
  ASSUME NEW x, NEW P, \A e \in Executions : x[e].at \notin P
  PROVE  N(x, P) = 0 /\ \A m \in Models : NOf(x, P, m) = 0
<1>1. {e \in Executions : x[e].at \in P} = {}
  OBVIOUS
<1>2. \A m \in Models : {e \in Executions : x[e].at \in P /\ x[e].model = m} = {}
  OBVIOUS
<1> QED BY <1>1, <1>2, FS_EmptySet DEF N, NOf

\* Where the same are in a phase, the same is counted.
LEMMA SameIn ==
  ASSUME NEW x, NEW y, NEW P, \A e \in Executions : x[e].at \in P <=> y[e].at \in P,
         \A e \in Executions : x[e].model = y[e].model
  PROVE  N(x, P) = N(y, P) /\ \A m \in Models : NOf(x, P, m) = NOf(y, P, m)
<1>1. {e \in Executions : x[e].at \in P} = {e \in Executions : y[e].at \in P}
  OBVIOUS
<1>2. \A m \in Models : {e \in Executions : x[e].at \in P /\ x[e].model = m}
                        = {e \in Executions : y[e].at \in P /\ y[e].model = m}
  OBVIOUS
<1> QED BY <1>1, <1>2 DEF N, NOf

---------------------------------------------------------------------------
(* What was made, and what is known.                                        *)

Begun == {"answered", "metered", "logged", "recorded", "lost"}
MadeBy(x, m) == past.made[m] + NOf(x, Begun, m)
AllMade == Total([m \in Models |-> Made(m)])

PastOK ==
  /\ past \in [made : [Models -> Nat], log : [Models -> Nat], metrics : [Models -> Nat]]
  /\ \A m \in Models : past.log[m] <= past.made[m] /\ past.metrics[m] <= past.made[m]

LEMMA MadeIs == ASSUME TypeOK PROVE \A m \in Models : Made(m) = MadeBy(executed, m)
<1>1. \A e \in Executions : executed[e].at # "no" <=> executed[e].at \in Begun
  BY DEF TypeOK, Phases, Begun
<1>2. \A m \in Models : {e \in Executions : executed[e].at # "no" /\ executed[e].model = m}
                        = {e \in Executions : executed[e].at \in Begun /\ executed[e].model = m}
  BY <1>1
<1> QED BY <1>2 DEF Made, MadeBy, NOf

LEMMA MadeIsNext ==
  ASSUME TypeOK', past' = past PROVE \A m \in Models : Made(m)' = MadeBy(executed', m)
<1>1. \A e \in Executions : executed'[e].at # "no" <=> executed'[e].at \in Begun
  BY DEF TypeOK, Phases, Begun
<1>2. \A m \in Models : {e \in Executions : executed'[e].at # "no" /\ executed'[e].model = m}
                        = {e \in Executions : executed'[e].at \in Begun /\ executed'[e].model = m}
  BY <1>1
<1> QED BY <1>2 DEF Made, MadeBy, NOf

LEMMA MadeType == ASSUME TypeOK, PastOK PROVE \A m \in Models : Made(m) \in Nat
<1>1. \A m \in Models : NOf(executed, Begun, m) \in Nat /\ past.made[m] \in Nat
  BY CountType DEF PastOK
<1> QED BY <1>1, MadeIs DEF MadeBy

LEMMA AllMadeType == ASSUME TypeOK, PastOK PROVE AllMade \in Nat
<1>1. [m \in Models |-> Made(m)] \in [Models -> Nat]
  BY MadeType
<1> QED BY <1>1, TotalType DEF AllMade

LEMMA TotalAtMost ==
  ASSUME NEW f \in [Models -> Nat], NEW g \in [Models -> Nat], \A m \in Models : f[m] <= g[m]
  PROVE  Total(f) <= Total(g)
<1>1. DOMAIN f = Models /\ DOMAIN g = Models /\ (\A m \in Models : f[m] \in Nat /\ g[m] \in Nat)
  OBVIOUS
<1>2. SumFunctionOnSet(f, Models) <= SumFunctionOnSet(g, Models)
  BY <1>1, Finite, SumMonotone
<1> QED BY <1>1, <1>2 DEF Total, SumFunction

LEMMA TotalGrows ==
  ASSUME NEW f \in [Models -> Nat], NEW g \in [Models -> Nat], NEW m \in Models,
         g[m] = f[m] + 1, \A x \in Models \ {m} : g[x] = f[x]
  PROVE  Total(g) = Total(f) + 1
<1>1. DOMAIN f = Models /\ DOMAIN g = Models /\ (\A x \in Models : f[x] \in Nat /\ g[x] \in Nat)
  OBVIOUS
<1>2. SumFunctionOnSet(g, Models) = SumFunctionOnSet(f, Models) - f[m] + g[m]
  BY <1>1, Finite, SumChange
<1>3. SumFunctionOnSet(f, Models) \in Nat /\ f[m] \in Nat
  BY <1>1, Finite, SumType
<1>4. SumFunctionOnSet(g, Models) = SumFunctionOnSet(f, Models) + 1
  BY <1>2, <1>3
<1> QED BY <1>1, <1>4 DEF Total, SumFunction

\* The larger of two, as the seeds reach it: the one, then what is beyond it.
LEMMA Larger ==
  ASSUME NEW x \in Nat, NEW y \in Nat
  PROVE  Max({x, y}) = x + Beyond(y, x)
<1> DEFINE t == IF y > x THEN y ELSE x
<1>1. t \in {x, y} /\ \A z \in {x, y} : t >= z
  OBVIOUS
<1>2. \A s \in {x, y} : (\A z \in {x, y} : s >= z) => s = t
  OBVIOUS
<1>3. Max({x, y}) = t
  BY <1>1, <1>2 DEF Max
<1>4. t = x + Beyond(y, x)
  BY DEF Beyond
<1> QED BY <1>3, <1>4

---------------------------------------------------------------------------
(* The inductive invariant.                                                 *)

InFlight == {"answered", "metered", "logged"}
Unrecorded == InFlight \cup {"lost"}

Known == Max({Total(past.log), Total(past.metrics)})

\* Nothing was executed, and no file changed, since the database exists.
Untouched ==
  /\ \A e \in Executions : executed[e].at = "no"
  /\ log = past.log /\ metrics = past.metrics

\* How far the seeding of the totals is.  A process that finds neither a mark
\* nor a row finds the files as they were; one that seeded something and died
\* leaves a row, and no later process seeds or marks.
Seeding ==
  /\ process.at \in {"log", "delta"} => process.usage
  /\ process.at = "down" => ~process.usage
  /\ process.usage /\ process.at # "serving" => ~mark /\ Untouched
  /\ process.at = "log" => U = 0
  /\ process.at = "delta" => U = FromLog
  /\ process.at = "models" /\ process.usage => U = Known
  /\ process.at \in {"models", "serving"} /\ ~process.usage => mark \/ HasUsage
  /\ process.at = "serving" /\ process.usage => mark
  /\ ~mark /\ ~HasUsage => Untouched

Marked == mark => U = Known + N(executed, {"recorded"})
Over == U + N(executed, Unrecorded) <= AllMade

\* Executions run while the process serves, and it serves once it has seeded.
Flow ==
  /\ process.at # "serving" => \A e \in Executions : executed[e].at \notin InFlight
  /\ process.at \in {"serving", "down"} => process.models = {}
  /\ process.at # "models" => process.delta = {}
  /\ process.delta \subseteq process.models
  /\ \A m, x \in process.delta : m = x

\* Of one model: what the files and the rows hold, with what is still to come.
OfModel ==
  \A m \in Models :
    /\ metrics[m] + NOf(executed, {"answered"}, m) <= Made(m)
    /\ log[m] + NOf(executed, {"answered", "metered"}, m) <= Made(m)
    /\ UOf(m) + NOf(executed, InFlight, m) <= Made(m)
    /\ m \in process.models \ process.delta => UOf(m) = 0
    /\ m \in process.delta => UOf(m) = log[m]

IInv == TypeOK /\ PastOK /\ Seeding /\ Marked /\ Over /\ Flow /\ OfModel

\* No history holds more than was made.
LEMMA PastMade ==
  ASSUME TypeOK, PastOK
  PROVE  /\ Total(past.log) \in Nat /\ Total(past.metrics) \in Nat
         /\ Total(past.log) <= AllMade /\ Total(past.metrics) <= AllMade
         /\ Known = Total(past.log) + Beyond(Total(past.metrics), Total(past.log))
         /\ Known \in Nat /\ Known <= AllMade
<1>1. \A m \in Models : past.made[m] <= Made(m)
  BY MadeIs, CountType DEF MadeBy, PastOK
<1>2. [m \in Models |-> Made(m)] \in [Models -> Nat]
  BY MadeType
<1>3. /\ past.log \in [Models -> Nat] /\ past.metrics \in [Models -> Nat]
      /\ past.made \in [Models -> Nat]
  BY DEF PastOK
<1>4. \A m \in Models : past.log[m] <= Made(m) /\ past.metrics[m] <= Made(m)
  BY <1>1, <1>2, <1>3, MadeType DEF PastOK
<1>5. Total(past.log) <= AllMade /\ Total(past.metrics) <= AllMade
  BY <1>2, <1>3, <1>4, TotalAtMost DEF AllMade
<1>6. Total(past.log) \in Nat /\ Total(past.metrics) \in Nat
  BY <1>3, TotalType
<1>7. Known = Total(past.log) + Beyond(Total(past.metrics), Total(past.log))
  BY <1>6, Larger DEF Known
<1>8. AllMade \in Nat
  BY AllMadeType
<1> QED BY <1>5, <1>6, <1>7, <1>8 DEF Beyond

\* Without an execution, what was made and counted stays.
LEMMA NoneGoesOn ==
  ASSUME executed' = executed, past' = past
  PROVE  /\ \A m \in Models : Made(m)' = Made(m)
         /\ AllMade' = AllMade /\ Known' = Known
         /\ PastOK => PastOK'
BY DEF Made, AllMade, Known, PastOK

LEMMA UntouchedCounts ==
  ASSUME Untouched
  PROVE  /\ N(executed, {"recorded"}) = 0 /\ N(executed, Unrecorded) = 0
         /\ FromLog = Total(past.log) /\ FromMetrics = Total(past.metrics)
<1>1. \A e \in Executions : executed[e].at \notin {"recorded"}
                            /\ executed[e].at \notin Unrecorded
  BY DEF Untouched, Unrecorded, InFlight
<1> QED BY <1>1, NoneIn DEF Untouched, FromLog, FromMetrics

---------------------------------------------------------------------------
(* The start of the process.                                                *)

LEMMA StartKeeps == ASSUME IInv, Start PROVE IInv'
<1>1. TypeOK /\ PastOK /\ Seeding /\ Marked /\ Over /\ Flow /\ OfModel
  BY DEF IInv
<1>2. TypeOK'
  BY <1>1, StartType
<1>3. /\ UNCHANGED <<usage, perModel, mark, log, logged, metrics, executed, past>>
      /\ process.at = "down"
  BY DEF Start, database, files
<1>4. U' = U /\ (HasUsage' <=> HasUsage) /\ \A m \in Models : UOf(m)' = UOf(m)
  BY <1>3, UStill
<1>5. /\ \A m \in Models : Made(m)' = Made(m)
      /\ AllMade' = AllMade /\ Known' = Known /\ PastOK'
  BY <1>1, <1>3, NoneGoesOn
<1>6. Untouched' <=> Untouched
  BY <1>3 DEF Untouched
<1>7. /\ process'.usage = NeedsUsage /\ process'.delta = {}
      /\ process'.models = IF HasModelUsage THEN {} ELSE Historical
      /\ NeedsUsage => process'.at = "log"
      /\ ~NeedsUsage /\ ~HasModelUsage => process'.at = "models"
      /\ ~NeedsUsage /\ HasModelUsage => process'.at = "serving"
  BY DEF Start
<1>8. NeedsUsage <=> ~HasUsage /\ ~mark
  BY DEF NeedsUsage
<1>9. NeedsUsage => U = 0
  BY <1>1, <1>8, UZero
<1>10. Seeding'
  BY <1>1, <1>3, <1>4, <1>6, <1>7, <1>8, <1>9 DEF Seeding
<1>11. Marked' /\ Over'
  BY <1>1, <1>3, <1>4, <1>5 DEF Marked, Over
<1>12. Flow'
  BY <1>1, <1>3, <1>7 DEF Flow
<1>13. ASSUME NEW m \in Models, m \in process'.models PROVE UOf(m)' = 0
  BY <1>1, <1>4, <1>7, <1>13, UZero
<1>14. OfModel'
  BY <1>1, <1>3, <1>4, <1>5, <1>7, <1>13 DEF OfModel
<1> QED BY <1>2, <1>5, <1>10, <1>11, <1>12, <1>14 DEF IInv

LEMMA SeedLogKeeps == ASSUME IInv, SeedLog PROVE IInv'
<1>1. TypeOK /\ PastOK /\ Seeding /\ Marked /\ Over /\ Flow /\ OfModel
  BY DEF IInv
<1>2. TypeOK'
  BY <1>1, SeedType
<1>3. /\ UNCHANGED <<perModel, mark, log, logged, metrics, executed, past>>
      /\ process.at = "log" /\ process'.at = "delta" /\ process'.usage = process.usage
      /\ process'.models = process.models /\ process'.delta = process.delta
  BY <1>1 DEF SeedLog, files, TypeOK
<1>4. /\ process.usage /\ ~mark /\ Untouched /\ U = 0
  BY <1>1, <1>3 DEF Seeding
<1>5. U' = U + FromLog /\ (HasUsage => HasUsage') /\ FromLog \in Nat
  BY <1>1, <1>3, SeedTypes, UpsertUsageAdds DEF SeedLog
<1>6. \A m \in Models : UOf(m)' = UOf(m)
  BY <1>3, UStill
<1>7. /\ \A m \in Models : Made(m)' = Made(m)
      /\ AllMade' = AllMade /\ Known' = Known /\ PastOK'
  BY <1>1, <1>3, NoneGoesOn
<1>8. Untouched' /\ FromLog' = FromLog
  BY <1>3, <1>4 DEF Untouched, FromLog
<1>9. U' = FromLog
  BY <1>4, <1>5
<1>10. Seeding'
  BY <1>3, <1>4, <1>8, <1>9 DEF Seeding
<1>11. Marked'
  BY <1>3, <1>4 DEF Marked
<1>12. Over'
  <2>1. N(executed, Unrecorded) = 0 /\ FromLog = Total(past.log)
    BY <1>4, UntouchedCounts
  <2>2. FromLog <= AllMade
    BY <1>1, <2>1, PastMade
  <2> QED BY <1>3, <1>5, <1>7, <1>9, <2>1, <2>2 DEF Over
<1>13. Flow'
  BY <1>1, <1>3 DEF Flow
<1>14. OfModel'
  BY <1>1, <1>3, <1>6, <1>7 DEF OfModel
<1> QED BY <1>2, <1>7, <1>10, <1>11, <1>12, <1>13, <1>14 DEF IInv

LEMMA SeedDeltaKeeps == ASSUME IInv, SeedDelta PROVE IInv'
<1>1. TypeOK /\ PastOK /\ Seeding /\ Marked /\ Over /\ Flow /\ OfModel
  BY DEF IInv
<1>2. TypeOK'
  BY <1>1, SeedType
<1>3. /\ UNCHANGED <<perModel, mark, log, logged, metrics, executed, past>>
      /\ process.at = "delta" /\ process'.at = "models" /\ process'.usage = process.usage
      /\ process'.models = process.models /\ process'.delta = process.delta
  BY <1>1 DEF SeedDelta, files, TypeOK
<1>4. /\ process.usage /\ ~mark /\ Untouched /\ U = FromLog
  BY <1>1, <1>3 DEF Seeding
<1>5. U' = U + Beyond(FromMetrics, FromLog)
  BY <1>1, <1>3, SeedTypes, UpsertUsageAdds DEF SeedDelta
<1>6. \A m \in Models : UOf(m)' = UOf(m)
  BY <1>3, UStill
<1>7. /\ \A m \in Models : Made(m)' = Made(m)
      /\ AllMade' = AllMade /\ Known' = Known /\ PastOK'
  BY <1>1, <1>3, NoneGoesOn
<1>8. Untouched'
  BY <1>3, <1>4 DEF Untouched
<1>9. U' = Known /\ Known \in Nat /\ Known <= AllMade /\ N(executed, Unrecorded) = 0
  BY <1>1, <1>4, <1>5, PastMade, UntouchedCounts
<1>10. Seeding'
  BY <1>3, <1>4, <1>7, <1>8, <1>9 DEF Seeding
<1>11. Marked'
  BY <1>3, <1>4 DEF Marked
<1>12. Over'
  BY <1>3, <1>7, <1>9 DEF Over
<1>13. Flow'
  BY <1>1, <1>3 DEF Flow
<1>14. OfModel'
  BY <1>1, <1>3, <1>6, <1>7 DEF OfModel
<1> QED BY <1>2, <1>7, <1>10, <1>11, <1>12, <1>13, <1>14 DEF IInv

LEMMA SeededKeeps == ASSUME IInv, Seeded PROVE IInv'
<1>1. TypeOK /\ PastOK /\ Seeding /\ Marked /\ Over /\ Flow /\ OfModel
  BY DEF IInv
<1>2. TypeOK'
  BY <1>1, SeedType
<1>3. /\ UNCHANGED <<usage, perModel, log, logged, metrics, executed, past>>
      /\ mark' = (mark \/ process.usage)
      /\ process.at = "models" /\ process'.at = "serving" /\ process'.usage = process.usage
      /\ process.models = {} /\ process'.models = {} /\ process'.delta = process.delta
  BY <1>1 DEF Seeded, files, TypeOK
<1>4. process.delta = {}
  BY <1>1, <1>3 DEF Flow
<1>5. U' = U /\ (HasUsage' <=> HasUsage) /\ \A m \in Models : UOf(m)' = UOf(m)
  BY <1>3, UStill
<1>6. /\ \A m \in Models : Made(m)' = Made(m)
      /\ AllMade' = AllMade /\ Known' = Known /\ PastOK'
  BY <1>1, <1>3, NoneGoesOn
<1>7. process.usage => U = Known /\ N(executed, {"recorded"}) = 0 /\ Known \in Nat
  BY <1>1, <1>3, UntouchedCounts, PastMade DEF Seeding
<1>8. ~process.usage => mark \/ HasUsage
  BY <1>1, <1>3 DEF Seeding
<1>9. Seeding'
  BY <1>3, <1>5, <1>8 DEF Seeding
<1>10. Marked'
  <2>1. U' = U /\ Known' = Known /\ N(executed, {"recorded"})' = N(executed, {"recorded"})
    BY <1>3, <1>5, <1>6
  <2>2. CASE process.usage
    <3>1. U = Known + N(executed, {"recorded"})
      BY <1>7, <2>2
    <3> QED BY <2>1, <3>1 DEF Marked
  <2>3. CASE ~process.usage
    <3>1. mark' => mark
      BY <1>3, <2>3
    <3> QED BY <1>1, <2>1, <3>1 DEF Marked
  <2> QED BY <2>2, <2>3
<1>11. Over'
  BY <1>1, <1>3, <1>5, <1>6 DEF Over
<1>12. Flow'
  BY <1>3, <1>4 DEF Flow
<1>13. OfModel'
  BY <1>1, <1>3, <1>4, <1>5, <1>6 DEF OfModel
<1> QED BY <1>2, <1>6, <1>9, <1>10, <1>11, <1>12, <1>13 DEF IInv

\* The seeds of one model leave the totals, and seed what was not seeded yet.
LEMMA SeedModelKeeps ==
  ASSUME IInv, NEW m \in Models, SeedModelLog(m) \/ SeedModelDelta(m) PROVE IInv'
<1>1. TypeOK /\ PastOK /\ Seeding /\ Marked /\ Over /\ Flow /\ OfModel
  BY DEF IInv
<1>2. TypeOK'
  BY <1>1, SeedType
<1>3. /\ UNCHANGED <<usage, mark, log, logged, metrics, executed, past>>
      /\ process.at = "models" /\ process'.at = "models" /\ process'.usage = process.usage
  BY <1>1 DEF SeedModelLog, SeedModelDelta, files, TypeOK
<1>4. U' = U /\ (HasUsage' <=> HasUsage)
  BY <1>3, UStill
<1>5. /\ \A x \in Models : Made(x)' = Made(x)
      /\ AllMade' = AllMade /\ Known' = Known /\ PastOK'
  BY <1>1, <1>3, NoneGoesOn
<1>6. Untouched' <=> Untouched
  BY <1>3 DEF Untouched
<1>7. Seeding'
  BY <1>1, <1>3, <1>4, <1>5, <1>6 DEF Seeding
<1>8. Marked' /\ Over'
  BY <1>1, <1>3, <1>4, <1>5 DEF Marked, Over
<1>9. \A x \in Models : NOf(executed, InFlight, x) = 0
  BY <1>1, <1>3, NoneIn DEF Flow
<1>10. \A x \in Models :
          /\ UOf(x) \in Nat /\ Made(x) \in Nat
          /\ log[x] \in Nat /\ metrics[x] \in Nat
          /\ log[x] <= Made(x) /\ metrics[x] <= Made(x)
  <2>1. \A x \in Models : /\ NOf(executed, {"answered"}, x) \in Nat
                          /\ NOf(executed, {"answered", "metered"}, x) \in Nat
    BY CountType
  <2>2. \A x \in Models : UOf(x) \in Nat /\ Made(x) \in Nat /\ log[x] \in Nat /\ metrics[x] \in Nat
    BY <1>1, UType, MadeType DEF TypeOK
  <2> QED BY <1>1, <2>1, <2>2 DEF OfModel
<1>11. CASE SeedModelLog(m)
  <2>1. /\ m \in process.models /\ process.delta = {}
        /\ process'.models = process.models /\ process'.delta = {m}
    BY <1>1, <1>11 DEF SeedModelLog, TypeOK
  <2>2. UOf(m)' = UOf(m) + log[m] /\ \A x \in Models \ {m} : UOf(x)' = UOf(x)
    BY <1>1, <1>3, <1>11, SeedTypes, UpsertModelAdds DEF SeedModelLog, FromLogOf
  <2>3. UOf(m) = 0
    BY <1>1, <2>1 DEF OfModel
  <2>4. UOf(m)' = log[m]
    BY <1>10, <2>2, <2>3
  <2>5. Flow'
    BY <1>1, <1>3, <2>1 DEF Flow
  <2>6. OfModel'
    <3> SUFFICES ASSUME NEW x \in Models
                 PROVE  /\ metrics'[x] + NOf(executed', {"answered"}, x) <= Made(x)'
                        /\ log'[x] + NOf(executed', {"answered", "metered"}, x) <= Made(x)'
                        /\ UOf(x)' + NOf(executed', InFlight, x) <= Made(x)'
                        /\ x \in process'.models \ process'.delta => UOf(x)' = 0
                        /\ x \in process'.delta => UOf(x)' = log'[x]
      BY DEF OfModel
    <3>1. CASE x = m
      BY <1>1, <1>3, <1>5, <1>9, <1>10, <2>1, <2>4, <3>1 DEF OfModel
    <3>2. CASE x # m
      BY <1>1, <1>3, <1>5, <2>1, <2>2, <3>2 DEF OfModel
    <3> QED BY <3>1, <3>2
  <2> QED BY <1>2, <1>5, <1>7, <1>8, <2>5, <2>6 DEF IInv
<1>12. CASE SeedModelDelta(m)
  <2>1. /\ m \in process.delta
        /\ process'.models = process.models \ {m} /\ process'.delta = {}
    BY <1>1, <1>12 DEF SeedModelDelta, TypeOK
  <2>2. /\ UOf(m)' = UOf(m) + Beyond(metrics[m], log[m])
        /\ \A x \in Models \ {m} : UOf(x)' = UOf(x)
    BY <1>1, <1>3, <1>12, SeedTypes, UpsertModelAdds DEF SeedModelDelta, FromLogOf, FromMetricsOf
  <2>3. UOf(m) = log[m]
    BY <1>1, <2>1 DEF OfModel
  <2>4. UOf(m)' <= Made(m) /\ UOf(m)' \in Nat
    BY <1>10, <2>2, <2>3 DEF Beyond
  <2>5. \A x \in Models \ {m} : x \notin process.delta
    BY <1>1, <2>1 DEF Flow
  <2>6. Flow'
    BY <1>1, <1>3, <2>1 DEF Flow
  <2>7. OfModel'
    <3> SUFFICES ASSUME NEW x \in Models
                 PROVE  /\ metrics'[x] + NOf(executed', {"answered"}, x) <= Made(x)'
                        /\ log'[x] + NOf(executed', {"answered", "metered"}, x) <= Made(x)'
                        /\ UOf(x)' + NOf(executed', InFlight, x) <= Made(x)'
                        /\ x \in process'.models \ process'.delta => UOf(x)' = 0
                        /\ x \in process'.delta => UOf(x)' = log'[x]
      BY DEF OfModel
    <3>1. CASE x = m
      BY <1>1, <1>3, <1>5, <1>9, <2>1, <2>4, <3>1 DEF OfModel
    <3>2. CASE x # m
      BY <1>1, <1>3, <1>5, <2>1, <2>2, <2>5, <3>2 DEF OfModel
    <3> QED BY <3>1, <3>2
  <2> QED BY <1>2, <1>5, <1>7, <1>8, <2>6, <2>7 DEF IInv
<1> QED BY <1>11, <1>12

---------------------------------------------------------------------------
(* Executions.                                                              *)

\* While the process serves, the seeding is over, whatever the rows gain.
LEMMA ServingKeeps ==
  ASSUME Seeding, Flow, process.at = "serving", process' = process, mark' = mark,
         HasUsage => HasUsage'
  PROVE  Seeding' /\ Flow'
<1>1. mark \/ HasUsage
  BY DEF Seeding
<1> QED BY <1>1 DEF Seeding, Flow

\* What an execution that goes on leaves alone, and where it is then.
LEMMA GoingOn ==
  ASSUME IInv, NEW e \in Executions, Persist(e) \/ Log(e) \/ Record(e) \/ RecordFails(e)
  PROVE  /\ process.at = "serving" /\ UNCHANGED <<process, mark, past>>
         /\ executed \in [Executions -> Execution] /\ executed' \in [Executions -> Execution]
         /\ executed'[e].model = executed[e].model /\ executed[e].model \in Models
         /\ \A f \in Executions \ {e} : executed'[f] = executed[f]
         /\ Persist(e) => executed[e].at = "answered" /\ executed'[e].at = "metered"
         /\ Log(e) => executed[e].at = "metered" /\ executed'[e].at = "logged"
         /\ Record(e) => executed[e].at = "logged" /\ executed'[e].at = "recorded"
         /\ RecordFails(e) => executed[e].at = "logged" /\ executed'[e].at = "lost"
<1>1. TypeOK /\ Flow
  BY DEF IInv
<1>2. executed \in [Executions -> Execution] /\ executed[e].model \in Models
  BY <1>1 DEF TypeOK, Execution
<1>3. executed[e].at \in InFlight
  BY DEF Persist, Log, Record, RecordFails, InFlight
<1>4. process.at = "serving"
  BY <1>1, <1>3 DEF Flow
<1>5. UNCHANGED <<process, mark, past>>
  BY DEF Persist, Log, Record, RecordFails, database
<1>6. PICK at \in Phases :
         /\ executed' = [executed EXCEPT ![e].at = at]
         /\ Persist(e) => executed[e].at = "answered" /\ at = "metered"
         /\ Log(e) => executed[e].at = "metered" /\ at = "logged"
         /\ Record(e) => executed[e].at = "logged" /\ at = "recorded"
         /\ RecordFails(e) => executed[e].at = "logged" /\ at = "lost"
  <2>1. CASE Persist(e)
    <3>1. "metered" \in Phases /\ ~Log(e) /\ ~Record(e) /\ ~RecordFails(e)
      BY <2>1 DEF Phases, Persist, Log, Record, RecordFails
    <3> QED BY <2>1, <3>1 DEF Persist
  <2>2. CASE Log(e)
    <3>1. "logged" \in Phases /\ ~Persist(e) /\ ~Record(e) /\ ~RecordFails(e)
      BY <2>2 DEF Phases, Persist, Log, Record, RecordFails
    <3> QED BY <2>2, <3>1 DEF Log
  <2>3. CASE Record(e)
    <3>1. "recorded" \in Phases /\ ~Persist(e) /\ ~Log(e)
      BY <2>3 DEF Phases, Persist, Log, Record
    <3>2. executed[e].at = "logged" /\ executed' = [executed EXCEPT ![e].at = "recorded"]
      BY <2>3 DEF Record
    <3>3. executed'[e].at = "recorded"
      BY <1>2, <3>1, <3>2, GoesOn
    <3>4. ~RecordFails(e)
      <4>1. SUFFICES ASSUME RecordFails(e) PROVE FALSE
        OBVIOUS
      <4>2. executed' = [executed EXCEPT ![e].at = "lost"] /\ "lost" \in Phases
        BY <4>1 DEF RecordFails, Phases
      <4>3. executed'[e].at = "lost"
        BY <1>2, <4>2, GoesOn
      <4> QED BY <3>3, <4>3
    <3> QED BY <3>1, <3>2, <3>4
  <2>4. CASE RecordFails(e)
    <3>1. "lost" \in Phases /\ ~Persist(e) /\ ~Log(e)
      BY <2>4 DEF Phases, Persist, Log, RecordFails
    <3>2. executed[e].at = "logged" /\ executed' = [executed EXCEPT ![e].at = "lost"]
      BY <2>4 DEF RecordFails
    <3>3. executed'[e].at = "lost"
      BY <1>2, <3>1, <3>2, GoesOn
    <3>4. ~Record(e)
      <4>1. SUFFICES ASSUME Record(e) PROVE FALSE
        OBVIOUS
      <4>2. executed' = [executed EXCEPT ![e].at = "recorded"] /\ "recorded" \in Phases
        BY <4>1 DEF Record, Phases
      <4>3. executed'[e].at = "recorded"
        BY <1>2, <4>2, GoesOn
      <4> QED BY <3>3, <4>3
    <3> QED BY <3>1, <3>2, <3>4
  <2> QED BY <2>1, <2>2, <2>3, <2>4
<1>7. /\ executed' \in [Executions -> Execution]
      /\ executed'[e].at = at
      /\ executed'[e].model = executed[e].model
      /\ \A f \in Executions \ {e} : executed'[f] = executed[f]
  BY <1>2, <1>6, GoesOn
<1> QED BY <1>2, <1>4, <1>5, <1>6, <1>7

\* One that goes on was begun before: nothing more is made.
LEMMA MadeStays ==
  ASSUME IInv, TypeOK', NEW e \in Executions,
         Persist(e) \/ Log(e) \/ Record(e) \/ RecordFails(e)
  PROVE  /\ \A m \in Models : Made(m)' = Made(m)
         /\ AllMade' = AllMade /\ Known' = Known /\ PastOK'
<1>1. TypeOK /\ PastOK
  BY DEF IInv
<1>2. /\ UNCHANGED past
      /\ executed \in [Executions -> Execution] /\ executed' \in [Executions -> Execution]
      /\ executed'[e].model = executed[e].model
      /\ \A f \in Executions \ {e} : executed'[f] = executed[f]
      /\ executed[e].at \in Begun /\ executed'[e].at \in Begun
  BY GoingOn DEF Begun
<1>3. \A m \in Models :
         NOf(executed', Begun, m) = NOf(executed, Begun, m)
                                    - One(executed[e].at \in Begun /\ executed[e].model = m)
                                    + One(executed'[e].at \in Begun /\ executed'[e].model = m)
  BY <1>2, OneGoesOn
<1>4. ASSUME NEW m \in Models PROVE NOf(executed', Begun, m) = NOf(executed, Begun, m)
  <2>1. NOf(executed, Begun, m) \in Nat
    BY CountType
  <2>2. CASE executed[e].model = m
    BY <1>2, <1>3, <2>1, <2>2 DEF One
  <2>3. CASE executed[e].model # m
    BY <1>2, <1>3, <2>1, <2>3 DEF One
  <2> QED BY <2>2, <2>3
<1>5. \A m \in Models : Made(m)' = Made(m)
  BY <1>1, <1>2, <1>4, MadeIs, MadeIsNext DEF MadeBy
<1>6. [m \in Models |-> Made(m)]' = [m \in Models |-> Made(m)]
  BY <1>5
<1> QED BY <1>1, <1>2, <1>5, <1>6 DEF AllMade, Known, PastOK

LEMMA ExecuteKeeps == ASSUME IInv, NEW e \in Executions, Execute(e) PROVE IInv'
<1>1. TypeOK /\ PastOK /\ Seeding /\ Marked /\ Over /\ Flow /\ OfModel
  BY DEF IInv
<1>2. TypeOK'
  BY <1>1, ExecutionType
<1>3. /\ UNCHANGED <<usage, perModel, mark, log, logged, metrics, process, past>>
      /\ process.at = "serving" /\ executed[e].at = "no"
  BY DEF Execute, database, files
<1>4. PICK row \in Rows, m \in Models :
         executed' = [executed EXCEPT ![e] = [at |-> "answered", row |-> row, model |-> m]]
  BY DEF Execute
<1>5. executed \in [Executions -> Execution] /\ executed' \in [Executions -> Execution]
  BY <1>1, <1>2 DEF TypeOK, Execution
<1>6. /\ executed'[e].at = "answered" /\ executed'[e].model = m
      /\ \A f \in Executions \ {e} : executed'[f] = executed[f]
  BY <1>4, <1>5
<1>7. U' = U /\ (HasUsage' <=> HasUsage) /\ \A x \in Models : UOf(x)' = UOf(x)
  BY <1>3, UStill
<1>8. Seeding' /\ Flow'
  BY <1>1, <1>3, <1>7, ServingKeeps
<1>9. Known' = Known /\ PastOK'
  BY <1>1, <1>3 DEF Known, PastOK
<1>10. ASSUME NEW P, "no" \notin P
       PROVE  /\ N(executed', P) = N(executed, P) + One("answered" \in P)
              /\ \A x \in Models :
                    NOf(executed', P, x) = NOf(executed, P, x) + One("answered" \in P /\ x = m)
  <2>1. /\ N(executed', P) = N(executed, P) - One(executed[e].at \in P) + One(executed'[e].at \in P)
        /\ \A x \in Models :
              NOf(executed', P, x) = NOf(executed, P, x)
                                     - One(executed[e].at \in P /\ executed[e].model = x)
                                     + One(executed'[e].at \in P /\ executed'[e].model = x)
    BY <1>5, <1>6, OneGoesOn
  <2> QED BY <1>3, <1>6, <1>10, <2>1, CountType DEF One
<1>11. Marked'
  <2>1. N(executed', {"recorded"}) = N(executed, {"recorded"})
    BY <1>10, CountType DEF One
  <2> QED BY <1>1, <1>3, <1>7, <1>9, <2>1 DEF Marked
<1>12. \A x \in Models : Made(x)' = Made(x) + (IF x = m THEN 1 ELSE 0)
  <2>1. \A x \in Models : NOf(executed', Begun, x) = NOf(executed, Begun, x) + (IF x = m THEN 1 ELSE 0)
    BY <1>10 DEF One, Begun
  <2>2. \A x \in Models : NOf(executed, Begun, x) \in Nat /\ past.made[x] \in Nat
    BY <1>1, CountType DEF PastOK
  <2> QED BY <1>1, <1>2, <1>3, <2>1, <2>2, MadeIs, MadeIsNext DEF MadeBy
<1>13. \A x \in Models : Made(x) \in Nat
  BY <1>1, MadeType
<1>14. Over'
  <2> DEFINE f == [x \in Models |-> Made(x)]
             g == [x \in Models |-> Made(x)']
  <2>1. f \in [Models -> Nat] /\ g \in [Models -> Nat]
    BY <1>12, <1>13
  <2>2. g[m] = f[m] + 1 /\ \A x \in Models \ {m} : g[x] = f[x]
    BY <1>12, <1>13
  <2>3. AllMade = Total(f) /\ AllMade' = Total(g)
    BY DEF AllMade, Total
  <2> HIDE DEF f, g
  <2>4. AllMade' = AllMade + 1
    BY <2>1, <2>2, <2>3, TotalGrows
  <2>5. N(executed', Unrecorded) = N(executed, Unrecorded) + 1
    BY <1>10 DEF One, Unrecorded, InFlight
  <2>6. U \in Nat /\ AllMade \in Nat /\ N(executed, Unrecorded) \in Nat
    BY <1>1, UType, AllMadeType, CountType
  <2> QED BY <1>1, <1>7, <2>4, <2>5, <2>6 DEF Over
<1>15. OfModel'
  <2> SUFFICES ASSUME NEW x \in Models
               PROVE  /\ metrics'[x] + NOf(executed', {"answered"}, x) <= Made(x)'
                      /\ log'[x] + NOf(executed', {"answered", "metered"}, x) <= Made(x)'
                      /\ UOf(x)' + NOf(executed', InFlight, x) <= Made(x)'
                      /\ x \in process'.models \ process'.delta => UOf(x)' = 0
                      /\ x \in process'.delta => UOf(x)' = log'[x]
    BY DEF OfModel
  <2>1. /\ NOf(executed', {"answered"}, x)
             = NOf(executed, {"answered"}, x) + (IF x = m THEN 1 ELSE 0)
        /\ NOf(executed', {"answered", "metered"}, x)
             = NOf(executed, {"answered", "metered"}, x) + (IF x = m THEN 1 ELSE 0)
        /\ NOf(executed', InFlight, x)
             = NOf(executed, InFlight, x) + (IF x = m THEN 1 ELSE 0)
    BY <1>10 DEF One, InFlight
  <2>2. /\ NOf(executed, {"answered"}, x) \in Nat
        /\ NOf(executed, {"answered", "metered"}, x) \in Nat
        /\ NOf(executed, InFlight, x) \in Nat
        /\ UOf(x) \in Nat /\ log[x] \in Nat /\ metrics[x] \in Nat
    BY <1>1, UType, CountType DEF TypeOK
  <2> QED BY <1>1, <1>3, <1>7, <1>12, <1>13, <2>1, <2>2 DEF OfModel
<1> QED BY <1>2, <1>8, <1>9, <1>11, <1>14, <1>15 DEF IInv

\* The counts of one phase after the other, as an execution passes.
LEMMA Passing ==
  ASSUME IInv, NEW e \in Executions, Persist(e) \/ Log(e) \/ Record(e) \/ RecordFails(e),
         NEW P, NEW m \in Models
  PROVE  LET a == IF executed[e].at \in P THEN 1 ELSE 0
             b == IF executed'[e].at \in P THEN 1 ELSE 0
         IN  /\ N(executed', P) = N(executed, P) - a + b
             /\ NOf(executed', P, m) = IF m = executed[e].model
                                       THEN NOf(executed, P, m) - a + b
                                       ELSE NOf(executed, P, m)
<1>1. /\ executed \in [Executions -> Execution] /\ executed' \in [Executions -> Execution]
      /\ executed'[e].model = executed[e].model
      /\ \A f \in Executions \ {e} : executed'[f] = executed[f]
  BY GoingOn
<1>2. N(executed, P) \in Nat /\ NOf(executed, P, m) \in Nat
  BY CountType
<1>3. N(executed', P) = N(executed, P) - One(executed[e].at \in P) + One(executed'[e].at \in P)
  BY <1>1, OneGoesOn
<1>4. NOf(executed', P, m) = NOf(executed, P, m)
                             - One(executed[e].at \in P /\ executed[e].model = m)
                             + One(executed'[e].at \in P /\ executed'[e].model = m)
  BY <1>1, OneGoesOn
<1>5. CASE m = executed[e].model
  BY <1>1, <1>2, <1>3, <1>4, <1>5 DEF One
<1>6. CASE m # executed[e].model
  BY <1>1, <1>2, <1>3, <1>4, <1>6 DEF One
<1> QED BY <1>5, <1>6

LEMMA ExecutionKeeps ==
  ASSUME IInv, NEW e \in Executions, Persist(e) \/ Log(e) \/ Record(e) \/ RecordFails(e)
  PROVE  IInv'
<1>1. TypeOK /\ PastOK /\ Seeding /\ Marked /\ Over /\ Flow /\ OfModel
  BY DEF IInv
<1>2. TypeOK'
  BY <1>1, ExecutionType
<1>3. /\ process.at = "serving" /\ UNCHANGED <<process, mark, past>>
      /\ executed[e].model \in Models
      /\ Persist(e) => executed[e].at = "answered" /\ executed'[e].at = "metered"
      /\ Log(e) => executed[e].at = "metered" /\ executed'[e].at = "logged"
      /\ Record(e) => executed[e].at = "logged" /\ executed'[e].at = "recorded"
      /\ RecordFails(e) => executed[e].at = "logged" /\ executed'[e].at = "lost"
  BY GoingOn
<1>4. /\ \A m \in Models : Made(m)' = Made(m)
      /\ AllMade' = AllMade /\ Known' = Known /\ PastOK'
  BY <1>2, MadeStays
<1> DEFINE rows == IF Record(e) THEN 1 ELSE 0
<1>5. /\ U' = U + rows /\ (HasUsage => HasUsage')
      /\ \A m \in Models : UOf(m)' = IF m = executed[e].model THEN UOf(m) + rows ELSE UOf(m)
  <2>1. U \in Nat /\ \A m \in Models : UOf(m) \in Nat
    BY <1>1, UType
  <2>2. CASE Record(e)
    <3>1. executed[e].row \in Rows
      BY <1>1 DEF TypeOK
    <3>2. PICK month \in Months : /\ UpsertUsage(executed[e].row, month, 1)
                                  /\ UpsertModel(executed[e].row, executed[e].model, month, 1)
      BY <2>2 DEF Record
    <3>3. U' = U + 1 /\ (HasUsage => HasUsage')
      BY <1>1, <3>1, <3>2, UpsertUsageAdds
    <3>4. PICK m0 \in Models : m0 = executed[e].model
      BY <1>3
    <3>5. UpsertModel(executed[e].row, m0, month, 1)
      BY <3>2, <3>4
    <3>6. UOf(m0)' = UOf(m0) + 1 /\ \A m \in Models \ {m0} : UOf(m)' = UOf(m)
      BY <1>1, <3>1, <3>5, UpsertModelAdds
    <3> QED BY <2>2, <3>3, <3>4, <3>6
  <2>3. CASE ~Record(e)
    <3>1. UNCHANGED <<usage, perModel>>
      BY <2>3 DEF Persist, Log, RecordFails, database
    <3>2. U' = U /\ (HasUsage => HasUsage') /\ \A m \in Models : UOf(m)' = UOf(m)
      BY <3>1, UStill
    <3> QED BY <2>1, <2>3, <3>2
  <2> QED BY <2>2, <2>3
<1>6. Seeding' /\ Flow'
  BY <1>1, <1>3, <1>5, ServingKeeps
<1>7. Models # {}
  BY <1>3
<1>8. /\ U \in Nat /\ AllMade \in Nat /\ Known \in Nat
      /\ \A P : N(executed, P) \in Nat /\ \A m \in Models : NOf(executed, P, m) \in Nat
      /\ \A m \in Models : UOf(m) \in Nat /\ Made(m) \in Nat
                           /\ log[m] \in Nat /\ metrics[m] \in Nat
  BY <1>1, UType, AllMadeType, PastMade, MadeType, CountType DEF TypeOK
<1>9. /\ metrics' = IF Persist(e) THEN [metrics EXCEPT ![executed[e].model] = @ + 1] ELSE metrics
      /\ log' = IF Log(e) THEN [log EXCEPT ![executed[e].model] = @ + 1] ELSE log
  <2>1. CASE Persist(e)
    BY <1>3, <2>1 DEF Persist, Log
  <2>2. CASE Log(e)
    BY <1>3, <2>2 DEF Persist, Log
  <2>3. CASE Record(e)
    BY <1>3, <2>3 DEF Persist, Log, Record, files
  <2>4. CASE RecordFails(e)
    BY <1>3, <2>4 DEF Persist, Log, RecordFails, files
  <2> QED BY <2>1, <2>2, <2>3, <2>4
<1>10. \A m \in Models :
          /\ metrics'[m] = IF Persist(e) /\ m = executed[e].model THEN metrics[m] + 1 ELSE metrics[m]
          /\ log'[m] = IF Log(e) /\ m = executed[e].model THEN log[m] + 1 ELSE log[m]
  BY <1>1, <1>9 DEF TypeOK
<1> DEFINE a(P) == IF executed[e].at \in P THEN 1 ELSE 0
           b(P) == IF executed'[e].at \in P THEN 1 ELSE 0
<1>11. \A P : N(executed', P) = N(executed, P) - a(P) + b(P)
  BY <1>7, Passing
<1>12. Marked'
  <2>1. b({"recorded"}) - a({"recorded"}) = rows
    BY <1>3
  <2>2. N(executed', {"recorded"}) = N(executed, {"recorded"}) + rows
    BY <1>8, <1>11, <2>1
  <2> QED BY <1>1, <1>3, <1>4, <1>5, <1>8, <2>2 DEF Marked
<1>13. Over'
  <2>1. b(Unrecorded) - a(Unrecorded) = 0 - rows
    BY <1>3 DEF Unrecorded, InFlight
  <2>2. N(executed', Unrecorded) = N(executed, Unrecorded) - rows
    BY <1>8, <1>11, <2>1
  <2> QED BY <1>1, <1>4, <1>5, <1>8, <2>2 DEF Over
<1>14. OfModel'
  <2> SUFFICES ASSUME NEW m \in Models
               PROVE  /\ metrics'[m] + NOf(executed', {"answered"}, m) <= Made(m)'
                      /\ log'[m] + NOf(executed', {"answered", "metered"}, m) <= Made(m)'
                      /\ UOf(m)' + NOf(executed', InFlight, m) <= Made(m)'
                      /\ m \in process'.models \ process'.delta => UOf(m)' = 0
                      /\ m \in process'.delta => UOf(m)' = log'[m]
    BY DEF OfModel
  <2>1. process'.models = {} /\ process'.delta = {}
    BY <1>1, <1>3 DEF Flow
  <2>2. /\ metrics[m] + NOf(executed, {"answered"}, m) <= Made(m)
        /\ log[m] + NOf(executed, {"answered", "metered"}, m) <= Made(m)
        /\ UOf(m) + NOf(executed, InFlight, m) <= Made(m)
    BY <1>1 DEF OfModel
  <2>3. CASE m # executed[e].model
    <3>1. \A P : NOf(executed', P, m) = NOf(executed, P, m)
      BY <2>3, Passing
    <3> QED BY <1>4, <1>5, <1>10, <2>1, <2>2, <2>3, <3>1
  <2>4. CASE m = executed[e].model
    <3>1. \A P : NOf(executed', P, m) = NOf(executed, P, m) - a(P) + b(P)
      BY <2>4, Passing
    <3>2. /\ metrics'[m] - metrics[m] + b({"answered"}) - a({"answered"}) <= 0
          /\ log'[m] - log[m] + b({"answered", "metered"}) - a({"answered", "metered"}) <= 0
          /\ rows + b(InFlight) - a(InFlight) <= 0
      <4>1. metrics[m] \in Nat /\ log[m] \in Nat
        BY <1>8
      <4>2. CASE Persist(e)
        <5>1. metrics'[m] = metrics[m] + 1 /\ log'[m] = log[m] /\ ~Record(e)
          BY <1>3, <1>10, <2>4, <4>2
        <5> QED BY <1>3, <4>1, <4>2, <5>1 DEF InFlight
      <4>3. CASE Log(e)
        <5>1. metrics'[m] = metrics[m] /\ log'[m] = log[m] + 1 /\ ~Record(e)
          BY <1>3, <1>10, <2>4, <4>3
        <5> QED BY <1>3, <4>1, <4>3, <5>1 DEF InFlight
      <4>4. CASE Record(e)
        <5>1. metrics'[m] = metrics[m] /\ log'[m] = log[m]
          BY <1>3, <1>10, <4>4
        <5> QED BY <1>3, <4>1, <4>4, <5>1 DEF InFlight
      <4>5. CASE RecordFails(e)
        <5>1. metrics'[m] = metrics[m] /\ log'[m] = log[m] /\ ~Record(e)
          BY <1>3, <1>10, <4>5
        <5> QED BY <1>3, <4>1, <4>5, <5>1 DEF InFlight
      <4> QED BY <4>2, <4>3, <4>4, <4>5
    <3>3. /\ metrics'[m] \in Nat /\ log'[m] \in Nat /\ rows \in Nat
          /\ \A P : a(P) \in Nat /\ b(P) \in Nat
      BY <1>8, <1>10
    <3>4. UOf(m)' = UOf(m) + rows
      BY <1>5, <2>4
    <3> DEFINE P1 == {"answered"}
               P2 == {"answered", "metered"}
    <3>5. /\ NOf(executed', P1, m) = NOf(executed, P1, m) - a(P1) + b(P1)
          /\ NOf(executed', P2, m) = NOf(executed, P2, m) - a(P2) + b(P2)
          /\ NOf(executed', InFlight, m) = NOf(executed, InFlight, m) - a(InFlight) + b(InFlight)
      BY <3>1
    <3>6. /\ NOf(executed, P1, m) \in Nat /\ NOf(executed, P2, m) \in Nat
          /\ NOf(executed, InFlight, m) \in Nat
          /\ a(P1) \in Nat /\ b(P1) \in Nat /\ a(P2) \in Nat /\ b(P2) \in Nat
          /\ a(InFlight) \in Nat /\ b(InFlight) \in Nat
      BY <1>8, <3>3
    <3>7. /\ metrics'[m] - metrics[m] + b(P1) - a(P1) <= 0
          /\ log'[m] - log[m] + b(P2) - a(P2) <= 0
          /\ rows + b(InFlight) - a(InFlight) <= 0
      BY <3>2
    <3>8. /\ metrics[m] + NOf(executed, P1, m) <= Made(m)
          /\ log[m] + NOf(executed, P2, m) <= Made(m)
          /\ UOf(m) + NOf(executed, InFlight, m) <= Made(m)
      BY <2>2
    <3>9. /\ UOf(m) \in Nat /\ Made(m) \in Nat /\ log[m] \in Nat /\ metrics[m] \in Nat
          /\ metrics'[m] \in Nat /\ log'[m] \in Nat /\ rows \in Nat /\ Made(m)' = Made(m)
      BY <1>4, <1>8, <3>3
    <3> HIDE DEF a, b, rows, P1, P2
    <3>10. /\ metrics'[m] + NOf(executed', P1, m) <= Made(m)'
           /\ log'[m] + NOf(executed', P2, m) <= Made(m)'
           /\ UOf(m)' + NOf(executed', InFlight, m) <= Made(m)'
      BY <3>4, <3>5, <3>6, <3>7, <3>8, <3>9
    <3> QED BY <2>1, <3>10 DEF P1, P2
  <2> QED BY <2>3, <2>4
<1> QED BY <1>2, <1>4, <1>6, <1>12, <1>13, <1>14 DEF IInv

---------------------------------------------------------------------------
(* The world.                                                               *)

LEMMA DiesKeeps == ASSUME IInv, Dies PROVE IInv'
<1>1. TypeOK /\ PastOK /\ Seeding /\ Marked /\ Over /\ Flow /\ OfModel
  BY DEF IInv
<1>2. TypeOK'
  BY <1>1, WorldType
<1>3. /\ UNCHANGED <<usage, perModel, mark, log, logged, metrics, past>>
      /\ process' = Down
      /\ executed' = [e \in Executions |->
                        IF executed[e].at \in {"answered", "metered", "logged"}
                        THEN [executed[e] EXCEPT !.at = "lost"] ELSE executed[e]]
  BY DEF Dies, database, files
<1>4. executed \in [Executions -> Execution]
  BY <1>1 DEF TypeOK, Execution
<1>5. ASSUME NEW e \in Executions
      PROVE  /\ executed'[e].model = executed[e].model
             /\ executed'[e].at = IF executed[e].at \in InFlight THEN "lost" ELSE executed[e].at
  <2>1. executed[e] \in Execution
    BY <1>4
  <2>2. executed'[e] = IF executed[e].at \in InFlight
                       THEN [executed[e] EXCEPT !.at = "lost"] ELSE executed[e]
    BY <1>3 DEF InFlight
  <2> QED BY <2>1, <2>2 DEF Execution
<1>6. \A P \in {Begun, Unrecorded, {"recorded"}} :
         \A e \in Executions : executed[e].at \in P <=> executed'[e].at \in P
  BY <1>5 DEF Begun, Unrecorded, InFlight
<1>7. \A P \in {Begun, Unrecorded, {"recorded"}} :
         N(executed', P) = N(executed, P)
         /\ \A m \in Models : NOf(executed', P, m) = NOf(executed, P, m)
  BY <1>5, <1>6, SameIn
<1>8. \A e \in Executions : executed'[e].at \notin InFlight
  BY <1>5 DEF InFlight
<1>9. \A P \in {{"answered"}, {"answered", "metered"}, InFlight} : \A m \in Models :
         NOf(executed', P, m) = 0
  BY <1>8, NoneIn DEF InFlight
<1>10. U' = U /\ (HasUsage' <=> HasUsage) /\ \A m \in Models : UOf(m)' = UOf(m)
  BY <1>3, UStill
<1>11. \A m \in Models : Made(m)' = Made(m)
  BY <1>1, <1>2, <1>3, <1>7, MadeIs, MadeIsNext DEF MadeBy
<1>12. AllMade' = AllMade /\ Known' = Known /\ PastOK'
  <2>1. [m \in Models |-> Made(m)]' = [m \in Models |-> Made(m)]
    BY <1>11
  <2> QED BY <1>1, <1>3, <2>1 DEF AllMade, Known, PastOK
<1>13. Untouched => Untouched'
  BY <1>3, <1>5 DEF Untouched, InFlight
<1>14. process'.at = "down" /\ ~process'.usage /\ process'.models = {} /\ process'.delta = {}
  BY <1>3 DEF Down
<1>15. Seeding'
  BY <1>1, <1>3, <1>10, <1>13, <1>14 DEF Seeding
<1>16. Marked' /\ Over'
  BY <1>1, <1>3, <1>7, <1>10, <1>12 DEF Marked, Over
<1>17. Flow'
  BY <1>8, <1>14 DEF Flow
<1>18. OfModel'
  <2>1. \A P : \A m \in Models : NOf(executed, P, m) \in Nat
    BY CountType
  <2>2. \A m \in Models : UOf(m) \in Nat /\ Made(m) \in Nat /\ log[m] \in Nat /\ metrics[m] \in Nat
    BY <1>1, UType, MadeType DEF TypeOK
  <2> QED BY <1>1, <1>3, <1>9, <1>10, <1>11, <1>14, <2>1, <2>2 DEF OfModel
<1> QED BY <1>2, <1>12, <1>15, <1>16, <1>17, <1>18 DEF IInv

\* A full log is emptied; the totals are what they were, and nothing reads the
\* log before the next start.
LEMMA RotateKeeps == ASSUME IInv, Rotate PROVE IInv'
<1>1. TypeOK /\ PastOK /\ Seeding /\ Marked /\ Over /\ Flow /\ OfModel
  BY DEF IInv
<1>2. TypeOK'
  BY <1>1, WorldType
<1>3. /\ UNCHANGED <<usage, perModel, mark, metrics, process, executed, past>>
      /\ process.at = "serving" /\ log' = [m \in Models |-> 0]
  BY DEF Rotate, database
<1>4. U' = U /\ (HasUsage' <=> HasUsage) /\ \A m \in Models : UOf(m)' = UOf(m)
  BY <1>3, UStill
<1>5. /\ \A m \in Models : Made(m)' = Made(m)
      /\ AllMade' = AllMade /\ Known' = Known /\ PastOK'
  BY <1>1, <1>3, NoneGoesOn
<1>6. Seeding' /\ Flow'
  BY <1>1, <1>3, <1>4, ServingKeeps
<1>7. Marked' /\ Over'
  BY <1>1, <1>3, <1>4, <1>5 DEF Marked, Over
<1>8. OfModel'
  <2>1. \A P : \A m \in Models : NOf(executed, P, m) \in Nat
    BY CountType
  <2>2. \A m \in Models : Made(m) \in Nat /\ log[m] \in Nat
    BY <1>1, MadeType DEF TypeOK
  <2>3. process.models = {} /\ process.delta = {}
    BY <1>1, <1>3 DEF Flow
  <2> QED BY <1>1, <1>3, <1>4, <1>5, <2>1, <2>2, <2>3 DEF OfModel
<1> QED BY <1>2, <1>5, <1>6, <1>7, <1>8 DEF IInv

\* A month passes, or nothing happens.
LEMMA NothingKeeps ==
  ASSUME IInv, TypeOK', UNCHANGED <<database, files, process, executed, past>> PROVE IInv'
<1>1. PastOK /\ Seeding /\ Marked /\ Over /\ Flow /\ OfModel
  BY DEF IInv
<1>2. UNCHANGED <<usage, perModel, mark, log, metrics, process, executed, past>>
  BY DEF database, files
<1>3. U' = U /\ (HasUsage' <=> HasUsage) /\ \A m \in Models : UOf(m)' = UOf(m)
  BY <1>2, UStill
<1>4. /\ \A m \in Models : Made(m)' = Made(m)
      /\ AllMade' = AllMade /\ Known' = Known /\ PastOK'
  BY <1>1, <1>2, NoneGoesOn
<1>5. Untouched' <=> Untouched
  BY <1>2 DEF Untouched
<1>6. FromLog' = FromLog
  BY <1>2 DEF FromLog
<1>7. Seeding'
  BY <1>1, <1>2, <1>3, <1>4, <1>5, <1>6 DEF Seeding
<1>8. Marked' /\ Over' /\ Flow'
  BY <1>1, <1>2, <1>3, <1>4 DEF Marked, Over, Flow
<1>9. OfModel'
  BY <1>1, <1>2, <1>3, <1>4 DEF OfModel
<1> QED BY <1>4, <1>7, <1>8, <1>9 DEF IInv

---------------------------------------------------------------------------
(* The theorems.                                                            *)

LEMMA Initially == ASSUME Init PROVE IInv
<1>1. TypeOK
  BY TypeInitially
<1>2. PastOK
  BY UsageAssumption DEF Init, PastOK, UsageAssumption
<1>3. ~mark /\ process = Down /\ Untouched
  BY DEF Init, Untouched
<1>4. ~HasUsage /\ ~HasModelUsage
  BY DEF Init, HasUsage, HasModelUsage
<1>5. \A m \in Models : UOf(m) = 0
  BY <1>1, <1>4, UZero
<1>6. U = 0
  BY <1>1, <1>4, UZero
<1>7. N(executed, Unrecorded) = 0 /\ AllMade \in Nat
  BY <1>1, <1>2, <1>3, UntouchedCounts, AllMadeType
<1>8. \A e \in Executions : executed[e].at \notin InFlight
  BY <1>3 DEF Untouched, InFlight
<1>9. \A P \in {{"answered"}, {"answered", "metered"}, InFlight} : \A m \in Models :
         NOf(executed, P, m) = 0
  BY <1>8, NoneIn DEF InFlight
<1>10. \A m \in Models : /\ Made(m) \in Nat /\ log[m] \in Nat /\ metrics[m] \in Nat
                         /\ log[m] <= Made(m) /\ metrics[m] <= Made(m)
  <2>1. \A m \in Models : Made(m) = past.made[m] + NOf(executed, Begun, m)
    BY <1>1, MadeIs DEF MadeBy
  <2>2. \A m \in Models : NOf(executed, Begun, m) \in Nat
    BY CountType
  <2> QED BY <1>2, <1>3, <2>1, <2>2 DEF PastOK, Untouched
<1>11. OfModel
  BY <1>3, <1>5, <1>9, <1>10 DEF OfModel, Down
<1>12. Seeding
  BY <1>3 DEF Seeding, Down
<1>13. Flow
  BY <1>3, <1>8 DEF Flow, Down
<1> QED BY <1>1, <1>2, <1>3, <1>6, <1>7, <1>11, <1>12, <1>13 DEF IInv, Marked, Over

LEMMA EveryStepKeeps == ASSUME IInv, [Next]_vars PROVE IInv'
<1>1. TypeOK'
  BY TypeNext DEF IInv
<1>2. CASE UNCHANGED vars
  BY <1>1, <1>2, NothingKeeps DEF vars, database, files
<1>3. CASE NextMonth
  BY <1>1, <1>3, NothingKeeps DEF NextMonth
<1> QED BY <1>2, <1>3, StepCases, StartKeeps, SeedLogKeeps, SeedDeltaKeeps, SeededKeeps,
           SeedModelKeeps, ExecuteKeeps, ExecutionKeeps, DiesKeeps, RotateKeeps

LEMMA Invariant == Spec => []IInv
BY Initially, EveryStepKeeps, PTL DEF Spec

\* However often the process dies while it seeds or records, and whatever the
\* files hold, the rows report no more calls than were made, in total and of
\* each model.
THEOREM NothingCountedTwice == Spec => []NeverOvercounted
<1>1. IInv => NeverOvercounted
  <2> SUFFICES ASSUME IInv PROVE NeverOvercounted
    OBVIOUS
  <2>1. TypeOK /\ PastOK /\ Over /\ OfModel
    BY DEF IInv
  <2>2. /\ U \in Nat /\ AllMade \in Nat /\ N(executed, Unrecorded) \in Nat
        /\ \A m \in Models : UOf(m) \in Nat /\ Made(m) \in Nat
                             /\ NOf(executed, InFlight, m) \in Nat
    BY <2>1, UType, AllMadeType, MadeType, CountType
  <2>3. U <= AllMade /\ \A m \in Models : UOf(m) <= Made(m)
    BY <2>1, <2>2 DEF Over, OfModel
  <2> QED BY <2>3 DEF NeverOvercounted, U, UOf, AllMade
<1> QED BY <1>1, Invariant, PTL

\* Where the mark is set, the rows hold all that log and metrics knew when the
\* database was made, and every execution recorded since.
THEOREM MarkMeansComplete == Spec => []MarkedIsComplete
<1>1. IInv => MarkedIsComplete
  <2> SUFFICES ASSUME IInv, mark
               PROVE  InTotal(Lifetime) =
                        Max({Total(past.log), Total(past.metrics)})
                        + Cardinality({e \in Executions : executed[e].at = "recorded"})
    BY DEF MarkedIsComplete
  <2>1. U = Known + N(executed, {"recorded"})
    BY DEF IInv, Marked
  <2>2. {e \in Executions : executed[e].at \in {"recorded"}}
        = {e \in Executions : executed[e].at = "recorded"}
    OBVIOUS
  <2> QED BY <2>1, <2>2 DEF U, Known, N
<1> QED BY <1>1, Invariant, PTL
=============================================================================
