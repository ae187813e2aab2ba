----------------------------- MODULE CostFigures -----------------------------
(* The cost report, the fleet report, the dashboard's month to date, the expense *)
(* list with its summary and the exported lines: readings of one expense table   *)
(* and one odometer history.                                                    *)
EXTENDS Sequences, FiniteSets, FiniteSetsExt, Sums

CONSTANTS
  Fleet,        \* vehicles of the workspace
  Costs,        \* expenses: [amount, currency, day, car, category]
  Clocks,       \* odometer entries: [car, day, metres, fix]
  MaxCosts,     \* bound on the expenses kept at once
  MaxClocks,    \* bound on the odometer entries
  LastDate,     \* bound on the dates
  MonthDays,    \* days of a calendar month
  YearFloor,    \* MIN_DAYS_TO_ANNUALISE
  NoCar,        \* a cost of the whole workspace; and the report over all vehicles
  NoResult      \* a figure that is withheld

Dates == 0 .. LastDate

ASSUME CostConstants ==
  /\ Costs \subseteq [amount : Nat, currency : STRING, day : Dates, car : Fleet \cup {NoCar},
                      category : STRING]
  /\ Clocks \subseteq [car : Fleet, day : Dates, metres : Nat, fix : BOOLEAN]
  /\ IsFiniteSet(Fleet) /\ NoCar \notin Fleet /\ NoResult \notin Int
  /\ MonthDays \in Nat \ {0} /\ {MaxCosts, MaxClocks, LastDate, YearFloor} \subseteq Nat

VARIABLES
  spent,    \* expenses that are not removed
  clocked,  \* odometer_entries
  hidden    \* vehicles that are soft-deleted

costVars == <<spent, clocked, hidden>>

-----------------------------------------------------------------------------
(* What the queries return.                                                    *)

Period(from, to) == {d \in Dates : from <= d /\ d <= to}
Month(d) == d \div MonthDays

\* A hidden vehicle's costs leave the totals with it; the workspace's own do not.
\* With car = NoCar the report is over all vehicles.
SpendIn(days, car) ==
  {i \in DOMAIN spent :
     /\ spent[i].day \in days /\ spent[i].car \notin hidden
     /\ car # NoCar => spent[i].car = car}

\* A correction restates a reading: it is not travel.
ClockedIn(days, cars) == {c \in clocked : c.day \in days /\ c.car \in cars \ hidden /\ ~c.fix}

\* The list and the exported file have the report's where clause.
ExpenseList(days, car) == SpendIn(days, car)
ExportedExpenses(days, car) == SpendIn(days, car)

-----------------------------------------------------------------------------
(* The report engine.                                                          *)

Total(S) == SumOf([i \in S |-> spent[i].amount])
Currencies(S) == {spent[i].currency : i \in S}
Mixed(S) == Cardinality(Currencies(S)) > 1

\* A table over keys: what was spent under each.
Table(S, KeyOf(_)) == [k \in {KeyOf(spent[i]) : i \in S} |-> Total({i \in S : KeyOf(spent[i]) = k})]
ByCategory(S) == Table(S, LAMBDA e : e.category)
ByVehicle(S) == Table(S, LAMBDA e : e.car)
ByMonth(S, days) ==
  [k \in {Month(d) : d \in days} |-> Total({i \in S : Month(spent[i].day) = k})]

Span(S) == Max({c.metres : c \in S}) - Min({c.metres : c \in S})
OfCar(S, car) == {c \in S : c.car = car}
CarsWithTwo(S) == {car \in Fleet : Cardinality(OfCar(S, car)) >= 2}

\* The mutant takes the ends of all the readings together.
DistanceAsOneHistory(S) ==
  IF CarsWithTwo(S) = {} \/ Span(S) = 0 THEN NoResult ELSE Span(S)
\* Vehicle by vehicle: their odometers are unrelated numbers.
DistanceCovered(S) ==
  LET total == SumOf([car \in CarsWithTwo(S) |-> Span(OfCar(S, car))])
  IN IF total = 0 THEN NoResult ELSE total

CostPerDistance(S, metres) == IF Mixed(S) THEN NoResult ELSE metres
CostPerYear(S, days) == IF Mixed(S) \/ Cardinality(days) < YearFloor THEN NoResult ELSE Total(S)

CostReport(days, car) ==
  LET S == SpendIn(days, car)
      cars == IF car = NoCar THEN Fleet ELSE {car}
      metres == DistanceCovered(ClockedIn(days, cars))
  IN [total |-> Total(S), byCategory |-> ByCategory(S), byVehicle |-> ByVehicle(S),
      byMonth |-> ByMonth(S, days), metres |-> metres,
      perDistance |-> CostPerDistance(S, metres), perYear |-> CostPerYear(S, days)]

-----------------------------------------------------------------------------
(* The fleet engine: the same sources, one row for each vehicle that is listed. *)

\* The mutant divides a vehicle's costs by the distance of the whole fleet.
RowOfFleet(days, car) ==
  LET all == SpendIn(days, NoCar)
      own == {i \in all : spent[i].car = car}
      metres == DistanceCovered(ClockedIn(days, Fleet))
  IN [total |-> Total(own), metres |-> metres, perDistance |-> CostPerDistance(all, metres),
      perYear |-> IF Mixed(all) THEN NoResult ELSE CostPerYear(own, days)]
Row(days, car) ==
  LET all == SpendIn(days, NoCar)
      own == {i \in all : spent[i].car = car}
      metres == DistanceCovered(OfCar(ClockedIn(days, Fleet), car))
  IN [total |-> Total(own), metres |-> metres, perDistance |-> CostPerDistance(all, metres),
      perYear |-> IF Mixed(all) THEN NoResult ELSE CostPerYear(own, days)]
FleetReport(days) ==
  LET all == SpendIn(days, NoCar) IN
  [total |-> Total(all), metres |-> DistanceCovered(ClockedIn(days, Fleet)),
   unassigned |-> Total({i \in all : spent[i].car = NoCar}),
   rows |-> [car \in Fleet \ hidden |-> Row(days, car)]]

\* The summary above the list: one pass over the rows, costs of no vehicle in a row of their own.
ExpenseSummary(days) ==
  LET S == SpendIn(days, NoCar)
  IN [total |-> Total(S), byCategory |-> ByCategory(S), byVehicle |-> ByVehicle(S), entries |-> Cardinality(S)]

\* The dashboard: nothing recorded and two currencies both give no figure.
ThisMonth(day) ==
  LET S == SpendIn({d \in Dates : Month(d) = Month(day) /\ d <= day}, NoCar)
  IN IF S = {} \/ Mixed(S) THEN NoResult ELSE Total(S)

-----------------------------------------------------------------------------
(* What happens to the tables.                                                 *)

CostInit == spent = << >> /\ clocked = {} /\ hidden = {}

Spend(e) ==
  /\ Len(spent) < MaxCosts /\ e.car \notin hidden
  /\ spent' = Append(spent, e) /\ UNCHANGED <<clocked, hidden>>
Withdraw(i) ==
  /\ spent' = SubSeq(spent, 1, i - 1) \o SubSeq(spent, i + 1, Len(spent))
  /\ UNCHANGED <<clocked, hidden>>
Clock(c) ==
  /\ c \notin clocked /\ Cardinality(clocked) < MaxClocks /\ c.car \notin hidden
  /\ clocked' = clocked \cup {c} /\ UNCHANGED <<spent, hidden>>
Hide(car) == car \notin hidden /\ hidden' = hidden \cup {car} /\ UNCHANGED <<spent, clocked>>
Unhide(car) == car \in hidden /\ hidden' = hidden \ {car} /\ UNCHANGED <<spent, clocked>>

CostNext ==
  \/ \E e \in Costs : Spend(e) \/ \E i \in DOMAIN spent : Withdraw(i)
  \/ \E c \in Clocks : Clock(c)
  \/ \E car \in Fleet : Hide(car) \/ Unhide(car)

CostSpec == CostInit /\ [][CostNext]_costVars

-----------------------------------------------------------------------------
(* What must hold.                                                             *)

Periods == {Period(a, b) : a \in Dates, b \in Dates} \ {{}}
Known(x) == IF x = NoResult THEN 0 ELSE x

\* Whatever the period, every table of a report adds up to its total, the fleet's rows with
\* the costs of no vehicle do too, and distances add up by vehicle (computeCostReport,
\* computeFleetReport: nothing is lost in a bucket and nothing is counted in two).
TablesAddUp ==
  \A days \in Periods :
    LET costs == CostReport(days, NoCar)
        fleet == FleetReport(days)
    IN /\ {SumOf(costs.byCategory), SumOf(costs.byVehicle), SumOf(costs.byMonth),
           fleet.total, fleet.unassigned + SumOf([c \in DOMAIN fleet.rows |-> fleet.rows[c].total])}
            = {costs.total}
       /\ Known(costs.metres)
            = SumOf([c \in DOMAIN fleet.rows |-> Known(fleet.rows[c].metres)])

\* A vehicle's own report and its row in the fleet table say the same, unless the fleet's
\* currencies are mixed where the vehicle's are not; the lines listed and exported make up the
\* report's total; and the dashboard's month is the report of that month.
SameFigures ==
  /\ \A days \in Periods : \A car \in Fleet \ hidden :
       LET own == CostReport(days, car)
           row == FleetReport(days).rows[car]
       IN /\ own.total = row.total /\ own.metres = row.metres
          /\ row.perDistance # NoResult => row.perDistance = own.perDistance
          /\ row.perYear # NoResult => row.perYear = own.perYear
          /\ own.total = Total(ExpenseList(days, car))
  /\ \A days \in Periods :
       LET summary == ExpenseSummary(days) IN
       /\ summary.total = FleetReport(days).total
       /\ summary.total = Total(ExportedExpenses(days, NoCar))
       /\ summary.entries = Cardinality(ExportedExpenses(days, NoCar))
  /\ \A day \in Dates :
       ThisMonth(day) # NoResult =>
         ThisMonth(day) = CostReport(Period(Month(day) * MonthDays, day), NoCar).total

\* Every figure about money and distance, on whichever page or file, is the same figure.
ReportsAgree == TablesAddUp /\ SameFigures
=============================================================================
