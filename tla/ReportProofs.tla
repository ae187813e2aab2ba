----------------------------- MODULE ReportProofs -----------------------------
(* The reports, over any history: the tables add up and every page has the same  *)
(* figures, and fuel is counted once and judged the way it went.                 *)
EXTENDS FigureProofs, CostFigures, FuelFigures

(* Costs: every table adds up to its total, and every page has the same figures.  *)

CostInv ==
  /\ spent \in Seq(Costs) /\ hidden \subseteq Fleet
  /\ clocked \subseteq Clocks /\ IsFiniteSet(clocked)

LEMMA TotalIs ==
  ASSUME CostInv, NEW S \in SUBSET DOMAIN spent
  PROVE  /\ IsFiniteSet(S) /\ IsFiniteSet(DOMAIN spent)
         /\ [i \in DOMAIN spent |-> spent[i].amount] \in [DOMAIN spent -> Int]
         /\ Total(S) = Over([i \in DOMAIN spent |-> spent[i].amount], S)
<1>1. spent \in [1..Len(spent) -> Costs] /\ DOMAIN spent = 1..Len(spent) /\ Len(spent) \in Nat
  BY DEF CostInv
<1>2. IsFiniteSet(DOMAIN spent)
  BY <1>1, FS_Interval
<1>3. \A i \in DOMAIN spent : spent[i].amount \in Int
  BY <1>1, CostConstants
<1>4. [i \in S |-> [j \in DOMAIN spent |-> spent[j].amount][i]] = [i \in S |-> spent[i].amount]
  OBVIOUS
<1> QED BY <1>2, <1>3, <1>4, FS_Subset DEF Total, Over

\* Whatever the costs are sorted by: every bucket together is the total.
LEMMA BucketsAddUp ==
  ASSUME CostInv, NEW S \in SUBSET DOMAIN spent, NEW K, IsFiniteSet(K), NEW key \in [S -> K]
  PROVE  SumOf([k \in K |-> Total({i \in S : key[i] = k})]) = Total(S)
<1> DEFINE f == [i \in DOMAIN spent |-> spent[i].amount]
           part == [k \in K |-> {i \in S : key[i] = k}]
<1>1. part \in [K -> SUBSET DOMAIN spent] /\ \A a, b \in K : a # b => part[a] \cap part[b] = {}
  OBVIOUS
<1>2. UNION {part[k] : k \in K} = S
  OBVIOUS
<1>3. IsFiniteSet(DOMAIN spent) /\ f \in [DOMAIN spent -> Int]
  BY TotalIs
<1>4. \A k \in K : Total({i \in S : key[i] = k}) = Over(f, part[k])
  BY TotalIs
<1>5. Total(S) = Over(f, S)
  BY TotalIs
<1> HIDE DEF part, f
<1>6. SumOf([k \in K |-> Over(f, part[k])]) = Over(f, S)
  BY <1>1, <1>2, <1>3, SumByParts
<1>7. [k \in K |-> Over(f, part[k])] = [k \in K |-> Total({i \in S : key[i] = k})]
  BY <1>4
<1> QED BY <1>5, <1>6, <1>7

LEMMA SpendFacts ==
  ASSUME CostInv, NEW days, NEW car
  PROVE  /\ SpendIn(days, car) \in SUBSET DOMAIN spent
         /\ IsFiniteSet(SpendIn(days, car))
         /\ \A i \in SpendIn(days, car) : /\ spent[i].day \in days
                                          /\ spent[i].car \in (Fleet \cup {NoCar}) \ hidden
<1>1. spent \in [DOMAIN spent -> Costs]
  BY DEF CostInv
<1>2. SpendIn(days, car) \in SUBSET DOMAIN spent
  BY DEF SpendIn
<1>3. ASSUME NEW i \in SpendIn(days, car)
      PROVE  spent[i].day \in days /\ spent[i].car \in (Fleet \cup {NoCar}) \ hidden
  <2>1. spent[i] \in Costs /\ spent[i].day \in days /\ spent[i].car \notin hidden
    BY <1>1, <1>3 DEF SpendIn
  <2> QED BY <2>1, CostConstants
<1> QED BY <1>2, <1>3, TotalIs

LEMMA TablesOfCosts ==
  ASSUME CostInv, NEW days \in Periods
  PROVE  /\ SumOf(CostReport(days, NoCar).byCategory) = Total(SpendIn(days, NoCar))
         /\ SumOf(CostReport(days, NoCar).byVehicle) = Total(SpendIn(days, NoCar))
         /\ SumOf(CostReport(days, NoCar).byMonth) = Total(SpendIn(days, NoCar))
<1> DEFINE S == SpendIn(days, NoCar)
<1>1. /\ S \in SUBSET DOMAIN spent /\ IsFiniteSet(S)
      /\ \A i \in S : spent[i].day \in days
  BY SpendFacts
<1>2. /\ CostReport(days, NoCar).byCategory = ByCategory(S)
      /\ CostReport(days, NoCar).byVehicle = ByVehicle(S)
      /\ CostReport(days, NoCar).byMonth = ByMonth(S, days)
  BY DEF CostReport
<1> HIDE DEF S
<1>3. ASSUME NEW key, key = [i \in S |-> key[i]]
      PROVE  SumOf([k \in {key[i] : i \in S} |-> Total({i \in S : key[i] = k})]) = Total(S)
  <2> DEFINE K == {key[i] : i \in S}
  <2>1. IsFiniteSet(K)
    <3>1. key \in Surjection(S, K)
      BY <1>3 DEF Surjection
    <3> QED BY <1>1, <3>1, FS_Surjection
  <2>2. key \in [S -> K]
    BY <1>3
  <2> HIDE DEF K
  <2>3. SumOf([k \in K |-> Total({i \in S : key[i] = k})]) = Total(S)
    BY <1>1, <2>1, <2>2, BucketsAddUp
  <2> QED BY <2>3 DEF K
<1>4. SumOf(ByCategory(S)) = Total(S)
  <2> DEFINE key == [i \in S |-> spent[i].category]
  <2>1. /\ key = [i \in S |-> key[i]]
        /\ {key[i] : i \in S} = {spent[i].category : i \in S}
        /\ \A k : {i \in S : key[i] = k} = {i \in S : spent[i].category = k}
    OBVIOUS
  <2>2. SumOf([k \in {key[i] : i \in S} |-> Total({i \in S : key[i] = k})]) = Total(S)
    <3> HIDE DEF key
    <3> QED BY <1>3, <2>1
  <2>3. ByCategory(S) = [k \in {key[i] : i \in S} |-> Total({i \in S : key[i] = k})]
    BY <2>1 DEF ByCategory, Table
  <2> QED BY <2>2, <2>3
<1>5. SumOf(ByVehicle(S)) = Total(S)
  <2> DEFINE key == [i \in S |-> spent[i].car]
  <2>1. /\ key = [i \in S |-> key[i]]
        /\ {key[i] : i \in S} = {spent[i].car : i \in S}
        /\ \A k : {i \in S : key[i] = k} = {i \in S : spent[i].car = k}
    OBVIOUS
  <2>2. SumOf([k \in {key[i] : i \in S} |-> Total({i \in S : key[i] = k})]) = Total(S)
    <3> HIDE DEF key
    <3> QED BY <1>3, <2>1
  <2>3. ByVehicle(S) = [k \in {key[i] : i \in S} |-> Total({i \in S : key[i] = k})]
    BY <2>1 DEF ByVehicle, Table
  <2> QED BY <2>2, <2>3
<1>6. SumOf(ByMonth(S, days)) = Total(S)
  <2> DEFINE K == {Month(d) : d \in days}
             key == [i \in S |-> Month(spent[i].day)]
  <2>1. IsFiniteSet(K)
    <3>1. IsFiniteSet(days)
      <4>1. days \in SUBSET Dates
        BY DEF Periods, Period
      <4>2. IsFiniteSet(Dates)
        BY CostConstants, FS_Interval DEF Dates
      <4> QED BY <4>1, <4>2, FS_Subset
    <3>2. [d \in days |-> Month(d)] \in Surjection(days, K)
      BY DEF Surjection
    <3> QED BY <3>1, <3>2, FS_Surjection
  <2>2. key \in [S -> K]
    BY <1>1
  <2>3. \A k : {i \in S : key[i] = k} = {i \in S : Month(spent[i].day) = k}
    OBVIOUS
  <2>4. SumOf([k \in K |-> Total({i \in S : key[i] = k})]) = Total(S)
    <3> HIDE DEF key, K
    <3> QED BY <1>1, <2>1, <2>2, BucketsAddUp
  <2>5. ByMonth(S, days) = [k \in K |-> Total({i \in S : key[i] = k})]
    BY <2>3 DEF ByMonth
  <2> QED BY <2>4, <2>5
<1> QED BY <1>2, <1>4, <1>5, <1>6 DEF S

\* The rows of the vehicles that are listed, with what no vehicle caused.
LEMMA RowsAddUp ==
  ASSUME CostInv, NEW days \in Periods
  PROVE  LET fleet == FleetReport(days) IN
         fleet.unassigned + SumOf([c \in DOMAIN fleet.rows |-> fleet.rows[c].total])
           = Total(SpendIn(days, NoCar))
<1> DEFINE all == SpendIn(days, NoCar)
           own == {i \in all : spent[i].car # NoCar}
           rest == {i \in all : spent[i].car = NoCar}
           fleet == FleetReport(days)
           f == [i \in DOMAIN spent |-> spent[i].amount]
           key == [i \in own |-> spent[i].car]
           K == Fleet \ hidden
<1>1. /\ all \in SUBSET DOMAIN spent
      /\ \A i \in all : spent[i].car \in (Fleet \cup {NoCar}) \ hidden
  BY SpendFacts
<1>2. own \in SUBSET DOMAIN spent /\ rest \in SUBSET DOMAIN spent /\ own \cap rest = {} /\ all = rest \cup own
  BY <1>1
<1>3. key \in [own -> K] /\ IsFiniteSet(K)
  BY <1>1, CostConstants, FS_Subset
<1>4. /\ fleet.unassigned = Total(rest) /\ DOMAIN fleet.rows = K
      /\ \A c \in K : fleet.rows[c].total = Total({i \in all : spent[i].car = c})
  BY DEF FleetReport, Row
<1>5. \A c \in K : {i \in all : spent[i].car = c} = {i \in own : key[i] = c}
  BY CostConstants
<1>6. IsFiniteSet(DOMAIN spent) /\ f \in [DOMAIN spent -> Int]
  BY TotalIs
<1>7. Total(all) = Over(f, all) /\ Total(rest) = Over(f, rest) /\ Total(own) = Over(f, own)
  BY <1>1, <1>2, TotalIs
<1> HIDE DEF all, own, rest, f, key, K, fleet
<1>8. Over(f, rest \cup own) = Over(f, rest) + Over(f, own)
  BY <1>2, <1>6, SumSplit
<1>9. SumOf([k \in K |-> Total({i \in own : key[i] = k})]) = Total(own)
  BY <1>2, <1>3, BucketsAddUp
<1>10. [c \in DOMAIN fleet.rows |-> fleet.rows[c].total] = [k \in K |-> Total({i \in own : key[i] = k})]
  BY <1>4, <1>5
<1> QED BY <1>2, <1>4, <1>7, <1>8, <1>9, <1>10 DEF fleet, all

DistanceSum(C) == SumOf([car \in CarsWithTwo(C) |-> Span(OfCar(C, car))])

LEMMA ClockFacts ==
  ASSUME CostInv, NEW C \in SUBSET clocked
  PROVE  /\ CarsWithTwo(C) \in SUBSET Fleet /\ IsFiniteSet(CarsWithTwo(C))
         /\ \A car \in CarsWithTwo(C) : Span(OfCar(C, car)) \in Int
         /\ DistanceSum(C) \in Int
         /\ Known(DistanceCovered(C)) = DistanceSum(C)
<1>1. CarsWithTwo(C) \in SUBSET Fleet /\ IsFiniteSet(CarsWithTwo(C))
  BY CostConstants, FS_Subset DEF CarsWithTwo
<1>2. ASSUME NEW car \in CarsWithTwo(C) PROVE Span(OfCar(C, car)) \in Int
  <2> DEFINE T == {c.metres : c \in OfCar(C, car)}
  <2>1. OfCar(C, car) \in SUBSET clocked /\ IsFiniteSet(OfCar(C, car))
    BY FS_Subset DEF CostInv, OfCar
  <2>2. \A c \in OfCar(C, car) : c.metres \in Nat
    BY <2>1, CostConstants DEF CostInv
  <2>3. IsFiniteSet(T)
    <3>1. [c \in OfCar(C, car) |-> c.metres] \in Surjection(OfCar(C, car), T)
      BY DEF Surjection
    <3> QED BY <2>1, <3>1, FS_Surjection
  <2>4. OfCar(C, car) # {}
    <3>1. Cardinality(OfCar(C, car)) >= 2
      BY <1>2 DEF CarsWithTwo
    <3> QED BY <3>1, FS_EmptySet
  <2>5. T \in SUBSET Nat /\ T # {}
    BY <2>2, <2>4
  <2> HIDE DEF T
  <2>6. Max(T) \in Int
    <3>1. \E x \in T : \A y \in T : x >= y
      BY <2>3, <2>5, GreatestNumber
    <3>2. Max(T) \in T
      BY <3>1, Zenon DEF Max
    <3>3. \A x \in T : x \in Int
      BY <2>5
    <3> QED BY <3>2, <3>3
  <2>7. Min(T) \in Int
    <3>1. \E x \in T : \A y \in T : x <= y
      BY <2>5, LeastNumber
    <3>2. Min(T) \in T
      BY <3>1, Zenon DEF Min
    <3>3. \A x \in T : x \in Int
      BY <2>5
    <3> QED BY <3>2, <3>3
  <2> QED BY <2>6, <2>7 DEF Span, T
<1>3. DistanceSum(C) \in Int
  <2> DEFINE g == [car \in CarsWithTwo(C) |-> Span(OfCar(C, car))]
  <2>1. g \in [CarsWithTwo(C) -> Int] /\ g = [car \in CarsWithTwo(C) |-> g[car]]
    BY <1>2
  <2>2. DistanceSum(C) = SumOf(g)
    BY DEF DistanceSum
  <2> HIDE DEF g
  <2>3. SumOf(g) = Over(g, CarsWithTwo(C))
    BY <2>1 DEF Over
  <2> DEFINE D == CarsWithTwo(C)
  <2>4. IsFiniteSet(D) /\ g \in [D -> Int]
    BY <1>1, <2>1
  <2>5. DistanceSum(C) = Over(g, D)
    BY <2>2, <2>3
  <2> HIDE DEF D
  <2>6. Over(g, D) \in Int
    BY <2>4, SumSteps
  <2> QED BY <2>5, <2>6
<1>4. Known(DistanceCovered(C)) = DistanceSum(C)
  BY <1>3, CostConstants DEF Known, DistanceCovered, DistanceSum
<1> QED BY <1>1, <1>2, <1>3, <1>4

\* Distance adds up by vehicle: one that has fewer than two readings has none.
LEMMA DistancesAddUp ==
  ASSUME CostInv, NEW C \in SUBSET clocked, \A c \in C : c.car \in Fleet \ hidden
  PROVE  DistanceSum(C) = SumOf([car \in Fleet \ hidden |-> DistanceSum(OfCar(C, car))])
<1> DEFINE K == Fleet \ hidden
           two == CarsWithTwo(C)
           g == [car \in Fleet |-> IF car \in two THEN Span(OfCar(C, car)) ELSE 0]
           part == [car \in K |-> {car} \cap two]
<1>1. two \in SUBSET Fleet /\ IsFiniteSet(two) /\ g \in [Fleet -> Int]
  BY ClockFacts
<1>2. two \in SUBSET K
  <2> SUFFICES ASSUME NEW car \in two PROVE car \in K
    OBVIOUS
  <2>1. Cardinality(OfCar(C, car)) >= 2
    BY DEF CarsWithTwo
  <2>2. OfCar(C, car) # {}
    BY <2>1, FS_EmptySet
  <2> QED BY <2>2 DEF OfCar
<1>3. IsFiniteSet(Fleet) /\ IsFiniteSet(K)
  BY CostConstants, FS_Subset
<1>4. DistanceSum(C) = Over(g, two)
  <2>1. [car \in two |-> g[car]] = [car \in two |-> Span(OfCar(C, car))]
    BY <1>1
  <2> QED BY <2>1 DEF DistanceSum, Over
<1>5. ASSUME NEW car \in K PROVE DistanceSum(OfCar(C, car)) = Over(g, part[car])
  <2>1. \A v : OfCar(OfCar(C, car), v) = IF v = car THEN OfCar(C, car) ELSE {}
    BY DEF OfCar
  <2>2. \A v : Cardinality(OfCar(OfCar(C, car), v)) >= 2 <=> v = car /\ Cardinality(OfCar(C, car)) >= 2
    <3>1. Cardinality({}) = 0
      BY FS_EmptySet
    <3> QED BY <2>1, <3>1
  <2>3. CarsWithTwo(OfCar(C, car)) = part[car]
    BY <2>2 DEF CarsWithTwo
  <2>4. [v \in part[car] |-> Span(OfCar(OfCar(C, car), v))] = [v \in part[car] |-> g[v]]
    <3> SUFFICES ASSUME NEW v \in part[car] PROVE Span(OfCar(OfCar(C, car), v)) = g[v]
      OBVIOUS
    <3>1. v = car /\ v \in two /\ v \in Fleet
      BY <1>1
    <3> QED BY <2>1, <3>1
  <2> HIDE DEF part, g
  <2> QED BY <2>3, <2>4 DEF DistanceSum, Over
<1>6. /\ part \in [K -> SUBSET Fleet] /\ \A a, b \in K : a # b => part[a] \cap part[b] = {}
      /\ UNION {part[car] : car \in K} = two
  BY <1>1, <1>2
<1> HIDE DEF part, g, two, K
<1>7. SumOf([car \in K |-> Over(g, part[car])]) = Over(g, two)
  BY <1>1, <1>3, <1>6, SumByParts
<1>8. [car \in K |-> Over(g, part[car])] = [car \in K |-> DistanceSum(OfCar(C, car))]
  BY <1>5
<1> QED BY <1>4, <1>7, <1>8 DEF K

LEMMA TablesHold == CostInv => TablesAddUp
<1> SUFFICES ASSUME CostInv PROVE TablesAddUp
  OBVIOUS
<1> SUFFICES ASSUME NEW days \in Periods
    PROVE  LET costs == CostReport(days, NoCar)
               fleet == FleetReport(days)
           IN /\ {SumOf(costs.byCategory), SumOf(costs.byVehicle), SumOf(costs.byMonth),
                  fleet.total, fleet.unassigned + SumOf([c \in DOMAIN fleet.rows |-> fleet.rows[c].total])}
                   = {costs.total}
              /\ Known(costs.metres)
                   = SumOf([c \in DOMAIN fleet.rows |-> Known(fleet.rows[c].metres)])
  BY DEF TablesAddUp
<1> DEFINE costs == CostReport(days, NoCar)
           fleet == FleetReport(days)
           C == ClockedIn(days, Fleet)
<1>1. costs.total = Total(SpendIn(days, NoCar)) /\ fleet.total = Total(SpendIn(days, NoCar))
  BY DEF CostReport, FleetReport
<1>2. costs.metres = DistanceCovered(C)
  BY DEF CostReport
<1>3. /\ DOMAIN fleet.rows = Fleet \ hidden
      /\ \A c \in Fleet \ hidden : fleet.rows[c].metres = DistanceCovered(OfCar(C, c))
  BY DEF FleetReport, Row
<1>4. C \in SUBSET clocked /\ \A c \in C : c.car \in Fleet \ hidden
  BY DEF ClockedIn
<1>5. \A c : OfCar(C, c) \in SUBSET clocked
  BY <1>4 DEF OfCar
<1> HIDE DEF C
<1>6. Known(costs.metres) = SumOf([c \in Fleet \ hidden |-> DistanceSum(OfCar(C, c))])
  BY <1>2, <1>4, ClockFacts, DistancesAddUp
<1>7. \A c \in Fleet \ hidden : Known(fleet.rows[c].metres) = DistanceSum(OfCar(C, c))
  BY <1>3, <1>5, ClockFacts
<1> QED BY <1>1, <1>3, <1>6, <1>7, TablesOfCosts, RowsAddUp

\* Fewer costs have no more currencies.
LEMMA MixedInMore ==
  ASSUME CostInv, NEW S \in SUBSET DOMAIN spent, NEW T \in SUBSET S, ~Mixed(S)
  PROVE  ~Mixed(T)
<1>1. IsFiniteSet(S)
  BY TotalIs
<1>2. [i \in S |-> spent[i].currency] \in Surjection(S, Currencies(S))
  BY DEF Surjection, Currencies
<1>3. IsFiniteSet(Currencies(S))
  BY <1>1, <1>2, FS_Surjection
<1>4. Currencies(T) \in SUBSET Currencies(S)
  BY DEF Currencies
<1>5. Cardinality(Currencies(T)) <= Cardinality(Currencies(S))
  BY <1>3, <1>4, FS_Subset
<1>6. Cardinality(Currencies(T)) \in Nat /\ Cardinality(Currencies(S)) \in Nat
  BY <1>3, <1>4, FS_Subset, FS_CardinalityType
<1> QED BY <1>5, <1>6 DEF Mixed

LEMMA OwnReport ==
  ASSUME CostInv, NEW days \in Periods, NEW car \in Fleet \ hidden
  PROVE  LET own == CostReport(days, car)
             row == FleetReport(days).rows[car]
         IN /\ own.total = row.total /\ own.metres = row.metres
            /\ row.perDistance # NoResult => row.perDistance = own.perDistance
            /\ row.perYear # NoResult => row.perYear = own.perYear
            /\ own.total = Total(ExpenseList(days, car))
<1> DEFINE all == SpendIn(days, NoCar)
           S == SpendIn(days, car)
           C == ClockedIn(days, {car})
<1>1. car # NoCar
  BY CostConstants
<1>2. S = {i \in all : spent[i].car = car}
  BY <1>1 DEF SpendIn
<1>3. C = OfCar(ClockedIn(days, Fleet), car)
  BY DEF ClockedIn, OfCar
<1>4. /\ CostReport(days, car).total = Total(S) /\ CostReport(days, car).metres = DistanceCovered(C)
      /\ CostReport(days, car).perDistance = CostPerDistance(S, DistanceCovered(C))
      /\ CostReport(days, car).perYear = CostPerYear(S, days)
  BY <1>1 DEF CostReport
<1>5. FleetReport(days).rows[car] = Row(days, car)
  BY DEF FleetReport
<1>6. /\ Row(days, car).total = Total(S) /\ Row(days, car).metres = DistanceCovered(C)
      /\ Row(days, car).perDistance = CostPerDistance(all, DistanceCovered(C))
      /\ Row(days, car).perYear = IF Mixed(all) THEN NoResult ELSE CostPerYear(S, days)
  BY <1>2, <1>3 DEF Row
<1>7. all \in SUBSET DOMAIN spent /\ S \in SUBSET all
  BY <1>2, SpendFacts
<1>8. ~Mixed(all) => ~Mixed(S)
  <2> HIDE DEF all, S
  <2> QED BY <1>7, MixedInMore
<1> HIDE DEF all, S, C
<1>9. Row(days, car).perDistance # NoResult => Row(days, car).perDistance = CostReport(days, car).perDistance
  BY <1>4, <1>6, <1>8 DEF CostPerDistance
<1>10. Row(days, car).perYear # NoResult => Row(days, car).perYear = CostReport(days, car).perYear
  BY <1>4, <1>6, <1>8
<1> QED BY <1>4, <1>5, <1>6, <1>9, <1>10 DEF ExpenseList, S

\* A day is in the month that began with the month's first day.
LEMMA MonthBegins ==
  ASSUME NEW d \in Dates, NEW day \in Dates, d <= day
  PROVE  Month(d) = Month(day) <=> Month(day) * MonthDays <= d
<1>1. d \in Nat /\ day \in Nat
  BY CostConstants DEF Dates
<1>2. PICK M \in Nat \ {0} : M = MonthDays
  BY CostConstants
<1>3. PICK p, q \in Nat : p = d \div M /\ q = day \div M
  BY <1>1, <1>2
<1>4. M * p <= d /\ d < M * p + M /\ M * q <= day /\ day < M * q + M
  BY <1>1, <1>2, <1>3
<1>5. p <= q
  BY <1>1, <1>2, <1>3, <1>4
<1>6. p < q => M * p + M <= M * q
  BY <1>2, <1>3
<1>7. p = q <=> M * q <= d
  BY <1>1, <1>2, <1>3, <1>4, <1>5, <1>6
<1>8. q * M = M * q
  BY <1>2, <1>3
<1> QED BY <1>2, <1>3, <1>7, <1>8 DEF Month

LEMMA MonthIsReported ==
  ASSUME NEW day \in Dates, ThisMonth(day) # NoResult
  PROVE  ThisMonth(day) = CostReport(Period(Month(day) * MonthDays, day), NoCar).total
<1>1. {d \in Dates : Month(d) = Month(day) /\ d <= day} = Period(Month(day) * MonthDays, day)
  BY MonthBegins DEF Period
<1> QED BY <1>1 DEF ThisMonth, CostReport

LEMMA FiguresHold == CostInv => SameFigures
<1> SUFFICES ASSUME CostInv PROVE SameFigures
  OBVIOUS
<1>1. \A days \in Periods :
        LET summary == ExpenseSummary(days) IN
        /\ summary.total = FleetReport(days).total
        /\ summary.total = Total(ExportedExpenses(days, NoCar))
        /\ summary.entries = Cardinality(ExportedExpenses(days, NoCar))
  BY DEF ExpenseSummary, FleetReport, ExportedExpenses
<1> QED BY <1>1, OwnReport, MonthIsReported DEF SameFigures

LEMMA CostInitial == CostInit => CostInv
BY FS_EmptySet DEF CostInit, CostInv

LEMMA CostStep == CostInv /\ [CostNext]_costVars => CostInv'
<1> SUFFICES ASSUME CostInv, [CostNext]_costVars PROVE CostInv'
  OBVIOUS
<1>1. ASSUME NEW e \in Costs, Spend(e) PROVE CostInv'
  BY <1>1 DEF CostInv, Spend
<1>2. ASSUME NEW i \in DOMAIN spent, Withdraw(i) PROVE CostInv'
  BY <1>2 DEF CostInv, Withdraw
<1>3. ASSUME NEW c \in Clocks, Clock(c) PROVE CostInv'
  BY <1>3, FS_AddElement DEF CostInv, Clock
<1>4. ASSUME NEW car \in Fleet, Hide(car) \/ Unhide(car) PROVE CostInv'
  BY <1>4 DEF CostInv, Hide, Unhide
<1>5. CASE UNCHANGED costVars
  BY <1>5 DEF CostInv, costVars
<1> QED BY <1>1, <1>2, <1>3, <1>4, <1>5 DEF CostNext

\* Whatever is spent, withdrawn, driven, hidden and brought back, and whatever the
\* period: every table adds up to its total, and every figure about money and distance
\* is the same on each page, in the list and in the file.
THEOREM ReportsStayInAgreement == CostSpec => []ReportsAgree
<1>1. CostInv => ReportsAgree
  BY TablesHold, FiguresHold DEF ReportsAgree
<1> QED BY <1>1, CostInitial, CostStep, PTL DEF CostSpec

-----------------------------------------------------------------------------
(* The verdict on the trend follows the fuel.                                    *)

MonthsOK ==
  /\ closings \in [Months -> SUBSET Tanks] /\ IsFiniteSet(Measured)
  /\ \A m \in Months : IsFiniteSet(closings[m])

\* What the records of fills and intervals are, all along.
FuelInv == fills \in Seq(Fills) /\ MonthsOK

\* Metres and fuel of each measured month.
Driven == [m \in Measured |-> MetresIn(closings[m])]
Burnt == [m \in Measured |-> QuantityIn(closings[m])]

LEMMA MonthsHaveFuel ==
  ASSUME MonthsOK
  PROVE  /\ Driven \in [Measured -> Int] /\ Burnt \in [Measured -> Int]
         /\ \A m \in Measured : Driven[m] > 0 /\ Burnt[m] > 0
<1> SUFFICES ASSUME NEW m \in Measured
    PROVE  /\ MetresIn(closings[m]) \in Int /\ MetresIn(closings[m]) > 0
           /\ QuantityIn(closings[m]) \in Int /\ QuantityIn(closings[m]) > 0
  BY DEF Driven, Burnt
<1>1. PICK T : T = closings[m]
  OBVIOUS
<1>2. T # {} /\ IsFiniteSet(T) /\ \A t \in T : t.metres \in Nat \ {0} /\ t.quantity \in Nat \ {0}
  BY <1>1, FuelConstants DEF Measured, MonthsOK
<1>3. ASSUME NEW f \in [T -> Nat \ {0}] PROVE SumOf(f) \in Int /\ SumOf(f) > 0
  <2>1. f \in [T -> Int] /\ T \in SUBSET T /\ \A x \in T : f[x] > 0
    OBVIOUS
  <2>2. SumOf(f) = Over(f, T)
    <3>1. f = [x \in T |-> f[x]]
      OBVIOUS
    <3> QED BY <3>1 DEF Over
  <2>3. Over(f, T) > 0
    BY <1>2, <2>1, SumIsPositive
  <2>4. Over(f, T) \in Int
    BY <1>2, <2>1, SumSteps
  <2> QED BY <2>2, <2>3, <2>4
<1>4. [t \in T |-> t.metres] \in [T -> Nat \ {0}] /\ [t \in T |-> t.quantity] \in [T -> Nat \ {0}]
  BY <1>2
<1> QED BY <1>1, <1>3, <1>4 DEF MetresIn, QuantityIn

LEMMA WindowsAre ==
  ASSUME MonthsOK, NEW W \in SUBSET Measured
  PROVE  WindowMetres(W) = Over(Driven, W) /\ WindowQuantity(W) = Over(Burnt, W)
<1>1. [m \in W |-> Driven[m]] = [m \in W |-> MetresIn(closings[m])]
  BY DEF Driven
<1>2. [m \in W |-> Burnt[m]] = [m \in W |-> QuantityIn(closings[m])]
  BY DEF Burnt
<1> QED BY <1>1, <1>2 DEF Over, WindowMetres, WindowQuantity

\* The last months of a set are some of it, no more than the window has.
LEMMA LastMonths ==
  ASSUME NEW M \in SUBSET Months, IsFiniteSet(M), M # {}
  PROVE  /\ LastOf(M) \in SUBSET M /\ LastOf(M) # {}
         /\ Cardinality(LastOf(M)) <= WindowMonths
<1>1. M \in SUBSET Nat /\ M \in SUBSET Int
  BY FuelConstants
<1>2. \A m : IsFiniteSet({n \in M : n > m}) /\ Cardinality({n \in M : n > m}) \in Nat
  BY FS_Subset, FS_CardinalityType
<1>3. PICK last \in M : \A m \in M : last >= m
  BY <1>1, GreatestNumber
<1>4. Cardinality({n \in M : n > last}) = 0
  <2>1. {n \in M : n > last} = {}
    <3>1. \A n \in M : n \in Int /\ ~ (n > last)
      BY <1>1, <1>3
    <3> QED BY <3>1
  <2> QED BY <2>1, FS_EmptySet
<1>5. last \in LastOf(M) /\ LastOf(M) \in SUBSET M
  BY <1>4, FuelConstants DEF LastOf
<1>6. PICK first \in LastOf(M) : \A m \in LastOf(M) : first <= m
  BY <1>1, <1>5, LeastNumber
<1>7. LastOf(M) \ {first} \in SUBSET {n \in M : n > first}
  <2>1. \A m \in LastOf(M) : m \in M /\ m \in Int /\ first \in Int /\ first <= m
    BY <1>1, <1>5, <1>6
  <2>2. \A m \in LastOf(M) \ {first} : m > first
    BY <2>1
  <2> QED BY <2>1, <2>2
<1>8. Cardinality({n \in M : n > first}) < WindowMonths
  BY <1>6 DEF LastOf
<1>9. IsFiniteSet(LastOf(M)) /\ Cardinality(LastOf(M)) \in Nat
  BY <1>5, FS_Subset, FS_CardinalityType
<1>10. Cardinality(LastOf(M) \ {first}) = Cardinality(LastOf(M)) - 1
  BY <1>6, <1>9, FS_RemoveElement
<1>11. Cardinality(LastOf(M) \ {first}) <= Cardinality({n \in M : n > first})
  BY <1>2, <1>7, FS_Subset
<1> QED BY <1>2, <1>5, <1>8, <1>9, <1>10, <1>11, FuelConstants

LEMMA BothWindows ==
  ASSUME MonthsOK, ~ (Cardinality(Measured) < 2 * WindowMonths)
  PROVE  /\ Recent \in SUBSET Measured /\ Recent # {}
         /\ Earlier \in SUBSET Measured /\ Earlier # {}
<1>1. Measured \in SUBSET Months /\ IsFiniteSet(Measured) /\ Cardinality(Measured) \in Nat
  BY FS_CardinalityType DEF MonthsOK, Measured
<1>2. WindowMonths \in Nat /\ WindowMonths > 0
  BY FuelConstants
<1>3. Measured # {}
  <2>1. Cardinality(Measured) # 0
    BY <1>1, <1>2
  <2> QED BY <2>1, FS_EmptySet
<1>4. Recent \in SUBSET Measured /\ Recent # {} /\ Cardinality(Recent) <= WindowMonths
  BY <1>1, <1>3, LastMonths DEF Recent
<1>5. Recent # Measured
  BY <1>1, <1>2, <1>4
<1>6. Measured \ Recent \in SUBSET Months /\ IsFiniteSet(Measured \ Recent) /\ Measured \ Recent # {}
  BY <1>1, <1>4, <1>5, FS_Subset
<1>7. Earlier \in SUBSET (Measured \ Recent) /\ Earlier # {}
  BY <1>6, LastMonths DEF Earlier
<1> QED BY <1>4, <1>7

\* Rounding to hundredths does not hide a change of a whole percent.
LEMMA RoundedChange ==
  ASSUME NEW X \in Int, NEW Y \in Nat \ {0}, NEW B \in Nat
  PROVE  /\ (101 + B) * Y < 100 * X => RoundDiv(10000 * (X - Y), Y) > 100 * B
         /\ 100 * X < (99 - B) * Y => RoundDiv(10000 * (X - Y), Y) < -100 * B
         /\ RoundDiv(10000 * (X - Y), Y) \in Int
<1> DEFINE q == (2 * (10000 * (X - Y)) + Y) \div (2 * Y)
<1>1. q \in Int /\ 2 * Y * q <= 20000 * X - 19999 * Y /\ 20000 * X - 19999 * Y < 2 * Y * q + 2 * Y
  OBVIOUS
<1>2. RoundDiv(10000 * (X - Y), Y) = q
  BY DEF RoundDiv
<1> HIDE DEF q
<1>3. ASSUME (101 + B) * Y < 100 * X, q <= 100 * B PROVE FALSE
  <2>1. Y * q <= Y * (100 * B)
    BY <1>1, <1>3
  <2> QED BY <1>1, <1>3, <2>1
<1>4. ASSUME 100 * X < (99 - B) * Y, q >= -100 * B PROVE FALSE
  <2>1. Y * q >= Y * (-100 * B)
    BY <1>1, <1>4
  <2> QED BY <1>1, <1>4, <2>1
<1> QED BY <1>1, <1>2, <1>3, <1>4
\* What holds between each month of one window and each of the other holds of the
\* windows' sums, on both sides.
LEMMA WindowsAbove ==
  ASSUME NEW S, IsFiniteSet(S), NEW Q \in [S -> Int], NEW M \in [S -> Int],
         NEW R \in SUBSET S, NEW E \in SUBSET S, R # {}, E # {}, NEW a \in Int, NEW c \in Int,
         \A m \in R, n \in E : c * Q[n] * M[m] < a * Q[m] * M[n]
  PROVE  c * Over(Q, E) * Over(M, R) < a * Over(Q, R) * Over(M, E)
<1>1. PICK QR, MR, QE, ME \in Int :
        QR = Over(Q, R) /\ MR = Over(M, R) /\ QE = Over(Q, E) /\ ME = Over(M, E)
  BY SumSteps
<1>2. \A m \in S : Q[m] \in Int /\ M[m] \in Int
  OBVIOUS
<1>3. ASSUME NEW n \in E PROVE (c * MR) * Q[n] < (a * QR) * M[n]
  <2>1. PICK u, v \in Int : u = c * Q[n] /\ v = a * M[n]
    BY <1>2
  <2>2. ASSUME NEW m \in R PROVE u * M[m] < v * Q[m]
    <3>1. c * Q[n] * M[m] < a * Q[m] * M[n]
      OBVIOUS
    <3>2. a * Q[m] * M[n] = v * Q[m]
      BY <1>2, <2>1
    <3> QED BY <2>1, <3>1, <3>2
  <2>3. u * Over(M, R) < v * Over(Q, R)
    BY <2>2, SumBelow
  <2>4. u * MR = (c * MR) * Q[n] /\ v * QR = (a * QR) * M[n]
    BY <1>1, <1>2, <2>1
  <2> QED BY <1>1, <2>3, <2>4
<1>4. c * MR \in Int /\ a * QR \in Int
  BY <1>1
<1>5. (c * MR) * Over(Q, E) < (a * QR) * Over(M, E)
  BY <1>3, <1>4, SumBelow
<1>6. (c * MR) * QE = c * QE * MR
  BY <1>1
<1> QED BY <1>1, <1>5, <1>6

LEMMA WindowsBelow ==
  ASSUME NEW S, IsFiniteSet(S), NEW Q \in [S -> Int], NEW M \in [S -> Int],
         NEW R \in SUBSET S, NEW E \in SUBSET S, R # {}, E # {}, NEW a \in Int, NEW c \in Int,
         \A m \in R, n \in E : a * Q[m] * M[n] < c * Q[n] * M[m]
  PROVE  a * Over(Q, R) * Over(M, E) < c * Over(Q, E) * Over(M, R)
<1>1. PICK QR, MR, QE, ME \in Int :
        QR = Over(Q, R) /\ MR = Over(M, R) /\ QE = Over(Q, E) /\ ME = Over(M, E)
  BY SumSteps
<1>2. \A m \in S : Q[m] \in Int /\ M[m] \in Int
  OBVIOUS
<1>3. ASSUME NEW n \in E PROVE (a * QR) * M[n] < (c * MR) * Q[n]
  <2>1. PICK u, v \in Int : u = c * Q[n] /\ v = a * M[n]
    BY <1>2
  <2>2. ASSUME NEW m \in R PROVE v * Q[m] < u * M[m]
    <3>1. a * Q[m] * M[n] < c * Q[n] * M[m]
      OBVIOUS
    <3>2. a * Q[m] * M[n] = v * Q[m]
      BY <1>2, <2>1
    <3> QED BY <2>1, <3>1, <3>2
  <2>3. v * Over(Q, R) < u * Over(M, R)
    BY <2>2, SumBelow
  <2>4. u * MR = (c * MR) * Q[n] /\ v * QR = (a * QR) * M[n]
    BY <1>1, <1>2, <2>1
  <2> QED BY <1>1, <2>3, <2>4
<1>4. c * MR \in Int /\ a * QR \in Int
  BY <1>1
<1>5. (a * QR) * Over(M, E) < (c * MR) * Over(Q, E)
  BY <1>3, <1>4, SumBelow
<1>6. (c * MR) * QE = c * QE * MR
  BY <1>1
<1> QED BY <1>1, <1>5, <1>6

LEMMA VerdictHolds == MonthsOK => VerdictFollowsTheFuel
<1> SUFFICES ASSUME MonthsOK, Direction # NoFigure
    PROVE  /\ ClearlyAbove(Recent, Earlier) => Direction = "WORSENING"
           /\ ClearlyBelow(Recent, Earlier) => Direction = "IMPROVING"
  BY DEF VerdictFollowsTheFuel
<1>1. /\ ~ (Cardinality({t.electric : t \in AllClosed}) # 1)
      /\ ~ (Cardinality(Measured) < 2 * WindowMonths)
  BY DEF Direction
<1>2. PICK R, E \in SUBSET Measured : R = Recent /\ E = Earlier /\ R # {} /\ E # {}
  BY <1>1, BothWindows
<1>3. PICK change : change = HundredthsOfChange(R, E)
  OBVIOUS
<1>4. Direction = IF change > 100 * BandPercent THEN "WORSENING"
                  ELSE IF change < -100 * BandPercent THEN "IMPROVING" ELSE "STABLE"
  BY <1>1, <1>2, <1>3 DEF Direction
<1>5. PICK S : S = Measured /\ IsFiniteSet(S)
  BY DEF MonthsOK
<1>6. PICK Q, M \in [S -> Int] : Q = Burnt /\ M = Driven /\ \A m \in S : M[m] > 0 /\ Q[m] > 0
  BY <1>5, MonthsHaveFuel
<1>7. \A W \in SUBSET S : WindowMetres(W) = Over(M, W) /\ WindowQuantity(W) = Over(Q, W)
  BY <1>5, <1>6, WindowsAre
<1>8. \A m \in S : WindowMetres({m}) = M[m] /\ WindowQuantity({m}) = Q[m]
  <2> TAKE m \in S
  <2>1. {m} \in SUBSET S /\ {m} \ {m} = {}
    OBVIOUS
  <2>2. ASSUME NEW f \in [S -> Int] PROVE Over(f, {m}) = f[m]
    <3>1. Over(f, {m}) = f[m] + Over(f, {m} \ {m})
      BY <1>5, <2>1, SumTake
    <3>2. Over(f, {m} \ {m}) = 0 /\ f[m] \in Int
      BY <1>5, <2>1, SumSteps
    <3> QED BY <3>1, <3>2
  <2> QED BY <1>7, <2>1, <2>2
<1>9. PICK QR, MR, QE, ME \in Int :
        QR = Over(Q, R) /\ MR = Over(M, R) /\ QE = Over(Q, E) /\ ME = Over(M, E)
  BY <1>5, SumSteps
<1>10. PICK X \in Int : X = QR * ME
  BY <1>9
<1>11. PICK Y \in Nat \ {0} : Y = QE * MR
  <2>1. QE > 0
    BY <1>2, <1>5, <1>6, <1>9, SumIsPositive
  <2>2. MR > 0
    BY <1>2, <1>5, <1>6, <1>9, SumIsPositive
  <2>3. QE * MR > 0 /\ QE * MR \in Int
    BY <1>9, <2>1, <2>2
  <2> QED BY <2>3
<1>12. change = RoundDiv(10000 * (X - Y), Y)
  BY <1>2, <1>3, <1>5, <1>7, <1>9, <1>10, <1>11 DEF HundredthsOfChange
<1>13. BandPercent \in Nat
  BY FuelConstants
<1>14. PICK c, d \in Int : c = 101 + BandPercent /\ d = 99 - BandPercent
  BY <1>13
<1>15. ASSUME ClearlyAbove(R, E) PROVE c * Y < 100 * X
  <2>1. \A m \in R, n \in E : c * Q[n] * M[m] < 100 * Q[m] * M[n]
    <3> TAKE m \in R, n \in E
    <3>1. 100 * Q[m] * M[n] > c * Q[n] * M[m]
      BY <1>2, <1>5, <1>8, <1>14, <1>15 DEF ClearlyAbove
    <3>2. 100 * Q[m] * M[n] \in Int /\ c * Q[n] * M[m] \in Int
      BY <1>2, <1>5
    <3> QED BY <3>1, <3>2
  <2>2. c * QE * MR < 100 * QR * ME
    <3>1. R \in SUBSET S /\ E \in SUBSET S /\ 100 \in Int
      BY <1>2, <1>5
    <3>2. c * Over(Q, E) * Over(M, R) < 100 * Over(Q, R) * Over(M, E)
      BY <1>2, <1>5, <2>1, <3>1, WindowsAbove
    <3> QED BY <1>9, <3>2
  <2>3. c * QE * MR = c * Y /\ 100 * QR * ME = 100 * X
    BY <1>9, <1>10, <1>11
  <2> QED BY <2>2, <2>3
<1>16. ASSUME ClearlyBelow(R, E) PROVE 100 * X < d * Y
  <2>1. \A m \in R, n \in E : 100 * Q[m] * M[n] < d * Q[n] * M[m]
    <3> TAKE m \in R, n \in E
    <3>1. m \in S /\ n \in S
      BY <1>2, <1>5
    <3>2. 100 * WindowQuantity({m}) * WindowMetres({n})
            < (99 - BandPercent) * WindowQuantity({n}) * WindowMetres({m})
      BY <1>16 DEF ClearlyBelow
    <3> QED BY <1>8, <1>14, <3>1, <3>2
  <2>2. 100 * QR * ME < d * QE * MR
    <3>1. R \in SUBSET S /\ E \in SUBSET S /\ 100 \in Int
      BY <1>2, <1>5
    <3>2. 100 * Over(Q, R) * Over(M, E) < d * Over(Q, E) * Over(M, R)
      BY <1>2, <1>5, <2>1, <3>1, WindowsBelow
    <3> QED BY <1>9, <3>2
  <2>3. d * QE * MR = d * Y /\ 100 * QR * ME = 100 * X
    BY <1>9, <1>10, <1>11
  <2> QED BY <2>2, <2>3
<1>17. ASSUME ClearlyAbove(R, E) PROVE change > 100 * BandPercent
  BY <1>12, <1>13, <1>14, <1>15, <1>17, RoundedChange
<1>18. ASSUME ClearlyBelow(R, E) PROVE change < -100 * BandPercent /\ ~ (change > 100 * BandPercent)
  <2>1. change < -100 * BandPercent /\ change \in Int
    BY <1>12, <1>13, <1>14, <1>16, <1>18, RoundedChange
  <2> QED BY <1>13, <2>1
<1> QED BY <1>2, <1>4, <1>17, <1>18

-----------------------------------------------------------------------------
(* Fuel and distance between full fills are counted once.                        *)

Apart(h) == \A i, j \in DOMAIN h : h[i].odo = h[j].odo => i = j

LEMMA FillFacts ==
  ASSUME NEW h \in Seq(Fills)
  PROVE  /\ Len(h) \in Nat /\ DOMAIN h = 1..Len(h) /\ IsFiniteSet(DOMAIN h)
         /\ Cardinality(DOMAIN h) = Len(h)
         /\ \A i \in DOMAIN h :
              /\ h[i].odo \in Nat /\ h[i].quantity \in Nat /\ h[i].unit \in DOMAIN MetresPer
              /\ h[i].full \in BOOLEAN /\ h[i].missed \in BOOLEAN /\ h[i].electric \in BOOLEAN
<1>1. Len(h) \in Nat /\ DOMAIN h = 1..Len(h) /\ \A i \in DOMAIN h : h[i] \in Fills
  OBVIOUS
<1>2. IsFiniteSet(1..Len(h)) /\ Cardinality(1..Len(h)) = Len(h)
  BY <1>1, FS_Interval
<1> QED BY <1>1, <1>2, FuelConstants

\* Fills with odometers of their own have places of their own.
LEMMA Placed ==
  ASSUME NEW h \in Seq(Fills), Apart(h)
  PROVE  /\ \A i \in DOMAIN h : Place(h, i) \in DOMAIN h
         /\ \A i, j \in DOMAIN h : h[i].odo < h[j].odo => Place(h, i) < Place(h, j)
         /\ \A p \in DOMAIN h : \E i \in DOMAIN h : Place(h, i) = p
<1> DEFINE Before(i) == {j \in DOMAIN h : h[j].odo <= h[i].odo}
<1>1. ASSUME NEW i \in DOMAIN h PROVE Place(h, i) = Cardinality(Before(i))
  <2>1. {j \in DOMAIN h : h[j].odo < h[i].odo \/ (h[j].odo = h[i].odo /\ j <= i)} = Before(i)
    BY FillFacts DEF Apart
  <2> QED BY <2>1 DEF Place
<1>2. ASSUME NEW i \in DOMAIN h
      PROVE  /\ IsFiniteSet(Before(i)) /\ Cardinality(Before(i)) \in Nat
             /\ Cardinality(Before(i)) <= Len(h) /\ i \in Before(i) /\ Cardinality(Before(i)) # 0
  <2>1. Before(i) \in SUBSET DOMAIN h /\ i \in Before(i)
    BY FillFacts
  <2> HIDE DEF Before
  <2>2. IsFiniteSet(Before(i)) /\ Cardinality(Before(i)) <= Len(h)
    BY <2>1, FillFacts, FS_Subset
  <2>3. Cardinality(Before(i)) \in Nat /\ Cardinality(Before(i)) # 0
    BY <2>1, <2>2, FS_CardinalityType, FS_EmptySet
  <2> QED BY <2>1, <2>2, <2>3
<1>3. ASSUME NEW i \in DOMAIN h PROVE Place(h, i) \in DOMAIN h
  <2>1. Place(h, i) \in Nat /\ Place(h, i) # 0 /\ Place(h, i) <= Len(h)
    BY <1>1, <1>2
  <2>2. Len(h) \in Nat /\ DOMAIN h = 1..Len(h)
    BY FillFacts
  <2> QED BY <2>1, <2>2
<1>4. ASSUME NEW i \in DOMAIN h, NEW j \in DOMAIN h, h[i].odo < h[j].odo
      PROVE  Place(h, i) < Place(h, j)
  <2>1. Before(i) \in SUBSET Before(j) /\ j \notin Before(i) /\ j \in Before(j)
    BY <1>4, FillFacts
  <2> HIDE DEF Before
  <2>2. Cardinality(Before(i)) <= Cardinality(Before(j)) /\ Cardinality(Before(i)) # Cardinality(Before(j))
    BY <1>2, <2>1, FS_Subset
  <2> QED BY <1>1, <1>2, <2>2
<1>5. ASSUME NEW p \in DOMAIN h PROVE \E i \in DOMAIN h : Place(h, i) = p
  <2> DEFINE f == [i \in DOMAIN h |-> Place(h, i)]
  <2>1. f \in Injection(DOMAIN h, DOMAIN h)
    <3>1. f \in [DOMAIN h -> DOMAIN h]
      BY <1>3
    <3>2. ASSUME NEW i \in DOMAIN h, NEW j \in DOMAIN h, Place(h, i) = Place(h, j) PROVE i = j
      <4>1. Place(h, i) \in Nat /\ h[i].odo \in Nat /\ h[j].odo \in Nat
        BY <1>3, FillFacts
      <4>2. ~ (h[i].odo < h[j].odo) /\ ~ (h[j].odo < h[i].odo)
        BY <1>4, <3>2, <4>1
      <4> QED BY <4>1, <4>2 DEF Apart
    <3>3. \A i, j \in DOMAIN h : f[i] = f[j] => i = j
      BY <3>2
    <3> HIDE DEF f
    <3> QED BY <3>1, <3>3 DEF Injection, IsInjective
  <2>2. f \in Surjection(DOMAIN h, DOMAIN h)
    <3> HIDE DEF f
    <3> QED BY <2>1, FillFacts, FS_Injection
  <2> QED BY <2>2 DEF Surjection
<1> QED BY <1>3, <1>4, <1>5

\* The sorted history: the fills by their places, on rising odometers.
LEMMA SortedFills ==
  ASSUME NEW h \in Seq(Fills), Apart(h)
  PROVE  \E at \in [DOMAIN h -> DOMAIN h] :
           /\ Ordered(h) = [p \in DOMAIN h |-> h[at[p]]]
           /\ \A p, q \in DOMAIN h : p < q => h[at[p]].odo < h[at[q]].odo
           /\ \A i \in DOMAIN h : \E p \in DOMAIN h : at[p] = i
<1> DEFINE at == [p \in DOMAIN h |-> CHOOSE i \in DOMAIN h : Place(h, i) = p]
<1>1. ASSUME NEW p \in DOMAIN h PROVE at[p] \in DOMAIN h /\ Place(h, at[p]) = p
  BY Placed
<1>2. Ordered(h) = [p \in DOMAIN h |-> h[at[p]]]
  BY DEF Ordered
<1> HIDE DEF at
<1>6. /\ \A i, j \in DOMAIN h : h[i].odo < h[j].odo => Place(h, i) < Place(h, j)
      /\ DOMAIN h \in SUBSET Int
  <2>1. Len(h) \in Nat /\ DOMAIN h = 1..Len(h)
    BY FillFacts
  <2>2. DOMAIN h \in SUBSET Int
    BY <2>1
  <2>3. \A i, j \in DOMAIN h : h[i].odo < h[j].odo => Place(h, i) < Place(h, j)
    BY Placed
  <2> QED BY <2>2, <2>3
<1>3. ASSUME NEW p \in DOMAIN h, NEW q \in DOMAIN h, p < q PROVE h[at[p]].odo < h[at[q]].odo
  <2>1. at[p] # at[q]
    BY <1>1, <1>3, FillFacts
  <2>2. ~ (h[at[q]].odo < h[at[p]].odo)
    <3>1. ~ (q < p)
      BY <1>6, <1>3
    <3> QED BY <1>6, <1>1, <3>1
  <2>3. h[at[p]].odo # h[at[q]].odo
    BY <1>1, <2>1 DEF Apart
  <2>4. h[at[p]].odo \in Nat /\ h[at[q]].odo \in Nat
    BY <1>1, FillFacts
  <2> QED BY <2>2, <2>3, <2>4
<1>4. ASSUME NEW i \in DOMAIN h PROVE \E p \in DOMAIN h : at[p] = i
  <2>1. PICK p \in DOMAIN h : p = Place(h, i)
    BY Placed
  <2>2. Place(h, at[p]) = Place(h, i) /\ at[p] \in DOMAIN h
    BY <1>1, <2>1
  <2>3. ~ (h[at[p]].odo < h[i].odo) /\ ~ (h[i].odo < h[at[p]].odo)
    <3>1. ~ (p < p)
      BY <1>6
    <3>2. Place(h, at[p]) = p /\ Place(h, i) = p
      BY <2>1, <2>2
    <3> QED BY <1>6, <2>2, <3>1, <3>2
  <2>4. h[at[p]].odo = h[i].odo
    BY <2>2, <2>3, FillFacts
  <2> QED BY <2>2, <2>4 DEF Apart
<1>5. at \in [DOMAIN h -> DOMAIN h]
  <2>1. at = [p \in DOMAIN h |-> at[p]]
    BY DEF at
  <2> QED BY <1>1, <2>1
<1> QED BY <1>2, <1>3, <1>4, <1>5

\* From one full fill to the next: what was bought between the first and the last is in
\* one window and in no other.
LEMMA WindowsCover ==
  ASSUME NEW o, NEW n \in Nat, DOMAIN o = 1..n, NEW a \in FullIndexes(o), NEW b \in FullIndexes(o),
         \A i \in FullIndexes(o) : a <= i /\ i <= b
  PROVE  /\ \A v, w \in Windows(o) : v # w => Consumed(v) \cap Consumed(w) = {}
         /\ UNION {Consumed(w) : w \in Windows(o)} = (a + 1)..b
<1> DEFINE G == FullIndexes(o)
<1>1. G \in SUBSET (1..n) /\ G \in SUBSET Nat /\ G \in SUBSET Int /\ a \in G /\ b \in G
  BY DEF FullIndexes
<1>2. \A w \in Windows(o) : /\ w = <<w[1], w[2]>> /\ w[1] \in G /\ w[2] \in G /\ w[1] < w[2]
                            /\ \A i \in G : i <= w[1] \/ w[2] <= i
  BY DEF Windows
<1>3. ASSUME NEW v \in Windows(o), NEW w \in Windows(o), NEW p \in Consumed(v) \cap Consumed(w)
      PROVE  v = w
  <2>1. p \in Int /\ v[1] < p /\ p <= v[2] /\ w[1] < p /\ p <= w[2]
    BY <1>1, <1>2, <1>3 DEF Consumed
  <2>2. v[1] \in Int /\ v[2] \in Int /\ w[1] \in Int /\ w[2] \in Int
    BY <1>1, <1>2
  <2>3. (v[1] <= w[1] \/ w[2] <= v[1]) /\ (w[1] <= v[1] \/ v[2] <= w[1])
    BY <1>2
  <2>4. (v[2] <= w[1] \/ w[2] <= v[2]) /\ (w[2] <= v[1] \/ v[2] <= w[2])
    BY <1>2
  <2>5. v[1] = w[1] /\ v[2] = w[2]
    BY <2>1, <2>2, <2>3, <2>4
  <2> QED BY <1>2, <2>5
<1>4. ASSUME NEW w \in Windows(o), NEW p \in Consumed(w) PROVE p \in (a + 1)..b
  <2>1. w[1] \in G /\ w[2] \in G /\ p \in w[1] + 1 .. w[2]
    BY <1>2, <1>4 DEF Consumed
  <2>2. w[1] \in Int /\ w[2] \in Int /\ a <= w[1] /\ w[2] <= b /\ a \in Int /\ b \in Int
    BY <1>1, <2>1
  <2> QED BY <2>1, <2>2
<1>5. ASSUME NEW p \in (a + 1)..b PROVE \E w \in Windows(o) : p \in Consumed(w)
  <2> DEFINE L == {i \in G : i < p}
             U == {i \in G : p <= i}
  <2>1. a \in Int /\ b \in Int /\ p \in Int /\ a < p /\ p <= b
    BY <1>1
  <2>2. L \in SUBSET Int /\ L # {} /\ U \in SUBSET Nat /\ U # {}
    BY <1>1, <2>1
  <2>3. IsFiniteSet(L)
    <3>1. IsFiniteSet(1..n) /\ L \in SUBSET (1..n)
      BY <1>1, FS_Interval
    <3> QED BY <3>1, FS_Subset
  <2>4. PICK x \in L : \A i \in L : x >= i
    BY <2>2, <2>3, GreatestNumber
  <2>5. PICK y \in U : \A i \in U : y <= i
    BY <2>2, LeastNumber
  <2>6. x \in G /\ y \in G /\ x < p /\ p <= y /\ x \in Int /\ y \in Int
    BY <1>1, <2>4, <2>5
  <2>7. ASSUME NEW i \in G PROVE i <= x \/ y <= i
    <3>1. i \in Int /\ (i < p \/ p <= i)
      BY <1>1, <2>1
    <3>2. i < p => x >= i
      BY <2>4
    <3>3. p <= i => y <= i
      BY <2>5
    <3> QED BY <2>6, <3>1, <3>2, <3>3
  <2>8. x < y
    BY <2>1, <2>6
  <2>9. <<x, y>> \in Windows(o)
    BY <2>6, <2>7, <2>8 DEF Windows
  <2>10. p \in Consumed(<<x, y>>)
    BY <2>1, <2>6 DEF Consumed
  <2> QED BY <2>9, <2>10
<1> QED BY <1>3, <1>4, <1>5

\* What is added from step to step is the difference of the ends.
Steps(n, D, X, d) == D = 1..n /\ \A p \in 2..n : d[p] = X[p] - X[p - 1]

LEMMA StepsAddUp ==
  ASSUME NEW n \in Nat, NEW D, NEW X \in [D -> Int], NEW d \in [D -> Int],
         Steps(n, D, X, d)
  PROVE  \A a, b \in D : a <= b => Over(d, (a + 1)..b) = X[b] - X[a]
<1> SUFFICES ASSUME NEW a \in D
    PROVE  \A b \in D : a <= b => Over(d, (a + 1)..b) = X[b] - X[a]
  OBVIOUS
<1> DEFINE Bad == {b \in D : a <= b /\ Over(d, (a + 1)..b) # X[b] - X[a]}
<1> SUFFICES ASSUME Bad # {} PROVE FALSE
  OBVIOUS
<1>1. Bad \in SUBSET Nat
  BY DEF Steps
<1>2. PICK b \in Bad : \A c \in Bad : b <= c
  <2> HIDE DEF Bad
  <2> QED BY <1>1, LeastNumber
<1>3. IsFiniteSet(D) /\ Over(d, {}) = 0
  <2>1. IsFiniteSet(D)
    BY FS_Interval DEF Steps
  <2> QED BY <2>1, SumSteps
<1>4. b # a
  <2>1. (a + 1)..a = {}
    BY DEF Steps
  <2>2. X[a] - X[a] = 0
    OBVIOUS
  <2>3. Over(d, (a + 1)..a) = 0
    BY <1>3, <2>1
  <2> QED BY <1>2, <2>2, <2>3
<1>5. b \in D /\ a < b /\ b \in 2..n /\ b - 1 \in D /\ a <= b - 1
  BY <1>2, <1>4 DEF Steps
<1>6. Over(d, (a + 1)..(b - 1)) = X[b - 1] - X[a]
  <2>1. b - 1 \notin Bad
    <3> HIDE DEF Bad
    <3> QED BY <1>1, <1>2, <1>5
  <2> QED BY <1>5, <2>1
<1>7. ((a + 1)..b) \ {b} = (a + 1)..(b - 1) /\ (a + 1)..b \in SUBSET D /\ b \in (a + 1)..b
  <2>1. a \in Int /\ b \in Int /\ a < b /\ 1 <= a /\ b <= n
    BY <1>5 DEF Steps
  <2>2. ASSUME NEW x \in Int PROVE x \in ((a + 1)..b) \ {b} <=> x \in (a + 1)..(b - 1)
    BY <2>1
  <2>3. \A x \in (a + 1)..b : x \in Int /\ x \in D
    BY <2>1 DEF Steps
  <2>4. b \in (a + 1)..b
    BY <2>1
  <2>5. \A x \in (a + 1)..(b - 1) : x \in Int
    BY <2>1
  <2> QED BY <2>2, <2>3, <2>4, <2>5
<1> HIDE DEF Bad
<1>8. Over(d, (a + 1)..b) = d[b] + Over(d, (a + 1)..(b - 1))
  <2>1. PICK T \in SUBSET D : T = (a + 1)..b
    BY <1>7
  <2>2. \A x \in T : Over(d, T) = d[x] + Over(d, T \ {x})
    BY <1>3, SumTake
  <2> QED BY <1>7, <2>1, <2>2
<1>9. d[b] = X[b] - X[b - 1]
  BY <1>5 DEF Steps
<1>10. PICK u, v, w \in Int : u = X[a] /\ v = X[b] /\ w = X[b - 1]
  BY <1>5
<1>11. Over(d, (a + 1)..b) = (v - w) + (w - u)
  BY <1>6, <1>8, <1>9, <1>10
<1>12. Over(d, (a + 1)..b) = X[b] - X[a]
  BY <1>10, <1>11
<1> QED BY <1>2, <1>12 DEF Bad

\* What parts of a whole give, each told once under a name of its own.
TellsParts(x, D, A, W, part, name, I, f) ==
  /\ IsFiniteSet(D) /\ x \in [D -> Int] /\ \A p \in D : x[p] >= 0
  /\ IsFiniteSet(W) /\ part \in [W -> SUBSET D]
  /\ \A v, w \in W : v # w => part[v] \cap part[w] = {}
  /\ name \in [W -> I] /\ \A v, w \in W : name[v] = name[w] => v = w
  /\ I = {name[w] : w \in W}
  /\ f \in [I -> Int] /\ \A w \in W : f[name[w]] = Over(x, part[w])
  /\ A \in SUBSET D /\ UNION {part[w] : w \in W} \subseteq A

LEMMA NamedParts ==
  ASSUME NEW x, NEW D, NEW A, NEW W, NEW part, NEW name, NEW I, NEW f,
         TellsParts(x, D, A, W, part, name, I, f)
  PROVE  /\ SumOf(f) <= Over(x, A)
         /\ UNION {part[w] : w \in W} = A => SumOf(f) = Over(x, A)
<1> USE DEF TellsParts
<1>1. IsFiniteSet(I)
  <2>1. name \in Surjection(W, I)
    BY DEF Surjection
  <2> QED BY <2>1, FS_Surjection
<1>2. SumOf([w \in W |-> f[name[w]]]) = Over(f, I)
  BY <1>1, SumRenamed DEF Renames
<1>3. Over(f, I) = SumOf(f)
  <2>1. [i \in I |-> f[i]] = f
    OBVIOUS
  <2> QED BY <2>1 DEF Over
<1>4. SumOf([w \in W |-> Over(x, part[w])]) = Over(x, UNION {part[w] : w \in W})
  BY SumByParts
<1>5. [w \in W |-> f[name[w]]] = [w \in W |-> Over(x, part[w])]
  OBVIOUS
<1>6. PICK B \in SUBSET A : B = UNION {part[w] : w \in W}
  OBVIOUS
<1>7. Over(x, B) <= Over(x, A)
  BY SumOfMore
<1> QED BY <1>2, <1>3, <1>4, <1>5, <1>6, <1>7

\* A sorted history: rising odometers, in one unit.
History(o, n, D, u) ==
  /\ n \in Nat /\ D = 1..n /\ o \in [D -> Fills]
  /\ \A p \in D : o[p].unit = u
  /\ \A p, q \in D : p < q => o[p].odo < o[q].odo

FuelOf(o, D) == [p \in D |-> o[p].quantity]
MetresAt(o, D) == [p \in D |-> AtMetres(o[p])]

LEMMA HistoryFacts ==
  ASSUME NEW o, NEW n, NEW D, NEW u, History(o, n, D, u)
  PROVE  /\ IsFiniteSet(D) /\ DOMAIN o = D /\ D \in SUBSET Nat
         /\ FuelOf(o, D) \in [D -> Int] /\ \A p \in D : FuelOf(o, D)[p] >= 0
         /\ MetresAt(o, D) \in [D -> Int]
         /\ \A p, q \in D : p < q => MetresAt(o, D)[p] < MetresAt(o, D)[q]
         /\ \A p \in D : /\ o[p].odo \in Nat /\ o[p].quantity \in Nat /\ o[p].full \in BOOLEAN
                         /\ o[p].missed \in BOOLEAN /\ o[p].electric \in BOOLEAN
<1>1. IsFiniteSet(D) /\ DOMAIN o = D /\ D \in SUBSET Nat
  BY FS_Interval DEF History
<1>2. ASSUME NEW p \in D
      PROVE  /\ o[p].odo \in Nat /\ o[p].quantity \in Nat /\ o[p].full \in BOOLEAN
             /\ o[p].missed \in BOOLEAN /\ o[p].electric \in BOOLEAN
             /\ MetresPer[u] \in Nat \ {0} /\ AtMetres(o[p]) = o[p].odo * MetresPer[u]
  <2>1. o[p] \in Fills /\ o[p].unit = u
    BY DEF History
  <2> QED BY <2>1, FuelConstants DEF AtMetres
<1>3. ASSUME NEW p \in D, NEW q \in D, p < q PROVE AtMetres(o[p]) < AtMetres(o[q])
  <2>1. o[p].odo < o[q].odo
    BY <1>3 DEF History
  <2>2. PICK x, y \in Nat, k \in Nat \ {0} : x = o[p].odo /\ y = o[q].odo /\ k = MetresPer[u]
    BY <1>2
  <2>3. x * k < y * k
    BY <2>1, <2>2
  <2> QED BY <1>2, <2>2, <2>3
<1>4. FuelOf(o, D) \in [D -> Int] /\ \A p \in D : FuelOf(o, D)[p] >= 0
  BY <1>2 DEF FuelOf
<1>5. MetresAt(o, D) \in [D -> Int]
  BY <1>2 DEF MetresAt
<1>6. \A p, q \in D : p < q => MetresAt(o, D)[p] < MetresAt(o, D)[q]
  BY <1>3 DEF MetresAt
<1> QED BY <1>1, <1>2, <1>4, <1>5, <1>6

\* No interval is told twice, and fuel and distance in intervals are parts of those
\* between the first full fill and the last: all of them if no window is skipped.
TellsIntervals(o, n, D, u, a, b, W, I) ==
  /\ History(o, n, D, u) /\ a \in FullIndexes(o) /\ b \in FullIndexes(o)
  /\ \A i \in FullIndexes(o) : a <= i /\ i <= b
  /\ W = {w \in Windows(o) : Measurable(o, w)} /\ I = {Interval(o, w) : w \in W}

LEMMA IntervalsAddUp ==
  ASSUME NEW o, NEW n, NEW D, NEW u, NEW a, NEW b, NEW W, NEW I,
         TellsIntervals(o, n, D, u, a, b, W, I)
  PROVE  /\ IsFiniteSet(I)
         /\ MetresIn(I) <= MetresAt(o, D)[b] - MetresAt(o, D)[a]
         /\ QuantityIn(I) <= Over(FuelOf(o, D), (a + 1)..b)
         /\ W = Windows(o) => /\ MetresIn(I) = MetresAt(o, D)[b] - MetresAt(o, D)[a]
                              /\ QuantityIn(I) = Over(FuelOf(o, D), (a + 1)..b)
<1> DEFINE part == [w \in W |-> Consumed(w)]
           name == [w \in W |-> Interval(o, w)]
           A == (a + 1)..b
           X == MetresAt(o, D)
           x == [p \in D |-> IF p = 1 THEN 0 ELSE X[p] - X[p - 1]]
<1>28. /\ History(o, n, D, u) /\ a \in FullIndexes(o) /\ b \in FullIndexes(o)
       /\ \A i \in FullIndexes(o) : a <= i /\ i <= b
       /\ W = {w \in Windows(o) : Measurable(o, w)} /\ I = {Interval(o, w) : w \in W}
  BY DEF TellsIntervals
<1> USE <1>28
<1>1. /\ IsFiniteSet(D) /\ DOMAIN o = D /\ D \in SUBSET Nat /\ FullIndexes(o) \in SUBSET D
      /\ a \in D /\ b \in D
  BY HistoryFacts DEF FullIndexes
<1>2. n \in Nat /\ D = 1..n
  BY DEF History
<1>0. n \in Nat
  BY DEF History
<1>3. ASSUME NEW w \in W
      PROVE  w \in Windows(o) /\ w = <<w[1], w[2]>> /\ w[1] \in D /\ w[2] \in D /\ w[1] < w[2]
  BY <1>1 DEF Windows
<1>4. IsFiniteSet(W)
  <2>1. IsFiniteSet(D \X D)
    BY <1>1, FS_Product
  <2>2. W \in SUBSET (D \X D)
    BY <1>1 DEF Windows
  <2> QED BY <2>1, <2>2, FS_Subset
<1>5. /\ \A v, w \in Windows(o) : v # w => Consumed(v) \cap Consumed(w) = {}
      /\ UNION {Consumed(w) : w \in Windows(o)} = A
  BY <1>1, <1>2, WindowsCover
<1>6. A \in SUBSET D
  <2>1. \A p \in A : p \in Int /\ a < p /\ p <= b
    BY <1>1
  <2> QED BY <1>1, <1>2, <2>1
<1>7. part \in [W -> SUBSET D] /\ \A v, w \in W : v # w => part[v] \cap part[w] = {}
  BY <1>3, <1>5, <1>6
<1>8. /\ UNION {part[w] : w \in W} \subseteq A
      /\ W = Windows(o) => UNION {part[w] : w \in W} = A
  BY <1>3, <1>5
<1>9. name \in [W -> I] /\ I = {name[w] : w \in W}
  OBVIOUS
<1>27. IsFiniteSet(I)
  <2>1. name \in Surjection(W, I)
    <3> HIDE DEF name
    <3> QED BY <1>9 DEF Surjection
  <2> HIDE DEF name
  <2> QED BY <1>4, <2>1, FS_Surjection
<1>10. ASSUME NEW v \in W, NEW w \in W, name[v] = name[w] PROVE v = w
  <2>1. o[v[1]].odo = o[w[1]].odo /\ o[v[2]].odo = o[w[2]].odo
    BY <1>10 DEF Interval
  <2>2. ASSUME NEW p \in D, NEW q \in D, o[p].odo = o[q].odo PROVE p = q
    <3>1. p \in Nat /\ q \in Nat /\ o[p].odo \in Nat /\ o[q].odo \in Nat
      BY <1>1, HistoryFacts
    <3>2. ~ (p < q) /\ ~ (q < p)
      BY <2>2, <3>1 DEF History
    <3> QED BY <3>1, <3>2
  <2> QED BY <1>3, <2>1, <2>2
<1>11. X \in [D -> Int] /\ \A p, q \in D : p < q => X[p] < X[q]
  BY HistoryFacts
<1>12. x \in [D -> Int] /\ \A p \in D : x[p] >= 0
  <2> SUFFICES ASSUME NEW p \in D, p # 1 PROVE X[p] - X[p - 1] \in Nat
    <3> HIDE DEF X
    <3> QED OBVIOUS
  <2> HIDE DEF X
  <2>1. p - 1 \in D /\ p - 1 < p
    BY <1>2
  <2> QED BY <1>11, <2>1
<1>13. Steps(n, D, X, x)
  BY <1>2 DEF Steps
<1> HIDE DEF X, x
<1>14. \A i, j \in D : i <= j => Over(x, (i + 1)..j) = X[j] - X[i]
  BY <1>0, <1>11, <1>12, <1>13, StepsAddUp
<1>15. ASSUME NEW w \in W PROVE Interval(o, w).metres = Over(x, part[w])
  <2>1. Interval(o, w).metres = X[w[2]] - X[w[1]]
    BY <1>3 DEF Interval, Travelled, X, MetresAt
  <2>2. w[1] <= w[2]
    BY <1>1, <1>3
  <2>3. Over(x, (w[1] + 1)..w[2]) = X[w[2]] - X[w[1]]
    BY <1>3, <1>14, <2>2
  <2> QED BY <2>1, <2>3 DEF Consumed
<1>16. ASSUME NEW w \in W PROVE Interval(o, w).quantity = Over(FuelOf(o, D), part[w])
  <2>1. Consumed(w) \in SUBSET D
    BY <1>7
  <2>2. [p \in Consumed(w) |-> FuelOf(o, D)[p]] = [p \in Consumed(w) |-> o[p].quantity]
    BY <2>1 DEF FuelOf
  <2>3. Interval(o, w).quantity = SumOf([p \in Consumed(w) |-> o[p].quantity])
    BY DEF Interval, Bought
  <2> QED BY <2>2, <2>3 DEF Over
<1>17. FuelOf(o, D) \in [D -> Int] /\ \A p \in D : FuelOf(o, D)[p] >= 0
  BY HistoryFacts
<1> DEFINE m == [i \in I |-> i.metres]
           q == [i \in I |-> i.quantity]
<1>18. \A w \in W : name[w] = Interval(o, w) /\ name[w] \in I
  OBVIOUS
<1>19. \A w \in W : Over(x, part[w]) \in Int /\ Over(FuelOf(o, D), part[w]) \in Int
  <2> HIDE DEF part
  <2> QED BY <1>1, <1>7, <1>12, <1>17, SumSteps
<1>20. m \in [I -> Int] /\ \A w \in W : m[name[w]] = Over(x, part[w])
  <2> HIDE DEF part
  <2> QED BY <1>15, <1>18, <1>19
<1>21. q \in [I -> Int] /\ \A w \in W : q[name[w]] = Over(FuelOf(o, D), part[w])
  <2> HIDE DEF part
  <2> QED BY <1>16, <1>18, <1>19
<1>22. MetresIn(I) = SumOf(m) /\ QuantityIn(I) = SumOf(q)
  BY DEF MetresIn, QuantityIn
<1> HIDE DEF part, name, A, m, q
<1>23. Over(x, A) = X[b] - X[a]
  <2>1. a <= b
    OBVIOUS
  <2> QED BY <1>1, <1>14, <2>1 DEF A
<1>24. /\ SumOf(m) <= Over(x, A)
       /\ UNION {part[w] : w \in W} = A => SumOf(m) = Over(x, A)
  <2>1. TellsParts(x, D, A, W, part, name, I, m)
    BY <1>1, <1>4, <1>6, <1>7, <1>8, <1>9, <1>10, <1>12, <1>20 DEF TellsParts
  <2> QED BY <2>1, NamedParts
<1>25. /\ SumOf(q) <= Over(FuelOf(o, D), A)
       /\ UNION {part[w] : w \in W} = A => SumOf(q) = Over(FuelOf(o, D), A)
  <2>1. TellsParts(FuelOf(o, D), D, A, W, part, name, I, q)
    BY <1>1, <1>4, <1>6, <1>7, <1>8, <1>9, <1>10, <1>17, <1>21 DEF TellsParts
  <2> QED BY <2>1, NamedParts
<1> QED BY <1>8, <1>27, <1>22, <1>23, <1>24, <1>25 DEF A, X

LEMMA OnlyOne ==
  ASSUME NEW T, IsFiniteSet(T), Cardinality(T) <= 1, NEW c \in T, NEW d \in T
  PROVE  c = d
<1>1. IsFiniteSet(T \ {c}) /\ Cardinality(T \ {c}) = Cardinality(T) - 1
  BY FS_RemoveElement
<1>2. Cardinality(T) \in Nat /\ Cardinality(T \ {c}) \in Nat
  BY <1>1, FS_CardinalityType
<1>3. Cardinality(T \ {c}) = 0
  BY <1>1, <1>2
<1>4. T \ {c} = {}
  BY <1>1, <1>3, FS_EmptySet
<1> QED BY <1>4

\* Of one unit and apart, the sorted fills are a history.
LEMMA SortedHistory ==
  ASSUME NEW h \in Seq(Fills), Apart(h), OneUnit(h)
  PROVE  History(Ordered(h), Len(h), DOMAIN h, h[1].unit)
<1>1. PICK at \in [DOMAIN h -> DOMAIN h] :
           /\ Ordered(h) = [p \in DOMAIN h |-> h[at[p]]]
           /\ \A p, q \in DOMAIN h : p < q => h[at[p]].odo < h[at[q]].odo
  BY SortedFills
<1>2. ASSUME NEW i \in DOMAIN h PROVE h[i].unit = h[1].unit
  <2> DEFINE U == {h[j].unit : j \in DOMAIN h}
             g == [j \in DOMAIN h |-> h[j].unit]
  <2>1. IsFiniteSet(U)
    <3>1. g \in Surjection(DOMAIN h, U)
      BY DEF Surjection
    <3>2. IsFiniteSet(DOMAIN h)
      BY FillFacts
    <3> HIDE DEF g, U
    <3> QED BY <3>1, <3>2, FS_Surjection
  <2>2. 1 \in DOMAIN h
    BY FillFacts
  <2>3. Cardinality(U) <= 1 /\ h[i].unit \in U /\ h[1].unit \in U
    BY <2>2 DEF OneUnit
  <2> HIDE DEF U
  <2> QED BY <2>1, <2>3, OnlyOne
<1>3. Ordered(h) \in [DOMAIN h -> Fills]
  <2>1. \A i \in DOMAIN h : h[i] \in Fills
    OBVIOUS
  <2> QED BY <1>1, <2>1
<1>4. Len(h) \in Nat /\ DOMAIN h = 1..Len(h)
  BY FillFacts
<1>5. ASSUME NEW p \in DOMAIN h PROVE Ordered(h)[p].unit = h[1].unit
  <2>1. at[p] \in DOMAIN h /\ Ordered(h)[p] = h[at[p]]
    BY <1>1
  <2> QED BY <1>2, <2>1
<1>6. ASSUME NEW p \in DOMAIN h, NEW q \in DOMAIN h, p < q
      PROVE  Ordered(h)[p].odo < Ordered(h)[q].odo
  BY <1>1, <1>6
<1> QED BY <1>3, <1>4, <1>5, <1>6 DEF History

\* What was bought between two fills, told of the log and of the sorted history.
LEMMA BoughtBetween ==
  ASSUME NEW h \in Seq(Fills), Apart(h), OneUnit(h), NEW a \in DOMAIN h, NEW b \in DOMAIN h,
         NEW B, B = {i \in DOMAIN h : Ordered(h)[a].odo < h[i].odo /\ h[i].odo <= Ordered(h)[b].odo}
  PROVE  /\ Bought(h, B) = Over(FuelOf(Ordered(h), DOMAIN h), (a + 1)..b)
         /\ (a + 1)..b \in SUBSET DOMAIN h
         /\ {Ordered(h)[p] : p \in (a + 1)..b} = {h[i] : i \in B}
<1> DEFINE D == DOMAIN h
           A == (a + 1)..b
           o == Ordered(h)
<1>1. PICK at \in [D -> D] :
           /\ o = [p \in D |-> h[at[p]]]
           /\ \A p, q \in D : p < q => h[at[p]].odo < h[at[q]].odo
           /\ \A i \in D : \E p \in D : at[p] = i
  BY SortedFills
<1>2. D \in SUBSET Int /\ IsFiniteSet(D) /\ \A i \in D : h[i].odo \in Int /\ h[i].quantity \in Int
  BY FillFacts
<1>3. A \in SUBSET D
  <2>1. Len(h) \in Nat /\ D = 1..Len(h)
    BY FillFacts
  <2>2. \A p \in A : p \in Int /\ a < p /\ p <= b
    BY <1>2
  <2> QED BY <2>1, <2>2
<1>4. ASSUME NEW p \in D PROVE p \in A <=> at[p] \in B
  <2>1. p \in Int /\ a \in Int /\ b \in Int
    BY <1>2
  <2>2. p \in A <=> a < p /\ p <= b
    BY <2>1
  <2>3. /\ at[p] \in D /\ o[a] = h[at[a]] /\ o[b] = h[at[b]]
        /\ h[at[p]].odo \in Int /\ h[at[a]].odo \in Int /\ h[at[b]].odo \in Int
    BY <1>1, <1>2
  <2>4. a < p <=> h[at[a]].odo < h[at[p]].odo
    <3>1. a < p => h[at[a]].odo < h[at[p]].odo
      BY <1>1
    <3>2. p < a => h[at[p]].odo < h[at[a]].odo
      BY <1>1
    <3>3. a = p => h[at[a]].odo = h[at[p]].odo
      OBVIOUS
    <3> QED BY <2>1, <2>3, <3>1, <3>2, <3>3
  <2>5. p <= b <=> h[at[p]].odo <= h[at[b]].odo
    <3>1. p < b => h[at[p]].odo < h[at[b]].odo
      BY <1>1
    <3>2. b < p => h[at[b]].odo < h[at[p]].odo
      BY <1>1
    <3>3. b = p => h[at[b]].odo = h[at[p]].odo
      OBVIOUS
    <3> QED BY <2>1, <2>3, <3>1, <3>2, <3>3
  <2> QED BY <2>2, <2>3, <2>4, <2>5
<1> HIDE DEF A
<1>5. B = {at[p] : p \in A}
  <2>1. ASSUME NEW i \in B PROVE \E p \in A : at[p] = i
    <3>1. PICK p \in D : at[p] = i
      BY <1>1
    <3> QED BY <1>4, <3>1
  <2>2. ASSUME NEW p \in A PROVE at[p] \in B
    BY <1>3, <1>4
  <2> HIDE DEF D
  <2> QED BY <2>1, <2>2
<1> DEFINE q == [i \in D |-> h[i].quantity]
           name == [p \in A |-> at[p]]
<1>6. SumOf([p \in A |-> q[name[p]]]) = Over(q, {name[p] : p \in A})
  <2>1. q \in [D -> Int] /\ name \in [A -> D]
    BY <1>1, <1>2, <1>3
  <2>2. IsFiniteSet(A)
    BY <1>2, <1>3, FS_Subset
  <2>3. \A v, w \in A : name[v] = name[w] => v = w
    <3> SUFFICES ASSUME NEW v \in A, NEW w \in A, at[v] = at[w] PROVE v = w
      OBVIOUS
    <3>1. v \in D /\ w \in D /\ v \in Int /\ w \in Int /\ h[at[v]].odo \in Int
      BY <1>1, <1>2, <1>3
    <3>2. v < w => h[at[v]].odo < h[at[v]].odo
      BY <1>1, <3>1
    <3>3. w < v => h[at[v]].odo < h[at[v]].odo
      BY <1>1, <3>1
    <3> HIDE DEF D
    <3> QED BY <3>1, <3>2, <3>3
  <2>4. IsFiniteSet(D)
    BY <1>2
  <2> HIDE DEF q, name, D
  <2>5. Renames(q, D, name, A)
    BY <2>1, <2>2, <2>3, <2>4 DEF Renames
  <2> QED BY <2>5, SumRenamed
<1>7. {name[p] : p \in A} = B
  BY <1>5
<1>8. Over(q, B) = Bought(h, B)
  <2>1. [i \in B |-> q[i]] = [i \in B |-> h[i].quantity]
    OBVIOUS
  <2> QED BY <2>1 DEF Over, Bought
<1>9. SumOf([p \in A |-> q[name[p]]]) = Over(FuelOf(o, D), A)
  <2>1. [p \in A |-> q[name[p]]] = [p \in A |-> FuelOf(o, D)[p]]
    BY <1>1, <1>3 DEF FuelOf
  <2> QED BY <2>1 DEF Over
<1>10. {o[p] : p \in A} = {h[i] : i \in B}
  <2>1. \A p \in A : o[p] = h[at[p]]
    BY <1>1, <1>3
  <2> HIDE DEF o
  <2> QED BY <1>5, <2>1
<1> QED BY <1>3, <1>6, <1>7, <1>8, <1>9, <1>10 DEF A

\* With no fill missed, fuel in every one and one energy, no window is skipped.
LEMMA NoneSkipped ==
  ASSUME NEW o, NEW n, NEW D, NEW u, History(o, n, D, u),
         NEW a \in FullIndexes(o), NEW b \in FullIndexes(o),
         \A i \in FullIndexes(o) : a <= i /\ i <= b,
         NEW e \in BOOLEAN,
         \A p \in (a + 1)..b : ~o[p].missed /\ o[p].quantity > 0 /\ o[p].electric = e
  PROVE  \A w \in Windows(o) : Measurable(o, w) /\ Energies(o, w) = {e}
<1> SUFFICES ASSUME NEW w \in Windows(o) PROVE Measurable(o, w) /\ Energies(o, w) = {e}
  OBVIOUS
<1>1. /\ IsFiniteSet(D) /\ DOMAIN o = D /\ D \in SUBSET Nat /\ FullIndexes(o) \in SUBSET D
      /\ n \in Nat /\ D = 1..n
  <2>1. IsFiniteSet(D) /\ DOMAIN o = D /\ D \in SUBSET Nat
    BY HistoryFacts
  <2>2. FullIndexes(o) \in SUBSET D
    BY <2>1 DEF FullIndexes
  <2> QED BY <2>1, <2>2 DEF History
<1>2. Consumed(w) \in SUBSET ((a + 1)..b)
  BY <1>1, WindowsCover
<1>3. w[1] \in D /\ w[2] \in D /\ w[1] \in Int /\ w[2] \in Int /\ w[1] < w[2]
  BY <1>1 DEF Windows
<1>4. w[2] \in Consumed(w)
  BY <1>3 DEF Consumed
<1>5. Consumed(w) \in SUBSET D
  <2>1. \A p \in Consumed(w) : p \in Int /\ w[1] < p /\ p <= w[2]
    BY <1>3 DEF Consumed
  <2> QED BY <1>1, <1>3, <2>1
<1> HIDE DEF Consumed
<1>6. \A p \in Consumed(w) : ~o[p].missed
  BY <1>2
<1>7. Energies(o, w) = {e}
  <2>1. \A p \in Consumed(w) : o[p].electric = e
    BY <1>2
  <2> QED BY <1>4, <2>1 DEF Energies
<1>8. {e} # BOOLEAN
  BY Zenon
<1>9. Travelled(o, w) > 0
  <2>1. MetresAt(o, D) \in [D -> Int] /\ MetresAt(o, D)[w[1]] < MetresAt(o, D)[w[2]]
    BY <1>3, HistoryFacts
  <2>2. PICK x, y \in Int : x = MetresAt(o, D)[w[1]] /\ y = MetresAt(o, D)[w[2]] /\ x < y
    BY <1>3, <2>1
  <2>3. Travelled(o, w) = y - x
    BY <1>3, <2>2 DEF Travelled, MetresAt
  <2> QED BY <2>2, <2>3
<1>10. Bought(o, Consumed(w)) > 0
  <2> DEFINE f == FuelOf(o, D)
  <2>1. f \in [D -> Int]
    BY HistoryFacts
  <2>2. \A p \in Consumed(w) : f[p] > 0
    BY <1>2, <1>5 DEF FuelOf
  <2>3. [p \in Consumed(w) |-> f[p]] = [p \in Consumed(w) |-> o[p].quantity]
    BY <1>5 DEF FuelOf
  <2>4. Bought(o, Consumed(w)) = Over(f, Consumed(w))
    BY <2>3 DEF Bought, Over
  <2>5. IsFiniteSet(D) /\ Consumed(w) # {}
    BY <1>1, <1>4
  <2> HIDE DEF f
  <2>6. Over(f, Consumed(w)) > 0
    BY <1>5, <2>1, <2>2, <2>5, SumIsPositive
  <2> QED BY <2>4, <2>6
<1> QED BY <1>6, <1>7, <1>8, <1>9, <1>10 DEF Measurable

\* Intervals of one energy are the average's whole pool.
LEMMA WholePool ==
  ASSUME NEW h, Intervals(h) # {}, IsFiniteSet(Intervals(h)), NEW e \in BOOLEAN,
         \A i \in Intervals(h) : i.electric = e
  PROVE  Average(h) = [metres |-> MetresIn(Intervals(h)), quantity |-> QuantityIn(Intervals(h)),
                       electric |-> e]
<1> DEFINE I == Intervals(h)
           liquid == {i \in I : ~i.electric}
           electric == I \ liquid
           pool == IF Cardinality(liquid) >= Cardinality(electric) THEN liquid ELSE electric
<1> HIDE DEF I
<1>1. I # {} /\ IsFiniteSet(I) /\ \A i \in I : i.electric = e
  BY DEF I
<1>2. Cardinality(I) \in Nat /\ Cardinality(I) # 0 /\ Cardinality({}) = 0
  BY <1>1, FS_CardinalityType, FS_EmptySet
<1>3. CASE e = TRUE
  <2>1. liquid = {} /\ electric = I
    BY <1>1, <1>3
  <2>2. Cardinality(liquid) = 0 /\ Cardinality(electric) = Cardinality(I)
    BY <1>2, <2>1, Zenon
  <2>3. ~ (Cardinality(liquid) >= Cardinality(electric))
    <3> HIDE DEF liquid, electric
    <3> QED BY <1>2, <2>2
  <2>4. pool = I /\ pool # liquid
    BY <1>1, <2>1, <2>3, Zenon
  <2> QED BY <1>1, <1>3, <2>4 DEF Average, I
<1>4. CASE e = FALSE
  <2>1. liquid = I /\ electric = {}
    BY <1>1, <1>4
  <2>2. Cardinality(liquid) = Cardinality(I) /\ Cardinality(electric) = 0
    BY <1>2, <2>1, Zenon
  <2>4. Cardinality(liquid) >= Cardinality(electric)
    <3> HIDE DEF liquid, electric
    <3> QED BY <1>2, <2>2
  <2>3. pool = I /\ ~(pool # liquid)
    BY <2>1, <2>4
  <2> QED BY <1>1, <1>4, <2>3 DEF Average, I
<1> QED BY <1>3, <1>4

\* The first full fill and the last are those with the least and the greatest odometer.
LEMMA FirstAndLast ==
  ASSUME NEW h \in Seq(Fills), Apart(h), OneUnit(h),
         NEW odos, odos = {h[i].odo : i \in {j \in DOMAIN h : h[j].full}}, odos # {}
  PROVE  \E a, b \in FullIndexes(Ordered(h)) :
           /\ \A i \in FullIndexes(Ordered(h)) : a <= i /\ i <= b
           /\ Min(odos) = Ordered(h)[a].odo /\ Max(odos) = Ordered(h)[b].odo
<1> DEFINE D == DOMAIN h
           o == Ordered(h)
           G == FullIndexes(o)
<1>1. PICK at \in [D -> D] :
           /\ o = [p \in D |-> h[at[p]]]
           /\ \A i \in D : \E p \in D : at[p] = i
  BY SortedFills
<1>2. History(o, Len(h), D, h[1].unit)
  BY SortedHistory
<1> HIDE DEF o
<1>3. IsFiniteSet(D) /\ DOMAIN o = D /\ D \in SUBSET Nat /\ D \in SUBSET Int
  BY <1>2, HistoryFacts
<1>4. /\ \A p \in D : o[p].odo \in Int
      /\ \A p, q \in D : p < q => o[p].odo < o[q].odo
  <2>1. \A p \in D : o[p].odo \in Int
    BY <1>2, HistoryFacts
  <2>2. \A p, q \in D : p < q => o[p].odo < o[q].odo
    BY <1>2 DEF History
  <2> QED BY <2>1, <2>2
<1>5. G = {p \in D : o[p].full}
  BY <1>3 DEF FullIndexes
<1>6. odos = {o[p].odo : p \in G}
  <2>1. ASSUME NEW i \in D, h[i].full PROVE \E p \in G : o[p].odo = h[i].odo
    <3>1. PICK p \in D : at[p] = i
      BY <1>1
    <3>2. o[p] = h[i]
      BY <1>1, <3>1
    <3> QED BY <1>5, <2>1, <3>2
  <2>2. ASSUME NEW p \in G PROVE \E i \in {j \in D : h[j].full} : o[p].odo = h[i].odo
    <3>1. at[p] \in D /\ o[p] = h[at[p]] /\ o[p].full
      BY <1>1, <1>5
    <3> QED BY <3>1
  <2> QED BY <2>1, <2>2
<1> HIDE DEF G
<1>7. G \in SUBSET D /\ G \in SUBSET Nat /\ G \in SUBSET Int /\ G # {}
  BY <1>3, <1>5, <1>6
<1>8. IsFiniteSet(G)
  BY <1>3, <1>7, FS_Subset
<1>9. PICK a \in G : \A i \in G : a <= i
  BY <1>7, LeastNumber
<1>10. PICK b \in G : \A i \in G : b >= i
  BY <1>7, <1>8, GreatestNumber
<1>11. \A i \in G : a <= i /\ i <= b
  BY <1>7, <1>9, <1>10
<1>12. \A x \in odos : x \in Int /\ o[a].odo <= x /\ x <= o[b].odo
  <2>1. ASSUME NEW p \in G PROVE o[p].odo \in Int /\ o[a].odo <= o[p].odo /\ o[p].odo <= o[b].odo
    <3>1. p \in Int /\ a \in Int /\ b \in Int /\ a <= p /\ p <= b
      BY <1>7, <1>11
    <3>2. a = p \/ a < p
      BY <3>1
    <3>3. p = b \/ p < b
      BY <3>1
    <3>4. a \in D /\ b \in D /\ p \in D
      BY <1>7
    <3>5. o[p].odo \in Int /\ o[a].odo \in Int /\ o[b].odo \in Int
      BY <1>4, <3>4
    <3>6. o[a].odo <= o[p].odo
      BY <1>4, <3>2, <3>4, <3>5
    <3>7. o[p].odo <= o[b].odo
      BY <1>4, <3>3, <3>4, <3>5
    <3> QED BY <3>5, <3>6, <3>7
  <2> QED BY <1>6, <2>1
<1>13. o[a].odo \in odos /\ o[b].odo \in odos
  BY <1>6
<1>14. Min(odos) = o[a].odo
  <2>1. \E x \in odos : \A y \in odos : x <= y
    BY <1>12, <1>13
  <2>2. Min(odos) \in odos /\ \A y \in odos : Min(odos) <= y
    BY <2>1, Zenon DEF Min
  <2>3. PICK m \in odos : m = Min(odos)
    BY <2>2
  <2>4. m \in Int /\ o[a].odo \in Int /\ m <= o[a].odo /\ o[a].odo <= m
    BY <1>12, <1>13, <2>2, <2>3
  <2> QED BY <2>3, <2>4
<1>15. Max(odos) = o[b].odo
  <2>1. \A y \in odos : y \in Int /\ o[b].odo \in Int
    BY <1>12, <1>13
  <2>2. \E x \in odos : \A y \in odos : x >= y
    BY <1>12, <1>13, <2>1
  <2>3. Max(odos) \in odos /\ \A y \in odos : Max(odos) >= y
    BY <2>2, Zenon DEF Max
  <2>4. PICK m \in odos : m = Max(odos)
    BY <2>3
  <2>5. m \in Int /\ o[b].odo \in Int /\ m >= o[b].odo /\ m <= o[b].odo
    BY <1>12, <1>13, <2>3, <2>4
  <2> QED BY <2>4, <2>5
<1> QED BY <1>11, <1>14, <1>15 DEF G, o

LEMMA Distributed == \A x, y, k \in Int : (y - x) * k = y * k - x * k
OBVIOUS

\* The fuel is counted once in any log of fills.
LEMMA CountedOnce == fills \in Seq(Fills) => FuelIsCountedOnce
<1> DEFINE full == {i \in DOMAIN fills : fills[i].full}
           odos == {fills[i].odo : i \in full}
           first == Min(odos)
           last == Max(odos)
           between == {i \in DOMAIN fills : first < fills[i].odo /\ fills[i].odo <= last}
           clean == \A i \in between : ~fills[i].missed /\ fills[i].quantity > 0
           distance == (last - first) * MetresPer[fills[1].unit]
           energies == {fills[i].electric : i \in between}
           I == Intervals(fills)
<1> SUFFICES ASSUME fills \in Seq(Fills), Cardinality(full) >= 2, OneUnit(fills), Apart(fills)
    PROVE  /\ MetresIn(I) <= distance
           /\ QuantityIn(I) <= Bought(fills, between)
           /\ clean /\ Cardinality(energies) = 1 =>
                Average(fills) = [metres |-> distance, quantity |-> Bought(fills, between),
                                  electric |-> energies = {TRUE}]
  BY DEF FuelIsCountedOnce, Apart
<1> DEFINE D == DOMAIN fills
           o == Ordered(fills)
           u == fills[1].unit
           F == FuelOf(o, D)
           X == MetresAt(o, D)
<1>1. odos # {}
  <2>1. Cardinality({}) = 0
    BY FS_EmptySet
  <2>2. full # {}
    <3>1. Cardinality(full) # 0
      OBVIOUS
    <3> HIDE DEF full
    <3> QED BY <2>1, <3>1, Zenon
  <2> QED BY <2>2
<1>2. PICK a, b \in FullIndexes(o) :
           /\ \A i \in FullIndexes(o) : a <= i /\ i <= b
           /\ first = o[a].odo /\ last = o[b].odo
  <2> HIDE DEF full
  <2>1. odos = {fills[i].odo : i \in {j \in DOMAIN fills : fills[j].full}}
    BY DEF full
  <2> HIDE DEF odos
  <2> QED BY <1>1, <2>1, FirstAndLast
<1>3. History(o, Len(fills), D, u)
  BY SortedHistory
<1>4. /\ IsFiniteSet(D) /\ DOMAIN o = D /\ D \in SUBSET Nat
      /\ X \in [D -> Int] /\ a \in D /\ b \in D
      /\ \A p \in D : /\ o[p].odo \in Nat /\ o[p].electric \in BOOLEAN
  BY <1>3, HistoryFacts DEF FullIndexes
<1>5. distance = X[b] - X[a]
  <2>1. o[a] \in Fills /\ o[b] \in Fills /\ o[a].unit = u /\ o[b].unit = u
    BY <1>3, <1>4 DEF History
  <2>2. MetresPer[u] \in Nat
    BY <2>1, FuelConstants
  <2>3. X[a] = o[a].odo * MetresPer[u] /\ X[b] = o[b].odo * MetresPer[u]
    BY <1>4, <2>1 DEF MetresAt, AtMetres
  <2>4. PICK x, y, k \in Int : x = o[a].odo /\ y = o[b].odo /\ k = MetresPer[u]
    BY <1>4, <2>2
  <2>5. (y - x) * k = y * k - x * k
    BY <2>4, Distributed
  <2> HIDE DEF first, last, X, u
  <2> QED BY <1>2, <2>3, <2>4, <2>5 DEF u
<1>6. /\ Bought(fills, between) = Over(F, (a + 1)..b)
      /\ (a + 1)..b \in SUBSET D
      /\ {o[p] : p \in (a + 1)..b} = {fills[i] : i \in between}
  <2>1. between = {i \in D : o[a].odo < fills[i].odo /\ fills[i].odo <= o[b].odo}
    BY <1>2
  <2> HIDE DEF between
  <2> QED BY <1>4, <2>1, BoughtBetween
<1> HIDE DEF first, last, distance, o
<1> DEFINE W == {w \in Windows(o) : Measurable(o, w)}
<1>7. I = {Interval(o, w) : w \in W}
  BY DEF Intervals, o
<1> HIDE DEF I, W, F, X
<1>8. /\ IsFiniteSet(I)
      /\ MetresIn(I) <= X[b] - X[a] /\ QuantityIn(I) <= Over(F, (a + 1)..b)
      /\ W = Windows(o) => MetresIn(I) = X[b] - X[a] /\ QuantityIn(I) = Over(F, (a + 1)..b)
  <2>1. W = {w \in Windows(o) : Measurable(o, w)}
    BY DEF W
  <2>2. TellsIntervals(o, Len(fills), D, u, a, b, W, I)
    BY <1>2, <1>3, <1>7, <2>1 DEF TellsIntervals
  <2> QED BY <2>2, IntervalsAddUp DEF F, X
<1>9. ASSUME clean, Cardinality(energies) = 1
      PROVE  Average(fills) = [metres |-> distance, quantity |-> Bought(fills, between),
                               electric |-> energies = {TRUE}]
  <2>1. energies \in SUBSET BOOLEAN
    BY <1>4, FillFacts
  <2>2. PICK e \in BOOLEAN : energies = {e}
    <3> HIDE DEF energies
    <3>0. Cardinality({}) = 0
      BY FS_EmptySet
    <3>1. energies # {}
      <4>1. Cardinality(energies) # 0
        BY <1>9
      <4> QED BY <3>0, <4>1, Zenon
    <3>2. PICK e \in energies : TRUE
      BY <3>1
    <3>3. IsFiniteSet(energies)
      <4> DEFINE g == [i \in between |-> fills[i].electric]
      <4>1. g \in Surjection(between, energies)
        BY DEF Surjection, energies
      <4>2. IsFiniteSet(between)
        BY <1>4, FS_Subset
      <4> HIDE DEF g, between
      <4> QED BY <4>1, <4>2, FS_Surjection
    <3>4. \A d \in energies : d = e
      <4>1. Cardinality(energies) <= 1
        BY <1>9
      <4> QED BY <3>2, <3>3, <4>1, OnlyOne
    <3> QED BY <2>1, <3>2, <3>4
  <2>3. \A i \in between : ~fills[i].missed /\ fills[i].quantity > 0 /\ fills[i].electric = e
    BY <1>9, <2>2
  <2>4. \A p \in (a + 1)..b : ~o[p].missed /\ o[p].quantity > 0 /\ o[p].electric = e
    <3> HIDE DEF between
    <3> TAKE p \in (a + 1)..b
    <3>1. PICK i \in between : o[p] = fills[i]
      BY <1>6
    <3> QED BY <2>3, <3>1
  <2>5. \A w \in Windows(o) : Measurable(o, w) /\ Energies(o, w) = {e}
    BY <1>2, <1>3, <2>4, NoneSkipped
  <2>6. W = Windows(o)
    BY <2>5 DEF W
  <2>7. I # {}
    <3>1. PICK i \in between : TRUE
      BY <2>2
    <3>2. PICK p \in (a + 1)..b : TRUE
      <4> HIDE DEF between
      <4> QED BY <1>6, <3>1
    <3>3. Len(fills) \in Nat /\ DOMAIN o = 1..Len(fills)
      BY <1>3, <1>4 DEF History
    <3>4. UNION {Consumed(w) : w \in Windows(o)} = (a + 1)..b
      BY <1>2, <3>3, WindowsCover
    <3>5. PICK w \in Windows(o) : p \in Consumed(w)
      BY <3>2, <3>4
    <3> QED BY <1>7, <2>6, <3>5
  <2>8. \A i \in I : i.electric = e
    <3>1. ASSUME NEW w \in W PROVE Interval(o, w).electric = e
      <4>1. Energies(o, w) = {e}
        BY <2>5, <2>6
      <4>2. ({e} = {TRUE}) = e
        BY Zenon
      <4> QED BY <4>1, <4>2 DEF Interval
    <3> QED BY <1>7, <3>1
  <2>9. Average(fills) = [metres |-> MetresIn(I), quantity |-> QuantityIn(I), electric |-> e]
    BY <1>8, <2>7, <2>8, WholePool DEF I
  <2>10. (energies = {TRUE}) = e
    <3>1. ({e} = {TRUE}) = e
      BY Zenon
    <3> QED BY <2>2, <3>1
  <2> QED BY <1>5, <1>6, <1>8, <2>6, <2>9, <2>10
<1> QED BY <1>5, <1>6, <1>8, <1>9

LEMMA FuelInitial == FuelInit => FuelInv
<1> SUFFICES ASSUME FuelInit PROVE FuelInv
  OBVIOUS
<1>1. Measured = {}
  BY DEF FuelInit, Measured
<1> QED BY <1>1, FS_EmptySet DEF FuelInit, FuelInv, MonthsOK

LEMMA FuelStep == FuelInv /\ [FillNext \/ TrendNext]_fuelVars => FuelInv'
<1> SUFFICES ASSUME FuelInv, [FillNext \/ TrendNext]_fuelVars PROVE FuelInv'
  OBVIOUS
<1>1. UNCHANGED closings => MonthsOK'
  BY DEF FuelInv, MonthsOK, Measured
<1>2. ASSUME NEW f \in Fills, LogFill(f) PROVE FuelInv'
  BY <1>1, <1>2 DEF FuelInv, LogFill
<1>3. ASSUME NEW f \in Fills, NEW i \in DOMAIN fills, CorrectFill(i, f) PROVE FuelInv'
  BY <1>1, <1>3 DEF FuelInv, CorrectFill
<1>4. ASSUME NEW i \in DOMAIN fills, RemoveFill(i) PROVE FuelInv'
  BY <1>1, <1>4 DEF FuelInv, RemoveFill
<1>5. ASSUME NEW m \in Months, NEW t \in Tanks, CloseInterval(m, t) PROVE FuelInv'
  <2>1. /\ closings \in [Months -> SUBSET Tanks] /\ fills' = fills
        /\ closings' = [closings EXCEPT ![m] = closings[m] \cup {t}]
    BY <1>5 DEF FuelInv, MonthsOK, CloseInterval
  <2>2. closings' \in [Months -> SUBSET Tanks]
    BY <2>1
  <2>3. \A n \in Months : closings'[n] = IF n = m THEN closings[m] \cup {t} ELSE closings[n]
    BY <2>1
  <2>4. \A n \in Months : IsFiniteSet(closings'[n])
    <3>1. IsFiniteSet(closings[m] \cup {t})
      BY FS_AddElement DEF FuelInv, MonthsOK
    <3> QED BY <2>3, <3>1 DEF FuelInv, MonthsOK
  <2>5. IsFiniteSet(Measured')
    <3>1. Measured' = Measured \cup {m}
      BY <2>3 DEF Measured
    <3> QED BY <3>1, FS_AddElement DEF FuelInv, MonthsOK
  <2> QED BY <2>1, <2>2, <2>4, <2>5 DEF FuelInv, MonthsOK
<1>6. CASE UNCHANGED fuelVars
  BY <1>1, <1>6 DEF FuelInv, fuelVars
<1> QED BY <1>2, <1>3, <1>4, <1>5, <1>6 DEF FillNext, TrendNext

\* Whatever is logged, back-filled, corrected and removed: no fuel and no distance
\* between the first full fill and the last is counted twice, and none of it is lost
\* when no window is skipped.
THEOREM FuelStaysCountedOnce == FuelSpec => []FuelIsCountedOnce
<1>1. FuelInv => FuelIsCountedOnce
  BY CountedOnce DEF FuelInv
<1> QED BY <1>1, FuelInitial, FuelStep, PTL DEF FuelSpec

\* Whatever closes in whatever month, the verdict on the trend goes the way the fuel went.
THEOREM VerdictStaysWithTheFuel == FuelSpec => []VerdictFollowsTheFuel
<1>1. FuelInv => VerdictFollowsTheFuel
  BY VerdictHolds DEF FuelInv
<1> QED BY <1>1, FuelInitial, FuelStep, PTL DEF FuelSpec
=============================================================================
