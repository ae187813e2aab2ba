----------------------------- MODULE FuelFigures -----------------------------
(* Fuel economy from tank to tank, and the trend over months: what the two pure  *)
(* engines make of a history of fills that grows, is back-filled and corrected. *)
EXTENDS Sequences, FiniteSets, FiniteSetsExt, Sums

CONSTANTS
  Fills,          \* what may be logged: [odo, unit, quantity, full, missed, electric]
  MaxFills,       \* bound on the fills of the history
  MetresPer,      \* metres in one of each unit
  Tanks,          \* measured intervals: [metres, quantity, electric]
  MaxTanks,       \* bound on the intervals that close in one month
  Months,         \* calendar months
  WindowMonths,   \* WINDOW_MONTHS
  BandPercent,    \* STABLE_BAND_PERCENT
  NoFigure

ASSUME FuelConstants ==
  /\ MetresPer \in [DOMAIN MetresPer -> Nat \ {0}]
  /\ Fills \subseteq [odo : Nat, unit : DOMAIN MetresPer, quantity : Nat, full : BOOLEAN,
                      missed : BOOLEAN, electric : BOOLEAN]
  /\ Tanks \subseteq [metres : Nat \ {0}, quantity : Nat \ {0}, electric : BOOLEAN]
  /\ Months \subseteq Nat /\ WindowMonths \in Nat \ {0} /\ {MaxFills, MaxTanks, BandPercent} \subseteq Nat

VARIABLES
  fills,     \* the vehicle's fills, in the order they were logged
  closings   \* the intervals that closed in each month

fuelVars == <<fills, closings>>

-----------------------------------------------------------------------------
(* The economy engine, over a history h of fills.                              *)

\* The sort is stable, and by the number on the odometer.
Place(h, i) ==
  Cardinality({j \in DOMAIN h : h[j].odo < h[i].odo \/ (h[j].odo = h[i].odo /\ j <= i)})
Ordered(h) == [n \in DOMAIN h |-> h[CHOOSE i \in DOMAIN h : Place(h, i) = n]]

AtMetres(f) == f.odo * MetresPer[f.unit]
FullIndexes(o) == {i \in DOMAIN o : o[i].full}

\* From each full fill to the next.
Windows(o) ==
  {w \in FullIndexes(o) \X FullIndexes(o) :
     w[1] < w[2] /\ \A i \in FullIndexes(o) : i <= w[1] \/ w[2] <= i}

\* The mutant counts the opening fill's own fuel.
ConsumedFromOpening(w) == w[1] .. w[2]
\* What was bought after the opening fill, the closing one included.
Consumed(w) == w[1] + 1 .. w[2]

Bought(o, S) == SumOf([i \in S |-> o[i].quantity])
Travelled(o, w) == AtMetres(o[w[2]]) - AtMetres(o[w[1]])
Energies(o, w) == {o[i].electric : i \in Consumed(w)}

\* Missed fills, mixed energies, no distance and no quantity are skipped.
Measurable(o, w) ==
  /\ \A i \in Consumed(w) : ~o[i].missed
  /\ Energies(o, w) # BOOLEAN
  /\ Travelled(o, w) > 0
  /\ Bought(o, Consumed(w)) > 0

Interval(o, w) ==
  [from |-> o[w[1]].odo, to |-> o[w[2]].odo, metres |-> Travelled(o, w),
   quantity |-> Bought(o, Consumed(w)), electric |-> Energies(o, w) = {TRUE},
   fills |-> Cardinality(Consumed(w))]
Intervals(h) == LET o == Ordered(h) IN {Interval(o, w) : w \in {x \in Windows(o) : Measurable(o, x)}}

MetresIn(S) == SumOf([i \in S |-> i.metres])
QuantityIn(S) == SumOf([i \in S |-> i.quantity])

\* The average is over the pool's whole distance, never over two energies.
Average(h) ==
  LET liquid == {i \in Intervals(h) : ~i.electric}
      electric == Intervals(h) \ liquid
      pool == IF Cardinality(liquid) >= Cardinality(electric) THEN liquid ELSE electric
  IN IF Intervals(h) = {} THEN NoFigure
     ELSE [metres |-> MetresIn(pool), quantity |-> QuantityIn(pool), electric |-> pool # liquid]

-----------------------------------------------------------------------------
(* The trend engine.                                                           *)

Measured == {m \in Months : closings[m] # {}}
LastOf(S) == {m \in S : Cardinality({n \in S : n > m}) < WindowMonths}
Recent == LastOf(Measured)
Earlier == LastOf(Measured \ Recent)

WindowMetres(S) == SumOf([m \in S |-> MetresIn(closings[m])])
WindowQuantity(S) == SumOf([m \in S |-> QuantityIn(closings[m])])

RoundDiv(a, b) == (2 * a + b) \div (2 * b)

\* The mutant compares distance per unit of fuel, which runs the other way.
HundredthsOfMileage(S, T) ==
  RoundDiv(10000 * (WindowMetres(S) * WindowQuantity(T) - WindowMetres(T) * WindowQuantity(S)),
           WindowMetres(T) * WindowQuantity(S))
\* By how much consumption over S is above that over T, in hundredths of a percent.
HundredthsOfChange(S, T) ==
  RoundDiv(10000 * (WindowQuantity(S) * WindowMetres(T) - WindowQuantity(T) * WindowMetres(S)),
           WindowQuantity(T) * WindowMetres(S))

AllClosed == UNION {closings[m] : m \in Months}
Direction ==
  CASE Cardinality({t.electric : t \in AllClosed}) # 1 -> NoFigure
    [] Cardinality(Measured) < 2 * WindowMonths -> NoFigure
    [] OTHER ->
         LET change == HundredthsOfChange(Recent, Earlier) IN
         IF change > 100 * BandPercent THEN "WORSENING"
         ELSE IF change < -100 * BandPercent THEN "IMPROVING" ELSE "STABLE"

-----------------------------------------------------------------------------
(* The history.                                                                *)

FuelInit == fills = << >> /\ closings = [m \in Months |-> {}]

\* A fill may be logged late, below the odometer of others.
LogFill(f) == Len(fills) < MaxFills /\ fills' = Append(fills, f) /\ UNCHANGED closings
CorrectFill(i, f) == fills[i] # f /\ fills' = [fills EXCEPT ![i] = f] /\ UNCHANGED closings
RemoveFill(i) ==
  /\ fills' = SubSeq(fills, 1, i - 1) \o SubSeq(fills, i + 1, Len(fills))
  /\ UNCHANGED closings

CloseInterval(m, t) ==
  /\ t \notin closings[m] /\ Cardinality(closings[m]) < MaxTanks
  /\ closings' = [closings EXCEPT ![m] = @ \cup {t}]
  /\ UNCHANGED fills

FillNext ==
  \/ \E f \in Fills : LogFill(f) \/ \E i \in DOMAIN fills : CorrectFill(i, f)
  \/ \E i \in DOMAIN fills : RemoveFill(i)
TrendNext == \E m \in Months, t \in Tanks : CloseInterval(m, t)

FuelSpec == FuelInit /\ [][FillNext \/ TrendNext]_fuelVars

-----------------------------------------------------------------------------
(* What must hold.                                                             *)

OneUnit(h) == Cardinality({h[i].unit : i \in DOMAIN h}) <= 1

\* The fuel and the distance between the first full fill and the last are each counted
\* once: the average over them is the whole of both when nothing is skipped, and no more
\* than them otherwise (computeEconomy, in whatever order the fills were logged). Fills in
\* two units are sorted by their numbers, and are left out.
FuelIsCountedOnce ==
  LET full == {i \in DOMAIN fills : fills[i].full}
      first == Min({fills[i].odo : i \in full})
      last == Max({fills[i].odo : i \in full})
      between == {i \in DOMAIN fills : first < fills[i].odo /\ fills[i].odo <= last}
      apart == \A i, j \in DOMAIN fills : fills[i].odo = fills[j].odo => i = j
      clean == \A i \in between : ~fills[i].missed /\ fills[i].quantity > 0
  IN Cardinality(full) >= 2 /\ OneUnit(fills) /\ apart =>
     LET distance == (last - first) * MetresPer[fills[1].unit]
         energies == {fills[i].electric : i \in between}
     IN /\ MetresIn(Intervals(fills)) <= distance
        /\ QuantityIn(Intervals(fills)) <= Bought(fills, between)
        /\ clean /\ Cardinality(energies) = 1 =>
             Average(fills) = [metres |-> distance, quantity |-> Bought(fills, between),
                               electric |-> energies = {TRUE}]

\* The verdict follows the fuel: when every recent month used clearly more of it per
\* distance than every earlier one, that is a worsening, and the reverse an improvement
\* (computeFuelTrend: months are pooled by distance, and higher is worse).
ClearlyAbove(S, T) ==
  \A m \in S, n \in T :
    100 * WindowQuantity({m}) * WindowMetres({n})
      > (101 + BandPercent) * WindowQuantity({n}) * WindowMetres({m})
ClearlyBelow(S, T) ==
  \A m \in S, n \in T :
    100 * WindowQuantity({m}) * WindowMetres({n})
      < (99 - BandPercent) * WindowQuantity({n}) * WindowMetres({m})
VerdictFollowsTheFuel ==
  Direction # NoFigure =>
    /\ ClearlyAbove(Recent, Earlier) => Direction = "WORSENING"
    /\ ClearlyBelow(Recent, Earlier) => Direction = "IMPROVING"
=============================================================================
