------------------------------ MODULE MCFigures ------------------------------
(* The calculations, which share no state, checked in one run: the initial       *)
(* states choose the part, and only that part moves.                            *)
EXTENDS Upkeep, Obligations, FuelFigures, CostFigures, TLC

CONSTANTS p1, p2, c1, c2, d1, d2

VARIABLE part

\* Small distances in units that do not divide one another.
MCFactor == [u \in {"MILES", "KILOMETERS"} |-> IF u = "MILES" THEN 8 ELSE 5]
MCThreshold == [u \in {"MILES", "KILOMETERS"} |-> 1]
MCReadings == [value : {1, 3, 5, 6}, unit : {"MILES", "KILOMETERS"}]

MCPlainRule ==
  [type |-> "TIME_BASED", days |-> 1, distance |-> Unset, unit |-> Unset,
   warnDays |-> Unset, warnDistance |-> Unset, on |-> Unset, odo |-> Unset]
MCBoth == [MCPlainRule EXCEPT !.type = "COMBINED", !.days = 2, !.distance = 3, !.unit = "MILES"]
MCRules ==
  {MCPlainRule, MCBoth, [MCBoth EXCEPT !.unit = "KILOMETERS", !.warnDistance = 2],
   [MCBoth EXCEPT !.unit = Unset], [MCBoth EXCEPT !.type = "DISTANCE_BASED", !.warnDays = 0]}

MCPlainCover == [starts |-> 0, ends |-> Unset, limit |-> Unset, start |-> Unset, live |-> TRUE]
MCDistance(v, u) == [value |-> v, unit |-> u]
MCCovers ==
  {MCPlainCover,
   [MCPlainCover EXCEPT !.ends = 1, !.limit = MCDistance(5, "MILES")],
   [MCPlainCover EXCEPT !.ends = 3, !.limit = MCDistance(3, "MILES")],
   [MCPlainCover EXCEPT !.starts = 1, !.limit = MCDistance(3, "KILOMETERS"), !.start = MCDistance(1, "MILES")],
   [MCPlainCover EXCEPT !.ends = 1, !.limit = MCDistance(3, "KILOMETERS"), !.start = MCDistance(3, "MILES")]}

MCPapers == {p1, p2}
MCCars == {c1, c2}
MCOwned == {d1, d2}
MCSymmetry == Permutations(MCPapers) \cup Permutations(MCOwned)

MCFill ==
  [odo |-> 1, unit |-> "MILES", quantity |-> 1, full |-> TRUE, missed |-> FALSE, electric |-> FALSE]
MCFills ==
  {[MCFill EXCEPT !.odo = n, !.quantity = q] : n \in {1, 4}, q \in 1 .. 2}
  \cup {[MCFill EXCEPT !.odo = n, !.full = FALSE] : n \in 2 .. 3}
  \cup {[MCFill EXCEPT !.odo = n, !.electric = TRUE] : n \in {3, 6}}
  \cup {[MCFill EXCEPT !.odo = 5, !.missed = TRUE], [MCFill EXCEPT !.odo = 5, !.unit = "KILOMETERS"],
        [MCFill EXCEPT !.odo = 2, !.quantity = 0]}
MCTank == [metres |-> 100, quantity |-> 10, electric |-> FALSE]
MCTanks ==
  {MCTank, [MCTank EXCEPT !.metres = 300, !.quantity = 33], [MCTank EXCEPT !.electric = TRUE]}

MCCost == [amount |-> 1, currency |-> "GBP", day |-> 0, car |-> c1, category |-> "FUEL"]
MCCosts ==
  {MCCost, [MCCost EXCEPT !.day = 2, !.car = c2, !.amount = 2],
   [MCCost EXCEPT !.car = NoCar, !.category = "TAX", !.day = 1],
   [MCCost EXCEPT !.day = 2, !.currency = "EUR", !.category = "TAX"]}
MCClock == [car |-> c1, day |-> 0, metres |-> 2, fix |-> FALSE]
MCClocks ==
  {MCClock, [MCClock EXCEPT !.day = 1, !.metres = 5], [MCClock EXCEPT !.day = 2, !.metres = 9, !.fix = TRUE],
   [MCClock EXCEPT !.car = c2, !.day = 1, !.metres = 7], [MCClock EXCEPT !.car = c2, !.day = 2, !.metres = 8]}

figureVars == <<part, upkeepVars, paperVars, fuelVars, costVars>>

FigureInit ==
  /\ part \in {"rule", "cover", "tyres", "tread", "papers", "fuel", "trend", "costs"}
  /\ UpkeepInit /\ PaperInit /\ FuelInit /\ CostInit
  /\ (part # "rule" => rule = MCPlainRule) /\ (part # "cover" => cover = [MCPlainCover EXCEPT !.live = FALSE])

FigureNext ==
  /\ UNCHANGED part
  /\ \/ part = "rule" /\ RuleNext /\ UNCHANGED <<paperVars, fuelVars, costVars>>
     \/ part = "cover" /\ CoverNext /\ UNCHANGED <<paperVars, fuelVars, costVars>>
     \/ part = "tyres" /\ TyreNext /\ UNCHANGED <<paperVars, fuelVars, costVars>>
     \/ part = "tread" /\ TreadNext /\ UNCHANGED <<paperVars, fuelVars, costVars>>
     \/ part = "papers" /\ PaperNext /\ UNCHANGED <<upkeepVars, fuelVars, costVars>>
     \/ part = "fuel" /\ FillNext /\ UNCHANGED <<upkeepVars, paperVars, costVars>>
     \/ part = "trend" /\ TrendNext /\ UNCHANGED <<upkeepVars, paperVars, costVars>>
     \/ part = "costs" /\ CostNext /\ UNCHANGED <<upkeepVars, paperVars, fuelVars>>

FigureSpec == FigureInit /\ [][FigureNext]_figureVars
=============================================================================
