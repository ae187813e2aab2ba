------------------------------- MODULE Upkeep -------------------------------
(* What the pure engines say of one vehicle while days pass and it is driven:   *)
(* a maintenance rule's status, a warranty's state, the mileage and the tread of *)
(* a tyre set, and the reminders that the warranty, tyre and stale-mileage       *)
(* sources raise.                                                               *)
EXTENDS Sequences, FiniteSetsExt, Sums

CONSTANTS
  Factor,           \* metres in one of each unit
  Readings,         \* the distances an odometer may show
  Rules,            \* maintenance rules as they may be set up
  Covers,           \* warranties as they may be recorded
  LastDay,          \* bound on the days that pass
  MaxPeriods,       \* bound on the times the tyre set is fitted
  ThresholdDays,    \* DEFAULT_THRESHOLD_DAYS
  ThresholdOf,      \* DEFAULT_THRESHOLD_MILES and DEFAULT_THRESHOLD_KM
  StaleDays,        \* ODOMETER_STALE_DAYS, and STALE_DAYS of the reminder source
  SoonDays,         \* EXPIRING_SOON_DAYS
  SoonMiles,        \* EXPIRING_SOON_DISTANCE_MILES
  RecentDays,       \* RECENT_DAYS of the warranty source
  RecentOverrun,    \* RECENT_OVERRUN of the warranty source
  Depths,           \* tread depths that may be measured, in millimetres
  LegalTread,       \* LEGAL_MINIMUM_TREAD_MM
  AdvisoryTread,    \* ADVISORY_TREAD_MM
  Unset             \* a column that is null

Units == {"MILES", "KILOMETERS"}
Grades == <<"OK", "DUE_SOON", "DUE", "OVERDUE">>

Distances == [value : Nat, unit : Units]
ReadingRows == [value : Nat, unit : Units, on : Nat]
Optional(S) == S \cup {Unset}
RuleRows ==
  [type : {"TIME_BASED", "DISTANCE_BASED", "COMBINED"}, days : Optional(Nat),
   distance : Optional(Nat), unit : Optional(Units), warnDays : Optional(Nat),
   warnDistance : Optional(Nat), on : Optional(Nat), odo : Optional(Distances)]
\* A warranty may have begun before the model does.
CoverRows ==
  [starts : Int, ends : Optional(Int), limit : Optional(Distances), start : Optional(Distances),
   live : BOOLEAN]

ASSUME UpkeepConstants ==
  /\ Factor \in [Units -> Nat \ {0}] /\ ThresholdOf \in [Units -> Nat]
  /\ Readings \subseteq Distances /\ Rules \subseteq RuleRows /\ Covers \subseteq CoverRows
  /\ Unset \notin Int \cup Units \cup Distances \cup ReadingRows
  /\ \A i \in DOMAIN Grades : Unset # Grades[i]
  /\ {LastDay, MaxPeriods, ThresholdDays, StaleDays, SoonDays, SoonMiles, RecentDays,
      RecentOverrun, LegalTread, AdvisoryTread} \cup Depths \subseteq Nat

VARIABLES
  today,      \* days since the model began
  reading,    \* the vehicle's current reading: [value, unit, on], or Unset
  rule,       \* one maintenance rule
  cover,      \* one warranty; live is FALSE before it is recorded and once it is removed
  periods     \* the fitted periods of one tyre set

upkeepVars == <<today, reading, rule, cover, periods>>

Given(x) == x # Unset
Metres(d) == d.value * Factor[d.unit]
\* Math.round of metres in a unit: halves go up.
InUnit(metres, u) == (2 * metres + Factor[u]) \div (2 * Factor[u])
Shown(d) == [value |-> d.value, unit |-> d.unit]

-----------------------------------------------------------------------------
(* The maintenance engine.                                                     *)

Rank(s) == IF Given(s) THEN CHOOSE i \in DOMAIN Grades : Grades[i] = s ELSE 0
\* The mutant lets a date that is fine hide a distance that is not.
WorstByDate(a, b) == IF Given(a) THEN a ELSE IF Given(b) THEN b ELSE "OK"
Worst(a, b) == IF ~Given(a) /\ ~Given(b) THEN "OK" ELSE IF Rank(a) >= Rank(b) THEN a ELSE b

UsesDate(r) == r.type \in {"TIME_BASED", "COMBINED"} /\ Given(r.days)
UsesDistance(r) == r.type \in {"DISTANCE_BASED", "COMBINED"} /\ Given(r.distance)

UnitOf(r) ==
  IF Given(r.unit) THEN r.unit ELSE IF Given(reading) THEN reading.unit
  ELSE IF Given(r.odo) THEN r.odo.unit ELSE "MILES"

StatusFromLeft(left, threshold) ==
  CASE left < 0 -> "OVERDUE" [] left = 0 -> "DUE"
    [] left > 0 /\ left <= threshold -> "DUE_SOON" [] OTHER -> "OK"

DaysLeft(r) == IF UsesDate(r) /\ Given(r.on) THEN r.on + r.days - today ELSE Unset

DueMetres(r) == Metres(r.odo) + r.distance * Factor[UnitOf(r)]
\* The mutant subtracts the numbers, whatever their units.
DistanceLeftRaw(r) ==
  IF UsesDistance(r) /\ Given(r.odo) /\ Given(reading)
  THEN r.odo.value + r.distance - reading.value ELSE Unset
DistanceLeft(r) ==
  IF UsesDistance(r) /\ Given(r.odo) /\ Given(reading)
  THEN InUnit(DueMetres(r) - Metres(reading), UnitOf(r)) ELSE Unset

ThresholdMetres(r) ==
  Factor[UnitOf(r)] * (IF Given(r.warnDistance) THEN r.warnDistance ELSE ThresholdOf[UnitOf(r)])

DateStatus(r) ==
  IF Given(DaysLeft(r))
  THEN StatusFromLeft(DaysLeft(r), IF Given(r.warnDays) THEN r.warnDays ELSE ThresholdDays)
  ELSE Unset
DistanceStatus(r) ==
  IF Given(DistanceLeft(r))
  THEN StatusFromLeft(DistanceLeft(r) * Factor[UnitOf(r)], ThresholdMetres(r)) ELSE Unset

Confidence(r) ==
  IF ~Given(DistanceLeft(r)) THEN "UNKNOWN"
  ELSE IF today - reading.on > StaleDays THEN "STALE" ELSE "FRESH"

\* Whichever dimension is worse decides.
EvaluateRule(r) == Worst(DateStatus(r), DistanceStatus(r))

ApplyCompletion(r, on, odo) == [r EXCEPT !.on = on, !.odo = IF Given(odo) THEN odo ELSE @]

\* OdometerStaleReminderSource: a distance is counted on and the reading is missing or old.
AsksForReading == Given(rule.distance) /\ (~Given(reading) \/ today - reading.on > StaleDays)

-----------------------------------------------------------------------------
(* The warranty engine and its reminder source.                                *)

Started(c) == c.starts <= today
CoverDays(c) == IF Given(c.ends) THEN c.ends - today ELSE Unset
Allowance(c) == Metres(c.limit) + (IF Given(c.start) THEN Metres(c.start) ELSE 0)
CoverDistance(c) ==
  IF Given(c.limit) /\ Given(reading)
  THEN InUnit(Allowance(c) - Metres(reading), c.limit.unit) ELSE Unset

Below(x, bound) == Given(x) /\ x < bound
DateSoon(c) == Below(CoverDays(c), SoonDays + 1)
DistanceSoon(c) ==
  /\ Given(CoverDistance(c))
  /\ CoverDistance(c) * Factor[c.limit.unit] <= SoonMiles * Factor["MILES"]

\* The mutant judges the two clocks one after the other, the date first.
CoverStateDateFirst(c) ==
  CASE ~Started(c) -> "NOT_STARTED"
    [] Started(c) /\ Below(CoverDays(c), 0) /\ ~DistanceSoon(c) -> "EXPIRED"
    [] OTHER -> IF DateSoon(c) \/ DistanceSoon(c) THEN "EXPIRING_SOON" ELSE "ACTIVE"
CoverState(c) ==
  CASE ~Started(c) -> "NOT_STARTED"
    [] Started(c) /\ ~Given(CoverDays(c)) /\ ~Given(CoverDistance(c)) -> "UNKNOWN"
    [] Started(c) /\ (Below(CoverDays(c), 0) \/ Below(CoverDistance(c), 0)) -> "EXPIRED"
    [] Started(c) /\ ~Below(CoverDays(c), 0) /\ ~Below(CoverDistance(c), 0)
       /\ (DateSoon(c) \/ DistanceSoon(c)) -> "EXPIRING_SOON"
    [] OTHER -> "ACTIVE"

\* An ended warranty is named by its mileage when that has run out.
RecentlyEnded(c) ==
  /\ CoverState(c) = "EXPIRED"
  /\ IF Below(CoverDistance(c), 0) THEN -CoverDistance(c) <= RecentOverrun
     ELSE CoverDays(c) >= -RecentDays

WarrantyIsNews(c) == c.live /\ (CoverState(c) = "EXPIRING_SOON" \/ RecentlyEnded(c))

-----------------------------------------------------------------------------
(* The tyre engine.                                                            *)

\* Where a period ends: its removal reading or, without one, the car's reading.
EndMetres(p) ==
  CASE Given(p.offAt) -> p.offAt * Factor[p.unit]
    [] ~Given(p.offAt) /\ Given(reading) -> Metres(reading)
    [] OTHER -> Unset
Run(p) ==
  IF ~Given(p.at) \/ ~Given(EndMetres(p)) THEN 0
  ELSE Max({0, EndMetres(p) - p.at * Factor[p.unit]})
\* The mutant forgets the periods that are over.
DistanceOfOpenPeriod(ps) == SumOf([i \in {n \in DOMAIN ps : ~ps[n].off} |-> Run(ps[i])])
DistanceOnSet(ps) == SumOf([i \in DOMAIN ps |-> Run(ps[i])])

CurrentInstallation == {i \in DOMAIN periods : ~periods[i].off}

\* The measurements of all the set's periods, and those of the latest day. Two of one day
\* are sorted by a comparison that never calls them equal: either may come first.
Treads == {i \in DOMAIN periods : Given(periods[i].tread)}
LatestMeasured == {i \in Treads : \A j \in Treads : periods[j].when <= periods[i].when}
TreadGrade(depth) ==
  CASE depth < LegalTread -> "ILLEGAL"
    [] depth >= LegalTread /\ depth < AdvisoryTread -> "REPLACE_SOON"
    [] depth >= AdvisoryTread /\ depth < AdvisoryTread + 1 -> "MONITOR"
    [] OTHER -> "GOOD"
TreadStates ==
  IF Treads = {} THEN {"UNKNOWN"} ELSE {TreadGrade(periods[i].tread) : i \in LatestMeasured}

\* The tyre source reads the fitted period alone.
Worn == {"ILLEGAL", "REPLACE_SOON"}
TyreAlerts == {TreadGrade(periods[i].tread) : i \in Treads \cap CurrentInstallation} \cap Worn

-----------------------------------------------------------------------------
(* What happens to the vehicle.                                                *)

UpkeepInit ==
  /\ today = 0 /\ reading = Unset /\ periods = << >>
  /\ rule \in Rules /\ cover \in {[c EXCEPT !.live = FALSE] : c \in Covers}

PassDay ==
  /\ today < LastDay /\ today' = today + 1
  /\ UNCHANGED <<reading, rule, cover, periods>>

TakeReading(d) == reading' = [value |-> d.value, unit |-> d.unit, on |-> today]

\* A reading is refused below the last one; a correction is not.
Drive(d) ==
  /\ (Given(reading) => Metres(d) >= Metres(reading))
  /\ TakeReading(d) /\ UNCHANGED <<today, rule, cover, periods>>
Correct(d) ==
  /\ Given(reading) /\ Metres(d) < Metres(reading)
  /\ TakeReading(d) /\ UNCHANGED <<today, rule, cover, periods>>

Complete(odo) ==
  /\ rule' = ApplyCompletion(rule, today, odo)
  /\ UNCHANGED <<today, reading, cover, periods>>

\* A warranty is recorded, changed without clearing a column, and removed.
CreateCover ==
  /\ ~cover.live /\ cover' = [cover EXCEPT !.live = TRUE]
  /\ UNCHANGED <<today, reading, rule, periods>>
UpdateCover(c) ==
  /\ cover.live /\ c.live /\ \A f \in DOMAIN c : Given(cover[f]) => Given(c[f])
  /\ cover' = c
  /\ UNCHANGED <<today, reading, rule, periods>>
RemoveCover ==
  /\ cover.live /\ cover' = [cover EXCEPT !.live = FALSE]
  /\ UNCHANGED <<today, reading, rule, periods>>

\* The number and the depth that go with a fitting or a removal are optional. The period has
\* the unit of its fitting: a removal's number is taken to be in it.
PutOn(d, u, depth) ==
  /\ CurrentInstallation = {} /\ Len(periods) < MaxPeriods
  /\ (Given(d) => d.unit = u)
  /\ periods' = Append(periods, [at |-> IF Given(d) THEN d.value ELSE Unset, unit |-> u,
                                  off |-> FALSE, offAt |-> Unset, tread |-> depth,
                                  when |-> IF Given(depth) THEN today ELSE Unset])
  /\ UNCHANGED <<today, reading, rule, cover>>
TakeOff(d, depth) ==
  /\ \E i \in CurrentInstallation :
       periods' = [periods EXCEPT ![i].off = TRUE,
                                  ![i].offAt = IF Given(d) THEN d.value ELSE Unset,
                                  ![i].tread = IF Given(depth) THEN depth ELSE @,
                                  ![i].when = IF Given(depth) THEN today ELSE @]
  /\ UNCHANGED <<today, reading, rule, cover>>
\* The day of a measurement is the owner's to say.
MeasureTread(depth, day) ==
  /\ \E i \in CurrentInstallation :
       periods' = [periods EXCEPT ![i].tread = depth, ![i].when = day]
  /\ UNCHANGED <<today, reading, rule, cover>>

CurrentOrNone == {Unset} \cup (IF Given(reading) THEN {Shown(reading)} ELSE {})
RuleNext == PassDay \/ (\E d \in Readings : Drive(d)) \/ (\E o \in CurrentOrNone : Complete(o))
CoverNext == PassDay \/ (\E d \in Readings : Drive(d)) \/ CreateCover \/ RemoveCover
             \/ \E c \in Covers : UpdateCover(c)
TyreNext == \/ \E d \in Readings : Drive(d) \/ Correct(d)
            \/ \E d \in CurrentOrNone : TakeOff(d, Unset) \/ \E u \in Units : PutOn(d, u, Unset)
TreadNext == \/ PassDay
             \/ \E t \in Depths \cup {Unset} : PutOn(Unset, "MILES", t) \/ TakeOff(Unset, t)
             \/ \E t \in Depths, day \in 0 .. today : MeasureTread(t, day)

UpkeepSpec == UpkeepInit /\ [][RuleNext \/ CoverNext \/ TyreNext \/ TreadNext]_upkeepVars

-----------------------------------------------------------------------------
(* What must hold.                                                             *)

\* A day passed or the car was driven; no reading was corrected.
Onward ==
  /\ today' # today \/ reading' # reading
  /\ Given(reading) => Metres(reading') >= Metres(reading)

\* Time and driving alone never make a rule look better: only a completion does
\* (evaluateRule, "whichever comes first"). A rule without a unit of its own takes that
\* of the latest reading, and is left out.
StatusOnlyWorsens ==
  [][Onward /\ Given(rule.unit)
     => Rank(EvaluateRule(rule))' >= Rank(EvaluateRule(rule))]_upkeepVars

\* A limit that is passed by a whole day or a whole unit is reported, whichever of the two
\* it is, and nothing is reported overdue that is within both (evaluateRule). A due mileage
\* that is a guess from an old reading makes the owner be asked for a new one: the engine's
\* STALE and the source's prompt are two copies of one limit.
PastDate == UsesDate(rule) /\ Given(rule.on) /\ today > rule.on + rule.days
Overrun ==
  IF UsesDistance(rule) /\ Given(rule.odo) /\ Given(reading)
  THEN Metres(reading) - DueMetres(rule) ELSE 0
LimitsAreSeen ==
  LET overdue == EvaluateRule(rule) = "OVERDUE" IN
  /\ PastDate \/ Overrun >= Factor[UnitOf(rule)] => overdue
  /\ overdue => PastDate \/ Overrun > 0
  /\ Confidence(rule) = "STALE" => AsksForReading

\* The reminder about tyres and the grade on their page agree while the fitted period holds
\* the set's latest measurement, and nothing in store is reminded of (tyre.source.ts:22-24):
\* the source looks at one period, the page at all of them.
WornTyresAreTold ==
  /\ CurrentInstallation = {} => TyreAlerts = {}
  /\ LatestMeasured \subseteq CurrentInstallation => TyreAlerts = TreadStates \cap Worn

\* Limits of both kinds: distances and days of a rule, millimetres of tread.
LimitsAreTold == LimitsAreSeen /\ WornTyresAreTold

\* A warranty that has ended stays ended while days pass and the car is driven, on
\* whichever clock it ended (warrantyStatus).
CoverEndsForGood ==
  [][Onward /\ CoverState(cover) = "EXPIRED" => CoverState(cover)' = "EXPIRED"]_upkeepVars

\* Past either window a warranty is history (warranty.source.ts:77-84).
OldWarrantyIsHistory == Below(CoverDays(cover), -RecentDays) => ~WarrantyIsNews(cover)

\* The distance a set has run never falls while its readings are in its own unit and the
\* odometer is not corrected (distanceOnSet: all its fitted periods count).
OwnUnit == Given(reading) => \A i \in DOMAIN periods : periods[i].unit = reading.unit
TyresOnlyAge ==
  [][(Onward \/ periods' # periods) /\ OwnUnit /\ OwnUnit'
     => DistanceOnSet(periods)' >= DistanceOnSet(periods)]_upkeepVars

\* Days and driving never improve what they wear: the three of them together.
WearOnlyGrows == StatusOnlyWorsens /\ CoverEndsForGood /\ TyresOnlyAge

\* Only the open period is measured against the car's current reading
\* (tyre.engine.ts:81-82): a set in store does not wear.
StoredSetsDoNotWear ==
  [][CurrentInstallation = {} /\ periods' = periods
     => DistanceOnSet(periods)' = DistanceOnSet(periods)]_upkeepVars
=============================================================================
