------------------------------ MODULE Histories ------------------------------
(* What is told of a vehicle's past: the timeline, the service list, the         *)
(* dashboard's recent activity, the exported tables and the document for a       *)
(* buyer, over rows that are corrected and removed and vehicles that are hidden. *)
(* Histories are shorter than the timeline's 100 events and the list's 200 rows. *)
EXTENDS Integers, Sequences, FiniteSets

CONSTANTS
  Autos,      \* vehicles
  Dates,      \* days things happen on
  Newest,     \* how many the dashboard shows: 8
  MaxRows     \* bound on the rows ever written

ASSUME HistoryConstants == Dates \subseteq Nat /\ Newest \in Nat \ {0} /\ MaxRows \in Nat

VARIABLES
  rows,     \* service_records, odometer_entries, vehicle_inspections and fuel_entries, in the order written
  hidden    \* vehicles with deleted_at

historyVars == <<rows, hidden>>

Tables == {"ODOMETER", "SERVICE", "INSPECTION", "FUEL"}
Kept == {n \in DOMAIN rows : rows[n].live}
In(table) == {n \in Kept : rows[n].table = table}
About(S, car) == {n \in S : rows[n].car = car}

-----------------------------------------------------------------------------
(* The readers.                                                                *)

\* A reading that a service recorded is told by the service, as long as that is shown.
\* The mutant asks only whether a service recorded it.
OwnReadingsEver(car) == {n \in About(In("ODOMETER"), car) : rows[n].from = 0}
OwnReadings(car) ==
  {n \in About(In("ODOMETER"), car) : rows[n].from \notin About(In("SERVICE"), car)}
Timeline(car) == IF car \in hidden THEN {} ELSE About(In("SERVICE"), car) \cup OwnReadings(car)

ServiceList == In("SERVICE")
InspectionList == In("INSPECTION")
FuelList(car) == About(In("FUEL"), car)

\* By the day it happened, then by the day it was entered.
Later(m, n) == rows[m].on > rows[n].on \/ (rows[m].on = rows[n].on /\ m > n)
TopOf(S) == {n \in S : Cardinality({m \in S : Later(m, n)}) < Newest}
\* The three lists are sorted together by day alone, in this order.
ListRank == [t \in Tables |-> CASE t = "ODOMETER" -> 1 [] t = "SERVICE" -> 2 [] OTHER -> 3]
Before(m, n) ==
  \/ rows[m].on > rows[n].on
  \/ rows[m].on = rows[n].on /\ ListRank[rows[m].table] < ListRank[rows[n].table]
  \/ rows[m].on = rows[n].on /\ rows[m].table = rows[n].table /\ m > n
RecentActivity ==
  LET all == TopOf(In("ODOMETER")) \cup TopOf(In("SERVICE")) \cup TopOf(In("INSPECTION"))
  IN {n \in all : Cardinality({m \in all : Before(m, n)}) < Newest}

\* The tables a member downloads. The one of the vehicles leaves hidden ones out.
ServiceExport == In("SERVICE")
FuelExport == In("FUEL")
OdometerExport == In("ODOMETER")
VehicleExport == Autos \ hidden

\* The document of one vehicle, refused for a hidden one. Fills are counted, not listed.
HistoryDocument(car) ==
  IF car \in hidden THEN {}
  ELSE About(In("SERVICE") \cup In("INSPECTION") \cup In("ODOMETER"), car)

-----------------------------------------------------------------------------
(* The writers.                                                                *)

HistoryInit == rows = << >> /\ hidden = {}

Entry(table, car, day, from) == [table |-> table, car |-> car, on |-> day, from |-> from, live |-> TRUE]
Room(n) == Len(rows) + n <= MaxRows

RecordService(car, day, measured) ==
  /\ car \notin hidden /\ Room(2)
  /\ LET service == Append(rows, Entry("SERVICE", car, day, 0)) IN
     rows' = IF measured THEN Append(service, Entry("ODOMETER", car, day, Len(service))) ELSE service
  /\ UNCHANGED hidden

\* The entry that the service wrote keeps the day it was written with.
MoveService(n, day) ==
  /\ n \in In("SERVICE") /\ rows[n].on # day
  /\ rows' = [rows EXCEPT ![n].on = day]
  /\ UNCHANGED hidden

\* A removal leaves the entry of the service, or of the fill, in the history.
RemoveRow(n) ==
  /\ n \in Kept /\ rows[n].table # "ODOMETER"
  /\ rows' = [rows EXCEPT ![n].live = FALSE]
  /\ UNCHANGED hidden

RecordFill(car, day) ==
  /\ car \notin hidden /\ Room(2)
  /\ rows' = rows \o <<Entry("FUEL", car, day, 0), Entry("ODOMETER", car, day, 0)>>
  /\ UNCHANGED hidden

RecordInspection(car, day) ==
  /\ car \notin hidden /\ Room(1)
  /\ rows' = Append(rows, Entry("INSPECTION", car, day, 0))
  /\ UNCHANGED hidden

EnterReading(car, day) ==
  /\ car \notin hidden /\ Room(1)
  /\ rows' = Append(rows, Entry("ODOMETER", car, day, 0))
  /\ UNCHANGED hidden

HideCar(car) == car \notin hidden /\ hidden' = hidden \cup {car} /\ UNCHANGED rows
RestoreCar(car) == car \in hidden /\ hidden' = hidden \ {car} /\ UNCHANGED rows

HistoryNext ==
  \/ \E car \in Autos, day \in Dates :
       \/ \E measured \in BOOLEAN : RecordService(car, day, measured)
       \/ RecordFill(car, day) \/ RecordInspection(car, day) \/ EnterReading(car, day)
  \/ \E n \in DOMAIN rows : RemoveRow(n) \/ \E day \in Dates : MoveService(n, day)
  \/ \E car \in Autos : HideCar(car) \/ RestoreCar(car)

HistorySpec == HistoryInit /\ [][HistoryNext]_historyVars

-----------------------------------------------------------------------------
(* What must hold.                                                             *)

\* How often the timeline tells of a row: itself, or through the service that wrote it.
Told(n) ==
  LET shown == Timeline(rows[n].car)
  IN Cardinality(shown \cap {n}) + Cardinality(shown \cap {rows[n].from})

\* Removing a service never takes the mileage it recorded with it, and a visit is not told
\* twice (timeline.service.ts:90-91); the document for a buyer tells no other services or
\* readings than the page does (vehicle-history.data.ts).
PastIsWhole ==
  \A car \in Autos \ hidden :
    /\ \A n \in About(In("SERVICE") \cup In("ODOMETER"), car) : Told(n) = 1
    /\ \A n \in HistoryDocument(car) \ In("INSPECTION") : Told(n) = 1
    /\ Timeline(car) \subseteq HistoryDocument(car)

\* What the dashboard leaves out is no newer than anything it shows, whatever was entered
\* late or moved (workspaces.service.ts:252-253).
ActivityIsNewest ==
  LET all == In("ODOMETER") \cup In("SERVICE") \cup In("INSPECTION") IN
  /\ \A n \in RecentActivity, m \in all \ RecentActivity : rows[m].on <= rows[n].on
  /\ Cardinality(RecentActivity) = Newest \/ RecentActivity = all

\* The two together: nothing that happened is lost, told twice, or told out of order.
PastIsTold == PastIsWhole /\ ActivityIsNewest

\* A hidden vehicle is hidden from every reader (DECISIONS.md D-082, export.handler.ts:
\* 214-215), on every screen and in every file.
HiddenIsGone ==
  LET read == ServiceList \cup InspectionList \cup RecentActivity \cup ServiceExport \cup FuelExport \cup OdometerExport
              \cup UNION {Timeline(c) \cup FuelList(c) \cup HistoryDocument(c) : c \in Autos}
  IN \A n \in read : rows[n].car \notin hidden
=============================================================================
