----------------------------- MODULE Obligations -----------------------------
(* Certificates, policies and tax records that lapse, and the three screens that *)
(* say so: the reminder sources, the dashboard's attention list and the fleet    *)
(* report's compliance column.                                                  *)
EXTENDS Integers, FiniteSets

CONSTANTS
  Papers,       \* identities of inspections, policies and tax records
  Cars,
  Starts,       \* the days on which papers start, or an inspection was performed
  Ends,         \* the days on which papers end
  LastToday,    \* bound on the days that pass
  HorizonDays,  \* HORIZON_DAYS of the sources, and the dashboard's 90 days
  DueSoonDays,  \* DUE_SOON_DAYS of the fleet report
  NoEnd,        \* a paper without an expiry date
  NoPaper

PaperKinds == {"INSPECTION", "INSURANCE", "TAX"}
PaperRows ==
  [car : Cars, kind : PaperKinds, starts : Nat, ends : Nat \cup {NoEnd}, entered : Nat, live : BOOLEAN]

ASSUME ObligationConstants ==
  /\ Starts \subseteq Nat /\ Ends \subseteq Nat /\ {LastToday, HorizonDays, DueSoonDays} \subseteq Nat
  /\ NoEnd \notin Nat /\ NoPaper \notin PaperRows /\ DueSoonDays <= HorizonDays

VARIABLES
  papers,   \* the three tables, one row per paper
  garage,   \* vehicles: "ACTIVE", another status, or deleted
  now       \* today

paperVars == <<papers, garage, now>>

Filed == {p \in Papers : papers[p] # NoPaper}
Kept == {p \in Filed : papers[p].live}
Of(S, kind) == {papers[p] : p \in {q \in S : papers[q].kind = kind}}

-----------------------------------------------------------------------------
(* The reminder sources.                                                       *)

Dated(rows) == {r \in rows : r.ends # NoEnd}

\* The row whose cover lasts longest, per vehicle. Two that end together are one item.
LatestPerVehicle(rows) ==
  {r \in Dated(rows) : \A s \in Dated(rows) : s.car = r.car => s.ends <= r.ends}

WithinHorizon(r) == r.ends - now <= HorizonDays
InUse(rows) == {r \in rows : garage[r.car] = "ACTIVE"}
Item(r) == [car |-> r.car, kind |-> r.kind, due |-> r.ends, overdue |-> r.ends < now]

Scan(kind) == {Item(r) : r \in {s \in LatestPerVehicle(InUse(Of(Kept, kind))) : WithinHorizon(s)}}
InspectionReminders == Scan("INSPECTION")
InsuranceReminders == Scan("INSURANCE")
RoadTaxReminders == Scan("TAX")
Reminders == InspectionReminders \cup InsuranceReminders \cup RoadTaxReminders

-----------------------------------------------------------------------------
(* The vehicle's page.                                                         *)

\* What the page says of a record.
ExpiryStatus(r) ==
  CASE r.ends = NoEnd -> "NONE"
    [] r.ends # NoEnd /\ r.ends < now -> "EXPIRED"
    [] r.ends # NoEnd /\ r.ends >= now /\ WithinHorizon(r) -> "EXPIRING_SOON"
    [] OTHER -> "VALID"

\* The list is ordered by the day it starts, then by when it was entered, and the
\* card of a kind shows its first row.
\* The mutant forgets the day it starts.
NewerByEntry(r, s) == r.entered > s.entered
Newer(r, s) == r.starts > s.starts \/ (r.starts = s.starts /\ r.entered > s.entered)
OnCard(c, k) ==
  {r \in Of(Kept, k) : r.car = c /\ \A s \in Of(Kept, k) : s.car = c => s = r \/ Newer(r, s)}

-----------------------------------------------------------------------------
(* The dashboard: the horizon first, and the latest of what it leaves.          *)

ExpiringWhere(rows) == {r \in InUse(Dated(rows)) : r.ends <= now + HorizonDays}
Attention == UNION {{Item(r) : r \in LatestPerVehicle(ExpiringWhere(Of(Kept, k)))} : k \in PaperKinds}

-----------------------------------------------------------------------------
(* The fleet report: removed papers count, vehicles of every status are listed. *)

Listed(rows) == {r \in rows : garage[r.car] # "DELETED"}
\* The mutant takes every paper of the vehicle, as if each were still owed.
EveryPaper(car) == {r \in UNION {Listed(Of(Filed, k)) : k \in PaperKinds} : r.car = car /\ r.ends # NoEnd}
ObligationsOf(car) ==
  {r \in UNION {LatestPerVehicle(Listed(Of(Filed, k))) : k \in PaperKinds} : r.car = car}

\* The obligation that lapses first decides.
ComplianceOf(car) ==
  LET owed == ObligationsOf(car)
      soonest == CHOOSE r \in owed : \A s \in owed : r.ends <= s.ends
  IN CASE owed = {} -> "UNKNOWN"
       [] owed # {} /\ soonest.ends < now -> "EXPIRED"
       [] owed # {} /\ soonest.ends >= now /\ soonest.ends - now <= DueSoonDays -> "DUE_SOON"
       [] OTHER -> "OK"

-----------------------------------------------------------------------------
(* What happens to the records.                                                *)

PaperInit ==
  /\ papers = [p \in Papers |-> NoPaper]
  /\ garage = [c \in Cars |-> "ACTIVE"]
  /\ now = 0

\* What the handlers of the three tables share: a row is written for a vehicle that is
\* not hidden, an expiry can be changed but not cleared (NoEnd: not sent), a start after
\* the expiry is refused where one request sends both, and a removal keeps the row.
InOrder(b, e) == b # NoEnd /\ e # NoEnd => b <= e
Sent(old, new) == IF new = NoEnd THEN old ELSE new

File(p, c, k, b, e) ==
  /\ papers[p] = NoPaper /\ garage[c] # "DELETED" /\ InOrder(b, e)
  /\ papers' = [papers EXCEPT ![p] =
       [car |-> c, kind |-> k, starts |-> b, ends |-> e, entered |-> Cardinality(Filed), live |-> TRUE]]
  /\ UNCHANGED <<garage, now>>
Amend(p, k, b, e) ==
  /\ p \in Kept /\ papers[p].kind = k /\ InOrder(b, e)
  /\ LET old == papers[p] IN
       papers' = [papers EXCEPT ![p] = [old EXCEPT !.starts = Sent(old.starts, b), !.ends = Sent(old.ends, e)]]
  /\ UNCHANGED <<garage, now>>
Discard(p, k) ==
  /\ p \in Kept /\ papers[p].kind = k
  /\ papers' = [papers EXCEPT ![p].live = FALSE]
  /\ UNCHANGED <<garage, now>>

CreateInspection(p, c, b, e) == File(p, c, "INSPECTION", b, e)
UpdateInspection(p, b, e) == Amend(p, "INSPECTION", b, e)
RemoveInspection(p) == Discard(p, "INSPECTION")

CreateInsurance(p, c, b, e) == File(p, c, "INSURANCE", b, e)
UpdateInsurance(p, b, e) == Amend(p, "INSURANCE", b, e)
RemoveInsurance(p) == Discard(p, "INSURANCE")

CreateRoadTax(p, c, b, e) == File(p, c, "TAX", b, e)
UpdateRoadTax(p, b, e) == Amend(p, "TAX", b, e)
RemoveRoadTax(p) == Discard(p, "TAX")

\* A sale, a removal, and the restoration after either.
SetVehicle(c, status) ==
  /\ garage[c] # status
  /\ garage' = [garage EXCEPT ![c] = status]
  /\ UNCHANGED <<papers, now>>

DayPasses == now < LastToday /\ now' = now + 1 /\ UNCHANGED <<papers, garage>>

PaperNext ==
  \/ \E p \in Papers, c \in Cars, b \in Starts, e \in Ends \cup {NoEnd} :
       CreateInspection(p, c, b, e) \/ CreateInsurance(p, c, b, e) \/ CreateRoadTax(p, c, b, e)
  \/ \E p \in Papers, b \in Starts \cup {NoEnd}, e \in Ends \cup {NoEnd} :
       UpdateInspection(p, b, e) \/ UpdateInsurance(p, b, e) \/ UpdateRoadTax(p, b, e)
  \/ \E p \in Papers : RemoveInspection(p) \/ RemoveInsurance(p) \/ RemoveRoadTax(p)
  \/ \E c \in Cars, s \in {"ACTIVE", "SOLD", "DELETED"} : SetVehicle(c, s)
  \/ DayPasses

PaperSpec == PaperInit /\ [][PaperNext]_paperVars

-----------------------------------------------------------------------------
(* What must hold.                                                             *)

Live(c, k) == {p \in Kept : papers[p].car = c /\ papers[p].kind = k /\ papers[p].ends # NoEnd}
Covered(c, k) == \E p \in Live(c, k) : papers[p].ends >= now

\* An owner is told that something has lapsed exactly when no paper of its kind still
\* covers the vehicle and one did (expiry.sources.ts: years of old certificates raise
\* nothing, and a renewal silences them).
LapsesAreTold ==
  \A c \in Cars, k \in PaperKinds :
    (\E i \in Reminders : i.car = c /\ i.kind = k /\ i.overdue)
    <=> garage[c] = "ACTIVE" /\ Live(c, k) # {} /\ ~Covered(c, k)

\* What is told of a vehicle, and of one kind of its papers.
ToldOf(c) == {i \in Reminders : i.car = c}
Told(c, k) == {i \in ToldOf(c) : i.kind = k}

\* A line of the page says what the reminders say.
LineAgrees(r) ==
  /\ ExpiryStatus(r) = "VALID" <=> Told(r.car, r.kind) = {}
  /\ ExpiryStatus(r) = "EXPIRED" <=> \E i \in Told(r.car, r.kind) : i.overdue

\* Every record of the kind carries an expiry, and those that end later start later, or
\* on the same day and were entered later.
Orderly(c, k) ==
  LET rows == {r \in Of(Kept, k) : r.car = c} IN
  /\ \A r \in rows : r.ends # NoEnd
  /\ \A r, s \in rows :
       r.ends < s.ends => r.starts < s.starts \/ (r.starts = s.starts /\ r.entered < s.entered)

\* The page and the reminder about a vehicle in use (ownership.service.ts:28-29). Of the
\* record whose cover lasts longest they say the same: silence is for what is valid, and
\* for nothing else. The card shows the newest record, and says that too as long as newer
\* ones end later; otherwise, if what it shows has an expiry, no less than that.
PageAgrees ==
  \A k \in PaperKinds :
    /\ \A r \in LatestPerVehicle(InUse(Of(Kept, k))) : LineAgrees(r)
    /\ \A r \in InUse(UNION {OnCard(c, k) : c \in Cars}) :
         /\ Orderly(r.car, k) => LineAgrees(r)
         /\ r.ends # NoEnd =>
              /\ ExpiryStatus(r) = "VALID" => Told(r.car, k) = {}
              /\ (\E i \in Told(r.car, k) : i.overdue) => ExpiryStatus(r) = "EXPIRED"

\* The fleet table and the reminders agree about a vehicle in use on what has lapsed, and
\* the table says due soon exactly when a reminder is about the nearest DueSoonDays, as
\* long as no paper was removed: the report reads removed papers as well.
FleetAgrees ==
  \A c \in Cars :
    garage[c] = "ACTIVE" /\ (\A p \in Filed : papers[p].car = c => papers[p].live) =>
      LET lapsed == \E i \in ToldOf(c) : i.overdue IN
      /\ ComplianceOf(c) = "EXPIRED" <=> lapsed
      /\ ComplianceOf(c) = "DUE_SOON" <=> ~lapsed /\ \E i \in ToldOf(c) : i.due - now <= DueSoonDays
      /\ ComplianceOf(c) = "UNKNOWN" => ToldOf(c) = {}

\* What is said on the page, in a reminder and in the fleet table about one vehicle in use.
ScreensAreTrue == LapsesAreTold /\ PageAgrees /\ FleetAgrees

\* What comments claim beyond that, and the code does not keep: that the card cannot
\* disagree with the reminder (OwnershipPanel.tsx:33-35, 109-112), although a newer record
\* may end sooner or carry no expiry; and that the fleet table has the reminders' lead time
\* (fleet.engine.ts:40-43), although that is HorizonDays.
CardAgrees ==
  \A c \in Cars, k \in PaperKinds : \A r \in InUse(OnCard(c, k)) :
    /\ ExpiryStatus(r) \in {"VALID", "NONE"} <=> Told(c, k) = {}
    /\ ExpiryStatus(r) = "EXPIRED" <=> \E i \in Told(c, k) : i.overdue
FleetTellsAsEarly ==
  \A c \in Cars : garage[c] = "ACTIVE" => (ComplianceOf(c) \in {"EXPIRED", "DUE_SOON"} <=> ToldOf(c) # {})

\* The dashboard applies the rule of the reminder sources, and the two agree
\* (workspaces.service.ts:149-153).
ScreensAgree == Attention = Reminders
=============================================================================
