------------------------------ MODULE Dashboard ------------------------------
(* The dashboard and its query cache: what every page shows, what every dialog    *)
(* fetches, which saves it offers to whom and which cached answers a save has     *)
(* fetched again; and the life of one cached answer while its reader moves        *)
(* between pages and saves. The answers are independent of each other, so one is  *)
(* followed at a time. One vehicle, and one reader, who may see everything.       *)
EXTENDS Access

CONSTANT Watched   \* the queries that are followed, one in each behaviour

VARIABLES
  watched,   \* the query that is followed
  screen,    \* the page or, on a vehicle's page, the tab
  opened,    \* whether a dialog that fetches when it opens is open
  entry,     \* its cached answer: with or without the reader's last save, fresh, failed
  flight,    \* its fetch: asked for, or answered by the server and on its way back
  saving,    \* the save that is under way, and whether the server has made it
  owed       \* history: the reader has been told of a save that the answer must show

dashboardVars == <<watched, screen, opened, entry, flight, saving, owed>>

-----------------------------------------------------------------------------
(* The server: what each query reads, what each write changes.                 *)

\* A query calls one route, and its answer is made from these kinds of record.
Query(names, route, aspects) == [q \in names |-> [route |-> route, reads |-> aspects]]
Changes(names, aspects) == [n \in names |-> aspects]

WorkspaceQueries ==
  Query({"dashboard"}, "workspace.dashboard",
        {"garage", "hidden", "status", "mileage", "rules", "inspections", "insurance", "tax", "services", "expenses"}) @@
  Query({"members"}, "members.list", {"members"}) @@
  Query({"invitations"}, "invitations.list", {"invitations"})

VehicleQueries ==
  Query({"vehicles"}, "vehicles.list", {"garage", "hidden", "status", "mileage"}) @@
  Query({"vehicle"}, "vehicles.get", {"hidden", "status", "mileage"}) @@
  Query({"timeline"}, "vehicles.timeline", {"services", "mileage"}) @@
  Query({"odometer"}, "vehicles.odometer", {"mileage"}) @@
  Query({"odometer-current"}, "vehicles.current", {"mileage"})

\* A rule is judged against the vehicle's newest reading whenever it is listed.
UpkeepQueries ==
  Query({"service-categories"}, "services.categories", {}) @@
  Query({"services"}, "services.list", {"services"}) @@
  Query({"vehicle-services"}, "services.ofVehicle", {"services"}) @@
  Query({"service"}, "services.get", {"service"}) @@
  Query({"cost-summary"}, "services.costs", {"services"}) @@
  Query({"reminders"}, "reminders.list", {"reminders"}) @@
  Query({"notifications-unread"}, "notifications.unread", {"notifications"}) @@
  Query({"notifications"}, "notifications.list", {"notifications"}) @@
  Query({"maintenance-due"}, "maintenance.due", {"rules", "mileage", "hidden", "status"}) @@
  Query({"maintenance"}, "maintenance.list", {"rules", "mileage"})

PaperQueries ==
  Query({"inspections"}, "inspections.list", {"inspections", "advisories"}) @@
  Query({"insurance"}, "insurance.list", {"insurance"}) @@
  Query({"road-tax"}, "tax.list", {"tax"}) @@
  Query({"expense-categories"}, "expenses.categories", {}) @@
  Query({"expenses", "expenses-list"}, "expenses.list", {"expenses", "hidden"}) @@
  Query({"expense-summary"}, "expenses.summary", {"expenses", "hidden"})

\* Wear and mileage limits are judged against the newest reading, like rules.
FigureQueries ==
  Query({"report-costs"}, "reports.costs", {"expenses", "mileage", "hidden"}) @@
  Query({"report-fleet"}, "reports.fleet",
        {"expenses", "mileage", "garage", "hidden", "status", "inspections", "insurance", "tax"}) @@
  Query({"fuel"}, "fuel.list", {"fuel"}) @@
  Query({"fuel-economy"}, "fuel.economy", {"fuel"}) @@
  Query({"fuel-trend"}, "fuel.trend", {"fuel"}) @@
  Query({"tyre-sets"}, "tyres.list", {"tyres", "mileage"}) @@
  Query({"warranties"}, "warranties.list", {"warranties", "mileage"}) @@
  Query({"exports"}, "exports.list", {"exports"}) @@
  Query({"documents", "documents-all"}, "documents.list", {"documents"})

Views == WorkspaceQueries @@ VehicleQueries @@ UpkeepQueries @@ PaperQueries @@ FigureQueries @@
  Query({"session"}, "auth.session", {"account"}) @@
  Query({"invitation-preview"}, "invitations.preview", {"invited"})

ASSUME DashboardConstants == Watched \subseteq DOMAIN Views

PeopleChanges ==
  Changes({"members.updateRole", "members.remove"}, {"members"}) @@
  Changes({"members.transfer"}, {"members", "account"}) @@
  Changes({"invitations.accept"}, {"members", "account", "invited"}) @@
  Changes({"invitations.create", "invitations.revoke"}, {"invitations"}) @@
  Changes({"auth.verify"}, {"account"}) @@ Changes({"auth.resend"}, {})
\* garage is which vehicles there are, hidden whether this one is removed. A vehicle
\* that is sold, archived or removed takes its reminders with it.
VehicleChanges ==
  Changes({"vehicles.create"}, {"garage"}) @@ Changes({"vehicles.addOdometer"}, {"mileage"}) @@
  Changes({"vehicles.status"}, {"status", "reminders"}) @@ Changes({"vehicles.remove"}, {"garage", "hidden", "reminders"})
ServiceChanges ==
  Changes({"services.create"}, {"services", "mileage", "rules", "expenses"}) @@
  Changes({"services.remove"}, {"services", "service", "expenses"})
RuleChanges == Changes({"maintenance.template", "maintenance.complete", "maintenance.update"}, {"rules"})
ReminderChanges ==
  Changes({"reminders.snooze", "reminders.dismiss", "reminders.complete"}, {"reminders"}) @@
  Changes({"notifications.read", "notifications.readAll"}, {"notifications"})
PaperChanges ==
  Changes({"inspections.create"}, {"inspections", "reminders"}) @@ Changes({"advisories.update"}, {"advisories"}) @@
  Changes({"insurance.create"}, {"insurance", "reminders", "expenses"}) @@
  Changes({"tax.create"}, {"tax", "reminders", "expenses"}) @@
  Changes({"warranties.create"}, {"warranties"}) @@
  Changes({"tyres.create", "tyres.fit", "tyres.takeOff", "tyres.tread"}, {"tyres"})
SpendChanges ==
  Changes({"fuel.create"}, {"fuel", "mileage", "expenses"}) @@ Changes({"fuel.remove"}, {"fuel", "expenses"}) @@
  Changes({"expenses.create", "expenses.remove"}, {"expenses"})
FileChanges ==
  Changes({"documents.finalise", "documents.remove"}, {"documents"}) @@ Changes({"exports.create"}, {"exports"})
Effects == PeopleChanges @@ VehicleChanges @@ ServiceChanges @@ RuleChanges @@ ReminderChanges @@ PaperChanges @@ SpendChanges @@ FileChanges

Affects(n, q) == Effects[n] \cap Views[q].reads # {}

-----------------------------------------------------------------------------
(* What a component is made of, and who sees it.                               *)

Parts == {"shows", "opens", "saves"}
Empty == [f \in Parts |-> {}]
All(items) == [f \in Parts |-> UNION {i[f] : i \in items}]
Fetched(qs) == {[query |-> q, to |-> WorkspaceRoles] : q \in qs}
Shows(qs) == [Empty EXCEPT !["shows"] = Fetched(qs)]
Opens(qs) == [Empty EXCEPT !["opens"] = Fetched(qs)]
Offers(routes, keys, reloads) ==
  [Empty EXCEPT !["saves"] =
    {[route |-> n, refreshes |-> keys, reloads |-> reloads, to |-> WorkspaceRoles] : n \in routes}]
Saves(routes, keys) == Offers(routes, keys, FALSE)
Reloads(routes) == Offers(routes, {}, TRUE)
For(roles, item) == [f \in Parts |-> {[x EXCEPT !.to = @ \cap roles] : x \in item[f]}]
Gated(permission, item) == For({r \in WorkspaceRoles : permission \in Matrix[r]}, item)

-----------------------------------------------------------------------------
(* A vehicle's page: its header, and one panel per tab.                        *)

AddMileageDialog ==
  Saves({"vehicles.addOdometer"}, {"odometer", "odometer-current", "vehicle", "timeline", "vehicles", "dashboard"})
AddServiceDialog ==
  All({Shows({"service-categories"}),
       Saves({"services.create"},
             {"services", "vehicle-services", "maintenance", "maintenance-due", "timeline", "odometer",
              "odometer-current", "vehicle", "vehicles", "cost-summary", "expenses", "dashboard"})})
VehicleDetailPage == All({Shows({"vehicle", "odometer-current"}), AddMileageDialog, AddServiceDialog})

MaintenanceSummaryCard == Shows({"maintenance"})
CostCard == Shows({"cost-summary"})
VehicleLifecycle ==
  LET keys == {"vehicle", "vehicles", "dashboard", "reminders"} IN
  All({Gated("vehicle:update", Saves({"vehicles.status"}, keys)),
       Gated("vehicle:delete", Saves({"vehicles.remove"}, keys))})
OverviewTab == All({MaintenanceSummaryCard, CostCard, VehicleLifecycle})
TimelineTab == Shows({"timeline"})
MileageTab == Shows({"odometer"})

\* The keys of a vehicle's queries name the vehicle: known says whether the page does.
ServiceDetailDialog(known) ==
  All({Opens({"service"}),
       Saves({"services.remove"},
             {"services"} \cup IF known THEN {"vehicle-services", "timeline", "cost-summary"} ELSE {})})
ServiceHistoryPanel == All({Shows({"service-categories", "vehicle-services"}), ServiceDetailDialog(TRUE)})

RuleKeys == {"maintenance", "maintenance-due", "dashboard", "vehicles"}
CompleteDialog == Saves({"maintenance.complete"}, RuleKeys)
EditIntervalDialog == Saves({"maintenance.update"}, RuleKeys)
MaintenancePanel ==
  All({Shows({"maintenance"}), Saves({"maintenance.template"}, RuleKeys), CompleteDialog, EditIntervalDialog})

OwnershipMutation(route, key) == Saves({route}, {key, "reminders", "expenses", "dashboard"})
AddInspectionDialog == OwnershipMutation("inspections.create", "inspections")
AddInsuranceDialog == OwnershipMutation("insurance.create", "insurance")
AddRoadTaxDialog == OwnershipMutation("tax.create", "road-tax")
AdvisoriesCard == Saves({"advisories.update"}, {"inspections"})
AddWarrantyDialog == Saves({"warranties.create"}, {"warranties", "reminders"})
WarrantyPanel == All({Shows({"warranties"}), Gated("ownership:write", AddWarrantyDialog)})
TyreDialog == Saves({"tyres.create", "tyres.fit", "tyres.takeOff", "tyres.tread"}, {"tyre-sets", "reminders"})
TyrePanel == All({Shows({"tyre-sets"}), Gated("ownership:write", TyreDialog)})
OwnershipPanel ==
  All({Shows({"inspections", "insurance", "road-tax"}), WarrantyPanel, TyrePanel,
       Gated("ownership:write", All({AddInspectionDialog, AddInsuranceDialog, AddRoadTaxDialog, AdvisoriesCard}))})

ExpenseRow == Saves({"expenses.remove"}, {"expenses", "dashboard"})
AddExpenseDialog == All({Opens({"expense-categories"}), Saves({"expenses.create"}, {"expenses", "dashboard"})})
ExpensesPanel == All({Shows({"expenses"}), Gated("expense:write", All({ExpenseRow, AddExpenseDialog}))})

FillRow == Saves({"fuel.remove"}, {"fuel", "fuel-economy", "fuel-trend", "expenses"})
AddFillDialog ==
  Saves({"fuel.create"}, {"fuel", "fuel-economy", "fuel-trend", "odometer", "odometer-current", "vehicle",
                          "expenses", "dashboard"})
FuelPanelForAll == All({Shows({"fuel", "fuel-economy", "fuel-trend"}), FillRow, AddFillDialog})
FuelPanel ==
  All({Shows({"fuel", "fuel-economy", "fuel-trend"}), Gated("fuel:write", All({FillRow, AddFillDialog}))})

\* The rows of the vault and of the panel; only the panel's can remove.
DocumentRow == Saves({"documents.remove"}, {"documents"})
DocumentsPanel ==
  All({Shows({"documents"}), Gated("document:write", Saves({"documents.finalise"}, {"documents"})),
       Gated("document:delete", DocumentRow)})

VehicleTabs ==
  [overview |-> OverviewTab, timeline |-> TimelineTab, mileage |-> MileageTab,
   service |-> ServiceHistoryPanel, maintenance |-> MaintenancePanel, ownership |-> OwnershipPanel,
   expenses |-> ExpensesPanel, fuel |-> FuelPanel, documents |-> DocumentsPanel]

-----------------------------------------------------------------------------
(* The other pages, and what stands around every page.                         *)

NotificationCenter ==
  All({Shows({"notifications-unread"}), Opens({"notifications"}),
       Saves({"notifications.read", "notifications.readAll"}, {"notifications", "notifications-unread"})})
AppShell == All({Shows({"session"}), NotificationCenter})

VerifyBanner == Saves({"auth.resend"}, {})
OverviewPage == All({Shows({"dashboard", "vehicles"}), VerifyBanner})
VehiclesPage == Shows({"vehicles"})
NewVehiclePage == Saves({"vehicles.create"}, {"vehicles", "dashboard"})

PeopleKeys == {"members", "invitations"}
InviteDialog == Saves({"invitations.create"}, PeopleKeys)
MembersPage ==
  All({Shows({"members"}), For({"OWNER"}, Reloads({"members.transfer"})),
       Gated("member:invite", All({Shows({"invitations"}), InviteDialog, Saves({"invitations.revoke"}, PeopleKeys)})),
       Gated("member:update_role", Saves({"members.updateRole", "members.remove"}, PeopleKeys))})

ServicesPage == All({Shows({"vehicles", "service-categories", "services"}), ServiceDetailDialog(FALSE)})
MaintenancePage == Shows({"maintenance-due"})
RemindersPage ==
  All({Shows({"reminders"}),
       Saves({"reminders.snooze", "reminders.dismiss", "reminders.complete"},
             {"reminders", "notifications", "notifications-unread", "dashboard"})})
FuelPage == Shows({"vehicles", "fuel-economy", "fuel"})
ExpensesPage == Shows({"expense-summary", "expenses-list"})
DocumentsPage == Shows({"documents-all", "vehicles"})
\* A download that fails has the list fetched again; one that works has not.
ExportPanel ==
  All({Shows({"exports"}), Opens({"vehicles"}), Gated("export:create", Saves({"exports.create"}, {"exports"}))})
ReportsPage == All({Shows({"vehicles", "report-costs", "report-fleet"}), ExportPanel})
AcceptInvitationPage == All({Shows({"invitation-preview"}), Reloads({"invitations.accept"})})
VerifyEmailPage == Saves({"auth.verify"}, {"session"})

Elsewhere == "another workspace"
Home == "/"
Pages ==
  LET At(path, page) == [p \in {path} |-> page] IN
  Table({At(Home, OverviewPage), At("/vehicles", VehiclesPage), At("/vehicles/new", NewVehiclePage),
    At("/members", MembersPage), At("/invitations/accept", AcceptInvitationPage),
    At("/verify-email", VerifyEmailPage), At("/service", ServicesPage),
    At("/maintenance", MaintenancePage), At("/reminders", RemindersPage), At("/fuel", FuelPage),
    At("/expenses", ExpensesPage), At("/documents", DocumentsPage), At("/reports", ReportsPage)})

\* The links that are shown only to the holders of a permission.
SECTIONS ==
  [s \in {"/expenses", "/documents", "/reports", "/vehicles/new"} |->
     CASE s = "/expenses" -> "expense:read" [] s = "/documents" -> "document:read"
       [] s = "/reports" -> "report:read" [] s = "/vehicles/new" -> "vehicle:create"]

\* What is on each screen; a header stays where it is when only the tab changes.
Screens ==
  [s \in DOMAIN Pages \cup DOMAIN VehicleTabs \cup {Elsewhere} |->
     All(IF s \in DOMAIN VehicleTabs THEN {AppShell, VehicleDetailPage, VehicleTabs[s]}
         ELSE IF s = Elsewhere THEN {AppShell} ELSE {AppShell, Pages[s]})]
Names(items) == {x.query : x \in items}
ShownOn == [s \in DOMAIN Screens |-> Names(Screens[s]["shows"])]
OpenedOn == [s \in DOMAIN Screens |-> Names(Screens[s]["opens"])]
SavedOn == [s \in DOMAIN Screens |-> Screens[s]["saves"]]
AroundTabs == Names(AppShell["shows"]) \cup Names(VehicleDetailPage["shows"])

-----------------------------------------------------------------------------
(* The life of one cached answer.                                              *)

NoEntry == [holds |-> "none", fresh |-> FALSE, failed |-> FALSE]
NoSave == [save |-> [route |-> "none", refreshes |-> {}, reloads |-> FALSE, to |-> {}], made |-> FALSE]
Polled == {"notifications-unread", "exports"}

DashboardInit ==
  /\ watched \in Watched
  /\ screen = Home /\ opened = FALSE
  /\ entry = NoEntry
  /\ flight = IF watched \in ShownOn[Home] THEN "asked" ELSE "none"
  /\ saving = NoSave /\ owed = FALSE

\* The screens that neither show the query nor offer a save that matters to it are
\* alike: the reader visits one of them.
Matters(m, q) == Affects(m.route, q) \/ q \in m.refreshes \/ m.reloads
Concerned(q) ==
  {s \in DOMAIN Screens : q \in ShownOn[s] \cup OpenedOn[s] \/ \E m \in SavedOn[s] : Matters(m, q)}
Visited ==
  [q \in Watched |-> Concerned(q) \cup {Home} \cup
     {CHOOSE s \in DOMAIN Screens \ {Elsewhere} : Concerned(q) = DOMAIN Screens \/ s \notin Concerned(q)}]

Mounted == watched \in ShownOn[screen] \/ (opened /\ watched \in OpenedOn[screen])
Stale == entry.holds = "none" \/ ~entry.fresh
Asks == flight' = "asked"
\* A component that comes up fetches what is stale, or joins the fetch under way.
ComesUp == flight' = IF Stale /\ flight = "none" THEN "asked" ELSE flight

\* What the server reads for this query goes with its answer.
Answer ==
  /\ flight = "asked" /\ flight' = "current"
  /\ UNCHANGED <<watched, screen, opened, entry, saving, owed>>

Arrive ==
  /\ flight \in {"current", "outdated"} /\ flight' = "none"
  /\ entry' = [holds |-> flight, fresh |-> TRUE, failed |-> FALSE]
  /\ owed' = (owed /\ flight = "outdated")
  /\ UNCHANGED <<watched, screen, opened, saving>>

\* After its retries; what is cached stays on the page, marked stale.
FetchFails ==
  /\ flight # "none" /\ flight' = "none"
  /\ entry' = [entry EXCEPT !.fresh = FALSE, !.failed = TRUE]
  /\ UNCHANGED <<watched, screen, opened, saving, owed>>

Ages ==
  /\ entry.fresh /\ entry' = [entry EXCEPT !.fresh = FALSE]
  /\ UNCHANGED <<watched, screen, opened, flight, saving, owed>>

\* An answer that no component has used for a while is dropped.
Dropped ==
  /\ ~Mounted /\ flight = "none" /\ entry # NoEntry
  /\ entry' = NoEntry /\ owed' = FALSE
  /\ UNCHANGED <<watched, screen, opened, flight, saving>>

Poll ==
  /\ Mounted /\ watched \in Polled /\ flight = "none" /\ Asks
  /\ UNCHANGED <<watched, screen, opened, entry, saving, owed>>

\* The button beside the error, or the network coming back.
Retry ==
  /\ Mounted /\ entry.failed /\ flight = "none" /\ Asks
  /\ UNCHANGED <<watched, screen, opened, entry, saving, owed>>

\* The fetch of a page that is left goes on: nothing takes its abort signal.
Navigate(s) ==
  /\ screen # Elsewhere /\ s \in DOMAIN Screens \ {screen, Elsewhere}
  /\ screen' = s
  /\ opened' = (opened /\ watched \in Names(AppShell["opens"]))
  /\ LET stays == \/ watched \in Names(AppShell["shows"])
                  \/ watched \in AroundTabs /\ {screen, s} \subseteq DOMAIN VehicleTabs IN
     IF watched \in ShownOn[s] /\ ~stays THEN ComesUp ELSE UNCHANGED flight
  /\ UNCHANGED <<watched, entry, saving, owed>>

OpenDialog ==
  /\ ~opened /\ watched \in OpenedOn[screen] /\ opened' = TRUE
  /\ ComesUp
  /\ UNCHANGED <<watched, screen, entry, saving, owed>>

CloseDialog ==
  /\ opened /\ opened' = FALSE
  /\ UNCHANGED <<watched, screen, entry, flight, saving, owed>>

-----------------------------------------------------------------------------
(* Saves, and what they have fetched again.                                    *)


StartSave(m) ==
  /\ saving = NoSave /\ m \in SavedOn[screen] /\ Matters(m, watched)
  /\ saving' = [save |-> m, made |-> FALSE]
  /\ UNCHANGED <<watched, screen, opened, entry, flight, owed>>

\* Every answer made before it is now without it.
CommitSave ==
  /\ saving # NoSave /\ ~saving.made
  /\ saving' = [saving EXCEPT !.made = TRUE]
  /\ IF Affects(saving.save.route, watched)
     THEN /\ entry' = [entry EXCEPT !.holds = IF @ = "current" THEN "outdated" ELSE @]
          /\ flight' = IF flight = "current" THEN "outdated" ELSE flight
          /\ owed' = FALSE
     ELSE UNCHANGED <<entry, flight, owed>>
  /\ UNCHANGED <<watched, screen, opened>>

\* Refused, or its answer lost: the reader is told that it did not work.
SaveFails ==
  /\ saving # NoSave /\ saving' = NoSave
  /\ UNCHANGED <<watched, screen, opened, entry, flight, owed>>

MarkedOnly == entry' = [entry EXCEPT !.fresh = FALSE] /\ UNCHANGED flight
\* invalidateQueries: the answer is stale; if it is on the page it is fetched again,
\* in place of a fetch under way unless that is the very first one.
Invalidated ==
  /\ entry' = [entry EXCEPT !.fresh = FALSE]
  /\ IF Mounted /\ ~(entry.holds = "none" /\ flight # "none") THEN Asks ELSE UNCHANGED flight

\* What the pages leave as it was although the save changed it.
Judged == {"maintenance", "maintenance-due", "tyre-sets", "warranties"}
CostLists == {"expenses-list", "expense-summary", "report-costs", "report-fleet"}
LeftStale ==
  ({"vehicles.addOdometer"} \X (Judged \cup {"report-costs", "report-fleet"})) \cup
  ({"services.create"} \X (CostLists \cup {"tyre-sets", "warranties"})) \cup
  ({"fuel.create"} \X (Judged \cup CostLists \cup {"timeline", "vehicles"})) \cup
  ({"fuel.remove"} \X (CostLists \cup {"dashboard"})) \cup
  ({"expenses.create", "expenses.remove", "insurance.create", "tax.create"} \X CostLists) \cup
  ({"services.remove"} \X (CostLists \cup {"service", "expenses", "dashboard",
                                       "vehicle-services", "timeline", "cost-summary"})) \cup
  ({"vehicles.remove"} \X (CostLists \cup {"expenses", "maintenance-due"})) \cup
  ({"vehicles.status"} \X {"maintenance-due", "report-fleet"}) \cup
  ({"vehicles.create", "inspections.create"} \X {"report-fleet"}) \cup
  ({"documents.finalise", "documents.remove"} \X {"documents-all"})

\* An answer made before the save and still on its way is not fetched again when it
\* is the first for its page, or the page has been left: it comes in as fresh.
ComesLate == flight = "outdated" /\ (entry.holds = "none" \/ ~Mounted)

SaveSucceeds ==
  /\ saving.made /\ ~saving.save.reloads
  /\ saving' = NoSave
  /\ IF watched \in saving.save.refreshes THEN Invalidated ELSE UNCHANGED <<entry, flight>>
  /\ owed' = IF Affects(saving.save.route, watched)
             THEN /\ watched \in saving.save.refreshes \/ <<saving.save.route, watched>> \notin LeftStale
                  /\ ~ComesLate
             ELSE owed
  /\ UNCHANGED <<watched, screen, opened>>

\* The page is loaded again: after a save that changes who the reader is, or because
\* the reader does it, or signs out and in.
Reload ==
  /\ saving # NoSave => saving.made /\ saving.save.reloads
  /\ entry' = NoEntry /\ owed' = FALSE /\ opened' = FALSE /\ saving' = NoSave
  /\ flight' = IF watched \in ShownOn[screen] THEN "asked" ELSE "none"
  /\ UNCHANGED <<watched, screen>>

\* setWorkspace has everything that is on the page fetched again, then goes home;
\* here it is not used while a save is under way.
SetWorkspace ==
  /\ saving = NoSave
  /\ screen' = IF screen = Elsewhere THEN Home ELSE Elsewhere
  /\ opened' = FALSE
  /\ entry' = [entry EXCEPT !.fresh = FALSE]
  /\ IF \/ Mounted /\ ~(entry.holds = "none" /\ flight # "none")
        \/ watched \in ShownOn[screen'] /\ flight = "none"
     THEN Asks ELSE UNCHANGED flight
  /\ UNCHANGED <<watched, saving, owed>>

DashboardNext ==
  \/ Answer \/ Arrive \/ FetchFails \/ Ages \/ Dropped \/ Poll \/ Retry
  \/ OpenDialog \/ CloseDialog \/ SetWorkspace \/ Reload
  \/ \E s \in Visited[watched] : Navigate(s)
  \/ \E m \in SavedOn[screen] : StartSave(m)
  \/ CommitSave \/ SaveFails \/ SaveSucceeds

DashboardSpec == DashboardInit /\ [][DashboardNext]_dashboardVars

-----------------------------------------------------------------------------
(* Properties.                                                                 *)

\* A reader who has been told of a save never looks at an answer without it, and
\* never finds one that passes for fresh, once no fetch is under way: what the save
\* changed is fetched again, wherever it is shown.
SaveIsSeen ==
  saving = NoSave /\ owed /\ entry.holds = "outdated" /\ flight = "none" /\ ~entry.failed =>
    ~Mounted /\ ~entry.fresh

\* The list of what is left stale is exact: it names no answer that the save leaves
\* alone, or that every component offering the save has fetched again.
OfferedSaves == UNION {SavedOn[s] : s \in DOMAIN Screens}
ListIsExact ==
  LeftStale = UNION {{<<m.route, q>> : q \in {x \in DOMAIN Views : Affects(m.route, x) /\ x \notin m.refreshes}} :
                     m \in {x \in OfferedSaves : ~x.reloads}}

\* Whoever follows the links they are given is shown a button only if the server
\* accepts the request behind it, but for these nine, which no page hides from anybody.
MayCall(role, n) == n \in DOMAIN Routes => Allowed(Matrix, role, Routes[n].needs)
LinksOf(role) == {s \in DOMAIN Screens : s \in DOMAIN SECTIONS => SECTIONS[s] \in Matrix[role]}
Ungated ==
  {"vehicles.addOdometer", "services.create", "services.remove", "maintenance.template", "maintenance.complete",
   "maintenance.update", "reminders.snooze", "reminders.dismiss", "reminders.complete"}
Misleading(role) ==
  {m.route : m \in {x \in UNION {SavedOn[s] : s \in LinksOf(role)} : role \in x.to /\ ~MayCall(role, x.route)}}
ShownIsAllowed == UNION {Misleading(role) : role \in WorkspaceRoles} = Ungated

\* On those pages they ask for nothing that the server refuses them, but for a driver
\* on the expenses tab of a vehicle.
Refused(role) ==
  UNION {{s} \X {x.query : x \in {y \in Screens[s]["shows"] \cup Screens[s]["opens"] :
                                 role \in y.to /\ ~MayCall(role, Views[y.query].route)}} : s \in LinksOf(role)}
AskedIsAllowed ==
  \A role \in WorkspaceRoles :
    Refused(role) = IF role = "DRIVER" THEN {<<"expenses", "expenses">>} ELSE {}

AffordancesSafe == ListIsExact /\ ShownIsAllowed /\ AskedIsAllowed

\* The two together: what a page shows is what there is, what it offers is what there
\* is leave for, but for the answers and the buttons that are named.
ScreensAreHonest == SaveIsSeen /\ AffordancesSafe
=============================================================================
